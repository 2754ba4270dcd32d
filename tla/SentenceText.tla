---------------------------- MODULE SentenceText ----------------------------
(***************************************************************************)
(* The text of a file as src/file_ops.c handles it.  A file is a sequence  *)
(* of tokens: words, sentence ends, spaces and newlines (the width of a    *)
(* run of blanks and the letters of a word are abstracted).  In memory it  *)
(* is a sequence of sentences (FileContent), each a sequence of tokens.    *)
(* Sentences are numbered from 0 and words from 1, as in the commands.     *)
(***************************************************************************)
EXTENDS Integers, SequencesExt

CONSTANT Token           \* every token a file may hold

End     == "."           \* '.', '!' or '?': is_delimiter
Space   == " "           \* a run of blanks: is_space_token
Newline == "\n"          \* is_newline_token

ASSUME TokenAssumption == {End, Space, Newline} \subseteq Token

Text == Seq(Token)

Blank(t)   == t \in {Space, Newline}                   \* should_skip_for_indexing
Regular(t) == t # End /\ ~Blank(t)
WordsIn(s) == {t \in ToSet(s) : Regular(t)}

\* What word indices count.
Real(s) == FlattenSeq([k \in DOMAIN s |-> IF Blank(s[k]) THEN <<>> ELSE <<s[k]>>])

\* parse_file, what a token does to the sentences read so far: a sentence ends
\* after a delimiter, and a run of blanks is one token.  (No sentence is empty.)
Feed[t \in Token] == [ss \in Seq(Text) |->
    IF ss = <<>> \/ Last(Last(ss)) = End   THEN Append(ss, <<t>>)
    ELSE IF {t, Last(Last(ss))} = {Space}  THEN ss
    ELSE [ss EXCEPT ![Len(ss)] = Append(@, t)]]

\* parse_file, from the first token to the last.  An empty file has no sentence.
Parse(file) ==
    LET read[k \in 0 .. Len(file)] == IF k = 0 THEN <<>> ELSE Feed[file[k]][read[k-1]]
    IN  read[Len(file)]

\* write_file_content: a space goes between two regular words of a sentence, and
\* between two sentences unless one of them brings a blank of its own.
Gap(t, u) == IF Regular(t) /\ Regular(u) THEN <<t, Space>> ELSE <<t>>

Spaced(s) == FlattenSeq([k \in DOMAIN s |->
                IF k < Len(s) THEN Gap(s[k], s[k+1]) ELSE <<s[k]>>])

\* Mutant of Separator: every sentence starts a new line.
SeparatorLine(s, next) == <<Newline>>

Separator(s, next) ==
    IF s # <<>> /\ ~Blank(Last(s)) /\ (next = <<>> \/ ~Blank(Head(next)))
      THEN <<Space>> ELSE <<>>

WriteBack(sentences) ==
    FlattenSeq([k \in DOMAIN sentences |->
        Spaced(sentences[k]) \o
        (IF k < Len(sentences) THEN Separator(sentences[k], sentences[k+1]) ELSE <<>>)])

\* The place of the n-th real token of s.
Place(s, n) == CHOOSE k \in DOMAIN s : ~Blank(s[k]) /\ Len(Real(SubSeq(s, 1, k))) = n

\* Mutant of Position: after the word instead of before it.
PositionAfter(s, w) == IF w = Len(Real(s)) + 1 THEN Len(s) ELSE Place(s, w)

\* The number of tokens before the place that word index w of sentence s names.
Position(s, w) ==
    IF w = 1 THEN 0
    ELSE IF w = Len(Real(s)) + 1 THEN Len(s) ELSE Place(s, w - 1)

\* Sentence i; the one after the last is made when it is asked for.
SentenceAt(sentences, i) == IF i = Len(sentences) THEN <<>> ELSE sentences[i+1]

\* insert_word_in_sentence accepts sentence i and word index w.
ValidPlace(sentences, i, w) ==
    /\ i \in 0 .. Len(sentences)
    /\ w \in 1 .. Len(Real(SentenceAt(sentences, i))) + 1

Ends(content) == {k \in DOMAIN content : content[k] = End}

\* The content between what is before and after it in the sentence, which is split
\* after the last delimiter of the content when something of the content follows it.
Around(pre, content, post) ==
    LET cut == IF Ends(content) = {} THEN 0
               ELSE CHOOSE k \in Ends(content) : \A m \in Ends(content) : m <= k
    IN  IF 0 < cut /\ cut < Len(content)
          THEN << pre \o SubSeq(content, 1, cut),
                  SubSeq(content, cut + 1, Len(content)) \o post >>
          ELSE << pre \o content \o post >>

\* insert_word_in_sentence: the tokens of the content go to the place.  One slot is
\* added per delimiter in any case, so that the slots beyond the split are empty
\* sentences.
InsertWords(sentences, i, w, content) ==
    LET s     == SentenceAt(sentences, i)
        p     == Position(s, w)
        new   == Around(SubSeq(s, 1, p), content, SubSeq(s, p + 1, Len(s)))
        spare == [k \in 1 .. Cardinality(Ends(content)) |-> <<>>]
        all   == SubSeq(sentences, 1, i) \o new \o spare
                   \o SubSeq(sentences, i + 2, Len(sentences))
    IN  IF sentences = << <<>> >> /\ i = 1
          THEN Front(all)     \* the new slot is not counted
          ELSE all

\* MSG_LOCK_SENTENCE: an existing sentence, or the one after the last if the last
\* is closed by a delimiter or a newline.
ValidIndex(file, i) ==
    LET s == Parse(file)
    IN  \/ i = 0 /\ s = <<>>
        \/ i \in 0 .. Len(s) - 1
        \/ i = Len(s) /\ s # <<>> /\ Last(Last(s)) \in {End, Newline}

-----------------------------------------------------------------------------
(***************************************************************************)
(* process_commit_queue: how one entry is merged into the main file.  The  *)
(* user locked sentence i when the file had "orig" sentences and edited a  *)
(* copy, temp.                                                             *)
(***************************************************************************)
AdjustedIndexFromOne(main, i, orig) == i + 1 + (Len(Parse(main)) - orig)   \* mutant

AdjustedIndex(main, i, orig) == i + (Len(Parse(main)) - orig)

\* The entry is applied only to an index the current file has.
Mergeable(main, i, orig) ==
    LET n == Len(Parse(main))
    IN  \/ n = 0 /\ orig = 0 /\ i = 0
        \/ AdjustedIndex(main, i, orig) \in 0 .. n - 1

Least(m, n) == IF m <= n THEN m ELSE n

\* Mutants of Merge: the copy replaces the file; sentences added by a split are not
\* taken over; the sentence that follows is replaced too.
MergeCopy(main, temp, i, orig) == temp

MergeOne(main, temp, i, orig) ==
    LET m  == Parse(main)
        at == AdjustedIndex(main, i, orig)
    IN  WriteBack(SubSeq(m, 1, at) \o <<Parse(temp)[i+1]>> \o SubSeq(m, at + 2, Len(m)))

MergeOver(main, temp, i, orig) ==
    LET m  == Parse(main)
        at == AdjustedIndex(main, i, orig)
    IN  WriteBack(SubSeq(m, 1, at) \o SubSeq(Parse(temp), i + 1, Len(Parse(temp)) - 1)
                    \o SubSeq(m, at + 3, Len(m)))

Merge(main, temp, i, orig) ==
    LET m   == Parse(main)
        t   == Parse(temp)
        at  == AdjustedIndex(main, i, orig)
        new == SubSeq(t, i + 1, Least(i + 1 + (Len(t) - orig), Len(t)))
    IN  WriteBack(IF m = <<>> THEN t
                  ELSE SubSeq(m, 1, at) \o new \o SubSeq(m, at + 2, Len(m)))
=============================================================================
