-------------------------- MODULE MCWriteSessions --------------------------
(***************************************************************************)
(* Instances of WriteSessions for TLC.  Each user writes words of his own, *)
(* so that a word in the main file tells whose commit it came from.        *)
(***************************************************************************)
EXTENDS WriteSessions

CONSTANTS alice, bob

Words == {"a", "b", "c", "x", "y", End, Space, Newline}

TwoSentences == {<<"a", " ", "b", ".", " ", "c", ".">>}

\* One plain word each, in front of the first or the second word of a sentence.
PlainEdits == {alice} \X {1, 2} \X {<<"x">>} \cup {bob} \X {1, 2} \X {<<"y">>}

OneSentence == {<<"a", ".">>}
NoEdits == {}

\* Alice writes a word, a sentence and more, or several sentences and more; Bob
\* writes a word.  (A word behind the delimiter of its sentence is lost, see
\* sessions_spill.cfg.)
TextEdits == {alice} \X {1, 2} \X {<<"x">>}
                 \cup {<<alice, 1, <<"x", ".", ".", "y">>>>,
                       <<alice, 2, <<"x", ".", " ", "y">>>>, <<bob, 1, <<"y">>>>}

\* Where the file was disturbed, what is said of undisturbed files says nothing more.
Undisturbed == ~disturbed

\* How many sessions each user may begin.
OneEach   == [u \in {alice, bob} |-> 1]
TwoEach   == [u \in {alice, bob} |-> 2]
TwoAndOne == [u \in {alice, bob} |-> IF u = alice THEN 2 ELSE 1]

\* One WRITE each.
OneEdit == {<<alice, 1, <<"x">>>>, <<bob, 1, <<"y">>>>}

\* Alice is alone.
HerEdit == {<<alice, 1, <<"x">>>>}

\* Bob puts a sentence in front of the one he holds.
NewSentence == {<<alice, 1, <<"x">>>>, <<bob, 1, <<"y", ".">>>>}

\* Files with and without a sentence, an end, a blank or a newline, and what splits
\* a sentence in every way, at every word.
Starts == { <<>>, <<"a">>, <<"a", ".">>, <<"a", ".", "b", ".">>,
            <<"a", ".", " ", "b", "c">>, <<"a", "\n", "b", ".", " ">> }
Contents == { <<"x">>, <<".">>, <<"x", ".">>, <<"x", ".", "y">>, <<"x", " ", "y">>,
              <<".", " ", "x", "\n">>, <<"x", ".", ".", "y">> }
EveryEdit == {alice} \X (1 .. 5) \X Contents

\* A word behind the delimiter that ends a sentence.
BehindDelimiter == {<<alice, 4, <<"x">>>>}

\* A word in an empty place, then one in front of it.
TwoWords == {<<alice, 1, <<"x">>>>, <<alice, 1, <<"y">>>>}
=============================================================================
