------------------------- MODULE SentenceTextProofs -------------------------
(***************************************************************************)
(* Facts about the text operators, for any set of tokens and texts of any  *)
(* length.  Recursive definitions go from the first token (or sentence) to *)
(* the last, so the facts are proved by induction on how far they got.     *)
(***************************************************************************)
EXTENDS SentenceText, SequenceTheorems, FiniteSetTheorems, WellFoundedInduction, TLAPS

-----------------------------------------------------------------------------
\* Induction over the natural numbers, for a set instead of a formula.
LEMMA NatLess == IsWellFoundedOn({p \in Nat \X Nat : p[1] < p[2]}, Nat)
BY NatLessThanWellFounded DEF OpToRel

LEMMA Induction ==
    ASSUME NEW S, 0 \in S, \A n \in Nat : n \in S => n + 1 \in S
    PROVE  Nat \subseteq S
<1> DEFINE T == Nat \ S
           R == {p \in Nat \X Nat : p[1] < p[2]}
<1>1. SUFFICES ASSUME T # {} PROVE FALSE
  OBVIOUS
<1>2. PICK x \in T : \A y \in T : ~(<<y, x>> \in R)
  <2>1. IsWellFoundedOn(R, Nat)
    BY NatLess
  <2>2. T \subseteq Nat
    OBVIOUS
  <2> HIDE DEF R, T
  <2> QED BY <1>1, <2>1, <2>2, WFMin
<1>3. x - 1 \in Nat /\ x - 1 < x
  BY <1>2
<1>4. x - 1 \in S
  BY <1>2, <1>3
<1> QED BY <1>2, <1>3, <1>4

-----------------------------------------------------------------------------
\* What FlattenSeq computes.
Flat(ss, n) == CHOOSE f : f = [i \in 1 .. n |-> IF i = 1 THEN ss[i] ELSE f[i-1] \o ss[i]]

LEMMA FlatExists ==
    ASSUME NEW ss, NEW n \in Nat
    PROVE  Flat(ss, n) = [i \in 1 .. n |-> IF i = 1 THEN ss[i] ELSE Flat(ss, n)[i-1] \o ss[i]]
<1> DEFINE Is(f, m) == f = [i \in 1 .. m |-> IF i = 1 THEN ss[i] ELSE f[i-1] \o ss[i]]
           S == {m \in Nat : \E f : Is(f, m)}
<1>1. 0 \in S
  <2>1. Is([i \in 1 .. 0 |-> <<>>], 0)
    OBVIOUS
  <2> QED BY <2>1
<1>2. ASSUME NEW m \in Nat, m \in S PROVE m + 1 \in S
  <2>1. PICK f : Is(f, m)
    BY <1>2
  <2> DEFINE g == [i \in 1 .. m + 1 |->
                     IF i <= m THEN f[i] ELSE IF i = 1 THEN ss[i] ELSE f[m] \o ss[i]]
  <2>2. ASSUME NEW i \in 1 .. m + 1
        PROVE  g[i] = IF i = 1 THEN ss[i] ELSE g[i-1] \o ss[i]
    <3>1. CASE i <= m
      <4>1. f[i] = IF i = 1 THEN ss[i] ELSE f[i-1] \o ss[i]
        <5>1. \A F : F = f => F[i] = [j \in 1 .. m |-> IF j = 1 THEN ss[j] ELSE F[j-1] \o ss[j]][i]
          BY <2>1, Zenon
        <5>2. i \in 1 .. m
          BY <3>1
        <5> QED BY <5>1, <5>2, Zenon
      <4>2. i # 1 => g[i-1] = f[i-1]
        BY <3>1
      <4> QED BY <3>1, <4>1, <4>2
    <3>2. CASE i = m + 1
      <4>1. i # 1 => g[i-1] = f[m]
        BY <3>2
      <4> QED BY <3>2, <4>1
    <3> QED BY <3>1, <3>2
  <2>3. Is(g, m + 1)
    BY <2>2
  <2>4. \E h : Is(h, m + 1)
    <3> HIDE DEF g
    <3> QED BY <2>3, Zenon
  <2> QED
    <3> HIDE DEF Is
    <3> QED BY <2>4
<1>3. n \in S
  <2> HIDE DEF S
  <2> QED BY <1>1, <1>2, Induction
<1> QED BY <1>3 DEF Flat

LEMMA FlattenIsFlat ==
    ASSUME NEW S, NEW ss \in Seq(S), ss # <<>>
    PROVE  FlattenSeq(ss) = Flat(ss, Len(ss))[Len(ss)]
BY DEF FlattenSeq, Flat

LEMMA FlatValues ==
    ASSUME NEW ss, NEW n \in Nat, NEW i \in 1 .. n
    PROVE  Flat(ss, n)[i] = IF i = 1 THEN ss[i] ELSE Flat(ss, n)[i-1] \o ss[i]
<1> DEFINE f == Flat(ss, n)
<1>1. f = [j \in 1 .. n |-> IF j = 1 THEN ss[j] ELSE f[j-1] \o ss[j]]
  BY FlatExists
<1> HIDE DEF f
<1>2. \A F : F = f => F[i] = [j \in 1 .. n |-> IF j = 1 THEN ss[j] ELSE f[j-1] \o ss[j]][i]
  BY <1>1, Zenon
<1>3. f[i] = IF i = 1 THEN ss[i] ELSE f[i-1] \o ss[i]
  BY <1>2, Zenon
<1> QED BY <1>3 DEF f

\* The sequences in a prefix, one after the other.
LEMMA FlatTyped ==
    ASSUME NEW S, NEW ss \in Seq(Seq(S)), NEW n \in 0 .. Len(ss)
    PROVE  \A i \in 1 .. n : Flat(ss, n)[i] \in Seq(S)
<1> DEFINE P == {i \in Nat : i \in 1 .. n => Flat(ss, n)[i] \in Seq(S)}
<1>1. 0 \in P
  OBVIOUS
<1>2. ASSUME NEW i \in Nat, i \in P PROVE i + 1 \in P
  <2> SUFFICES ASSUME i + 1 \in 1 .. n PROVE Flat(ss, n)[i+1] \in Seq(S)
    OBVIOUS
  <2>1. ss[i+1] \in Seq(S)
    BY ElementOfSeq
  <2>2. Flat(ss, n)[i+1] = IF i + 1 = 1 THEN ss[i+1] ELSE Flat(ss, n)[i] \o ss[i+1]
    BY FlatValues
  <2>3. CASE i = 0
    BY <2>1, <2>2, <2>3
  <2>4. CASE i # 0
    <3>1. Flat(ss, n)[i] \in Seq(S)
      BY <1>2, <2>4
    <3> QED BY <2>1, <2>2, <2>4, <3>1, ConcatProperties
  <2> QED BY <2>3, <2>4
<1>3. Nat \subseteq P
  <2> HIDE DEF P
  <2> QED BY <1>1, <1>2, Induction
<1> QED BY <1>3

\* A longer sequence of sequences flattens to the same so far.
LEMMA FlatPrefix ==
    ASSUME NEW ss, NEW tt, NEW n \in Nat, \A i \in 1 .. n : tt[i] = ss[i]
    PROVE  \A i \in 1 .. n : Flat(tt, n + 1)[i] = Flat(ss, n)[i]
<1> DEFINE P == {i \in Nat : i \in 1 .. n => Flat(tt, n + 1)[i] = Flat(ss, n)[i]}
<1>1. 0 \in P
  OBVIOUS
<1>2. ASSUME NEW i \in Nat, i \in P PROVE i + 1 \in P
  <2> SUFFICES ASSUME i + 1 \in 1 .. n PROVE Flat(tt, n + 1)[i+1] = Flat(ss, n)[i+1]
    OBVIOUS
  <2>1. Flat(ss, n)[i+1] = IF i + 1 = 1 THEN ss[i+1] ELSE Flat(ss, n)[i] \o ss[i+1]
    BY FlatValues
  <2>2. Flat(tt, n + 1)[i+1] = IF i + 1 = 1 THEN tt[i+1] ELSE Flat(tt, n + 1)[i] \o tt[i+1]
    BY FlatValues
  <2>3. i # 0 => Flat(tt, n + 1)[i] = Flat(ss, n)[i]
    BY <1>2
  <2> QED BY <2>1, <2>2, <2>3
<1>3. Nat \subseteq P
  <2> HIDE DEF P
  <2> QED BY <1>1, <1>2, Induction
<1> QED BY <1>3

\* FlattenSeq, from the last sequence on.
LEMMA FlattenEmpty == FlattenSeq(<<>>) = <<>>
BY DEF FlattenSeq

LEMMA FlattenTyped ==
    ASSUME NEW S, NEW ss \in Seq(Seq(S))
    PROVE  FlattenSeq(ss) \in Seq(S)
<1>1. CASE ss = <<>>
  <2>1. FlattenSeq(ss) = <<>>
    BY <1>1, FlattenEmpty
  <2> QED BY <2>1
<1>2. CASE ss # <<>>
  <2>1. Len(ss) \in 1 .. Len(ss)
    BY <1>2
  <2>2. FlattenSeq(ss) = Flat(ss, Len(ss))[Len(ss)]
    BY <1>2, FlattenIsFlat
  <2> QED BY <2>1, <2>2, FlatTyped
<1> QED BY <1>1, <1>2

LEMMA FlattenAppend ==
    ASSUME NEW S, NEW ss \in Seq(Seq(S)), NEW s \in Seq(S)
    PROVE  FlattenSeq(Append(ss, s)) = FlattenSeq(ss) \o s
<1> DEFINE n == Len(ss)
           tt == Append(ss, s)
<1>1. tt \in Seq(Seq(S)) /\ Len(tt) = n + 1 /\ n \in Nat /\ tt # <<>> /\ tt[n+1] = s
  BY AppendProperties
<1>2. FlattenSeq(tt) = Flat(tt, n + 1)[n + 1]
  BY <1>1, FlattenIsFlat
<1>3. Flat(tt, n + 1)[n + 1] = IF n + 1 = 1 THEN s ELSE Flat(tt, n + 1)[n] \o s
  <2>1. Flat(tt, n + 1)[n + 1] = IF n + 1 = 1 THEN tt[n+1] ELSE Flat(tt, n + 1)[n + 1 - 1] \o tt[n+1]
    <3> HIDE DEF n, tt
    <3> QED BY <1>1, FlatValues
  <2> QED BY <1>1, <2>1
<1>4. CASE n = 0
  BY <1>1, <1>2, <1>3, <1>4, FlattenEmpty
<1>5. CASE n # 0
  <2>1. \A i \in 1 .. n : tt[i] = ss[i]
    BY AppendProperties
  <2>2. Flat(tt, n + 1)[n] = Flat(ss, n)[n]
    <3>1. n \in Nat /\ n + 1 \in Nat /\ n <= n + 1 /\ n <= n /\ n \in 1 .. n
      BY <1>1, <1>5
    <3> HIDE DEF n, tt
    <3>2. \A i \in 1 .. n : Flat(tt, n + 1)[i] = Flat(ss, n)[i]
      BY <2>1, <3>1, FlatPrefix
    <3> QED BY <3>1, <3>2
  <2>3. FlattenSeq(ss) = Flat(ss, n)[n]
    BY <1>5, FlattenIsFlat
  <2>4. FlattenSeq(tt) = FlattenSeq(ss) \o s
    <3>1. n + 1 # 1
      BY <1>1, <1>5
    <3> HIDE DEF n, tt
    <3> QED BY <1>2, <1>3, <2>2, <2>3, <3>1, Zenon
  <2> QED BY <2>4
<1> QED BY <1>4, <1>5

-----------------------------------------------------------------------------
\* Prefixes: the empty one, the next one, the last one.
LEMMA PrefixNext ==
    ASSUME NEW S, NEW s \in Seq(S)
    PROVE  /\ SubSeq(s, 1, 0) = <<>>
           /\ SubSeq(s, 1, Len(s)) = s
           /\ \A k \in 0 .. Len(s) : /\ SubSeq(s, 1, k) \in Seq(S)
                                     /\ Len(SubSeq(s, 1, k)) = k
                                     /\ \A j \in 1 .. k : SubSeq(s, 1, k)[j] = s[j]
           /\ \A k \in 0 .. Len(s) - 1 :
                /\ s[k+1] \in S
                /\ SubSeq(s, 1, k + 1) = Append(SubSeq(s, 1, k), s[k+1])
<1>1. \A k \in 0 .. Len(s) : /\ SubSeq(s, 1, k) \in Seq(S)
                             /\ Len(SubSeq(s, 1, k)) = k
                             /\ \A j \in 1 .. k : SubSeq(s, 1, k)[j] = s[j]
  <2> TAKE k \in 0 .. Len(s)
  <2>1. \A i \in 1 .. k : s[i] \in S
    BY ElementOfSeq
  <2> QED BY <2>1, SubSeqProperties
<1>2. SubSeq(s, 1, Len(s)) = s
  BY SubSeqFull
<1>3. SubSeq(s, 1, 0) = <<>>
  BY SubSeqEmpty
<1>4. ASSUME NEW k \in 0 .. Len(s) - 1
      PROVE  s[k+1] \in S /\ SubSeq(s, 1, k + 1) = Append(SubSeq(s, 1, k), s[k+1])
  <2> DEFINE p == SubSeq(s, 1, k)
             q == SubSeq(s, 1, k + 1)
  <2>1. s[k+1] \in S
    BY ElementOfSeq
  <2>2. p \in Seq(S) /\ Len(p) = k /\ \A j \in 1 .. k : p[j] = s[j]
    BY <1>1
  <2>3. q \in Seq(S) /\ Len(q) = k + 1 /\ \A j \in 1 .. k + 1 : q[j] = s[j]
    BY <1>1
  <2> HIDE DEF p, q
  <2>4. /\ Append(p, s[k+1]) \in Seq(S)
        /\ Len(Append(p, s[k+1])) = k + 1
        /\ \A j \in 1 .. k : Append(p, s[k+1])[j] = p[j]
        /\ Append(p, s[k+1])[k+1] = s[k+1]
    BY <2>1, <2>2, AppendProperties
  <2>5. \A j \in 1 .. Len(q) : q[j] = Append(p, s[k+1])[j]
    BY <2>2, <2>3, <2>4
  <2>6. q = Append(p, s[k+1])
    BY <2>3, <2>4, <2>5, SeqEqual
  <2> QED BY <2>1, <2>6 DEF p, q
<1> QED BY <1>1, <1>2, <1>3, <1>4

LEMMA ConcatAppend ==
    ASSUME NEW S, NEW s \in Seq(S), NEW t \in Seq(S), NEW e \in S
    PROVE  s \o Append(t, e) = Append(s \o t, e)
<1>1. Append(t, e) = t \o <<e>> /\ Append(s \o t, e) = (s \o t) \o <<e>> /\ <<e>> \in Seq(S)
  BY AppendIsConcat, ConcatProperties
<1> QED BY <1>1, ConcatAssociative

\* Induction over sequences.
LEMMA SeqInduction ==
    ASSUME NEW S, NEW P, <<>> \in P,
           \A s \in Seq(S), e \in S : s \in P => Append(s, e) \in P
    PROVE  Seq(S) \subseteq P
<1> SUFFICES ASSUME NEW s \in Seq(S) PROVE s \in P
  OBVIOUS
<1> DEFINE p(k) == SubSeq(s, 1, k)
           Q == {k \in Nat : k \in 0 .. Len(s) => p(k) \in P}
<1>1. 0 \in Q
  <2>1. p(0) = <<>>
    BY PrefixNext
  <2> QED BY <2>1
<1>2. ASSUME NEW k \in Nat, k \in Q PROVE k + 1 \in Q
  <2> SUFFICES ASSUME k + 1 \in 0 .. Len(s) PROVE p(k+1) \in P
    OBVIOUS
  <2>1. k \in 0 .. Len(s) - 1 /\ k \in 0 .. Len(s)
    OBVIOUS
  <2>2. s[k+1] \in S /\ p(k+1) = Append(p(k), s[k+1]) /\ p(k) \in Seq(S)
    BY <2>1, PrefixNext
  <2>3. p(k) \in P
    BY <1>2, <2>1
  <2> HIDE DEF p
  <2> QED BY <2>2, <2>3
<1>3. Nat \subseteq Q
  <2> HIDE DEF Q
  <2> QED BY <1>1, <1>2, Induction
<1>4. Len(s) \in Nat /\ Len(s) \in 0 .. Len(s) /\ p(Len(s)) = s
  BY PrefixNext
<1> HIDE DEF p
<1> QED BY <1>3, <1>4

LEMMA FlattenConcatStep ==
    ASSUME NEW S, NEW ss \in Seq(Seq(S)), NEW tt \in Seq(Seq(S)), NEW s \in Seq(S),
           FlattenSeq(ss \o tt) = FlattenSeq(ss) \o FlattenSeq(tt)
    PROVE  FlattenSeq(ss \o Append(tt, s)) = FlattenSeq(ss) \o FlattenSeq(Append(tt, s))
<1>1. ss \o Append(tt, s) = Append(ss \o tt, s)
  BY ConcatAppend
<1>2. ss \o tt \in Seq(Seq(S))
  BY ConcatProperties
<1>3. FlattenSeq(Append(ss \o tt, s)) = FlattenSeq(ss \o tt) \o s
  BY <1>2, FlattenAppend
<1>4. FlattenSeq(Append(tt, s)) = FlattenSeq(tt) \o s
  BY FlattenAppend
<1>5. PICK a \in Seq(S), b \in Seq(S) : a = FlattenSeq(ss) /\ b = FlattenSeq(tt)
  BY FlattenTyped
<1>6. (a \o b) \o s = a \o (b \o s)
  BY ConcatAssociative
<1> QED BY <1>1, <1>3, <1>4, <1>5, <1>6, Zenon

LEMMA FlattenConcat ==
    ASSUME NEW S, NEW ss \in Seq(Seq(S)), NEW tt \in Seq(Seq(S))
    PROVE  FlattenSeq(ss \o tt) = FlattenSeq(ss) \o FlattenSeq(tt)
<1> DEFINE P == {uu \in Seq(Seq(S)) : FlattenSeq(ss \o uu) = FlattenSeq(ss) \o FlattenSeq(uu)}
<1>1. <<>> \in P
  <2>1. PICK a \in Seq(S) : a = FlattenSeq(ss)
    BY FlattenTyped
  <2>2. a \o <<>> = a /\ ss \o <<>> = ss
    BY ConcatEmptySeq
  <2>3. FlattenSeq(ss \o <<>>) = FlattenSeq(ss) \o FlattenSeq(<<>>)
    BY <2>1, <2>2, FlattenEmpty
  <2> QED BY <2>3
<1>2. ASSUME NEW uu \in Seq(Seq(S)), NEW s \in Seq(S), uu \in P
      PROVE  Append(uu, s) \in P
  BY <1>2, FlattenConcatStep, AppendProperties
<1>3. Seq(Seq(S)) \subseteq P
  <2> HIDE DEF P
  <2> QED BY <1>1, <1>2, SeqInduction
<1> QED BY <1>3

\* Sequences of sequences that flatten to the same, sequence by sequence.
Singles(s) == [k \in DOMAIN s |-> <<s[k]>>]

LEMMA FlattenSingles ==
    ASSUME NEW S, NEW s \in Seq(S)
    PROVE  FlattenSeq(Singles(s)) = s /\ Singles(s) \in Seq(Seq(S))
<1> DEFINE P == {u \in Seq(S) : FlattenSeq(Singles(u)) = u /\ Singles(u) \in Seq(Seq(S))}
<1>1. <<>> \in P
  <2>1. Singles(<<>>) = <<>>
    BY DEF Singles
  <2>2. FlattenSeq(Singles(<<>>)) = <<>>
    BY <2>1, FlattenEmpty
  <2>3. Singles(<<>>) \in Seq(Seq(S)) /\ <<>> \in Seq(S)
    BY <2>1, EmptySeq
  <2> QED BY <2>2, <2>3
<1>2. ASSUME NEW u \in Seq(S), NEW e \in S, u \in P PROVE Append(u, e) \in P
  <2>1. Append(u, e) \in Seq(S) /\ Len(Append(u, e)) = Len(u) + 1
        /\ DOMAIN Append(u, e) = 1 .. Len(u) + 1 /\ DOMAIN u = 1 .. Len(u)
    BY AppendProperties
  <2>2. Singles(Append(u, e)) = Append(Singles(u), <<e>>)
    BY <1>2, <2>1 DEF Singles
  <2>3. FlattenSeq(Append(Singles(u), <<e>>)) = FlattenSeq(Singles(u)) \o <<e>>
    <3>1. Singles(u) \in Seq(Seq(S)) /\ <<e>> \in Seq(S)
      BY <1>2
    <3> QED BY <3>1, FlattenAppend
  <2>4. u \o <<e>> = Append(u, e) /\ Append(Singles(u), <<e>>) \in Seq(Seq(S))
    BY <1>2, AppendIsConcat, AppendProperties
  <2> QED BY <1>2, <2>1, <2>2, <2>3, <2>4
<1>3. Seq(S) \subseteq P
  <2> HIDE DEF P
  <2> QED BY <1>1, <1>2, SeqInduction
<1> QED BY <1>3

-----------------------------------------------------------------------------
\* Real leaves the blanks out, token by token.
Shown(t) == IF Blank(t) THEN <<>> ELSE <<t>>

AllShown(s) == [k \in DOMAIN s |-> Shown(s[k])]

LEMMA RealIsShown == \A s : Real(s) = FlattenSeq(AllShown(s))
BY DEF Real, AllShown, Shown

LEMMA ShownTyped == ASSUME NEW t \in Token PROVE Shown(t) \in Text
BY DEF Shown, Text

LEMMA AllShownTyped ==
    ASSUME NEW s \in Text
    PROVE  AllShown(s) \in Seq(Text) /\ Len(AllShown(s)) = Len(s)
<1>1. \A k \in 1 .. Len(s) : Shown(s[k]) \in Text
  BY ElementOfSeq, ShownTyped DEF Text
<1> QED BY <1>1 DEF AllShown, Text

LEMMA RealTyped == ASSUME NEW s \in Text PROVE Real(s) \in Text
BY AllShownTyped, RealIsShown, FlattenTyped DEF Text

LEMMA RealEmpty == Real(<<>>) = <<>>
<1>1. AllShown(<<>>) = <<>>
  BY DEF AllShown
<1> QED BY <1>1, RealIsShown, FlattenEmpty

LEMMA RealAppend ==
    ASSUME NEW s \in Text, NEW t \in Token
    PROVE  Real(Append(s, t)) = Real(s) \o Shown(t)
<1>1. Append(s, t) \in Text /\ DOMAIN Append(s, t) = 1 .. Len(s) + 1 /\ DOMAIN s = 1 .. Len(s)
  BY AppendProperties DEF Text
<1>2. AllShown(Append(s, t)) = Append(AllShown(s), Shown(t))
  BY <1>1, AllShownTyped DEF AllShown, Text
<1>3. FlattenSeq(Append(AllShown(s), Shown(t))) = FlattenSeq(AllShown(s)) \o Shown(t)
  BY AllShownTyped, ShownTyped, FlattenAppend DEF Text
<1> QED BY <1>2, <1>3, RealIsShown

LEMMA RealConcatStep ==
    ASSUME NEW s \in Text, NEW u \in Text, NEW t \in Token,
           Real(s \o u) = Real(s) \o Real(u)
    PROVE  Real(s \o Append(u, t)) = Real(s) \o Real(Append(u, t))
<1>1. s \o Append(u, t) = Append(s \o u, t) /\ s \o u \in Text
  BY ConcatAppend, ConcatProperties DEF Text
<1>2. Real(Append(s \o u, t)) = Real(s \o u) \o Shown(t)
  BY <1>1, RealAppend
<1>3. Real(Append(u, t)) = Real(u) \o Shown(t)
  BY RealAppend
<1>4. PICK a \in Seq(Token), b \in Seq(Token), c \in Seq(Token) :
         a = Real(s) /\ b = Real(u) /\ c = Shown(t)
  BY RealTyped, ShownTyped DEF Text
<1>5. (a \o b) \o c = a \o (b \o c)
  BY ConcatAssociative
<1> QED BY <1>1, <1>2, <1>3, <1>4, <1>5, Zenon

LEMMA RealConcat ==
    ASSUME NEW s \in Text, NEW u \in Text
    PROVE  Real(s \o u) = Real(s) \o Real(u)
<1> DEFINE P == {v \in Text : Real(s \o v) = Real(s) \o Real(v)}
<1>1. <<>> \in P
  <2>1. PICK a \in Text : a = Real(s)
    BY RealTyped
  <2>2. a \o <<>> = a /\ s \o <<>> = s
    BY ConcatEmptySeq DEF Text
  <2>3. Real(s \o <<>>) = Real(s) \o Real(<<>>)
    BY <2>1, <2>2, RealEmpty
  <2>4. <<>> \in Text
    BY EmptySeq DEF Text
  <2> QED BY <2>3, <2>4
<1>2. ASSUME NEW v \in Seq(Token), NEW t \in Token, v \in P PROVE Append(v, t) \in P
  BY <1>2, RealConcatStep, AppendProperties DEF Text
<1>3. Seq(Token) \subseteq P
  <2> HIDE DEF P
  <2> QED BY <1>1, <1>2, SeqInduction
<1> QED BY <1>3 DEF Text

RealConcatenates(s, u) == s \o u \in Text /\ Real(s \o u) = Real(s) \o Real(u)

LEMMA TextRealConcat == \A s, u \in Text : RealConcatenates(s, u)
<1> TAKE s, u \in Text
<1>1. s \o u \in Text
  BY ConcatProperties DEF Text
<1> QED BY <1>1, RealConcat DEF RealConcatenates

\* Two lists of texts that read the same one by one read the same as a whole.
SameReal(ss, tt) == /\ ss \in Seq(Text) /\ tt \in Seq(Text)
                    /\ Len(ss) = Len(tt)
                    /\ \A k \in 1 .. Len(ss) : Real(ss[k]) = Real(tt[k])

LEMMA SameRealStep ==
    ASSUME NEW ss \in Seq(Text), NEW s \in Text, NEW tt \in Seq(Text), NEW t \in Text,
           Real(FlattenSeq(ss)) = Real(FlattenSeq(tt)), Real(s) = Real(t)
    PROVE  Real(FlattenSeq(Append(ss, s))) = Real(FlattenSeq(Append(tt, t)))
<1>1. FlattenSeq(Append(ss, s)) = FlattenSeq(ss) \o s /\ FlattenSeq(ss) \in Text
  BY FlattenAppend, FlattenTyped DEF Text
<1>2. FlattenSeq(Append(tt, t)) = FlattenSeq(tt) \o t /\ FlattenSeq(tt) \in Text
  BY FlattenAppend, FlattenTyped DEF Text
<1>3. Real(FlattenSeq(ss) \o s) = Real(FlattenSeq(ss)) \o Real(s)
  BY <1>1, RealConcat
<1>4. Real(FlattenSeq(tt) \o t) = Real(FlattenSeq(tt)) \o Real(t)
  BY <1>2, RealConcat
<1> QED BY <1>1, <1>2, <1>3, <1>4

LEMMA FlattenSameReal ==
    ASSUME NEW ss, NEW tt, SameReal(ss, tt)
    PROVE  Real(FlattenSeq(ss)) = Real(FlattenSeq(tt))
<1> DEFINE P == {uu \in Seq(Text) : \A vv \in Seq(Text) :
                    SameReal(uu, vv) => Real(FlattenSeq(uu)) = Real(FlattenSeq(vv))}
<1>1. <<>> \in P
  BY DEF SameReal
<1>2. ASSUME NEW uu \in Seq(Text), NEW u \in Text, uu \in P PROVE Append(uu, u) \in P
  <2> SUFFICES ASSUME NEW ww \in Seq(Text), SameReal(Append(uu, u), ww)
               PROVE  Real(FlattenSeq(Append(uu, u))) = Real(FlattenSeq(ww))
    BY AppendProperties
  <2>1. /\ Len(Append(uu, u)) = Len(uu) + 1
        /\ \A k \in 1 .. Len(uu) : Append(uu, u)[k] = uu[k]
        /\ Append(uu, u)[Len(uu) + 1] = u
    BY AppendProperties
  <2>2. Len(ww) = Len(uu) + 1 /\ ww # <<>>
    <3>1. Len(Append(uu, u)) = Len(ww)
      BY DEF SameReal
    <3>2. Len(ww) = Len(uu) + 1
      BY <2>1, <3>1
    <3> QED BY <3>2
  <2>3. PICK vv \in Seq(Text), v \in Text : ww = Append(vv, v)
    BY <2>2, SequenceEmptyOrAppend
  <2>4. /\ Len(ww) = Len(vv) + 1
        /\ \A k \in 1 .. Len(vv) : ww[k] = vv[k]
        /\ ww[Len(vv) + 1] = v
    BY <2>3, AppendProperties
  <2>5. SameReal(uu, vv) /\ Real(u) = Real(v)
    <3>1. Len(uu) = Len(vv) /\ Len(uu) \in Nat
      BY <2>2, <2>4
    <3>2. \A k \in 1 .. Len(uu) + 1 : Real(Append(uu, u)[k]) = Real(ww[k])
      BY <2>1 DEF SameReal
    <3>3. \A k \in 1 .. Len(uu) : Real(uu[k]) = Real(vv[k])
      <4> TAKE k \in 1 .. Len(uu)
      <4>1. Real(Append(uu, u)[k]) = Real(ww[k])
        BY <3>1, <3>2
      <4> QED BY <2>1, <2>4, <3>1, <4>1
    <3>4. Real(u) = Real(v)
      <4>1. Real(Append(uu, u)[Len(uu) + 1]) = Real(ww[Len(uu) + 1])
        BY <3>1, <3>2
      <4> QED BY <2>1, <2>4, <3>1, <4>1, Zenon
    <3> QED BY <3>1, <3>3, <3>4 DEF SameReal
  <2>6. Real(FlattenSeq(uu)) = Real(FlattenSeq(vv))
    BY <1>2, <2>5
  <2> QED BY <2>3, <2>5, <2>6, SameRealStep
<1>3. Seq(Text) \subseteq P
  <2> HIDE DEF P
  <2> QED BY <1>1, <1>2, SeqInduction
<1> QED BY <1>3 DEF SameReal

-----------------------------------------------------------------------------
\* Writing back adds blanks only.
LEMMA RealOfBlank ==
    ASSUME NEW s \in Text, NEW t \in Token, Blank(t)
    PROVE  Real(Append(s, t)) = Real(s)
<1>1. PICK a \in Seq(Token) : a = Real(s)
  BY RealTyped DEF Text
<1>2. a \o <<>> = a
  BY ConcatEmptySeq
<1> QED BY <1>1, <1>2, RealAppend DEF Shown

LEMMA GapReal ==
    ASSUME NEW t \in Token, NEW u \in Token
    PROVE  Gap(t, u) \in Text /\ Real(Gap(t, u)) = Real(<<t>>)
<1>1. <<t>> \in Text /\ Space \in Token /\ Blank(Space)
  BY TokenAssumption DEF TokenAssumption, Blank, Text
<1>2. <<t, Space>> = Append(<<t>>, Space)
  OBVIOUS
<1>3. <<t, Space>> \in Text
  BY <1>1 DEF Text
<1> QED BY <1>1, <1>2, <1>3, RealOfBlank DEF Gap

Gaps(s) == [k \in DOMAIN s |-> IF k < Len(s) THEN Gap(s[k], s[k+1]) ELSE <<s[k]>>]

LEMMA SpacedIsGaps == \A s : Spaced(s) = FlattenSeq(Gaps(s))
BY DEF Spaced, Gaps

LEMMA GapsTyped ==
    ASSUME NEW s \in Text
    PROVE  Gaps(s) \in Seq(Text) /\ Len(Gaps(s)) = Len(s)
<1>1. \A k \in 1 .. Len(s) : (IF k < Len(s) THEN Gap(s[k], s[k+1]) ELSE <<s[k]>>) \in Text
  <2> TAKE k \in 1 .. Len(s)
  <2>1. s[k] \in Token /\ <<s[k]>> \in Text
    BY ElementOfSeq DEF Text
  <2>2. k < Len(s) => s[k+1] \in Token
    BY ElementOfSeq DEF Text
  <2> QED BY <2>1, <2>2, GapReal
<1>2. DOMAIN s = 1 .. Len(s) /\ Len(s) \in Nat
  BY DEF Text
<1> QED BY <1>1, <1>2 DEF Gaps

LEMMA SpacedReal ==
    ASSUME NEW s \in Text
    PROVE  Spaced(s) \in Text /\ Real(Spaced(s)) = Real(s)
<1>1. FlattenSeq(Singles(s)) = s /\ Singles(s) \in Seq(Text)
  BY FlattenSingles DEF Text
<1>2. DOMAIN s = 1 .. Len(s) /\ Len(s) \in Nat /\ Len(Singles(s)) = Len(s)
  BY DEF Text, Singles
<1>3. \A k \in 1 .. Len(s) : Real(Gaps(s)[k]) = Real(Singles(s)[k])
  <2> TAKE k \in 1 .. Len(s)
  <2>1. s[k] \in Token
    BY ElementOfSeq DEF Text
  <2>2. k < Len(s) => s[k+1] \in Token
    BY ElementOfSeq DEF Text
  <2>3. Gaps(s)[k] = (IF k < Len(s) THEN Gap(s[k], s[k+1]) ELSE <<s[k]>>)
        /\ Singles(s)[k] = <<s[k]>>
    BY <1>2 DEF Gaps, Singles
  <2> QED BY <2>1, <2>2, <2>3, GapReal
<1>4. SameReal(Gaps(s), Singles(s))
  BY <1>1, <1>2, <1>3, GapsTyped DEF SameReal
<1>5. Spaced(s) \in Text
  BY SpacedIsGaps, GapsTyped, FlattenTyped DEF Text
<1> QED BY <1>1, <1>4, <1>5, SpacedIsGaps, FlattenSameReal

\* A sentence as it is written in front of the next one.
Written(ss, k) == Spaced(ss[k]) \o (IF k < Len(ss) THEN Separator(ss[k], ss[k+1]) ELSE <<>>)

AllWritten(ss) == [k \in DOMAIN ss |-> Written(ss, k)]

LEMMA WriteBackIsWritten == \A ss : WriteBack(ss) = FlattenSeq(AllWritten(ss))
BY DEF WriteBack, AllWritten, Written

LEMMA SeparatorReal ==
    ASSUME NEW s \in Text, NEW u, NEW v
    PROVE  s \o Separator(u, v) \in Text /\ Real(s \o Separator(u, v)) = Real(s)
<1>1. Space \in Token /\ Blank(Space)
  BY TokenAssumption DEF TokenAssumption, Blank
<1>2. s \o <<Space>> = Append(s, Space) /\ Append(s, Space) \in Text /\ s \o <<>> = s
  BY <1>1, AppendIsConcat, AppendProperties, ConcatEmptySeq DEF Text
<1>3. Separator(u, v) \in {<<Space>>, <<>>}
  BY DEF Separator
<1> QED BY <1>1, <1>2, <1>3, RealOfBlank

LEMMA WrittenReal ==
    ASSUME NEW ss \in Seq(Text), NEW k \in 1 .. Len(ss)
    PROVE  Written(ss, k) \in Text /\ Real(Written(ss, k)) = Real(ss[k])
<1>1. ss[k] \in Text
  BY ElementOfSeq
<1>2. Spaced(ss[k]) \in Text /\ Real(Spaced(ss[k])) = Real(ss[k])
  BY <1>1, SpacedReal
<1>3. Spaced(ss[k]) \o <<>> = Spaced(ss[k])
  BY <1>2, ConcatEmptySeq DEF Text
<1> QED BY <1>2, <1>3, SeparatorReal DEF Written

LEMMA AllWrittenTyped ==
    ASSUME NEW ss \in Seq(Text)
    PROVE  AllWritten(ss) \in Seq(Text) /\ Len(AllWritten(ss)) = Len(ss)
<1>1. \A k \in 1 .. Len(ss) : Written(ss, k) \in Text
  BY WrittenReal
<1> QED BY <1>1 DEF AllWritten

\* write_file_content, with the blanks it puts between sentences, writes all their
\* words and delimiters, in order, and no others.
THEOREM WriteBackReal ==
    ASSUME NEW ss \in Seq(Text)
    PROVE  WriteBack(ss) \in Text /\ Real(WriteBack(ss)) = Real(FlattenSeq(ss))
<1>1. \A k \in 1 .. Len(ss) : Real(AllWritten(ss)[k]) = Real(ss[k])
  BY WrittenReal DEF AllWritten
<1>2. SameReal(AllWritten(ss), ss)
  BY <1>1, AllWrittenTyped DEF SameReal
<1>3. WriteBack(ss) \in Text
  BY WriteBackIsWritten, AllWrittenTyped, FlattenTyped DEF Text
<1> QED BY <1>2, <1>3, WriteBackIsWritten, FlattenSameReal

-----------------------------------------------------------------------------
\* What Parse computes, token by token.
Reading(f, n) ==
    CHOOSE r : r = [k \in 0 .. n |-> IF k = 0 THEN <<>> ELSE Feed[f[k]][r[k-1]]]

LEMMA ReadingExists ==
    ASSUME NEW f, NEW n \in Nat
    PROVE  Reading(f, n)
             = [k \in 0 .. n |-> IF k = 0 THEN <<>> ELSE Feed[f[k]][Reading(f, n)[k-1]]]
<1> DEFINE Is(r, m) == r = [k \in 0 .. m |-> IF k = 0 THEN <<>> ELSE Feed[f[k]][r[k-1]]]
           S == {m \in Nat : \E r : Is(r, m)}
<1>1. 0 \in S
  <2>1. Is([k \in 0 .. 0 |-> <<>>], 0)
    OBVIOUS
  <2>2. \E r : Is(r, 0)
    BY <2>1, Zenon
  <2> QED
    <3> HIDE DEF Is
    <3> QED BY <2>2
<1>2. ASSUME NEW m \in Nat, m \in S PROVE m + 1 \in S
  <2>1. PICK r : Is(r, m)
    BY <1>2
  <2> DEFINE g == [k \in 0 .. m + 1 |->
                     IF k <= m THEN r[k] ELSE Feed[f[m + 1]][r[m]]]
  <2>2. ASSUME NEW k \in 0 .. m + 1
        PROVE  g[k] = IF k = 0 THEN <<>> ELSE Feed[f[k]][g[k-1]]
    <3>1. CASE k <= m
      <4>1. r[k] = IF k = 0 THEN <<>> ELSE Feed[f[k]][r[k-1]]
        <5>1. \A R : R = r => R[k] = [j \in 0 .. m |-> IF j = 0 THEN <<>> ELSE Feed[f[j]][R[j-1]]][k]
          BY <2>1, Zenon
        <5>2. k \in 0 .. m
          BY <3>1
        <5> QED BY <5>1, <5>2, Zenon
      <4>2. k # 0 => g[k-1] = r[k-1]
        BY <3>1
      <4>3. g[k] = r[k]
        BY <3>1
      <4> HIDE DEF g
      <4> QED BY <4>1, <4>2, <4>3
    <3>2. CASE k = m + 1
      <4>1. g[k-1] = r[m] /\ k # 0 /\ g[k] = Feed[f[k]][r[m]]
        BY <3>2
      <4> HIDE DEF g
      <4> QED BY <4>1
    <3> QED BY <3>1, <3>2
  <2>3. Is(g, m + 1)
    BY <2>2
  <2>4. \E h : Is(h, m + 1)
    <3> HIDE DEF g
    <3> QED BY <2>3, Zenon
  <2> QED
    <3> HIDE DEF Is
    <3> QED BY <2>4
<1>3. n \in S
  <2> HIDE DEF S
  <2> QED BY <1>1, <1>2, Induction
<1> QED BY <1>3 DEF Reading

LEMMA ParseIsReading == \A f : Parse(f) = Reading(f, Len(f))[Len(f)]
BY DEF Parse, Reading

LEMMA ReadingValues ==
    ASSUME NEW f, NEW n \in Nat, NEW k \in 0 .. n
    PROVE  Reading(f, n)[k] = IF k = 0 THEN <<>> ELSE Feed[f[k]][Reading(f, n)[k-1]]
<1> DEFINE r == Reading(f, n)
<1>1. r = [j \in 0 .. n |-> IF j = 0 THEN <<>> ELSE Feed[f[j]][r[j-1]]]
  BY ReadingExists
<1> HIDE DEF r
<1>2. \A R : R = r => R[k] = [j \in 0 .. n |-> IF j = 0 THEN <<>> ELSE Feed[f[j]][R[j-1]]][k]
  BY <1>1, Zenon
<1>3. r[k] = IF k = 0 THEN <<>> ELSE Feed[f[k]][r[k-1]]
  BY <1>2, Zenon
<1> QED BY <1>3 DEF r

LEMMA ReadingPrefix ==
    ASSUME NEW f, NEW g, NEW n \in Nat, \A i \in 1 .. n : g[i] = f[i]
    PROVE  \A i \in 0 .. n : Reading(g, n + 1)[i] = Reading(f, n)[i]
<1> DEFINE P == {i \in Nat : i \in 0 .. n => Reading(g, n + 1)[i] = Reading(f, n)[i]}
<1>1. 0 \in P
  <2>1. Reading(g, n + 1)[0] = <<>> /\ Reading(f, n)[0] = <<>>
    BY ReadingValues
  <2> QED BY <2>1
<1>2. ASSUME NEW i \in Nat, i \in P PROVE i + 1 \in P
  <2> SUFFICES ASSUME i + 1 \in 0 .. n PROVE Reading(g, n + 1)[i+1] = Reading(f, n)[i+1]
    OBVIOUS
  <2>1. Reading(g, n + 1)[i+1] = Feed[g[i+1]][Reading(g, n + 1)[i]]
    BY ReadingValues
  <2>2. Reading(f, n)[i+1] = Feed[f[i+1]][Reading(f, n)[i]]
    BY ReadingValues
  <2>3. Reading(g, n + 1)[i] = Reading(f, n)[i]
    BY <1>2
  <2> QED BY <2>1, <2>2, <2>3
<1>3. Nat \subseteq P
  <2> HIDE DEF P
  <2> QED BY <1>1, <1>2, Induction
<1> QED BY <1>3

LEMMA ParseEmpty == Parse(<<>>) = <<>>
<1>1. Reading(<<>>, 0)[0] = <<>>
  BY ReadingValues
<1> QED BY <1>1, ParseIsReading

LEMMA ParseAppend ==
    ASSUME NEW f \in Text, NEW t \in Token
    PROVE  Parse(Append(f, t)) = Feed[t][Parse(f)]
<1>1. PICK n \in Nat, g \in Seq(Token) :
        n = Len(f) /\ g = Append(f, t) /\ Len(g) = n + 1 /\ g[n+1] = t
  <2>1. /\ Len(f) \in Nat /\ Append(f, t) \in Seq(Token)
        /\ Len(Append(f, t)) = Len(f) + 1 /\ Append(f, t)[Len(f) + 1] = t
    BY AppendProperties DEF Text
  <2> QED BY <2>1
<1>2. \A i \in 1 .. n : g[i] = f[i]
  <2>1. \A i \in 1 .. Len(f) : Append(f, t)[i] = f[i]
    BY AppendProperties DEF Text
  <2> QED BY <1>1, <2>1
<1>3. Reading(g, n + 1)[n] = Reading(f, n)[n]
  <2>1. \A i \in 0 .. n : Reading(g, n + 1)[i] = Reading(f, n)[i]
    BY <1>2, ReadingPrefix
  <2> QED BY <2>1
<1>4. Reading(g, n + 1)[n + 1] = Feed[g[n + 1]][Reading(g, n + 1)[n]]
  BY ReadingValues
<1>5. Parse(g) = Reading(g, n + 1)[n + 1] /\ Parse(f) = Reading(f, n)[n]
  BY <1>1, ParseIsReading
<1> QED BY <1>1, <1>3, <1>4, <1>5

-----------------------------------------------------------------------------
\* What parse_file leaves in memory: sentences, none of them empty.
Sentences == {ss \in Seq(Text) : \A k \in 1 .. Len(ss) : ss[k] # <<>>}

LEMMA SentencesAppend ==
    /\ <<>> \in Sentences
    /\ \A ss \in Sentences, s \in Text : s # <<>> => Append(ss, s) \in Sentences
<1>1. ASSUME NEW ss \in Sentences, NEW s \in Text, s # <<>>
      PROVE  Append(ss, s) \in Sentences
  <2>1. /\ ss \in Seq(Text) /\ Append(ss, s) \in Seq(Text) /\ Len(Append(ss, s)) = Len(ss) + 1
        /\ \A i \in 1 .. Len(ss) : Append(ss, s)[i] = ss[i]
        /\ Append(ss, s)[Len(ss) + 1] = s
    BY AppendProperties DEF Sentences
  <2>2. \A k \in 1 .. Len(ss) : ss[k] # <<>>
    BY DEF Sentences
  <2>3. \A k \in 1 .. Len(Append(ss, s)) : Append(ss, s)[k] # <<>>
    <3> TAKE k \in 1 .. Len(Append(ss, s))
    <3>1. k \in 1 .. Len(ss) \/ k = Len(ss) + 1
      BY <2>1
    <3> QED BY <1>1, <2>1, <2>2, <3>1, Zenon
  <2> QED BY <2>1, <2>3 DEF Sentences
<1> QED BY <1>1 DEF Sentences

LEMMA SentencesLast ==
    ASSUME NEW ss \in Sentences, ss # <<>>
    PROVE  \E front \in Sentences, s \in Text :
              /\ s # <<>> /\ ss = Append(front, s)
              /\ Len(ss) = Len(front) + 1
              /\ Last(ss) = s
<1>1. PICK front \in Seq(Text), s \in Text : ss = Append(front, s)
  BY SequenceEmptyOrAppend DEF Sentences
<1>2. /\ Len(ss) = Len(front) + 1
      /\ \A i \in 1 .. Len(front) : ss[i] = front[i]
      /\ ss[Len(front) + 1] = s
  BY <1>1, AppendProperties
<1>3. front \in Sentences /\ s # <<>>
  BY <1>2 DEF Sentences
<1> QED BY <1>1, <1>2, <1>3 DEF Last

LEMMA FeedValue ==
    ASSUME NEW t \in Token, NEW ss \in Sentences
    PROVE  Feed[t][ss] = IF ss = <<>> \/ Last(Last(ss)) = End THEN Append(ss, <<t>>)
                         ELSE IF {t, Last(Last(ss))} = {Space} THEN ss
                         ELSE [ss EXCEPT ![Len(ss)] = Append(@, t)]
BY DEF Feed, Sentences, Text

\* The ways a token is read.
LEMMA FeedStep ==
    ASSUME NEW t \in Token, NEW front \in Sentences, NEW s \in Text, s # <<>>
    PROVE  \/ /\ Last(s) = End
              /\ Feed[t][Append(front, s)] = Append(Append(front, s), <<t>>)
           \/ /\ Last(s) = Space /\ t = Space
              /\ Feed[t][Append(front, s)] = Append(front, s)
           \/ /\ Last(s) # End /\ ~(Last(s) = Space /\ t = Space)
              /\ Feed[t][Append(front, s)] = Append(front, Append(s, t))
<1>1. PICK ss \in Sentences : ss = Append(front, s)
  BY SentencesAppend
<1>2. /\ ss # <<>> /\ ss \in Seq(Text) /\ front \in Seq(Text)
      /\ Len(ss) = Len(front) + 1
      /\ \A i \in 1 .. Len(front) : ss[i] = front[i]
      /\ ss[Len(front) + 1] = s
  BY <1>1, AppendProperties DEF Sentences
<1>3. Last(ss) = s
  BY <1>2 DEF Last
<1>4. CASE Last(s) = End
  BY <1>1, <1>2, <1>3, <1>4, FeedValue
<1>5. CASE Last(s) # End /\ Last(s) = Space /\ t = Space
  <2>1. {t, Last(Last(ss))} = {Space}
    BY <1>3, <1>5
  <2>2. Feed[t][ss] = ss
    BY <1>2, <1>3, <1>5, <2>1, FeedValue
  <2> QED BY <1>1, <1>5, <2>2
<1>6. CASE Last(s) # End /\ ~(Last(s) = Space /\ t = Space)
  <2>1. Feed[t][ss] = [ss EXCEPT ![Len(ss)] = Append(@, t)]
    <3>1. {t, Last(Last(ss))} # {Space}
      BY <1>3, <1>6
    <3> QED BY <1>2, <1>3, <1>6, <3>1, FeedValue
  <2>2. [ss EXCEPT ![Len(ss)] = Append(@, t)] = [ss EXCEPT ![Len(ss)] = Append(s, t)]
    BY <1>2
  <2>3. Append(s, t) \in Text
    BY AppendProperties DEF Text
  <2>4. [ss EXCEPT ![Len(ss)] = Append(s, t)] = Append(front, Append(s, t))
    <3> DEFINE a == [ss EXCEPT ![Len(ss)] = Append(s, t)]
               b == Append(front, Append(s, t))
    <3>1. a \in Seq(Text) /\ Len(a) = Len(ss)
          /\ \A j \in 1 .. Len(ss) : a[j] = IF j = Len(ss) THEN Append(s, t) ELSE ss[j]
      BY <1>2, <2>3, ExceptSeq
    <3>2. b \in Seq(Text) /\ Len(b) = Len(front) + 1
          /\ (\A i \in 1 .. Len(front) : b[i] = front[i])
          /\ b[Len(front) + 1] = Append(s, t)
      BY <1>2, <2>3, AppendProperties
    <3> HIDE DEF a, b
    <3>3. \A j \in 1 .. Len(a) : a[j] = b[j]
      <4> TAKE j \in 1 .. Len(a)
      <4>1. CASE j = Len(ss)
        BY <1>2, <3>1, <3>2, <4>1
      <4>2. CASE j # Len(ss)
        <5>1. j \in 1 .. Len(front) /\ j \in 1 .. Len(ss)
          BY <1>2, <3>1, <4>2
        <5>2. a[j] = ss[j] /\ b[j] = front[j] /\ ss[j] = front[j]
          BY <1>2, <3>1, <3>2, <4>2, <5>1
        <5> QED BY <5>2
      <4> QED BY <4>1, <4>2
    <3>4. a = b
      BY <1>2, <3>1, <3>2, <3>3, SeqEqual
    <3> QED BY <3>4 DEF a, b
  <2> QED BY <1>1, <1>6, <2>1, <2>2, <2>4
<1> QED BY <1>4, <1>5, <1>6

LEMMA FeedFirst ==
    ASSUME NEW t \in Token
    PROVE  Feed[t][<<>>] = << <<t>> >> /\ << <<t>> >> \in Sentences /\ <<t>> \in Text
<1>1. <<t>> \in Text /\ <<>> \in Sentences /\ Append(<<>>, <<t>>) = << <<t>> >>
  BY SentencesAppend DEF Text
<1>2. Append(<<>>, <<t>>) \in Sentences
  BY <1>1, SentencesAppend
<1>3. Feed[t][<<>>] = Append(<<>>, <<t>>)
  BY <1>1, FeedValue
<1> QED BY <1>1, <1>2, <1>3

\* Parsing loses and doubles no real token.
LEMMA FeedReads ==
    ASSUME NEW t \in Token, NEW ss \in Sentences
    PROVE  /\ Feed[t][ss] \in Sentences /\ Feed[t][ss] # <<>>
           /\ Real(FlattenSeq(Feed[t][ss])) = Real(FlattenSeq(ss)) \o Shown(t)
<1>1. CASE ss = <<>>
  <2>1. << <<t>> >> = Append(<<>>, <<t>>) /\ <<>> \in Seq(Text) /\ <<t>> \in Text
    <3>1. <<t>> \in Text
      BY FeedFirst
    <3> QED BY <3>1
  <2>2. FlattenSeq(<< <<t>> >>) = FlattenSeq(<<>>) \o <<t>>
    BY <2>1, FlattenAppend DEF Text
  <2>3. <<>> \o <<t>> = Append(<<>>, t) /\ <<>> \in Text
    BY DEF Text
  <2>4. Real(Append(<<>>, t)) = Real(<<>>) \o Shown(t)
    BY <2>3, RealAppend
  <2>5. FlattenSeq(<< <<t>> >>) = Append(<<>>, t) /\ FlattenSeq(<<>>) = <<>>
    BY <2>2, <2>3, FlattenEmpty
  <2>6. Real(FlattenSeq(<< <<t>> >>)) = Real(FlattenSeq(<<>>)) \o Shown(t)
    BY <2>4, <2>5
  <2>7. Feed[t][ss] = << <<t>> >> /\ << <<t>> >> \in Sentences /\ << <<t>> >> # <<>>
    BY <1>1, FeedFirst
  <2> QED BY <1>1, <2>6, <2>7
<1>2. CASE ss # <<>>
  <2>1. PICK front \in Sentences, s \in Text : s # <<>> /\ ss = Append(front, s)
    BY <1>2, SentencesLast
  <2>2. /\ front \in Seq(Text) /\ ss \in Seq(Text) /\ <<t>> \in Text /\ <<t>> # <<>>
        /\ Append(s, t) \in Text /\ Append(s, t) # <<>>
    BY AppendProperties DEF Sentences, Text
  <2>3. PICK x \in Seq(Token), y \in Seq(Token) : x = FlattenSeq(ss) /\ y = FlattenSeq(front)
    BY <2>2, FlattenTyped DEF Text
  <2>4. x = y \o s
    BY <2>1, <2>2, <2>3, FlattenAppend DEF Text
  <2>5. Real(Append(x, t)) = Real(x) \o Shown(t)
    BY RealAppend DEF Text
  <2>6. Append(x, t) = x \o <<t>> /\ Append(x, t) = y \o Append(s, t)
    <3>1. Append(x, t) = x \o <<t>>
      BY AppendIsConcat
    <3>2. y \o Append(s, t) = Append(y \o s, t)
      BY ConcatAppend DEF Text
    <3> QED BY <2>4, <3>1, <3>2
  <2>7. CASE Feed[t][ss] = Append(ss, <<t>>)
    <3>1. FlattenSeq(Append(ss, <<t>>)) = x \o <<t>>
      BY <2>2, <2>3, FlattenAppend DEF Text
    <3>2. Append(ss, <<t>>) \in Sentences /\ Append(ss, <<t>>) # <<>>
      BY <2>2, SentencesAppend, AppendProperties
    <3> QED BY <2>3, <2>5, <2>6, <2>7, <3>1, <3>2
  <2>8. CASE Feed[t][ss] = ss /\ t = Space
    <3>1. Real(x) \o Shown(t) = Real(x)
      <4>1. Shown(t) = <<>>
        BY <2>8 DEF Shown, Blank
      <4> QED BY <4>1, RealTyped, ConcatEmptySeq DEF Text
    <3> QED BY <1>2, <2>3, <2>8, <3>1
  <2>9. CASE Feed[t][ss] = Append(front, Append(s, t))
    <3>1. FlattenSeq(Append(front, Append(s, t))) = y \o Append(s, t)
      BY <2>2, <2>3, FlattenAppend DEF Text
    <3>2. Append(front, Append(s, t)) \in Sentences
      BY <2>2, SentencesAppend
    <3>3. Append(front, Append(s, t)) # <<>>
      <4>1. \A u \in Text : Append(front, u) # <<>>
        BY <2>2, AppendProperties
      <4> QED BY <2>2, <4>1
    <3> QED BY <2>3, <2>5, <2>6, <2>9, <3>1, <3>2, <3>3
  <2> QED BY <2>1, <2>7, <2>8, <2>9, FeedStep
<1> QED BY <1>1, <1>2

\* parse_file makes sentences of a text and drops or reorders none of its words
\* and delimiters.
THEOREM ParseReal ==
    ASSUME NEW f \in Text
    PROVE  Parse(f) \in Sentences /\ Real(FlattenSeq(Parse(f))) = Real(f)
<1> DEFINE P == {g \in Text : Parse(g) \in Sentences /\ Real(FlattenSeq(Parse(g))) = Real(g)}
<1>1. <<>> \in P
  <2>1. <<>> \in Text
    BY DEF Text
  <2>2. FlattenSeq(Parse(<<>>)) = <<>> /\ Parse(<<>>) \in Sentences
    BY ParseEmpty, FlattenEmpty, SentencesAppend
  <2> QED BY <2>1, <2>2
<1>2. ASSUME NEW g \in Seq(Token), NEW t \in Token, g \in P PROVE Append(g, t) \in P
  <2>1. g \in Text /\ Append(g, t) \in Text
    BY AppendProperties DEF Text
  <2>2. PICK ss \in Sentences : ss = Parse(g) /\ Real(FlattenSeq(ss)) = Real(g)
    BY <1>2
  <2>3. Parse(Append(g, t)) = Feed[t][ss]
    BY <2>1, <2>2, ParseAppend
  <2>4. Real(Append(g, t)) = Real(g) \o Shown(t)
    BY <2>1, RealAppend
  <2>5. /\ Feed[t][ss] \in Sentences
        /\ Real(FlattenSeq(Feed[t][ss])) = Real(FlattenSeq(ss)) \o Shown(t)
    BY FeedReads
  <2> QED BY <2>1, <2>2, <2>3, <2>4, <2>5
<1>3. Seq(Token) \subseteq P
  <2> HIDE DEF P
  <2> QED BY <1>1, <1>2, SeqInduction
<1> QED BY <1>3 DEF Text

-----------------------------------------------------------------------------
\* The place of a word: what is before it holds as many real tokens as it has
\* words before it.
LEMMA RealPrefix ==
    ASSUME NEW s \in Text, NEW k \in 0 .. Len(s) - 1
    PROVE  /\ s[k+1] \in Token
           /\ Len(Real(SubSeq(s, 1, k + 1)))
                = Len(Real(SubSeq(s, 1, k))) + (IF Blank(s[k+1]) THEN 0 ELSE 1)
           /\ Len(Real(SubSeq(s, 1, k))) \in Nat
<1>1. /\ s[k+1] \in Token /\ SubSeq(s, 1, k) \in Seq(Token)
      /\ SubSeq(s, 1, k + 1) = Append(SubSeq(s, 1, k), s[k+1])
  BY PrefixNext DEF Text
<1>2. PICK p \in Seq(Token), t \in Token : p = SubSeq(s, 1, k) /\ t = s[k+1]
  BY <1>1
<1>3. Real(Append(p, t)) = Real(p) \o Shown(t) /\ Real(p) \in Seq(Token)
  BY RealAppend, RealTyped DEF Text
<1>4. Len(Real(p) \o Shown(t)) = Len(Real(p)) + Len(Shown(t)) /\ Len(Real(p)) \in Nat
  BY <1>3, ShownTyped, ConcatProperties DEF Text
<1>5. Len(Shown(t)) = IF Blank(t) THEN 0 ELSE 1
  BY DEF Shown
<1> QED BY <1>1, <1>2, <1>3, <1>4, <1>5

LEMMA RealEnds ==
    ASSUME NEW s \in Text
    PROVE  Real(SubSeq(s, 1, 0)) = <<>> /\ Real(SubSeq(s, 1, Len(s))) = Real(s)
<1>1. SubSeq(s, 1, 0) = <<>> /\ SubSeq(s, 1, Len(s)) = s
  BY PrefixNext DEF Text
<1> QED BY <1>1, RealEmpty, Zenon

LEMMA PlaceExists ==
    ASSUME NEW s \in Text, NEW n \in Nat, 1 <= n, n <= Len(Real(s))
    PROVE  \E k \in 1 .. Len(s) : ~Blank(s[k]) /\ Len(Real(SubSeq(s, 1, k))) = n
<1> DEFINE c(k) == Len(Real(SubSeq(s, 1, k)))
           P == {k \in Nat : k \in 0 .. Len(s) /\ n <= c(k) =>
                    \E j \in 1 .. Len(s) : ~Blank(s[j]) /\ c(j) = n}
<1>1. 0 \in P
  <2>2. c(0) = 0
    <3>1. Real(SubSeq(s, 1, 0)) = <<>>
      BY RealEnds
    <3>2. Len(<<>>) = 0
      OBVIOUS
    <3> QED BY <3>1, <3>2, Zenon
  <2> HIDE DEF c
  <2> QED BY <2>2
<1>2. ASSUME NEW k \in Nat, k \in P PROVE k + 1 \in P
  <2> SUFFICES ASSUME k + 1 \in 0 .. Len(s), n <= c(k+1)
               PROVE  \E j \in 1 .. Len(s) : ~Blank(s[j]) /\ c(j) = n
    OBVIOUS
  <2>1. k \in 0 .. Len(s) - 1 /\ k \in 0 .. Len(s) /\ k + 1 \in 1 .. Len(s)
    BY DEF Text
  <2>2. c(k+1) = c(k) + (IF Blank(s[k+1]) THEN 0 ELSE 1) /\ c(k) \in Nat
    BY <2>1, RealPrefix
  <2> HIDE DEF c
  <2>3. CASE n <= c(k)
    BY <1>2, <2>1, <2>3
  <2>4. CASE ~(n <= c(k))
    <3>1. ~Blank(s[k+1]) /\ c(k+1) = n
      BY <2>2, <2>4
    <3> QED BY <2>1, <3>1
  <2> QED BY <2>3, <2>4
<1>3. Nat \subseteq P
  <2> HIDE DEF P
  <2> QED BY <1>1, <1>2, Induction
<1>4. Len(s) \in Nat /\ Len(s) \in 0 .. Len(s) /\ c(Len(s)) = Len(Real(s))
  <2>1. Len(Real(SubSeq(s, 1, Len(s)))) = Len(Real(s))
    BY RealEnds, Zenon
  <2>2. Len(s) \in Nat /\ Len(s) \in 0 .. Len(s)
    BY DEF Text
  <2> QED BY <2>1, <2>2, Zenon
<1>5. Len(s) \in P
  <2> HIDE DEF P
  <2> QED BY <1>3, <1>4
<1> QED BY <1>4, <1>5

LEMMA PositionSplits ==
    ASSUME NEW s \in Text, NEW w \in 1 .. Len(Real(s)) + 1
    PROVE  /\ Position(s, w) \in 0 .. Len(s)
           /\ Len(Real(SubSeq(s, 1, Position(s, w)))) = w - 1
<1>1. Len(s) \in Nat /\ Len(Real(s)) \in Nat /\ DOMAIN s = 1 .. Len(s)
  BY RealTyped DEF Text
<1>2. CASE w = 1
  <2>1. Position(s, w) = 0
    BY <1>2 DEF Position
  <2>2. Real(SubSeq(s, 1, Position(s, w))) = <<>>
    BY <2>1, RealEnds, Zenon
  <2>3. Len(<<>>) = w - 1
    BY <1>2
  <2>4. 0 \in 0 .. Len(s)
    BY <1>1
  <2> QED BY <2>1, <2>2, <2>3, <2>4, Zenon
<1>3. CASE w # 1 /\ w = Len(Real(s)) + 1
  <2>1. Position(s, w) = Len(s)
    BY <1>3 DEF Position
  <2>2. Real(SubSeq(s, 1, Position(s, w))) = Real(s)
    BY <2>1, RealEnds, Zenon
  <2>3. Len(Real(s)) = w - 1 /\ Len(s) \in 0 .. Len(s)
    BY <1>1, <1>3
  <2> QED BY <2>1, <2>2, <2>3, Zenon
<1>4. CASE w # 1 /\ w # Len(Real(s)) + 1
  <2>1. Position(s, w) = Place(s, w - 1)
    BY <1>4 DEF Position
  <2>2. w - 1 \in Nat /\ 1 <= w - 1 /\ w - 1 <= Len(Real(s))
    BY <1>1, <1>4
  <2>3. \E k \in 1 .. Len(s) : ~Blank(s[k]) /\ Len(Real(SubSeq(s, 1, k))) = w - 1
    BY <2>2, PlaceExists
  <2>4. Place(s, w - 1) \in 1 .. Len(s) /\ Len(Real(SubSeq(s, 1, Place(s, w - 1)))) = w - 1
    BY <1>1, <2>3 DEF Place
  <2> QED BY <1>1, <2>1, <2>4
<1> QED BY <1>2, <1>3, <1>4

-----------------------------------------------------------------------------
\* Cutting a sequence in two, and putting two together.
LEMMA CutInTwo ==
    ASSUME NEW S, NEW s \in Seq(S), NEW k \in 0 .. Len(s)
    PROVE  /\ SubSeq(s, 1, k) \in Seq(S) /\ SubSeq(s, k + 1, Len(s)) \in Seq(S)
           /\ SubSeq(s, 1, k) \o SubSeq(s, k + 1, Len(s)) = s
<1>1. SubSeq(s, 1, k) \in Seq(S)
  BY PrefixNext
<1>2. SubSeq(s, k + 1, Len(s)) \in Seq(S)
  <2>1. \A i \in k + 1 .. Len(s) : s[i] \in S
    BY ElementOfSeq
  <2>2. k + 1 \in Int /\ Len(s) \in Int
    OBVIOUS
  <2> QED BY <2>1, <2>2, SubSeqProperties
<1>3. SubSeq(s, 1, k) \o SubSeq(s, k + 1, Len(s)) = SubSeq(s, 1, Len(s))
  <2>1. 1 \in 1 .. Len(s) + 1 /\ k \in 1 - 1 .. Len(s) /\ Len(s) \in k .. Len(s)
    OBVIOUS
  <2> QED BY <2>1, ConcatAdjacentSubSeq
<1>4. SubSeq(s, 1, Len(s)) = s
  BY PrefixNext
<1> QED BY <1>1, <1>2, <1>3, <1>4

LEMMA PutTogether ==
    ASSUME NEW S, NEW s \in Seq(S), NEW t \in Seq(S)
    PROVE  /\ SubSeq(s \o t, 1, Len(s)) = s
           /\ SubSeq(s \o t, Len(s) + 1, Len(s \o t)) = t
<1>1. PICK u \in Seq(S), m \in Nat, n \in Nat :
        u = s \o t /\ m = Len(s) /\ n = Len(t) /\ Len(u) = m + n
  <2>1. s \o t \in Seq(S) /\ Len(s \o t) = Len(s) + Len(t)
    BY ConcatProperties
  <2>2. Len(s) \in Nat /\ Len(t) \in Nat
    OBVIOUS
  <2> QED BY <2>1, <2>2, Zenon
<1>2. \A i \in 1 .. m + n : u[i] = IF i <= m THEN s[i] ELSE t[i - m]
  BY <1>1, ConcatProperties
<1>3. SubSeq(u, 1, m) \in Seq(S) /\ Len(SubSeq(u, 1, m)) = m
      /\ \A j \in 1 .. m : SubSeq(u, 1, m)[j] = u[j]
  BY <1>1, PrefixNext
<1>4. \A j \in 1 .. m : SubSeq(u, 1, m)[j] = s[j]
  BY <1>2, <1>3
<1>5. SubSeq(u, 1, m) = s
  BY <1>1, <1>3, <1>4, SeqEqual
<1>6. /\ SubSeq(u, m + 1, m + n) \in Seq(S)
      /\ Len(SubSeq(u, m + 1, m + n)) = n
      /\ \A j \in 1 .. n : SubSeq(u, m + 1, m + n)[j] = u[m + j]
  <2>1. \A i \in m + 1 .. m + n : u[i] \in S
    BY <1>1, ElementOfSeq
  <2>2. /\ SubSeq(u, m + 1, m + n) \in Seq(S)
        /\ Len(SubSeq(u, m + 1, m + n)) = IF m + 1 <= m + n THEN m + n - (m + 1) + 1 ELSE 0
        /\ \A i \in 1 .. m + n - (m + 1) + 1 :
              SubSeq(u, m + 1, m + n)[i] = u[m + 1 + i - 1]
    BY <2>1, SubSeqProperties
  <2>3. m + n - (m + 1) + 1 = n /\ (m + 1 <= m + n <=> 1 <= n)
    OBVIOUS
  <2>4. \A i \in 1 .. n : m + 1 + i - 1 = m + i
    OBVIOUS
  <2> QED BY <2>2, <2>3, <2>4
<1>7. \A j \in 1 .. n : SubSeq(u, m + 1, m + n)[j] = t[j]
  <2> TAKE j \in 1 .. n
  <2>1. m + j \in 1 .. m + n /\ ~(m + j <= m) /\ m + j - m = j
    OBVIOUS
  <2> QED BY <1>2, <1>6, <2>1
<1>8. SubSeq(u, m + 1, m + n) = t
  BY <1>1, <1>6, <1>7, SeqEqual
<1> QED BY <1>1, <1>5, <1>8

\* Texts are put together in any order.  (As predicates, the laws are found by
\* matching.)
Associates(u, v, w) == (u \o v) \o w = u \o (v \o w)

LEMMA TextAssoc == \A u, v, w \in Text : Associates(u, v, w)
BY ConcatAssociative DEF Text, Associates

Concatenates(u, v) == /\ u \o v \in Text
                      /\ Len(u \o v) = Len(u) + Len(v)
                      /\ SubSeq(u \o v, 1, Len(u)) = u
                      /\ SubSeq(u \o v, Len(u) + 1, Len(u \o v)) = v

LEMMA TextConcat == \A u, v \in Text : Concatenates(u, v)
<1> TAKE u, v \in Text
<1>1. u \o v \in Text /\ Len(u \o v) = Len(u) + Len(v)
  BY ConcatProperties DEF Text
<1>2. SubSeq(u \o v, 1, Len(u)) = u /\ SubSeq(u \o v, Len(u) + 1, Len(u \o v)) = v
  BY PutTogether DEF Text
<1> QED BY <1>1, <1>2, Zenon DEF Concatenates

\* Inserting c between b and d.
Inserts(a, b, c, d, e) ==
    LET before == (a \o (b \o d)) \o e
    IN  (a \o ((b \o c) \o d)) \o e
          = (SubSeq(before, 1, Len(a) + Len(b)) \o c)
               \o SubSeq(before, Len(a) + Len(b) + 1, Len(before))

LEMMA InsertBetween == \A a, b, c, d, e \in Text : Inserts(a, b, c, d, e)
<1> TAKE a, b, c, d, e \in Text
<1>1. PICK x \in Text : x = a \o b /\ Len(x) = Len(a) + Len(b)
  <2>1. Concatenates(a, b)
    BY TextConcat, Zenon
  <2> QED BY <2>1, Zenon DEF Concatenates
<1>2. PICK y \in Text : y = d \o e
  <2>1. Concatenates(d, e)
    BY TextConcat, Zenon
  <2> QED BY <2>1, Zenon DEF Concatenates
<1>3. PICK z \in Text : z = b \o c
  <2>1. Concatenates(b, c)
    BY TextConcat, Zenon
  <2> QED BY <2>1, Zenon DEF Concatenates
<1>4. PICK v \in Text : v = x \o c
  <2>1. Concatenates(x, c)
    BY TextConcat, Zenon
  <2> QED BY <2>1, Zenon DEF Concatenates
<1>5. (a \o (b \o d)) \o e = x \o y
  <2>1. Associates(a, b, d) /\ Associates(x, d, e)
    BY TextAssoc, Zenon
  <2> QED BY <1>1, <1>2, <2>1, Zenon DEF Associates
<1>6. (a \o ((b \o c) \o d)) \o e = (x \o c) \o y
  <2>1. Associates(a, z, d) /\ Associates(a, b, c) /\ Associates(v, d, e)
    BY TextAssoc, Zenon
  <2>2. a \o z = v
    BY <1>1, <1>3, <1>4, <2>1, Zenon DEF Associates
  <2> QED BY <1>2, <1>3, <1>4, <2>1, <2>2, Zenon DEF Associates
<1>7. SubSeq(x \o y, 1, Len(x)) = x /\ SubSeq(x \o y, Len(x) + 1, Len(x \o y)) = y
  <2>1. Concatenates(x, y)
    BY TextConcat, Zenon
  <2> QED BY <2>1, Zenon DEF Concatenates
<1> QED BY <1>1, <1>5, <1>6, <1>7, Zenon DEF Inserts

\* Empty sentences add nothing.
LEMMA FlattenSpare ==
    ASSUME NEW S, NEW n \in Nat
    PROVE  /\ [k \in 1 .. n |-> <<>>] \in Seq(Seq(S))
           /\ FlattenSeq([k \in 1 .. n |-> <<>>]) = <<>>
<1> DEFINE e(m) == [k \in 1 .. m |-> <<>>]
           P == {m \in Nat : e(m) \in Seq(Seq(S)) /\ FlattenSeq(e(m)) = <<>>}
<1>1. 0 \in P
  <2>1. e(0) = <<>>
    OBVIOUS
  <2>2. FlattenSeq(e(0)) = <<>>
    BY <2>1, FlattenEmpty, Zenon
  <2> QED BY <2>1, <2>2
<1>2. ASSUME NEW m \in Nat, m \in P PROVE m + 1 \in P
  <2>1. e(m + 1) = Append(e(m), <<>>) /\ <<>> \in Seq(S)
    OBVIOUS
  <2>2. e(m) \in Seq(Seq(S)) /\ FlattenSeq(e(m)) = <<>>
    BY <1>2
  <2> HIDE DEF e
  <2>3. FlattenSeq(Append(e(m), <<>>)) = <<>> \o <<>>
    BY <2>1, <2>2, FlattenAppend
  <2>4. Append(e(m), <<>>) \in Seq(Seq(S))
    BY <2>1, <2>2, AppendProperties
  <2>5. <<>> \o <<>> = <<>>
    OBVIOUS
  <2>6. FlattenSeq(e(m + 1)) = <<>> /\ e(m + 1) \in Seq(Seq(S))
    BY <2>1, <2>3, <2>4, <2>5, Zenon
  <2> QED BY <2>6
<1>3. Nat \subseteq P
  <2> HIDE DEF P
  <2> QED BY <1>1, <1>2, Induction
<1> QED BY <1>3

\* The last of some places in a text.
LEMMA LastPlace ==
    ASSUME NEW n \in Nat, NEW D, D \subseteq 1 .. n, D # {}
    PROVE  \E k \in D : \A m \in D : m <= k
<1> DEFINE T == {n - k : k \in D}
           R == {p \in Nat \X Nat : p[1] < p[2]}
<1>1. T \subseteq Nat /\ T # {}
  <2>1. \A k \in D : n - k \in Nat
    OBVIOUS
  <2> QED BY <2>1
<1>2. PICK x \in T : \A y \in T : ~(<<y, x>> \in R)
  <2>1. IsWellFoundedOn(R, Nat)
    BY NatLess
  <2> HIDE DEF R, T
  <2> QED BY <1>1, <2>1, WFMin
<1>3. PICK k \in D : x = n - k
  BY <1>2
<1>4. ASSUME NEW m \in D PROVE m <= k
  <2>1. n - m \in T /\ n - m \in Nat /\ n - k \in Nat /\ k \in Nat /\ m \in Nat
    OBVIOUS
  <2>2. ~(n - m < n - k)
    BY <1>2, <1>3, <2>1
  <2> QED BY <2>1, <2>2
<1> QED BY <1>4

-----------------------------------------------------------------------------
\* The content goes between what is before and after it, split or not.
LEMMA AroundFlat ==
    ASSUME NEW pre \in Text, NEW content \in Text, NEW post \in Text
    PROVE  /\ Around(pre, content, post) \in Seq(Text)
           /\ FlattenSeq(Around(pre, content, post)) = (pre \o content) \o post
<1> DEFINE cut == IF Ends(content) = {} THEN 0
                  ELSE CHOOSE k \in Ends(content) : \A m \in Ends(content) : m <= k
<1>1. Len(content) \in Nat /\ Ends(content) \subseteq 1 .. Len(content)
  BY DEF Ends, Text
<1>2. cut \in 0 .. Len(content)
  <2>1. CASE Ends(content) = {}
    BY <1>1, <2>1
  <2>2. CASE Ends(content) # {}
    <3>1. \E k \in Ends(content) : \A m \in Ends(content) : m <= k
      BY <1>1, <2>2, LastPlace
    <3> QED BY <1>1, <2>2, <3>1
  <2> QED BY <2>1, <2>2
<1>3. Around(pre, content, post) =
        IF 0 < cut /\ cut < Len(content)
          THEN << pre \o SubSeq(content, 1, cut),
                  SubSeq(content, cut + 1, Len(content)) \o post >>
          ELSE << pre \o content \o post >>
  BY DEF Around
<1> HIDE DEF cut
<1>4. PICK c \in Text, d \in Text :
        c = SubSeq(content, 1, cut) /\ d = SubSeq(content, cut + 1, Len(content))
          /\ c \o d = content
  <2>1. /\ SubSeq(content, 1, cut) \in Text /\ SubSeq(content, cut + 1, Len(content)) \in Text
        /\ SubSeq(content, 1, cut) \o SubSeq(content, cut + 1, Len(content)) = content
    BY <1>2, CutInTwo DEF Text
  <2> QED BY <2>1, Zenon
<1>5. PICK x \in Text, y \in Text : x = pre \o c /\ y = d \o post
  <2>1. Concatenates(pre, c) /\ Concatenates(d, post)
    BY TextConcat, Zenon
  <2> QED BY <2>1, Zenon DEF Concatenates
<1>6. PICK z \in Text : z = (pre \o content) \o post /\ x \o y = z
  <2>1. PICK v \in Text : v = pre \o content
    <3>1. Concatenates(pre, content)
      BY TextConcat, Zenon
    <3> QED BY <3>1, Zenon DEF Concatenates
  <2>2. Concatenates(v, post) /\ Associates(pre, c, d) /\ Associates(x, d, post)
    BY TextConcat, TextAssoc, Zenon
  <2> QED BY <1>4, <1>5, <2>1, <2>2, Zenon DEF Concatenates, Associates
<1>7. CASE 0 < cut /\ cut < Len(content)
  <2>1. Around(pre, content, post) = <<x, y>>
    BY <1>3, <1>4, <1>5, <1>7, Zenon
  <2>2. <<x>> \in Seq(Text) /\ <<x, y>> = Append(<<x>>, y) /\ <<x>> = Append(<<>>, x)
        /\ <<x, y>> \in Seq(Text) /\ <<>> \in Seq(Text)
    OBVIOUS
  <2>3. FlattenSeq(<<x, y>>) = FlattenSeq(<<x>>) \o y
    BY <2>2, FlattenAppend DEF Text
  <2>4. FlattenSeq(<<x>>) = <<>> \o x
    BY <2>2, FlattenAppend, FlattenEmpty DEF Text
  <2>5. <<>> \o x = x
    BY ConcatEmptySeq DEF Text
  <2> QED BY <1>6, <2>1, <2>2, <2>3, <2>4, <2>5, Zenon
<1>8. CASE ~(0 < cut /\ cut < Len(content))
  <2>1. Around(pre, content, post) = <<z>>
    BY <1>3, <1>6, <1>8, Zenon
  <2>2. <<z>> = Append(<<>>, z) /\ <<z>> \in Seq(Text) /\ <<>> \in Seq(Text)
    OBVIOUS
  <2>3. FlattenSeq(<<z>>) = <<>> \o z
    BY <2>2, FlattenAppend, FlattenEmpty DEF Text
  <2>4. <<>> \o z = z
    BY ConcatEmptySeq DEF Text
  <2> QED BY <1>6, <2>1, <2>2, <2>3, <2>4, Zenon
<1> QED BY <1>7, <1>8

\* The sentences before and after sentence i.
Before(ss, i) == SubSeq(ss, 1, i)
After(ss, i)  == SubSeq(ss, i + 2, Len(ss))

LEMMA SentenceApart ==
    ASSUME NEW ss \in Seq(Text), NEW i \in 0 .. Len(ss)
    PROVE  /\ SentenceAt(ss, i) \in Text
           /\ Before(ss, i) \in Seq(Text) /\ After(ss, i) \in Seq(Text)
           /\ FlattenSeq(ss)
                = (FlattenSeq(Before(ss, i)) \o SentenceAt(ss, i)) \o FlattenSeq(After(ss, i))
<1>1. PICK n \in Nat : n = Len(ss)
  OBVIOUS
<1>2. CASE i = n
  <2>1. SentenceAt(ss, i) = <<>> /\ <<>> \in Text
    BY <1>1, <1>2 DEF SentenceAt, Text
  <2>2. Before(ss, i) = ss
    BY <1>1, <1>2, PrefixNext DEF Before
  <2>3. After(ss, i) = <<>>
    BY <1>1, <1>2, SubSeqEmpty DEF After
  <2>4. FlattenSeq(After(ss, i)) = <<>> /\ After(ss, i) \in Seq(Text)
    BY <2>3, FlattenEmpty, EmptySeq
  <2>5. PICK f \in Text : f = FlattenSeq(ss)
    BY FlattenTyped DEF Text
  <2>6. f \o <<>> = f
    BY ConcatEmptySeq DEF Text
  <2> QED BY <2>1, <2>2, <2>4, <2>5, <2>6, Zenon
<1>3. CASE i # n
  <2>1. i \in 0 .. n - 1 /\ i + 1 \in 0 .. n
    BY <1>1, <1>3
  <2>2. /\ ss[i+1] \in Text
        /\ SubSeq(ss, 1, i + 1) = Append(Before(ss, i), ss[i+1])
        /\ Before(ss, i) \in Seq(Text)
    BY <1>1, <2>1, PrefixNext DEF Before
  <2>3. /\ SubSeq(ss, 1, i + 1) \in Seq(Text)
        /\ SubSeq(ss, i + 1 + 1, n) \in Seq(Text)
        /\ SubSeq(ss, 1, i + 1) \o SubSeq(ss, i + 1 + 1, n) = ss
    BY <1>1, <2>1, CutInTwo
  <2>4. After(ss, i) = SubSeq(ss, i + 1 + 1, n)
    <3>1. i + 2 = i + 1 + 1
      OBVIOUS
    <3> QED BY <1>1, <3>1 DEF After
  <2>5. SentenceAt(ss, i) = ss[i+1]
    BY <1>1, <1>3 DEF SentenceAt
  <2>6. FlattenSeq(SubSeq(ss, 1, i + 1) \o After(ss, i))
          = FlattenSeq(SubSeq(ss, 1, i + 1)) \o FlattenSeq(After(ss, i))
    BY <2>3, <2>4, FlattenConcat DEF Text
  <2>7. FlattenSeq(Append(Before(ss, i), ss[i+1])) = FlattenSeq(Before(ss, i)) \o ss[i+1]
    BY <2>2, FlattenAppend DEF Text
  <2> QED BY <2>2, <2>3, <2>4, <2>5, <2>6, <2>7, Zenon
<1> QED BY <1>2, <1>3

\* The sentences that insert_word_in_sentence leaves, all of them counted.
AllInserted(ss, i, w, content) ==
    LET s == SentenceAt(ss, i)
        p == Position(s, w)
    IN  ((Before(ss, i) \o Around(SubSeq(s, 1, p), content, SubSeq(s, p + 1, Len(s))))
           \o [k \in 1 .. Cardinality(Ends(content)) |-> <<>>])
          \o After(ss, i)

LEMMA InsertWordsIsAll ==
    \A ss, i, w, content :
        InsertWords(ss, i, w, content)
          = IF ss = << <<>> >> /\ i = 1 THEN Front(AllInserted(ss, i, w, content))
                                        ELSE AllInserted(ss, i, w, content)
BY DEF InsertWords, AllInserted, Before, After

LEMMA EndsCounted ==
    ASSUME NEW content \in Text
    PROVE  Cardinality(Ends(content)) \in Nat
<1>1. Len(content) \in Nat /\ Ends(content) \subseteq 1 .. Len(content)
  BY DEF Ends, Text
<1>2. IsFiniteSet(1 .. Len(content))
  BY <1>1, FS_Interval
<1>3. IsFiniteSet(Ends(content))
  BY <1>1, <1>2, FS_Subset
<1> QED BY <1>3, FS_CardinalityType

FlatConcatenates(ss, tt) == /\ ss \o tt \in Seq(Text)
                            /\ FlattenSeq(ss) \in Text /\ FlattenSeq(tt) \in Text
                            /\ FlattenSeq(ss \o tt) = FlattenSeq(ss) \o FlattenSeq(tt)

LEMMA TextsConcat == \A ss, tt \in Seq(Text) : FlatConcatenates(ss, tt)
<1> TAKE ss, tt \in Seq(Text)
<1>1. ss \o tt \in Seq(Text)
  BY ConcatProperties
<1>2. FlattenSeq(ss) \in Text /\ FlattenSeq(tt) \in Text
  BY FlattenTyped DEF Text
<1>3. FlattenSeq(ss \o tt) = FlattenSeq(ss) \o FlattenSeq(tt)
  BY FlattenConcat DEF Text
<1> QED BY <1>1, <1>2, <1>3, Zenon DEF FlatConcatenates

\* The content is in the middle of the sentence, which is in the middle of the file.
InTheMiddle(ss, i, w, content) ==
    \E pre, post \in Text :
        /\ SentenceAt(ss, i) = pre \o post
        /\ Len(Real(pre)) = w - 1
        /\ AllInserted(ss, i, w, content) \in Seq(Text)
        /\ FlattenSeq(AllInserted(ss, i, w, content))
             = (FlattenSeq(Before(ss, i)) \o ((pre \o content) \o post))
                  \o FlattenSeq(After(ss, i))

LEMMA AllInsertedFlat ==
    ASSUME NEW ss \in Seq(Text), NEW i, NEW w, NEW content \in Text, ValidPlace(ss, i, w)
    PROVE  InTheMiddle(ss, i, w, content)
<1>1. i \in 0 .. Len(ss)
  BY DEF ValidPlace
<1>2. PICK s \in Text, bb \in Seq(Text), aa \in Seq(Text) :
        s = SentenceAt(ss, i) /\ bb = Before(ss, i) /\ aa = After(ss, i)
  BY <1>1, SentenceApart
<1>3. PICK p \in 0 .. Len(s) : p = Position(s, w) /\ Len(Real(SubSeq(s, 1, p))) = w - 1
  <2>1. w \in 1 .. Len(Real(s)) + 1
    BY <1>2 DEF ValidPlace
  <2> QED BY <2>1, PositionSplits
<1>4. PICK pre \in Text, post \in Text :
        pre = SubSeq(s, 1, p) /\ post = SubSeq(s, p + 1, Len(s)) /\ pre \o post = s
  <2>1. /\ SubSeq(s, 1, p) \in Text /\ SubSeq(s, p + 1, Len(s)) \in Text
        /\ SubSeq(s, 1, p) \o SubSeq(s, p + 1, Len(s)) = s
    BY CutInTwo DEF Text
  <2> QED BY <2>1, Zenon
<1>5. PICK new \in Seq(Text) : /\ new = Around(pre, content, post)
                               /\ FlattenSeq(new) = (pre \o content) \o post
  BY AroundFlat
<1>6. PICK spare \in Seq(Text) :
        /\ spare = [k \in 1 .. Cardinality(Ends(content)) |-> <<>>]
        /\ FlattenSeq(spare) = <<>>
  BY EndsCounted, FlattenSpare DEF Text
<1>7. AllInserted(ss, i, w, content) = ((bb \o new) \o spare) \o aa
  BY <1>2, <1>3, <1>4, <1>5, <1>6, Zenon DEF AllInserted
<1>8. PICK u \in Seq(Text) : /\ u = bb \o new
                             /\ FlattenSeq(u) = FlattenSeq(bb) \o FlattenSeq(new)
                             /\ FlattenSeq(u) \in Text
  <2>1. FlatConcatenates(bb, new)
    BY TextsConcat, Zenon
  <2>2. FlattenSeq(bb \o new) \in Text
    BY <2>1, FlattenTyped DEF FlatConcatenates, Text
  <2> QED BY <2>1, <2>2, Zenon DEF FlatConcatenates
<1>9. PICK v \in Seq(Text) : /\ v = u \o spare
                             /\ FlattenSeq(v) = FlattenSeq(u)
  <2>1. FlatConcatenates(u, spare)
    BY TextsConcat, Zenon
  <2>2. FlattenSeq(u) \o <<>> = FlattenSeq(u)
    BY <1>8, ConcatEmptySeq DEF Text
  <2> QED BY <1>6, <2>1, <2>2, Zenon DEF FlatConcatenates
<1>10. v \o aa \in Seq(Text) /\ FlattenSeq(v \o aa) = FlattenSeq(v) \o FlattenSeq(aa)
  <2>1. FlatConcatenates(v, aa)
    BY TextsConcat, Zenon
  <2> QED BY <2>1, Zenon DEF FlatConcatenates
<1>11. /\ SentenceAt(ss, i) = pre \o post
       /\ Len(Real(pre)) = w - 1
       /\ AllInserted(ss, i, w, content) \in Seq(Text)
       /\ FlattenSeq(AllInserted(ss, i, w, content))
            = (FlattenSeq(Before(ss, i)) \o ((pre \o content) \o post))
                 \o FlattenSeq(After(ss, i))
  <2>1. SentenceAt(ss, i) = pre \o post /\ Len(Real(pre)) = w - 1
    BY <1>2, <1>3, <1>4, Zenon
  <2>2. AllInserted(ss, i, w, content) = v \o aa
    BY <1>7, <1>8, <1>9, Zenon
  <2>3. FlattenSeq(v) = FlattenSeq(bb) \o ((pre \o content) \o post)
    BY <1>5, <1>8, <1>9, Zenon
  <2> QED BY <1>2, <1>10, <2>1, <2>2, <2>3, Zenon
<1> QED BY <1>11, Zenon DEF InTheMiddle

\* What is in memory after a WRITE is again a list of texts.
LEMMA InsertWordsTyped ==
    ASSUME NEW ss \in Seq(Text), NEW i, NEW w, NEW content \in Text, ValidPlace(ss, i, w)
    PROVE  InsertWords(ss, i, w, content) \in Seq(Text)
<1>1. PICK all \in Seq(Text) : all = AllInserted(ss, i, w, content)
  BY AllInsertedFlat, Zenon DEF InTheMiddle
<1>2. Front(all) \in Seq(Text)
  <2>1. \A k \in 1 .. Len(all) - 1 : all[k] \in Text
    BY ElementOfSeq
  <2> QED BY <2>1, SubSeqProperties DEF Front
<1> QED BY <1>1, <1>2, InsertWordsIsAll, Zenon

\* The real tokens of a text in three parts, the middle one of two or of three parts.
RealInParts(x, u, v, y) ==
    Real((x \o (u \o v)) \o y) = (Real(x) \o (Real(u) \o Real(v))) \o Real(y)

LEMMA RealOfParts == \A x, u, v, y \in Text : RealInParts(x, u, v, y)
<1> TAKE x, u, v, y \in Text
<1>1. RealConcatenates(u, v)
  BY TextRealConcat, Zenon
<1>2. u \o v \in Text /\ Real(u \o v) = Real(u) \o Real(v)
  BY <1>1, Zenon DEF RealConcatenates
<1>3. RealConcatenates(x, u \o v)
  BY <1>2, TextRealConcat, Zenon
<1>4. x \o (u \o v) \in Text /\ Real(x \o (u \o v)) = Real(x) \o Real(u \o v)
  BY <1>3, Zenon DEF RealConcatenates
<1>5. RealConcatenates(x \o (u \o v), y)
  BY <1>4, TextRealConcat, Zenon
<1> QED BY <1>2, <1>4, <1>5, Zenon DEF RealConcatenates, RealInParts

\* The content after the first "at" words of the old ones.
InsertedAt(old, at, content) ==
    (SubSeq(old, 1, at) \o Real(content)) \o SubSeq(old, at + 1, Len(old))

InsertsInMemory(ss, i, w, content) ==
    \A old, at :
        old = Real(FlattenSeq(ss)) /\ at = Len(Real(FlattenSeq(SubSeq(ss, 1, i)))) + (w - 1) =>
            Real(FlattenSeq(InsertWords(ss, i, w, content))) = InsertedAt(old, at, content)

\* A WRITE (insert_word_in_sentence) puts the real tokens of its content in front
\* of the word it names, and moves no other, however it splits the sentence.
THEOREM InsertWordsReal ==
    ASSUME NEW ss \in Seq(Text), NEW i, NEW w, NEW content \in Text, ValidPlace(ss, i, w),
           ~(ss = << <<>> >> /\ i = 1)
    PROVE  InsertsInMemory(ss, i, w, content)
<1> SUFFICES ASSUME NEW before, NEW at,
                    before = Real(FlattenSeq(ss)),
                    at = Len(Real(FlattenSeq(SubSeq(ss, 1, i)))) + (w - 1)
             PROVE  Real(FlattenSeq(InsertWords(ss, i, w, content))) = InsertedAt(before, at, content)
  BY Zenon DEF InsertsInMemory
<1>0. InTheMiddle(ss, i, w, content)
  BY AllInsertedFlat
<1>1. PICK pre \in Text, post \in Text :
        /\ SentenceAt(ss, i) = pre \o post
        /\ Len(Real(pre)) = w - 1
        /\ AllInserted(ss, i, w, content) \in Seq(Text)
        /\ FlattenSeq(AllInserted(ss, i, w, content))
             = (FlattenSeq(Before(ss, i)) \o ((pre \o content) \o post))
                  \o FlattenSeq(After(ss, i))
  BY <1>0, Zenon DEF InTheMiddle
<1>2. PICK x \in Text, y \in Text :
        x = FlattenSeq(Before(ss, i)) /\ y = FlattenSeq(After(ss, i))
          /\ FlattenSeq(ss) = (x \o (pre \o post)) \o y
  <2>1. i \in 0 .. Len(ss)
    BY DEF ValidPlace
  <2>2. /\ Before(ss, i) \in Seq(Text) /\ After(ss, i) \in Seq(Text)
        /\ FlattenSeq(ss)
             = (FlattenSeq(Before(ss, i)) \o SentenceAt(ss, i)) \o FlattenSeq(After(ss, i))
    BY <2>1, SentenceApart
  <2>3. FlattenSeq(Before(ss, i)) \in Text /\ FlattenSeq(After(ss, i)) \in Text
    BY <2>2, FlattenTyped DEF Text
  <2> QED BY <1>1, <2>2, <2>3, Zenon
<1>3. PICK a \in Text, b \in Text, c \in Text, d \in Text, e \in Text :
        /\ a = Real(x) /\ b = Real(pre) /\ c = Real(content)
        /\ d = Real(post) /\ e = Real(y)
  BY RealTyped
<1>4. before = (a \o (b \o d)) \o e
  <2>1. RealInParts(x, pre, post, y)
    BY RealOfParts, Zenon
  <2> QED BY <1>2, <1>3, <2>1, Zenon DEF RealInParts
<1>5. Real(FlattenSeq(InsertWords(ss, i, w, content))) = (a \o ((b \o c) \o d)) \o e
  <2>1. InsertWords(ss, i, w, content) = AllInserted(ss, i, w, content)
    BY InsertWordsIsAll, Zenon
  <2>2. RealConcatenates(pre, content)
    BY TextRealConcat, Zenon
  <2>3. pre \o content \in Text /\ Real(pre \o content) = b \o c
    BY <1>3, <2>2, Zenon DEF RealConcatenates
  <2>4. RealInParts(x, pre \o content, post, y)
    BY <2>3, RealOfParts, Zenon
  <2> QED BY <1>1, <1>2, <1>3, <2>1, <2>3, <2>4, Zenon DEF RealInParts
<1>6. at = Len(a) + Len(b)
  BY <1>1, <1>2, <1>3, Zenon DEF Before
<1>7. Inserts(a, b, c, d, e)
  BY InsertBetween, Zenon
<1> QED BY <1>3, <1>4, <1>5, <1>6, <1>7, Zenon DEF Inserts, InsertedAt

\* The same of what is written back.
InsertsWords(ss, i, w, content) ==
    \A old, at :
        old = Real(FlattenSeq(ss)) /\ at = Len(Real(FlattenSeq(SubSeq(ss, 1, i)))) + (w - 1) =>
            Real(WriteBack(InsertWords(ss, i, w, content))) = InsertedAt(old, at, content)

LEMMA InsertedWritten ==
    ASSUME NEW ss \in Seq(Text), NEW i, NEW w, NEW content \in Text, ValidPlace(ss, i, w),
           ~(ss = << <<>> >> /\ i = 1)
    PROVE  InsertsWords(ss, i, w, content)
<1>1. InsertsInMemory(ss, i, w, content)
  BY InsertWordsReal, Zenon
<1>2. Real(WriteBack(InsertWords(ss, i, w, content))) = Real(FlattenSeq(InsertWords(ss, i, w, content)))
  BY InsertWordsTyped, WriteBackReal
<1> QED BY <1>1, <1>2, Zenon DEF InsertsInMemory, InsertsWords

-----------------------------------------------------------------------------
\* What one more token, or one more sentence, adds to what is written back.
LEMMA TokensOfMarks == Space \in Token /\ End \in Token /\ Newline \in Token
BY TokenAssumption DEF TokenAssumption

LEMMA Short ==
    ASSUME NEW a, NEW b
    PROVE  Append(<<a>>, b) = <<a, b>> /\ Append(<<>>, a) = <<a>>
<1>1. <<a, b>> = Append(<<a>>, b)
  OBVIOUS
<1>2. Append(<<>>, a) = <<a>>
  OBVIOUS
<1> QED BY <1>1, <1>2, Zenon

LEMMA HeadIsFirst == \A s : Head(s) = s[1]
OBVIOUS

LEMMA TextAppend ==
    ASSUME NEW s \in Text, NEW t \in Token
    PROVE  /\ Append(s, t) \in Text /\ Append(s, t) # <<>>
           /\ Append(s, t) = s \o <<t>> /\ <<t>> \in Text
           /\ Last(Append(s, t)) = t
<1>1. /\ Append(s, t) \in Text /\ Len(Append(s, t)) = Len(s) + 1 /\ Len(s) \in Nat
      /\ Append(s, t)[Len(s) + 1] = t
  BY AppendProperties DEF Text
<1>2. Append(s, t) = s \o <<t>> /\ <<t>> \in Text
  BY AppendIsConcat DEF Text
<1>3. Append(s, t) # <<>>
  BY AppendProperties DEF Text
<1> QED BY <1>1, <1>2, <1>3 DEF Last

\* The last piece of p gets x, and one more piece follows.
LEMMA PieceGrows ==
    ASSUME NEW p \in Seq(Text), NEW q \in Seq(Text), NEW x \in Text, p # <<>>,
           Len(q) = Len(p) + 1, \A k \in 1 .. Len(p) - 1 : q[k] = p[k],
           q[Len(p)] = p[Len(p)] \o x
    PROVE  FlattenSeq(q) = (FlattenSeq(p) \o x) \o q[Len(q)]
<1>1. PICK p0 \in Seq(Text), l \in Text : p = Append(p0, l)
  BY SequenceEmptyOrAppend
<1>2. /\ Len(p) = Len(p0) + 1 /\ Len(p0) \in Nat
      /\ \A k \in 1 .. Len(p0) : p[k] = p0[k]
      /\ p[Len(p0) + 1] = l
  BY <1>1, AppendProperties
<1>3. PICK q1 \in Seq(Text), r \in Text : q = Append(q1, r)
  <2>1. q # <<>>
    BY <1>2
  <2> QED BY <2>1, SequenceEmptyOrAppend
<1>4. /\ Len(q) = Len(q1) + 1 /\ Len(q1) = Len(p0) + 1
      /\ \A k \in 1 .. Len(q1) : q[k] = q1[k]
      /\ q[Len(q1) + 1] = r /\ q[Len(q)] = r
  BY <1>2, <1>3, AppendProperties
<1>5. PICK lx \in Text : lx = l \o x
  <2>1. Concatenates(l, x)
    BY TextConcat, Zenon
  <2> QED BY <2>1, Zenon DEF Concatenates
<1>6. q1 = Append(p0, lx)
  <2>1. /\ Append(p0, lx) \in Seq(Text) /\ Len(Append(p0, lx)) = Len(p0) + 1
        /\ \A k \in 1 .. Len(p0) : Append(p0, lx)[k] = p0[k]
        /\ Append(p0, lx)[Len(p0) + 1] = lx
    BY AppendProperties
  <2>2. \A k \in 1 .. Len(q1) : q1[k] = Append(p0, lx)[k]
    <3> TAKE k \in 1 .. Len(q1)
    <3>1. q[k] = q1[k]
      BY <1>4
    <3>2. CASE k \in 1 .. Len(p0)
      <4>1. q[k] = p[k] /\ p[k] = p0[k]
        BY <1>2, <3>2
      <4> QED BY <2>1, <3>1, <3>2, <4>1
    <3>3. CASE k = Len(p0) + 1
      <4>1. q[k] = p[Len(p)] \o x /\ p[Len(p)] = l
        BY <1>2, <3>3
      <4> QED BY <1>5, <2>1, <3>1, <3>3, <4>1
    <3> QED BY <1>2, <1>4, <3>2, <3>3
  <2> QED BY <1>4, <2>1, <2>2, SeqEqual
<1>7. PICK a \in Text, b \in Text, c \in Text :
        a = FlattenSeq(p0) /\ b = FlattenSeq(p) /\ c = FlattenSeq(q1)
  BY FlattenTyped DEF Text
<1>8. b = a \o l /\ c = a \o lx /\ FlattenSeq(q) = c \o r
  <2>1. FlattenSeq(Append(p0, l)) = FlattenSeq(p0) \o l
    BY FlattenAppend DEF Text
  <2>2. FlattenSeq(Append(p0, lx)) = FlattenSeq(p0) \o lx
    BY FlattenAppend DEF Text
  <2>3. FlattenSeq(Append(q1, r)) = FlattenSeq(q1) \o r
    BY FlattenAppend DEF Text
  <2> QED BY <1>1, <1>3, <1>6, <1>7, <2>1, <2>2, <2>3, Zenon
<1>9. Associates(a, l, x)
  BY TextAssoc, Zenon
<1> QED BY <1>4, <1>5, <1>7, <1>8, <1>9, Zenon DEF Associates

\* What a token adds behind token u of its sentence, and behind a sentence.
Apart(u, t)    == IF Regular(u) /\ Regular(t) THEN <<Space>> ELSE <<>>
Lead(front, s) == IF front = <<>> THEN <<>>
                  ELSE WriteBack(front) \o Separator(Last(front), s)

LEMMA SpacedOne == ASSUME NEW t \in Token PROVE Spaced(<<t>>) = <<t>>
<1>1. Gaps(<<t>>) = << <<t>> >>
  BY DEF Gaps
<1>2. <<>> \in Seq(Text) /\ <<t>> \in Text /\ << <<t>> >> = Append(<<>>, <<t>>)
  BY DEF Text
<1>3. FlattenSeq(<< <<t>> >>) = FlattenSeq(<<>>) \o <<t>>
  BY <1>2, FlattenAppend DEF Text
<1>4. <<>> \o <<t>> = <<t>>
  BY <1>2, ConcatEmptySeq DEF Text
<1> QED BY <1>1, <1>3, <1>4, FlattenEmpty, SpacedIsGaps, Zenon

LEMMA ApartTyped == \A u, t : Apart(u, t) \in Text
BY TokensOfMarks DEF Apart, Text

LEMMA SeparatorTyped == \A u, v : Separator(u, v) \in Text
BY TokensOfMarks DEF Separator, Text

\* The piece of a token, and of a sentence: the last one and another one.
LEMMA GapsAt ==
    ASSUME NEW s \in Text, NEW n, n = Len(s), NEW k \in 1 .. n
    PROVE  /\ k = n => Gaps(s)[k] = <<s[k]>>
           /\ k # n => Gaps(s)[k] = Gap(s[k], s[k+1])
<1>1. DOMAIN s = 1 .. n /\ n \in Nat
  BY DEF Text
<1> QED BY <1>1 DEF Gaps

LEMMA WrittenAt ==
    ASSUME NEW ss \in Seq(Text), NEW n, n = Len(ss), NEW k \in 1 .. n
    PROVE  /\ k = n => AllWritten(ss)[k] = Spaced(ss[k]) \o <<>>
           /\ k # n => AllWritten(ss)[k] = Spaced(ss[k]) \o Separator(ss[k], ss[k+1])
<1>1. DOMAIN ss = 1 .. n /\ n \in Nat
  OBVIOUS
<1>2. AllWritten(ss)[k] = Written(ss, k)
  BY <1>1 DEF AllWritten
<1>3. k = n => ~(k < Len(ss))
  BY <1>1
<1>4. k # n => k < Len(ss)
  BY <1>1
<1> QED BY <1>2, <1>3, <1>4, Zenon DEF Written

\* A text with one more token, as its length and its elements.
Extends(n, s, u, e) == /\ n = Len(s) /\ n \in Nat
                       /\ u = Append(s, e) /\ Len(u) = n + 1
                       /\ \A k \in 1 .. n : u[k] = s[k]
                       /\ u[n+1] = e

LEMMA AppendExtends ==
    ASSUME NEW S, NEW s \in Seq(S), NEW e \in S
    PROVE  \E n \in Nat, u \in Seq(S) : Extends(n, s, u, e) /\ (s # <<>> => n # 0)
<1>1. s # <<>> => Len(s) # 0
  BY EmptySeq
<1>2. /\ Append(s, e) \in Seq(S) /\ Len(s) \in Nat
      /\ Extends(Len(s), s, Append(s, e), e)
  BY AppendProperties DEF Extends
<1> QED BY <1>1, <1>2, Zenon

LEMMA GapAndApart ==
    ASSUME NEW t \in Token, NEW u PROVE Gap(t, u) = <<t>> \o Apart(t, u)
<1>1. <<t>> \o <<Space>> = <<t, Space>> /\ <<t>> \o <<>> = <<t>>
  <2>1. <<t>> \in Seq(Token) /\ Append(<<t>>, Space) = <<t, Space>>
    <3>1. <<t>> \in Seq(Token)
      OBVIOUS
    <3> QED BY <3>1, Short
  <2>2. <<t>> \o <<Space>> = Append(<<t>>, Space)
    BY <2>1, TokensOfMarks, AppendIsConcat
  <2>3. <<t>> \o <<>> = <<t>>
    BY <2>1, ConcatEmptySeq
  <2> QED BY <2>1, <2>2, <2>3, Zenon
<1> QED BY <1>1 DEF Gap, Apart

LEMMA SpacedAppend ==
    ASSUME NEW s \in Text, s # <<>>, NEW t \in Token
    PROVE  Spaced(Append(s, t)) = (Spaced(s) \o Apart(Last(s), t)) \o <<t>>
<1>1. PICK n \in Nat, u \in Text : Extends(n, s, u, t) /\ n # 0
  BY AppendExtends DEF Text
<1>2. PICK p \in Seq(Text), q \in Seq(Text) :
        p = Gaps(s) /\ q = Gaps(u) /\ Len(p) = n /\ Len(q) = n + 1
  BY <1>1, GapsTyped DEF Extends
<1>3. \A k \in 1 .. n - 1 : q[k] = p[k]
  <2> TAKE k \in 1 .. n - 1
  <2>1. k \in 1 .. n /\ k + 1 \in 1 .. n /\ k \in 1 .. n + 1 /\ k # n /\ k # n + 1
    OBVIOUS
  <2>2. u[k] = s[k] /\ u[k+1] = s[k+1] /\ n = Len(s) /\ n + 1 = Len(u)
    BY <1>1, <2>1 DEF Extends
  <2>3. Gaps(s)[k] = Gap(s[k], s[k+1])
    BY <2>1, <2>2, GapsAt
  <2>4. Gaps(u)[k] = Gap(u[k], u[k+1])
    BY <2>1, <2>2, GapsAt
  <2> QED BY <1>2, <2>2, <2>3, <2>4, Zenon
<1>4. q[n] = p[n] \o Apart(Last(s), t) /\ q[n+1] = <<t>>
  <2>1. /\ n \in 1 .. n /\ n \in 1 .. n + 1 /\ n + 1 \in 1 .. n + 1 /\ n # n + 1
        /\ n = Len(s) /\ n + 1 = Len(u) /\ u[n] = s[n] /\ u[n+1] = t
    BY <1>1 DEF Extends
  <2>2. Gaps(s)[n] = <<s[n]>>
    BY <2>1, GapsAt
  <2>3. Gaps(u)[n] = Gap(u[n], u[n+1])
    BY <2>1, GapsAt
  <2>4. Gaps(u)[n+1] = <<u[n+1]>>
    BY <2>1, GapsAt
  <2>5. Last(s) = s[n]
    BY <2>1 DEF Last
  <2>6. Gap(s[n], t) = <<s[n]>> \o Apart(s[n], t)
    <3>1. s[n] \in Token
      BY <2>1, ElementOfSeq DEF Text
    <3> QED BY <3>1, GapAndApart, Zenon
  <2> QED BY <1>2, <2>1, <2>2, <2>3, <2>4, <2>5, <2>6, Zenon
<1>5. p # <<>>
  BY <1>1, <1>2
<1>6. PICK x \in Text : x = Apart(Last(s), t)
  BY ApartTyped
<1>7. FlattenSeq(q) = (FlattenSeq(p) \o x) \o q[Len(q)]
  BY <1>2, <1>3, <1>4, <1>5, <1>6, PieceGrows
<1>8. u = Append(s, t)
  BY <1>1 DEF Extends
<1> QED BY <1>2, <1>4, <1>6, <1>7, <1>8, SpacedIsGaps, Zenon

LEMMA WriteBackAppend ==
    ASSUME NEW ss \in Seq(Text), NEW s \in Text
    PROVE  WriteBack(Append(ss, s)) = Lead(ss, s) \o Spaced(s)
<1>1. PICK n \in Nat, u \in Seq(Text) : Extends(n, ss, u, s) /\ (ss # <<>> => n # 0)
  BY AppendExtends
<1>2. PICK p \in Seq(Text), q \in Seq(Text) :
        p = AllWritten(ss) /\ q = AllWritten(u) /\ Len(p) = n /\ Len(q) = n + 1
  BY <1>1, AllWrittenTyped DEF Extends
<1>3. /\ n + 1 \in 1 .. n + 1 /\ n = Len(ss) /\ n + 1 = Len(u)
      /\ u[n+1] = s /\ u = Append(ss, s)
  BY <1>1 DEF Extends
<1>4. PICK w \in Text : w = Spaced(s) /\ w \o <<>> = w /\ <<>> \o w = w
  <2>1. Spaced(s) \in Text
    BY SpacedReal
  <2> QED BY <2>1, ConcatEmptySeq DEF Text
<1>5. q[n+1] = w
  <2>1. AllWritten(u)[n+1] = Spaced(u[n+1]) \o <<>>
    BY <1>3, WrittenAt
  <2> QED BY <1>2, <1>3, <1>4, <2>1, Zenon
<1>6. CASE ss = <<>>
  <2>1. n = 0
    BY <1>3, <1>6
  <2>2. q = Append(<<>>, w)
    <3>1. Append(<<>>, w) \in Seq(Text) /\ Len(Append(<<>>, w)) = 1 /\ Append(<<>>, w)[1] = w
      OBVIOUS
    <3>2. Len(q) = 1 /\ q[1] = w
      BY <1>2, <1>5, <2>1
    <3>3. \A k \in 1 .. Len(q) : q[k] = Append(<<>>, w)[k]
      BY <3>1, <3>2
    <3> QED BY <3>1, <3>2, <3>3, SeqEqual
  <2>3. FlattenSeq(Append(<<>>, w)) = FlattenSeq(<<>>) \o w
    <3>1. <<>> \in Seq(Text)
      OBVIOUS
    <3> QED BY <3>1, FlattenAppend DEF Text
  <2>4. Lead(ss, s) = <<>>
    BY <1>6 DEF Lead
  <2> QED BY <1>2, <1>3, <1>4, <2>2, <2>3, <2>4, FlattenEmpty, WriteBackIsWritten, Zenon
<1>7. CASE ss # <<>>
  <2>1. n # 0 /\ p # <<>>
    BY <1>1, <1>2, <1>7
  <2>2. PICK x \in Text : x = Separator(Last(ss), s)
    BY SeparatorTyped
  <2>3. \A k \in 1 .. n - 1 : q[k] = p[k]
    <3> TAKE k \in 1 .. n - 1
    <3>1. k \in 1 .. n /\ k + 1 \in 1 .. n /\ k \in 1 .. n + 1 /\ k # n /\ k # n + 1
      OBVIOUS
    <3>2. u[k] = ss[k] /\ u[k+1] = ss[k+1]
      BY <1>1, <3>1 DEF Extends
    <3>3. AllWritten(ss)[k] = Spaced(ss[k]) \o Separator(ss[k], ss[k+1])
      BY <1>3, <3>1, WrittenAt
    <3>4. AllWritten(u)[k] = Spaced(u[k]) \o Separator(u[k], u[k+1])
      <4>1. PICK m : m = n + 1 /\ m = Len(u) /\ k \in 1 .. m /\ k # m
        BY <1>3, <3>1
      <4> QED BY <4>1, WrittenAt, Zenon
    <3> QED BY <1>2, <3>2, <3>3, <3>4, Zenon
  <2>4. q[n] = p[n] \o x
    <3>1. n \in 1 .. n /\ n \in 1 .. n + 1 /\ u[n] = ss[n] /\ Last(ss) = ss[n] /\ n # n + 1
      BY <1>1, <2>1 DEF Last, Extends
    <3>2. ss[n] \in Text
      BY <1>3, <3>1, ElementOfSeq
    <3>3. PICK v \in Text : v = Spaced(ss[n]) /\ v \o <<>> = v
      <4>1. Spaced(ss[n]) \in Text
        BY <3>2, SpacedReal
      <4> QED BY <4>1, ConcatEmptySeq DEF Text
    <3>4. AllWritten(ss)[n] = Spaced(ss[n]) \o <<>>
      BY <1>3, <3>1, WrittenAt
    <3>5. AllWritten(u)[n] = Spaced(u[n]) \o Separator(u[n], u[n+1])
      BY <1>3, <3>1, WrittenAt
    <3> QED BY <1>2, <1>3, <2>2, <3>1, <3>3, <3>4, <3>5, Zenon
  <2>5. FlattenSeq(q) = (FlattenSeq(p) \o x) \o q[Len(q)]
    BY <1>2, <2>1, <2>3, <2>4, PieceGrows
  <2>6. Lead(ss, s) = WriteBack(ss) \o x
    BY <1>7, <2>2 DEF Lead
  <2> QED BY <1>2, <1>3, <1>4, <1>5, <2>5, <2>6, WriteBackIsWritten, Zenon
<1> QED BY <1>6, <1>7

-----------------------------------------------------------------------------
\* A text written back, and one that is read and written back.
Rewritten(f) == WriteBack(Parse(f))

\* What token t adds to what is written back when u is the token before it.
Added(u, t) == IF u = End THEN (IF Blank(t) THEN <<t>> ELSE <<Space, t>>)
               ELSE IF u = Space /\ t = Space THEN <<>>
               ELSE IF Regular(u) /\ Regular(t) THEN <<Space, t>> ELSE <<t>>

Grown(g, t) == IF g = <<>> THEN <<t>> ELSE g \o Added(Last(g), t)

LEMMA TwoTokens ==
    ASSUME NEW t \in Token
    PROVE  <<Space>> \o <<t>> = <<Space, t>> /\ <<>> \o <<t>> = <<t>>
           /\ <<Space>> \in Text /\ <<t>> \in Text /\ <<>> \in Text /\ <<Space, t>> \in Text
<1>1. /\ <<Space>> \in Text /\ <<t>> \in Text /\ <<>> \in Text
      /\ <<Space, t>> \in Text /\ Append(<<Space>>, t) = <<Space, t>>
  <2>1. <<Space>> \in Text /\ <<t>> \in Text /\ <<>> \in Text
    BY TokensOfMarks DEF Text
  <2>2. Append(<<Space>>, t) \in Text
    BY <2>1, AppendProperties DEF Text
  <2>3. Append(<<Space>>, t) = <<Space, t>>
    BY Short, Zenon
  <2> QED BY <2>1, <2>2, <2>3, Zenon
<1>2. Append(<<Space>>, t) = <<Space>> \o <<t>>
  BY <1>1, AppendIsConcat DEF Text
<1>3. <<>> \o <<t>> = <<t>>
  BY <1>1, ConcatEmptySeq DEF Text
<1> QED BY <1>1, <1>2, <1>3, Zenon

\* What is written of a text in memory ends with its last token.
LEMMA SpacedEnds ==
    ASSUME NEW s \in Text, s # <<>>
    PROVE  \E x \in Text, l \in Token : Last(s) = l /\ Spaced(s) = x \o <<l>>
<1>1. PICK r \in Text, l \in Token : s = Append(r, l)
  BY SequenceEmptyOrAppend DEF Text
<1>2. Last(s) = l
  BY <1>1, TextAppend, Zenon
<1>3. CASE r = <<>>
  <2>1. s = <<l>>
    BY <1>1, <1>3
  <2>2. Spaced(<<l>>) = <<l>>
    BY SpacedOne
  <2> QED BY <1>2, <2>1, <2>2, TwoTokens, Zenon
<1>4. CASE r # <<>>
  <2>1. PICK w \in Text, a \in Text : w = Spaced(r) /\ a = Apart(Last(r), l)
    <3>1. Spaced(r) \in Text
      BY SpacedReal
    <3> QED BY <3>1, ApartTyped, Zenon
  <2>2. PICK x \in Text : x = w \o a
    <3>1. Concatenates(w, a)
      BY TextConcat, Zenon
    <3> QED BY <3>1, Zenon DEF Concatenates
  <2>3. Spaced(Append(r, l)) = (Spaced(r) \o Apart(Last(r), l)) \o <<l>>
    BY <1>4, SpacedAppend
  <2> QED BY <1>1, <1>2, <2>1, <2>2, <2>3, Zenon
<1> QED BY <1>3, <1>4

LEMMA LeadTyped ==
    ASSUME NEW ss \in Seq(Text), NEW s PROVE Lead(ss, s) \in Text
<1>1. PICK x \in Text, y \in Text : x = WriteBack(ss) /\ y = Separator(Last(ss), s)
  BY WriteBackReal, SeparatorTyped
<1>2. Concatenates(x, y)
  BY TextConcat, Zenon
<1>3. <<>> \in Text
  BY DEF Text
<1> QED BY <1>1, <1>2, <1>3, Zenon DEF Concatenates, Lead

LEMMA WriteBackEnds ==
    ASSUME NEW front \in Seq(Text), NEW s \in Text, s # <<>>
    PROVE  \E x \in Text, l \in Token : Last(s) = l /\ WriteBack(Append(front, s)) = Append(x, l)
<1>1. PICK x \in Text, l \in Token : Last(s) = l /\ Spaced(s) = x \o <<l>>
  BY SpacedEnds
<1>2. PICK y \in Text : y = Lead(front, s)
  BY LeadTyped
<1>3. WriteBack(Append(front, s)) = Lead(front, s) \o Spaced(s)
  BY WriteBackAppend
<1>4. PICK z \in Text : z = y \o x
  <2>1. Concatenates(y, x)
    BY TextConcat, Zenon
  <2> QED BY <2>1, Zenon DEF Concatenates
<1>5. Associates(y, x, <<l>>) /\ Append(z, l) = z \o <<l>>
  <2>1. <<l>> \in Text
    BY TwoTokens
  <2>2. Append(z, l) = z \o <<l>>
    BY TextAppend
  <2> QED BY <2>1, <2>2, TextAssoc, Zenon
<1> QED BY <1>1, <1>2, <1>3, <1>4, <1>5, Zenon DEF Associates

\* The cases of a token behind a sentence s that is written as z.
LEMMA AddedStep ==
    ASSUME NEW t \in Token, NEW front \in Sentences, NEW s \in Text, s # <<>>,
           NEW g \in Text, g = WriteBack(Append(front, s))
    PROVE  WriteBack(Feed[t][Append(front, s)]) = g \o Added(Last(s), t)
<1>1. /\ front \in Seq(Text) /\ Append(front, s) \in Seq(Text) /\ <<t>> \in Text
      /\ Append(front, s) # <<>> /\ Last(Append(front, s)) = s /\ Append(s, t) \in Text
  <2>1. /\ front \in Seq(Text) /\ Append(front, s) \in Seq(Text)
        /\ Len(Append(front, s)) = Len(front) + 1 /\ Append(front, s) # <<>>
        /\ Append(front, s)[Len(front) + 1] = s
    BY AppendProperties DEF Sentences
  <2> QED BY <2>1, TwoTokens, TextAppend DEF Last
<1>2. g = Lead(front, s) \o Spaced(s)
  BY <1>1, WriteBackAppend, Zenon
<1>3. CASE Last(s) = End /\ Feed[t][Append(front, s)] = Append(Append(front, s), <<t>>)
  <2>1. WriteBack(Append(Append(front, s), <<t>>)) = Lead(Append(front, s), <<t>>) \o Spaced(<<t>>)
    BY <1>1, WriteBackAppend, Zenon
  <2>2. Lead(Append(front, s), <<t>>) = g \o Separator(s, <<t>>)
    BY <1>1, Zenon DEF Lead
  <2>3. PICK x \in Text : x = Separator(s, <<t>>)
    BY SeparatorTyped
  <2>4. Associates(g, x, <<t>>)
    BY <1>1, TextAssoc, Zenon
  <2>5. Separator(s, <<t>>) \o <<t>> = Added(Last(s), t)
    <3>1. Separator(s, <<t>>) = IF Blank(t) THEN <<>> ELSE <<Space>>
      <4>1. Head(<<t>>) = t /\ <<t>> # <<>>
        OBVIOUS
      <4>2. Last(s) = End /\ s # <<>> /\ ~Blank(End)
        BY <1>3 DEF Blank, End, Space, Newline
      <4> QED BY <4>1, <4>2, Zenon DEF Separator
    <3>2. Added(Last(s), t) = IF Blank(t) THEN <<t>> ELSE <<Space, t>>
      BY <1>3 DEF Added
    <3> QED BY <3>1, <3>2, TwoTokens, Zenon
  <2>6. Spaced(<<t>>) = <<t>>
    BY SpacedOne
  <2> QED BY <1>3, <2>1, <2>2, <2>3, <2>4, <2>5, <2>6, Zenon DEF Associates
<1>4. CASE Last(s) = Space /\ t = Space /\ Feed[t][Append(front, s)] = Append(front, s)
  <2>1. Added(Last(s), t) = <<>>
    BY <1>4 DEF Added, Space, End
  <2>2. g \o <<>> = g
    BY ConcatEmptySeq DEF Text
  <2> QED BY <1>4, <2>1, <2>2, Zenon
<1>5. CASE /\ Last(s) # End /\ ~(Last(s) = Space /\ t = Space)
           /\ Feed[t][Append(front, s)] = Append(front, Append(s, t))
  <2>1. WriteBack(Append(front, Append(s, t))) = Lead(front, Append(s, t)) \o Spaced(Append(s, t))
    BY <1>1, WriteBackAppend, Zenon
  <2>2. Lead(front, Append(s, t)) = Lead(front, s)
    <3>1. Head(Append(s, t)) = Head(s) /\ Append(s, t) # <<>>
      <4>1. /\ Len(s) \in Nat /\ Len(s) # 0
            /\ \A k \in 1 .. Len(s) : Append(s, t)[k] = s[k]
        BY AppendProperties, EmptySeq DEF Text
      <4>2. 1 \in 1 .. Len(s)
        BY <4>1
      <4>3. Append(s, t)[1] = s[1]
        BY <4>1, <4>2
      <4>4. Append(s, t) # <<>>
        BY TextAppend
      <4>5. Head(Append(s, t)) = Append(s, t)[1] /\ Head(s) = s[1]
        BY HeadIsFirst, Zenon
      <4> QED BY <4>3, <4>4, <4>5, Zenon
    <3>2. \A u : Separator(u, Append(s, t)) = Separator(u, s)
      BY <3>1, Zenon DEF Separator
    <3> QED BY <3>2, Zenon DEF Lead
  <2>3. Spaced(Append(s, t)) = (Spaced(s) \o Apart(Last(s), t)) \o <<t>>
    BY SpacedAppend
  <2>4. PICK l \in Text, w \in Text, a \in Text :
          l = Lead(front, s) /\ w = Spaced(s) /\ a = Apart(Last(s), t)
    <3>1. Lead(front, s) \in Text /\ Spaced(s) \in Text /\ Apart(Last(s), t) \in Text
      BY <1>1, LeadTyped, SpacedReal, ApartTyped
    <3> QED BY <3>1
  <2>5. PICK at \in Text : at = a \o <<t>>
    <3>1. Concatenates(a, <<t>>)
      BY <1>1, TextConcat, Zenon
    <3> QED BY <3>1, Zenon DEF Concatenates
  <2>6. Associates(w, a, <<t>>) /\ Associates(l, w, at)
    BY <1>1, TextAssoc, Zenon
  <2>7. at = Added(Last(s), t)
    <3>1. Added(Last(s), t) = IF Regular(Last(s)) /\ Regular(t) THEN <<Space, t>> ELSE <<t>>
      BY <1>5, Zenon DEF Added
    <3> QED BY <2>4, <2>5, <3>1, TwoTokens, Zenon DEF Apart
  <2> QED BY <1>2, <1>5, <2>1, <2>2, <2>3, <2>4, <2>5, <2>6, <2>7, Zenon DEF Associates
<1> QED BY <1>3, <1>4, <1>5, FeedStep

\* Reading one more token and writing back adds to what was written back before.
LEMMA RewriteGrows ==
    ASSUME NEW f \in Text, NEW t \in Token
    PROVE  /\ Rewritten(f) \in Text
           /\ Rewritten(Append(f, t)) = Grown(Rewritten(f), t)
<1>1. PICK ss \in Sentences : ss = Parse(f)
  BY ParseReal
<1>2. ss \in Seq(Text)
  BY DEF Sentences
<1>3. PICK g \in Text : g = WriteBack(ss)
  BY <1>2, WriteBackReal
<1>4. Parse(Append(f, t)) = Feed[t][ss]
  BY <1>1, ParseAppend, Zenon
<1>5. CASE ss = <<>>
  <2>1. Feed[t][<<>>] = << <<t>> >>
    BY FeedFirst
  <2>2. <<>> \in Seq(Text) /\ << <<t>> >> = Append(<<>>, <<t>>) /\ <<t>> \in Text
    <3>1. <<>> \in Seq(Text)
      OBVIOUS
    <3> QED BY <3>1, TwoTokens, Short, Zenon
  <2>3. WriteBack(Append(<<>>, <<t>>)) = Lead(<<>>, <<t>>) \o Spaced(<<t>>)
    BY <2>2, WriteBackAppend, Zenon
  <2>4. Lead(<<>>, <<t>>) = <<>> /\ Spaced(<<t>>) = <<t>>
    BY SpacedOne DEF Lead
  <2>5. AllWritten(<<>>) = <<>>
    BY DEF AllWritten
  <2>6. WriteBack(<<>>) = <<>>
    BY <2>5, WriteBackIsWritten, FlattenEmpty, Zenon
  <2>7. Grown(<<>>, t) = <<t>>
    BY DEF Grown
  <2> QED BY <1>1, <1>3, <1>4, <1>5, <2>1, <2>2, <2>3, <2>4, <2>6, <2>7, TwoTokens, Zenon DEF Rewritten
<1>6. CASE ss # <<>>
  <2>1. PICK front \in Sentences, s \in Text : s # <<>> /\ ss = Append(front, s)
    BY <1>6, SentencesLast
  <2>2. front \in Seq(Text)
    BY DEF Sentences
  <2>3. PICK x \in Text, l \in Token :
          Last(s) = l /\ WriteBack(Append(front, s)) = Append(x, l)
    BY <2>1, <2>2, WriteBackEnds
  <2>4. g # <<>> /\ Last(g) = l
    <3>1. g = Append(x, l)
      BY <1>3, <2>1, <2>3, Zenon
    <3>2. Append(x, l) # <<>> /\ Last(Append(x, l)) = l
      BY TextAppend, Zenon
    <3> QED BY <3>1, <3>2, Zenon
  <2>5. WriteBack(Feed[t][Append(front, s)]) = g \o Added(Last(s), t)
    BY <1>3, <2>1, AddedStep
  <2> QED BY <1>1, <1>3, <1>4, <2>1, <2>3, <2>4, <2>5, Zenon DEF Rewritten, Grown
<1> QED BY <1>5, <1>6

\* A text that reading and writing back leaves as it is stays so when it grows.
LEMMA StableGrows ==
    ASSUME NEW g \in Text, NEW t \in Token, Rewritten(g) = g
    PROVE  Grown(g, t) \in Text /\ Rewritten(Grown(g, t)) = Grown(g, t)
<1>1. Append(g, t) \in Text /\ Append(g, t) = g \o <<t>> /\ Append(g, Space) = g \o <<Space>>
  BY TextAppend, TokensOfMarks
<1>2. Rewritten(Append(g, t)) = Grown(g, t) /\ Rewritten(Append(g, Space)) = Grown(g, Space)
  BY RewriteGrows, TokensOfMarks, Zenon
<1>3. CASE g = <<>>
  <2>1. Append(<<>>, t) = <<t>>
    OBVIOUS
  <2> QED BY <1>1, <1>2, <1>3, <2>1, Zenon DEF Grown
<1>4. CASE g # <<>> /\ Added(Last(g), t) = <<>>
  <2>1. g \o <<>> = g
    BY ConcatEmptySeq DEF Text
  <2> QED BY <1>4, <2>1, Zenon DEF Grown
<1>5. CASE g # <<>> /\ Added(Last(g), t) = <<t>>
  BY <1>1, <1>2, <1>5, Zenon DEF Grown
<1>6. CASE g # <<>> /\ Added(Last(g), t) = <<Space, t>> /\ ~Blank(t) /\ Last(g) # Space
  <2>1. Added(Last(g), Space) = <<Space>>
    BY <1>6 DEF Added, Blank, Regular, Space, End, Newline
  <2>2. PICK h \in Text : h = Append(g, Space) /\ h # <<>> /\ Last(h) = Space
    BY TextAppend, TokensOfMarks
  <2>3. Rewritten(h) = h
    BY <1>1, <1>2, <1>6, <2>1, <2>2, Zenon DEF Grown
  <2>4. Rewritten(Append(h, t)) = Grown(h, t)
    BY <2>3, RewriteGrows, Zenon
  <2>5. Added(Space, t) = <<t>>
    BY <1>6 DEF Added, Blank, Regular, Space, End, Newline
  <2>6. Append(h, t) = h \o <<t>> /\ Append(h, t) \in Text
    BY TextAppend
  <2>7. Grown(h, t) = h \o <<t>>
    BY <2>2, <2>5, Zenon DEF Grown
  <2>8. Associates(g, <<Space>>, <<t>>)
    BY TextAssoc, TwoTokens, Zenon
  <2>9. Grown(g, t) = g \o <<Space, t>>
    BY <1>6, Zenon DEF Grown
  <2> QED BY <1>1, <2>2, <2>4, <2>6, <2>7, <2>8, <2>9, TwoTokens, Zenon DEF Associates
<1>7. \/ Added(Last(g), t) \in {<<>>, <<t>>}
      \/ Added(Last(g), t) = <<Space, t>> /\ ~Blank(t) /\ Last(g) # Space
  BY DEF Added, Blank, Regular, Space, End, Newline
<1> QED BY <1>3, <1>4, <1>5, <1>6, <1>7, Zenon

\* Reading a file and writing it back (parse_file, write_file_content) a second
\* time changes nothing: what the first time has added or dropped is all there is.
THEOREM RewrittenOnce ==
    \A f \in Text : Rewritten(f) \in Text /\ Rewritten(Rewritten(f)) = Rewritten(f)
<1> DEFINE P == {f \in Text : Rewritten(f) \in Text /\ Rewritten(Rewritten(f)) = Rewritten(f)}
<1>1. <<>> \in P
  <2>1. AllWritten(<<>>) = <<>> /\ <<>> \in Text
    BY DEF AllWritten, Text
  <2>2. Rewritten(<<>>) = <<>>
    BY <2>1, WriteBackIsWritten, FlattenEmpty, ParseEmpty, Zenon DEF Rewritten
  <2> QED BY <2>1, <2>2, Zenon
<1>2. ASSUME NEW f \in Seq(Token), NEW t \in Token, f \in P PROVE Append(f, t) \in P
  <2>1. f \in Text /\ Append(f, t) \in Text
    BY <1>2, TextAppend
  <2>2. PICK g \in Text : g = Rewritten(f) /\ Rewritten(g) = g
    BY <1>2, Zenon
  <2>3. Rewritten(Append(f, t)) = Grown(g, t)
    BY <2>1, <2>2, RewriteGrows, Zenon
  <2>4. Grown(g, t) \in Text /\ Rewritten(Grown(g, t)) = Grown(g, t)
    BY <2>2, StableGrows
  <2> QED BY <2>1, <2>3, <2>4, Zenon
<1>3. Seq(Token) \subseteq P
  <2> HIDE DEF P
  <2> QED BY <1>1, <1>2, SeqInduction
<1> QED BY <1>3 DEF Text

-----------------------------------------------------------------------------
\* What is in memory, and what is merged, is made of texts.
LEMMA WordsTyped == \A s \in Text : WordsIn(s) \subseteq Token
<1> TAKE s \in Text
<1>1. \A k \in DOMAIN s : s[k] \in Token
  BY ElementOfSeq DEF Text
<1>2. ToSet(s) = {s[k] : k \in DOMAIN s}
  BY DEF ToSet
<1> QED BY <1>1, <1>2 DEF WordsIn

LEMMA ParseTyped == \A f \in Text : Parse(f) \in Seq(Text) /\ Len(Parse(f)) \in Nat
BY ParseReal DEF Sentences

LEMMA PartTyped ==
    ASSUME NEW S, NEW s \in Seq(S), NEW a \in Nat \ {0}, NEW b \in Int, b <= Len(s)
    PROVE  SubSeq(s, a, b) \in Seq(S)
<1>1. \A i \in a .. b : s[i] \in S
  BY ElementOfSeq
<1> QED BY <1>1, SubSeqProperties

LEMMA LeastBelow == \A a, b \in Int : Least(a, b) \in Int /\ Least(a, b) <= b
BY DEF Least

LEMMA MergeableAt ==
    ASSUME NEW main, NEW i, NEW orig, Mergeable(main, i, orig)
    PROVE  \/ Len(Parse(main)) = 0
           \/ AdjustedIndex(main, i, orig) \in 0 .. Len(Parse(main)) - 1
BY DEF Mergeable

LEMMA MergeTyped ==
    ASSUME NEW main \in Text, NEW temp \in Text, NEW i \in Nat, NEW orig \in Nat,
           Mergeable(main, i, orig)
    PROVE  Merge(main, temp, i, orig) \in Text
<1>1. PICK m \in Seq(Text), t \in Seq(Text), n \in Nat, k \in Nat :
        m = Parse(main) /\ t = Parse(temp) /\ n = Len(m) /\ k = Len(t)
  BY ParseTyped
<1>2. PICK at \in Int : at = AdjustedIndex(main, i, orig)
  <2>1. Len(Parse(main)) = n
    BY <1>1, Zenon
  <2>2. i + (n - orig) \in Int
    OBVIOUS
  <2> QED BY <2>1, <2>2, Zenon DEF AdjustedIndex
<1>3. CASE m = <<>>
  BY <1>1, <1>3, WriteBackReal DEF Merge
<1>4. CASE m # <<>>
  <2>1. n # 0
    BY <1>1, <1>4, EmptySeq
  <2>2. at \in 0 .. n - 1
    <3>1. Len(Parse(main)) = n
      BY <1>1
    <3>2. \/ Len(Parse(main)) = 0
          \/ AdjustedIndex(main, i, orig) \in 0 .. Len(Parse(main)) - 1
      BY MergeableAt, Zenon
    <3> QED BY <1>2, <2>1, <3>1, <3>2, Zenon
  <2>3. PICK e \in Int : e = Least(i + 1 + (k - orig), k) /\ e <= k
    <3>1. i + 1 + (k - orig) \in Int /\ k \in Int
      OBVIOUS
    <3> QED BY <3>1, LeastBelow, Zenon
  <2>4. /\ SubSeq(m, 1, at) \in Seq(Text) /\ SubSeq(t, i + 1, e) \in Seq(Text)
        /\ SubSeq(m, at + 2, n) \in Seq(Text)
    <3>1. at <= Len(m) /\ at \in Int /\ n <= Len(m) /\ e <= Len(t) /\ n \in Int
          /\ i + 1 \in Nat \ {0} /\ at + 2 \in Nat \ {0} /\ 1 \in Nat \ {0}
      BY <1>1, <2>2, <2>3
    <3>2. SubSeq(m, 1, at) \in Seq(Text)
      BY <3>1, PartTyped
    <3>3. SubSeq(t, i + 1, e) \in Seq(Text)
      BY <3>1, PartTyped
    <3>4. SubSeq(m, at + 2, n) \in Seq(Text)
      BY <3>1, PartTyped
    <3> QED BY <3>2, <3>3, <3>4
  <2>5. PICK a \in Seq(Text), b \in Seq(Text), c \in Seq(Text) :
          a = SubSeq(m, 1, at) /\ b = SubSeq(t, i + 1, e) /\ c = SubSeq(m, at + 2, n)
    BY <2>4
  <2>6. PICK ab \in Seq(Text) : ab = a \o b
    BY ConcatProperties
  <2>7. PICK abc \in Seq(Text) : abc = ab \o c
    BY ConcatProperties
  <2>8. Merge(main, temp, i, orig) = WriteBack(abc)
    BY <1>1, <1>2, <1>4, <2>3, <2>5, <2>6, <2>7, Zenon DEF Merge
  <2> QED BY <2>8, WriteBackReal, Zenon
<1> QED BY <1>3, <1>4

=============================================================================
