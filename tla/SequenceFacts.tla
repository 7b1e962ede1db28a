---------------------------- MODULE SequenceFacts ----------------------------
(***************************************************************************)
(* What the proofs about bytes and about configurations need to know of    *)
(* sequences, first of all of FlattenSeq.  Where this takes induction, it  *)
(* goes by the least number for which a formula is false.                  *)
(***************************************************************************)
EXTENDS Integers, Sequences, SequencesExt, TLAPS, SequenceTheorems, WellFoundedInduction

-----------------------------------------------------------------------------
(* Numbers and sequences.                                                  *)

LEMMA LeastNumber ==
  ASSUME NEW I \in SUBSET Nat, I # {}
  PROVE  \E x \in I : \A y \in I : x <= y
<1> DEFINE Less == {ss \in Nat \X Nat : ss[1] < ss[2]}
<1>1. IsWellFoundedOn(Less, Nat)
  BY NatLessThanWellFounded DEF OpToRel
<1> HIDE DEF Less
<1>2. PICK x \in I : \A y \in I : ~ (<<y, x>> \in Less)
  BY <1>1, WFMin
<1>3. ASSUME NEW y \in I PROVE x <= y
  <2>1. x \in Nat /\ y \in Nat
    OBVIOUS
  <2>2. y < x => <<y, x>> \in Less
    BY <2>1 DEF Less
  <2> QED BY <1>2, <2>1, <2>2
<1> QED BY <1>3

LEMMA SeqOfFunction ==
  ASSUME NEW S, NEW n \in Nat, NEW f \in [1 .. n -> S]
  PROVE  f \in Seq(S) /\ Len(f) = n
<1>1. f \in Seq(S)
  BY SeqDef
<1>2. DOMAIN f = 1 .. Len(f) /\ Len(f) \in Nat
  BY <1>1, LenProperties
<1> QED BY <1>1, <1>2

LEMMA SubSeqType ==
  ASSUME NEW S, NEW s \in Seq(S), NEW m \in Nat, NEW n \in Nat, 1 <= m, n <= Len(s)
  PROVE  SubSeq(s, m, n) \in Seq(S) /\ Len(SubSeq(s, m, n)) = IF m <= n THEN n - m + 1 ELSE 0
<1>1. \A i \in m .. n : s[i] \in S
  BY LenProperties, ElementOfSeq
<1> QED BY <1>1, SubSeqProperties

-----------------------------------------------------------------------------
(* FlattenSeq.                                                             *)

\* The running concatenations of the first n elements of a sequence.
Running(ss, n, f) == f = [i \in 1 .. n |-> IF i = 1 THEN ss[i] ELSE f[i - 1] \o ss[i]]

LEMMA RunningExists ==
  ASSUME NEW ss, NEW n \in Nat
  PROVE  \E f : Running(ss, n, f)
<1> DEFINE I == {m \in Nat : ~ \E f : Running(ss, m, f)}
<1> SUFFICES ASSUME n \in I PROVE FALSE
  OBVIOUS
<1>1. I \in SUBSET Nat /\ I # {}
  OBVIOUS
<1> HIDE DEF I
<1>2. PICK m \in I : \A k \in I : m <= k
  BY <1>1, LeastNumber
<1>3. m \in Nat /\ ~ \E f : Running(ss, m, f)
  BY <1>2 DEF I
<1>4. m # 0
  <2>1. \A f : f = [i \in 1 .. 0 |-> 0] => f = [i \in 1 .. 0 |-> IF i = 1 THEN ss[i] ELSE f[i - 1] \o ss[i]]
    OBVIOUS
  <2>2. Running(ss, 0, [i \in 1 .. 0 |-> 0])
    BY <2>1 DEF Running
  <2> QED BY <1>3, <2>2
<1>5. m - 1 \in Nat /\ m - 1 \notin I
  BY <1>2, <1>3, <1>4
<1>6. PICK g : Running(ss, m - 1, g)
  BY <1>5 DEF I
<1>7. PICK f : f = [i \in 1 .. m |-> IF i < m THEN g[i] ELSE IF m = 1 THEN ss[m] ELSE g[m - 1] \o ss[m]]
  OBVIOUS
<1>8. \A i \in 1 .. m - 1 : g[i] = IF i = 1 THEN ss[i] ELSE g[i - 1] \o ss[i]
  BY <1>6 DEF Running
<1>9. \A i \in 1 .. m - 1 : f[i] = g[i]
  BY <1>3, <1>7
<1>10. ASSUME NEW i \in 1 .. m PROVE f[i] = IF i = 1 THEN ss[i] ELSE f[i - 1] \o ss[i]
  <2>1. i # 1 => i - 1 \in 1 .. m - 1
    BY <1>3
  <2>2. CASE i < m
    <3>1. i \in 1 .. m - 1
      BY <1>3, <2>2
    <3> QED BY <1>8, <1>9, <2>1, <3>1
  <2>3. CASE i = m
    BY <1>3, <1>7, <1>9, <2>1, <2>3
  <2> QED BY <1>3, <2>2, <2>3
<1>11. Running(ss, m, f)
  <2>1. f = [i \in 1 .. m |-> f[i]]
    BY <1>7
  <2> QED BY <1>10, <2>1 DEF Running
<1> QED BY <1>3, <1>11

LEMMA RunningSame ==
  ASSUME NEW ss, NEW tt, NEW m \in Nat, NEW n \in Nat, NEW f, NEW g,
         Running(ss, m, f), Running(tt, n, g),
         NEW k \in Nat \ {0}, k <= m, k <= n, \A i \in 1 .. k : ss[i] = tt[i]
  PROVE  f[k] = g[k]
<1> DEFINE I == {i \in 1 .. k : f[i] # g[i]}
<1> SUFFICES ASSUME I # {} PROVE FALSE
  <2>1. k \in 1 .. k
    OBVIOUS
  <2> QED BY <2>1
<1>1. I \in SUBSET Nat
  OBVIOUS
<1> HIDE DEF I
<1>2. PICK i \in I : \A j \in I : i <= j
  BY <1>1, LeastNumber
<1>3. i \in 1 .. k /\ f[i] # g[i]
  BY <1>2 DEF I
<1>4. /\ f[i] = IF i = 1 THEN ss[i] ELSE f[i - 1] \o ss[i]
      /\ g[i] = IF i = 1 THEN tt[i] ELSE g[i - 1] \o tt[i]
  <2>1. i \in 1 .. m /\ i \in 1 .. n
    BY <1>3
  <2> QED BY <2>1 DEF Running
<1>5. CASE i = 1
  BY <1>3, <1>4, <1>5
<1>6. CASE i # 1
  <2>1. i - 1 \in 1 .. k /\ ~(i <= i - 1)
    BY <1>3, <1>6
  <2>2. f[i - 1] = g[i - 1]
    BY <1>2, <2>1 DEF I
  <2> QED BY <1>3, <1>4, <1>6, <2>2
<1> QED BY <1>5, <1>6

LEMMA FlattenIs ==
  ASSUME NEW ss, Len(ss) \in Nat \ {0}
  PROVE  \E f : Running(ss, Len(ss), f) /\ FlattenSeq(ss) = f[Len(ss)]
<1> DEFINE f == CHOOSE f : Running(ss, Len(ss), f)
<1>1. \E g : Running(ss, Len(ss), g)
  BY RunningExists
<1>2. Running(ss, Len(ss), f)
  BY <1>1
<1>3. FlattenSeq(ss) = f[Len(ss)]
  BY DEF FlattenSeq, Running
<1> QED BY <1>2, <1>3

\* FlattenSeq of nothing is nothing, and one more element goes behind the others.
LEMMA FlattenNothing ==
  ASSUME NEW ss, Len(ss) = 0
  PROVE  FlattenSeq(ss) = ss
BY DEF FlattenSeq

LEMMA FlattenGrows ==
  ASSUME NEW ss, NEW tt, Len(ss) \in Nat, Len(tt) = Len(ss) + 1, \A i \in 1 .. Len(ss) : tt[i] = ss[i]
  PROVE  FlattenSeq(tt) = IF Len(ss) = 0 THEN tt[1] ELSE FlattenSeq(ss) \o tt[Len(tt)]
<1>1. PICK n \in Nat, m \in Nat : n = Len(ss) /\ m = n + 1 /\ m = Len(tt)
  OBVIOUS
<1>2. m \in 1 .. m /\ m - 1 = n
  BY <1>1
<1>3. PICK g : Running(tt, m, g) /\ FlattenSeq(tt) = g[m]
  BY <1>1, FlattenIs
<1>4. \A i \in 1 .. m : g[i] = IF i = 1 THEN tt[i] ELSE g[i - 1] \o tt[i]
  BY <1>3 DEF Running
<1>5. g[m] = IF m = 1 THEN tt[m] ELSE g[n] \o tt[m]
  BY <1>2, <1>4
<1>6. CASE n = 0
  BY <1>1, <1>3, <1>5, <1>6
<1>7. CASE n # 0
  <2>1. PICK f : Running(ss, n, f) /\ FlattenSeq(ss) = f[n]
    BY <1>1, <1>7, FlattenIs
  <2>2. f[n] = g[n]
    <3>1. \A i \in 1 .. n : ss[i] = tt[i]
      BY <1>1
    <3> QED BY <1>1, <1>3, <1>7, <2>1, <3>1, RunningSame, SMTT(40)
  <2>3. m # 1
    BY <1>1, <1>7
  <2>4. FlattenSeq(tt) = FlattenSeq(ss) \o tt[m]
    BY <1>3, <1>5, <2>1, <2>2, <2>3, Zenon
  <2> QED BY <1>1, <1>7, <2>4
<1> QED BY <1>6, <1>7

LEMMA FlattenJoins ==
  ASSUME NEW S, NEW ss, NEW tt, Len(ss) \in Nat, Len(tt) = Len(ss) + 1, \A i \in 1 .. Len(ss) : tt[i] = ss[i],
         Len(ss) = 0 => ss = <<>>, FlattenSeq(ss) \in Seq(S), tt[Len(tt)] \in Seq(S)
  PROVE  FlattenSeq(tt) = FlattenSeq(ss) \o tt[Len(tt)]
<1>1. FlattenSeq(tt) = IF Len(ss) = 0 THEN tt[1] ELSE FlattenSeq(ss) \o tt[Len(tt)]
  BY FlattenGrows
<1>2. CASE Len(ss) = 0
  <2>1. FlattenSeq(ss) = <<>>
    BY <1>2, FlattenNothing
  <2>2. PICK t \in Seq(S) : t = tt[Len(tt)]
    OBVIOUS
  <2>3. <<>> \o t = t
    BY <2>2, ConcatEmptySeq
  <2>4. Len(tt) = 1
    BY <1>2
  <2> QED BY <1>1, <1>2, <2>1, <2>2, <2>3, <2>4
<1> QED BY <1>1, <1>2

LEMMA Associative ==
  ASSUME NEW S
  PROVE  \A s, t, u \in Seq(S) : (s \o t) \o u = s \o (t \o u)
BY ConcatAssociative

LEMMA PrefixGrows ==
  ASSUME NEW S, NEW s \in Seq(S), NEW m \in Nat \ {0}, NEW n \in Nat, m <= n + 1, n < Len(s)
  PROVE  /\ SubSeq(s, m, n) \in Seq(S) /\ SubSeq(s, m, n + 1) \in Seq(S)
         /\ Len(SubSeq(s, m, n)) = n - m + 1
         /\ Len(SubSeq(s, m, n + 1)) = Len(SubSeq(s, m, n)) + 1
         /\ \A i \in 1 .. Len(SubSeq(s, m, n)) : SubSeq(s, m, n + 1)[i] = SubSeq(s, m, n)[i]
         /\ SubSeq(s, m, n + 1)[Len(SubSeq(s, m, n + 1))] = s[n + 1]
<1>1. Len(s) \in Nat /\ \A i \in m .. n + 1 : s[i] \in S
  BY LenProperties, ElementOfSeq
<1>2. /\ SubSeq(s, m, n) \in Seq(S) /\ Len(SubSeq(s, m, n)) = n - m + 1
      /\ \A i \in 1 .. n - m + 1 : SubSeq(s, m, n)[i] = s[m + i - 1]
  BY <1>1, SubSeqProperties
<1>3. /\ SubSeq(s, m, n + 1) \in Seq(S) /\ Len(SubSeq(s, m, n + 1)) = n + 1 - m + 1
      /\ \A i \in 1 .. n + 1 - m + 1 : SubSeq(s, m, n + 1)[i] = s[m + i - 1]
  BY <1>1, SubSeqProperties
<1>4. n + 1 - m + 1 \in 1 .. n + 1 - m + 1 /\ m + (n + 1 - m + 1) - 1 = n + 1
  OBVIOUS
<1> QED BY <1>2, <1>3, <1>4

LEMMA SameSeq ==
  ASSUME NEW S, NEW s \in Seq(S), NEW t \in Seq(S), Len(s) = Len(t), \A i \in 1 .. Len(s) : s[i] = t[i]
  PROVE  s = t
BY SeqEqual

LEMMA WholeSeq ==
  ASSUME NEW S, NEW s \in Seq(S)
  PROVE  SubSeq(s, 1, Len(s)) = s /\ SubSeq(s, 1, 0) = <<>> /\ SubSeq(s, Len(s) + 1, Len(s)) = <<>>
<1>1. Len(s) \in Nat /\ \A i \in 1 .. Len(s) : s[i] \in S
  BY LenProperties, ElementOfSeq
<1>2. /\ SubSeq(s, 1, Len(s)) \in Seq(S) /\ Len(SubSeq(s, 1, Len(s))) = Len(s)
      /\ \A i \in 1 .. Len(s) : SubSeq(s, 1, Len(s))[i] = s[i]
  BY <1>1, SubSeqProperties
<1>3. SubSeq(s, 1, Len(s)) = s
  BY <1>2, SameSeq
<1>4. SubSeq(s, 1, 0) = <<>> /\ SubSeq(s, Len(s) + 1, Len(s)) = <<>>
  BY <1>1, SubSeqProperties, EmptySeq
<1> QED BY <1>3, <1>4

LEMMA FlattenType ==
  ASSUME NEW S, NEW ss \in Seq(Seq(S))
  PROVE  FlattenSeq(ss) \in Seq(S)
<1> DEFINE Head1(n) == SubSeq(ss, 1, n)
<1> DEFINE I == {n \in 0 .. Len(ss) : FlattenSeq(Head1(n)) \notin Seq(S)}
<1>1. Len(ss) \in Nat /\ Head1(Len(ss)) = ss /\ Head1(0) = <<>>
  BY WholeSeq, LenProperties
<1> SUFFICES ASSUME FlattenSeq(ss) \notin Seq(S) PROVE FALSE
  OBVIOUS
<1> HIDE DEF Head1
<1>2. I \in SUBSET Nat /\ Len(ss) \in I
  <2>1. Len(ss) \in 0 .. Len(ss) /\ 0 .. Len(ss) \in SUBSET Nat
    BY <1>1
  <2>2. FlattenSeq(Head1(Len(ss))) \notin Seq(S)
    BY <1>1
  <2> QED BY <2>1, <2>2
<1>3. PICK n \in I : \A k \in I : n <= k
  BY <1>2, LeastNumber
<1>4. n # 0
  <2>1. Len(<<>>) = 0 /\ <<>> \in Seq(S)
    BY EmptySeq
  <2>2. FlattenSeq(<<>>) = <<>>
    BY <2>1, FlattenNothing
  <2> QED BY <1>1, <2>1, <2>2
<1>5. n - 1 \in 0 .. Len(ss) /\ n \in 0 .. Len(ss) /\ n - 1 \notin I
  BY <1>1, <1>3, <1>4
<1>6. FlattenSeq(Head1(n - 1)) \in Seq(S) /\ FlattenSeq(Head1(n)) \notin Seq(S)
  BY <1>3, <1>5
<1>7. /\ Head1(n - 1) \in Seq(Seq(S)) /\ Head1(n) \in Seq(Seq(S))
      /\ Len(Head1(n - 1)) = n - 1 /\ Len(Head1(n)) = Len(Head1(n - 1)) + 1
      /\ \A i \in 1 .. Len(Head1(n - 1)) : Head1(n)[i] = Head1(n - 1)[i]
      /\ Head1(n)[Len(Head1(n))] = ss[n]
  <2>1. n - 1 \in Nat /\ 1 \in Nat \ {0} /\ 1 <= n - 1 + 1 /\ n - 1 < Len(ss) /\ n - 1 + 1 = n /\ n - 1 - 1 + 1 = n - 1
    BY <1>1, <1>4, <1>5
  <2>2. PICK k \in Nat : k = n - 1
    BY <2>1
  <2>3. 1 <= k + 1 /\ k < Len(ss) /\ k + 1 = n /\ k - 1 + 1 = k
    BY <2>1, <2>2
  <2> QED BY <2>2, <2>3, PrefixGrows DEF Head1
<1>8. ss[n] \in Seq(S)
  BY <1>1, <1>4, <1>5, ElementOfSeq
<1>9. Len(Head1(n - 1)) = 0 => Head1(n - 1) = <<>>
  BY <1>7, EmptySeq
<1>10. FlattenSeq(Head1(n)) = FlattenSeq(Head1(n - 1)) \o ss[n]
  <2>1. Len(Head1(n - 1)) \in Nat
    BY <1>7, LenProperties
  <2>2. PICK xx, tt : xx = Head1(n - 1) /\ tt = Head1(n)
    OBVIOUS
  <2>3. /\ Len(xx) \in Nat /\ Len(tt) = Len(xx) + 1 /\ \A i \in 1 .. Len(xx) : tt[i] = xx[i]
        /\ Len(xx) = 0 => xx = <<>>
        /\ FlattenSeq(xx) \in Seq(S) /\ tt[Len(tt)] \in Seq(S)
    BY ONLY <1>6, <1>7, <1>8, <1>9, <2>1, <2>2
  <2>4. FlattenSeq(tt) = FlattenSeq(xx) \o tt[Len(tt)]
    BY ONLY <2>3, FlattenJoins, ZenonT(60)
  <2> QED BY <1>7, <2>2, <2>4
<1> QED BY <1>6, <1>8, <1>10, ConcatProperties

LEMMA FlattenAppend ==
  ASSUME NEW S, NEW ss \in Seq(Seq(S)), NEW s \in Seq(S)
  PROVE  FlattenSeq(Append(ss, s)) = FlattenSeq(ss) \o s
<1>1. /\ Len(ss) \in Nat /\ Len(Append(ss, s)) = Len(ss) + 1
      /\ \A i \in 1 .. Len(ss) : Append(ss, s)[i] = ss[i]
      /\ Append(ss, s)[Len(ss) + 1] = s
  BY AppendProperties, LenProperties
<1>2. FlattenSeq(ss) \in Seq(S) /\ (Len(ss) = 0 => ss = <<>>)
  BY FlattenType, EmptySeq
<1>3. PICK tt : tt = Append(ss, s)
  OBVIOUS
<1>4. /\ Len(ss) \in Nat /\ Len(tt) = Len(ss) + 1 /\ \A i \in 1 .. Len(ss) : tt[i] = ss[i]
      /\ tt[Len(tt)] = s
  BY <1>1, <1>3
<1>5. FlattenSeq(tt) = FlattenSeq(ss) \o tt[Len(tt)]
  <2>1. tt[Len(tt)] \in Seq(S)
    BY <1>4
  <2> QED BY ONLY <1>2, <1>4, <2>1, FlattenJoins, ZenonT(60)
<1> QED BY <1>3, <1>4, <1>5

LEMMA PrefixAppend ==
  ASSUME NEW S, NEW s \in Seq(S), NEW m \in Nat \ {0}, NEW n \in Nat, m <= n + 1, n < Len(s)
  PROVE  SubSeq(s, m, n) \in Seq(S) /\ s[n + 1] \in S /\ SubSeq(s, m, n + 1) = Append(SubSeq(s, m, n), s[n + 1])
<1>1. s[n + 1] \in S /\ Len(s) \in Nat
  BY LenProperties, ElementOfSeq
<1>2. /\ SubSeq(s, m, n) \in Seq(S) /\ SubSeq(s, m, n + 1) \in Seq(S)
      /\ Len(SubSeq(s, m, n + 1)) = Len(SubSeq(s, m, n)) + 1
      /\ \A i \in 1 .. Len(SubSeq(s, m, n)) : SubSeq(s, m, n + 1)[i] = SubSeq(s, m, n)[i]
      /\ SubSeq(s, m, n + 1)[Len(SubSeq(s, m, n + 1))] = s[n + 1]
  BY PrefixGrows
<1>3. PICK x \in Seq(S), y \in Seq(S), e \in S : x = SubSeq(s, m, n) /\ y = SubSeq(s, m, n + 1) /\ e = s[n + 1]
  BY <1>1, <1>2
<1>4. Len(x) \in Nat /\ Len(y) = Len(x) + 1 /\ (\A i \in 1 .. Len(x) : y[i] = x[i]) /\ y[Len(y)] = e
  BY <1>2, <1>3, LenProperties
<1>5. /\ Append(x, e) \in Seq(S) /\ Len(Append(x, e)) = Len(x) + 1
      /\ \A i \in 1 .. Len(x) : Append(x, e)[i] = x[i]
      /\ Append(x, e)[Len(x) + 1] = e
  BY ONLY <1>4, AppendProperties
<1>6. \A i \in 1 .. Len(y) : y[i] = Append(x, e)[i]
  BY ONLY <1>4, <1>5
<1>7. y = Append(x, e)
  BY ONLY <1>4, <1>5, <1>6, SameSeq
<1> QED BY <1>1, <1>2, <1>3, <1>7

\* What is left of a sequence of sequences behind the first n.
From(ss, n) == FlattenSeq(SubSeq(ss, n + 1, Len(ss)))

LEMMA FlattenHead ==
  ASSUME NEW S, NEW ss \in Seq(Seq(S)), NEW n \in Nat, NEW k \in Nat, n < k, k <= Len(ss)
  PROVE  FlattenSeq(SubSeq(ss, n + 1, k)) = ss[n + 1] \o FlattenSeq(SubSeq(ss, n + 2, k))
<1> DEFINE Bad(j) == FlattenSeq(SubSeq(ss, n + 1, j)) # ss[n + 1] \o FlattenSeq(SubSeq(ss, n + 2, j))
<1> DEFINE I == {j \in n + 1 .. Len(ss) : Bad(j)}
<1> SUFFICES ASSUME Bad(k) PROVE FALSE
  OBVIOUS
<1> HIDE DEF Bad
<1>1. Len(ss) \in Nat
  BY LenProperties
<1>2. I \in SUBSET Nat /\ k \in I
  BY <1>1
<1>3. PICK j \in I : \A i \in I : j <= i
  BY <1>2, LeastNumber
<1>4. j \in n + 1 .. Len(ss) /\ Bad(j)
  OBVIOUS
<1>5. PICK m \in Nat : j = m + 1 /\ n <= m /\ m < Len(ss)
  <2>1. j - 1 \in Nat /\ j = j - 1 + 1 /\ n <= j - 1 /\ j - 1 < Len(ss)
    BY <1>1, <1>4
  <2> QED BY <2>1
<1>6. n + 1 \in Nat \ {0} /\ n + 2 \in Nat \ {0} /\ n + 1 <= m + 1
  BY <1>5
<1>7. ss[n + 1] \in Seq(S) /\ ss[m + 1] \in Seq(S)
  <2>1. n + 1 \in 1 .. Len(ss) /\ m + 1 \in 1 .. Len(ss)
    BY <1>1, <1>5
  <2> QED BY <2>1, ElementOfSeq
<1>8. /\ SubSeq(ss, n + 1, m) \in Seq(Seq(S))
      /\ SubSeq(ss, n + 1, m + 1) = Append(SubSeq(ss, n + 1, m), ss[m + 1])
  BY <1>5, <1>6, PrefixAppend
<1>9. FlattenSeq(SubSeq(ss, n + 1, m + 1)) = FlattenSeq(SubSeq(ss, n + 1, m)) \o ss[m + 1]
  BY <1>7, <1>8, FlattenAppend
<1>10. Len(<<>>) = 0 /\ <<>> \in Seq(S) /\ <<>> \in Seq(Seq(S)) /\ FlattenSeq(<<>>) = <<>>
  BY EmptySeq, FlattenNothing
<1>11. CASE m = n
  <2>1. SubSeq(ss, n + 1, m) = <<>> /\ SubSeq(ss, n + 2, m + 1) = <<>>
    BY <1>5, <1>11, SubSeqProperties, EmptySeq
  <2>2. <<>> \o ss[m + 1] = ss[m + 1] /\ ss[n + 1] \o <<>> = ss[n + 1]
    BY <1>7, ConcatEmptySeq
  <2> QED BY <1>4, <1>5, <1>9, <1>10, <1>11, <2>1, <2>2 DEF Bad
<1>12. CASE n < m
  <2>1. m \in n + 1 .. Len(ss) /\ m \notin I
    BY <1>1, <1>3, <1>5, <1>12
  <2>2. FlattenSeq(SubSeq(ss, n + 1, m)) = ss[n + 1] \o FlattenSeq(SubSeq(ss, n + 2, m))
    BY <2>1 DEF Bad
  <2>3. n + 2 <= m + 1
    BY <1>5, <1>12
  <2>4. /\ SubSeq(ss, n + 2, m) \in Seq(Seq(S))
        /\ SubSeq(ss, n + 2, m + 1) = Append(SubSeq(ss, n + 2, m), ss[m + 1])
    BY <1>5, <1>6, <2>3, PrefixAppend
  <2>5. FlattenSeq(SubSeq(ss, n + 2, m + 1)) = FlattenSeq(SubSeq(ss, n + 2, m)) \o ss[m + 1]
    BY <1>7, <2>4, FlattenAppend
  <2>6. FlattenSeq(SubSeq(ss, n + 2, m)) \in Seq(S)
    BY <2>4, FlattenType
  <2>7. (ss[n + 1] \o FlattenSeq(SubSeq(ss, n + 2, m))) \o ss[m + 1]
          = ss[n + 1] \o (FlattenSeq(SubSeq(ss, n + 2, m)) \o ss[m + 1])
    <3>1. \A s, t, u \in Seq(S) : (s \o t) \o u = s \o (t \o u)
      BY Associative, SMTT(40)
    <3> QED BY <1>7, <2>6, <3>1, Zenon
  <2> QED BY <1>4, <1>5, <1>9, <2>2, <2>5, <2>7 DEF Bad
<1> QED BY <1>5, <1>11, <1>12

LEMMA FromStep ==
  ASSUME NEW S, NEW ss \in Seq(Seq(S))
  PROVE  /\ From(ss, 0) = FlattenSeq(ss)
         /\ From(ss, Len(ss)) = <<>>
         /\ \A n \in 0 .. Len(ss) : From(ss, n) \in Seq(S)
         /\ \A n \in 0 .. Len(ss) - 1 : ss[n + 1] \in Seq(S) /\ From(ss, n) = ss[n + 1] \o From(ss, n + 1)
<1>1. Len(ss) \in Nat
  BY LenProperties
<1>2. From(ss, 0) = FlattenSeq(ss)
  <2>1. SubSeq(ss, 1, Len(ss)) = ss /\ 0 + 1 = 1
    BY WholeSeq
  <2> QED BY <2>1, Zenon DEF From
<1>3. From(ss, Len(ss)) = <<>>
  <2>1. Len(<<>>) = 0 /\ FlattenSeq(<<>>) = <<>>
    BY EmptySeq, FlattenNothing
  <2> QED BY <2>1, WholeSeq DEF From
<1>4. ASSUME NEW n \in 0 .. Len(ss) PROVE From(ss, n) \in Seq(S)
  <2>1. \A i \in n + 1 .. Len(ss) : ss[i] \in Seq(S)
    BY <1>1, ElementOfSeq
  <2>2. SubSeq(ss, n + 1, Len(ss)) \in Seq(Seq(S))
    BY <1>1, <2>1, SubSeqProperties
  <2> QED BY <2>2, FlattenType DEF From
<1>5. ASSUME NEW n \in 0 .. Len(ss) - 1
      PROVE  ss[n + 1] \in Seq(S) /\ From(ss, n) = ss[n + 1] \o From(ss, n + 1)
  <2>1. n \in Nat /\ n < Len(ss) /\ Len(ss) <= Len(ss) /\ n + 1 + 1 = n + 2 /\ n + 1 \in 1 .. Len(ss)
    BY <1>1
  <2>2. FlattenSeq(SubSeq(ss, n + 1, Len(ss))) = ss[n + 1] \o FlattenSeq(SubSeq(ss, n + 2, Len(ss)))
    BY <1>1, <2>1, FlattenHead
  <2> QED BY <2>1, <2>2, ElementOfSeq DEF From
<1> QED BY <1>2, <1>3, <1>4, <1>5

=============================================================================
