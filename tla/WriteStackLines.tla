-------------------------- MODULE WriteStackLines --------------------------
(***************************************************************************)
(* Every line a write() has finished is in exactly one place: the proof    *)
(* that WriteStack keeps ExactlyOnce; then the order of the lines, and     *)
(* that WriteStack implements LineConduit.                                 *)
(*                                                                         *)
(* The places that hold lines form a family of sequences S, indexed by the *)
(* spots, beside a set G of lines that were given up.  Each step of the    *)
(* daemon changes the family in one of five ways: it appends a new line,   *)
(* gives a new line up, takes the head of one sequence off, moves a whole  *)
(* sequence to an empty spot, or gives a whole sequence up.  The first     *)
(* part proves what these five do; the next finds them in the actions.     *)
(***************************************************************************)
EXTENDS WriteStackProofs

Once(S, G) ==
  /\ \A x \in DOMAIN S : NoRepeat(S[x])
  /\ \A x, y \in DOMAIN S : x # y => Elems(S[x]) \cap Elems(S[y]) = {}
  /\ \A x \in DOMAIN S : Elems(S[x]) \cap G = {}

All(S, G) == (UNION {Elems(S[x]) : x \in DOMAIN S}) \cup G

-----------------------------------------------------------------------------
(* Single sequences.                                                       *)

LEMMA ElemsEmpty == Elems(<<>>) = {} /\ NoRepeat(<<>>)
BY DEF Elems, NoRepeat

LEMMA ElemsAppend ==
  ASSUME NEW L, NEW s \in Seq(L), NEW l \in L
  PROVE  /\ Append(s, l) \in Seq(L)
         /\ Elems(Append(s, l)) = Elems(s) \cup {l}
         /\ NoRepeat(s) /\ l \notin Elems(s) => NoRepeat(Append(s, l))
<1> DEFINE t == Append(s, l)
<1>1. /\ t \in Seq(L)
      /\ Len(s) \in Nat
      /\ DOMAIN s = 1 .. Len(s)
      /\ DOMAIN t = 1 .. (Len(s) + 1)
      /\ \A i \in 1 .. Len(s) : t[i] = s[i]
      /\ t[Len(s) + 1] = l
  BY AppendProperties, LenProperties
<1> HIDE DEF t
<1>2. Elems(t) = Elems(s) \cup {l}
  BY <1>1 DEF Elems
<1>3. ASSUME NoRepeat(s), l \notin Elems(s)
      PROVE  NoRepeat(t)
  <2> SUFFICES ASSUME NEW i \in DOMAIN t, NEW j \in DOMAIN t, t[i] = t[j]
               PROVE  i = j
    BY DEF NoRepeat
  <2>1. \A k \in 1 .. Len(s) : t[k] # l
    BY <1>1, <1>3 DEF Elems
  <2>2. CASE i \in 1 .. Len(s) /\ j \in 1 .. Len(s)
    BY <1>1, <1>3, <2>2 DEF NoRepeat
  <2>3. CASE i = Len(s) + 1 \/ j = Len(s) + 1
    BY <1>1, <2>1, <2>3
  <2> QED BY <1>1, <2>2, <2>3
<1> QED BY <1>1, <1>2, <1>3 DEF t

LEMMA ElemsTail ==
  ASSUME NEW L, NEW s \in Seq(L), s # <<>>, NoRepeat(s)
  PROVE  /\ Head(s) \in L
         /\ Tail(s) \in Seq(L)
         /\ Head(s) \in Elems(s)
         /\ Elems(Tail(s)) = Elems(s) \ {Head(s)}
         /\ NoRepeat(Tail(s))
<1> DEFINE t == Tail(s)
<1>1. /\ Head(s) \in L
      /\ t \in Seq(L)
      /\ Head(s) = s[1]
      /\ Len(s) \in Nat \ {0}
      /\ DOMAIN s = 1 .. Len(s)
      /\ DOMAIN t = 1 .. (Len(s) - 1)
      /\ \A i \in 1 .. (Len(s) - 1) : t[i] = s[i + 1]
  BY HeadTailProperties, LenProperties, EmptySeq
<1> HIDE DEF t
<1>2. \A i \in 2 .. Len(s) : i - 1 \in DOMAIN t /\ t[i - 1] = s[i]
  BY <1>1
<1>3. \A i \in DOMAIN t : t[i] # s[1]
  BY <1>1 DEF NoRepeat
<1>4. Elems(t) = Elems(s) \ {s[1]}
  <2>1. Elems(t) \subseteq Elems(s) \ {s[1]}
    BY <1>1, <1>3 DEF Elems
  <2>2. Elems(s) \ {s[1]} \subseteq Elems(t)
    <3> SUFFICES ASSUME NEW i \in DOMAIN s, s[i] # s[1]
                 PROVE  s[i] \in Elems(t)
      BY DEF Elems
    <3>1. i \in 2 .. Len(s)
      BY <1>1
    <3> QED BY <1>2, <3>1 DEF Elems
  <2> QED BY <2>1, <2>2
<1>5. NoRepeat(t)
  <2> SUFFICES ASSUME NEW i \in DOMAIN t, NEW j \in DOMAIN t, t[i] = t[j]
               PROVE  i = j
    BY DEF NoRepeat
  <2>1. /\ i + 1 \in DOMAIN s /\ j + 1 \in DOMAIN s
        /\ s[i + 1] = s[j + 1]
        /\ i \in Nat /\ j \in Nat
    BY <1>1
  <2>2. i + 1 = j + 1
    BY <2>1 DEF NoRepeat
  <2> QED BY <2>1, <2>2
<1>6. s[1] \in Elems(s)
  BY <1>1 DEF Elems
<1> QED BY <1>1, <1>4, <1>5, <1>6 DEF t

-----------------------------------------------------------------------------
(* The five ways a family of sequences changes.                            *)

Fam == [Spots -> Seq(Line)]
Put(S, y, s) == [S EXCEPT ![y] = s]

LEMMA FamType ==
  ASSUME NEW S \in Fam
  PROVE  DOMAIN S = Spots /\ \A x \in Spots : S[x] \in Seq(Line)
BY DEF Fam

LEMMA PutType ==
  ASSUME NEW S \in Fam, NEW y \in Spots, NEW s \in Seq(Line)
  PROVE  /\ Put(S, y, s) \in Fam
         /\ DOMAIN Put(S, y, s) = Spots
         /\ Put(S, y, s)[y] = s
         /\ \A x \in Spots \ {y} : Put(S, y, s)[x] = S[x]
BY DEF Fam, Put

LEMMA AllMember ==
  ASSUME NEW S, DOMAIN S = Spots, NEW G, NEW e
  PROVE  e \in All(S, G) <=> e \in G \/ \E x \in Spots : e \in Elems(S[x])
<1>1. e \in All(S, G) <=> e \in G \/ \E x \in DOMAIN S : e \in Elems(S[x])
  BY DEF All
<1> QED BY <1>1

LEMMA AppendNew ==
  ASSUME NEW S \in Fam, NEW G, Once(S, G),
         NEW y \in Spots, NEW l \in Line, l \notin All(S, G)
  PROVE  LET T == Put(S, y, Append(S[y], l))
         IN  /\ T \in Fam /\ Once(T, G) /\ All(T, G) = All(S, G) \cup {l}
             /\ T[y] = Append(S[y], l)
             /\ \A x \in Spots \ {y} : T[x] = S[x]
<1> DEFINE T == Put(S, y, Append(S[y], l))
<1>0. DOMAIN S = Spots /\ S[y] \in Seq(Line)
  BY FamType
<1>1. \A x \in Spots : l \notin Elems(S[x])
  BY <1>0, AllMember
<1>2. l \notin G
  BY <1>0, AllMember
<1>3. /\ Append(S[y], l) \in Seq(Line)
      /\ Elems(Append(S[y], l)) = Elems(S[y]) \cup {l}
      /\ NoRepeat(Append(S[y], l))
  BY <1>0, <1>1, ElemsAppend DEF Once
<1>4. /\ T \in Fam /\ DOMAIN T = Spots
      /\ T[y] = Append(S[y], l)
      /\ Elems(T[y]) = Elems(S[y]) \cup {l} /\ NoRepeat(T[y])
      /\ \A x \in Spots \ {y} : T[x] = S[x]
  <2> DEFINE s == Append(S[y], l)
  <2> HIDE DEF s
  <2>0. s \in Seq(Line) /\ Elems(s) = Elems(S[y]) \cup {l} /\ NoRepeat(s)
    BY <1>3 DEF s
  <2>1. /\ Put(S, y, s) \in Fam
        /\ DOMAIN Put(S, y, s) = Spots
        /\ Put(S, y, s)[y] = s
        /\ \A x \in Spots \ {y} : Put(S, y, s)[x] = S[x]
    BY <2>0, PutType
  <2> QED BY <2>0, <2>1 DEF s
<1> HIDE DEF T
<1>5. Once(T, G)
  <2>1. /\ DOMAIN T = Spots
        /\ Elems(T[y]) = Elems(S[y]) \cup {l} /\ NoRepeat(T[y])
        /\ \A x \in Spots \ {y} : T[x] = S[x]
    BY <1>4
  <2> QED BY <1>0, <1>1, <1>2, <2>1 DEF Once
<1>6. All(T, G) = All(S, G) \cup {l}
  <2>1. DOMAIN S = Spots /\ DOMAIN T = Spots
    BY <1>0, <1>4
  <2>2. \A x \in Spots : Elems(T[x]) = IF x = y THEN Elems(S[x]) \cup {l} ELSE Elems(S[x])
    BY <1>4
  <2>3. ASSUME NEW e PROVE e \in All(T, G) <=> e \in All(S, G) \cup {l}
    BY <2>1, <2>2, AllMember
  <2> QED BY <2>3
<1> QED BY <1>4, <1>5, <1>6 DEF T

LEMMA GiveUpNew ==
  ASSUME NEW S \in Fam, NEW G, Once(S, G),
         NEW l, l \notin All(S, G)
  PROVE  Once(S, G \cup {l}) /\ All(S, G \cup {l}) = All(S, G) \cup {l}
<1>1. DOMAIN S = Spots
  BY FamType
<1>2. \A x \in Spots : l \notin Elems(S[x])
  BY <1>1, AllMember
<1>3. Once(S, G \cup {l})
  BY <1>1, <1>2 DEF Once
<1>4. ASSUME NEW e PROVE e \in All(S, G \cup {l}) <=> e \in All(S, G) \cup {l}
  BY <1>1, AllMember
<1> QED BY <1>3, <1>4

LEMMA Behead ==
  ASSUME NEW S \in Fam, NEW G, Once(S, G),
         NEW y \in Spots, S[y] # <<>>
  PROVE  LET T == Put(S, y, Tail(S[y]))
         IN  /\ T \in Fam /\ Once(T, G)
             /\ Head(S[y]) \in Line
             /\ Head(S[y]) \in All(S, G)
             /\ All(T, G) = All(S, G) \ {Head(S[y])}
             /\ T[y] = Tail(S[y])
             /\ \A x \in Spots \ {y} : T[x] = S[x]
<1> DEFINE T == Put(S, y, Tail(S[y]))
           h == Head(S[y])
<1>0. DOMAIN S = Spots /\ S[y] \in Seq(Line)
  BY FamType
<1>1. /\ h \in Line
      /\ Tail(S[y]) \in Seq(Line)
      /\ h \in Elems(S[y])
      /\ Elems(Tail(S[y])) = Elems(S[y]) \ {h}
      /\ NoRepeat(Tail(S[y]))
  BY <1>0, ElemsTail DEF Once
<1>2. /\ T \in Fam /\ DOMAIN T = Spots
      /\ T[y] = Tail(S[y])
      /\ Elems(T[y]) = Elems(S[y]) \ {h} /\ NoRepeat(T[y])
      /\ \A x \in Spots \ {y} : T[x] = S[x]
  <2> DEFINE s == Tail(S[y])
  <2> HIDE DEF s, h
  <2>0. s \in Seq(Line) /\ Elems(s) = Elems(S[y]) \ {h} /\ NoRepeat(s)
    BY <1>1 DEF s
  <2>1. /\ Put(S, y, s) \in Fam
        /\ DOMAIN Put(S, y, s) = Spots
        /\ Put(S, y, s)[y] = s
        /\ \A x \in Spots \ {y} : Put(S, y, s)[x] = S[x]
    BY <2>0, PutType
  <2> QED BY <2>0, <2>1 DEF s
<1> HIDE DEF T, h
<1>3. h \notin G /\ \A x \in Spots \ {y} : h \notin Elems(S[x])
  BY <1>0, <1>1 DEF Once
<1>4. Once(T, G)
  <2>1. \A x \in Spots : Elems(T[x]) \subseteq Elems(S[x]) /\ NoRepeat(T[x])
    BY <1>0, <1>2 DEF Once
  <2> QED BY <1>0, <1>2, <2>1 DEF Once
<1>5. All(T, G) = All(S, G) \ {h}
  <2>1. \A x \in Spots : Elems(T[x]) = Elems(S[x]) \ {h}
    BY <1>2, <1>3
  <2>2. DOMAIN T = Spots /\ DOMAIN S = Spots
    BY <1>0, <1>2
  <2>3. ASSUME NEW e PROVE e \in All(T, G) <=> e \in All(S, G) \ {h}
    BY <1>3, <2>1, <2>2, AllMember
  <2> QED BY <2>3
<1>6. h \in All(S, G)
  BY <1>0, <1>1, AllMember
<1> QED BY <1>1, <1>2, <1>4, <1>5, <1>6 DEF T, h

LEMMA MoveAll ==
  ASSUME NEW S \in Fam, NEW G, Once(S, G),
         NEW y \in Spots, NEW z \in Spots, y # z, S[z] = <<>>
  PROVE  LET T == Put(Put(S, y, <<>>), z, S[y])
         IN  /\ T \in Fam /\ Once(T, G) /\ All(T, G) = All(S, G)
             /\ T[y] = <<>> /\ T[z] = S[y]
             /\ \A x \in Spots \ {y, z} : T[x] = S[x]
<1> DEFINE T == Put(Put(S, y, <<>>), z, S[y])
<1>0. DOMAIN S = Spots /\ S[y] \in Seq(Line) /\ <<>> \in Seq(Line)
  BY FamType, EmptySeq
<1>1. /\ T \in Fam /\ DOMAIN T = Spots
      /\ T[y] = <<>> /\ T[z] = S[y]
      /\ \A x \in Spots \ {y, z} : T[x] = S[x]
  <2> DEFINE e == <<>>
             s == S[y]
             R == Put(S, y, e)
  <2> HIDE DEF e, s, R
  <2>0. e \in Seq(Line) /\ s \in Seq(Line)
    BY <1>0 DEF e, s
  <2>1. /\ Put(S, y, e) \in Fam
        /\ Put(S, y, e)[y] = e
        /\ \A x \in Spots \ {y} : Put(S, y, e)[x] = S[x]
    BY <2>0, PutType
  <2>2. R \in Fam /\ R[y] = e /\ \A x \in Spots \ {y} : R[x] = S[x]
    BY <2>1 DEF R
  <2>3. /\ Put(R, z, s) \in Fam
        /\ DOMAIN Put(R, z, s) = Spots
        /\ Put(R, z, s)[z] = s
        /\ \A x \in Spots \ {z} : Put(R, z, s)[x] = R[x]
    BY <2>0, <2>2, PutType
  <2>4. T = Put(R, z, s)
    BY DEF R, e, s
  <2> HIDE DEF T
  <2>5. /\ T \in Fam /\ DOMAIN T = Spots /\ T[z] = s /\ T[y] = e
        /\ \A x \in Spots \ {y, z} : T[x] = S[x]
    BY <2>2, <2>3, <2>4
  <2> QED BY <2>5 DEF e, s
<1> HIDE DEF T
<1>2. Elems(T[y]) = {} /\ NoRepeat(T[y]) /\ Elems(S[z]) = {}
  BY <1>1, ElemsEmpty
<1>3. Once(T, G)
  BY <1>0, <1>1, <1>2 DEF Once
<1>4. All(T, G) = All(S, G)
  <2>1. DOMAIN S = Spots /\ DOMAIN T = Spots
    BY <1>0, <1>1
  <2>2. ASSUME NEW e
        PROVE  (\E x \in Spots : e \in Elems(T[x])) <=> (\E x \in Spots : e \in Elems(S[x]))
    BY <1>1, <1>2
  <2>3. ASSUME NEW e PROVE e \in All(T, G) <=> e \in All(S, G)
    <3>1. e \in All(T, G) <=> e \in G \/ \E x \in Spots : e \in Elems(T[x])
      BY <2>1, AllMember
    <3>2. e \in All(S, G) <=> e \in G \/ \E x \in Spots : e \in Elems(S[x])
      BY <2>1, AllMember
    <3> QED BY <2>2, <3>1, <3>2
  <2> QED BY <2>3
<1> QED BY <1>1, <1>3, <1>4 DEF T

LEMMA GiveUpAll ==
  ASSUME NEW S \in Fam, NEW G, Once(S, G), NEW y \in Spots
  PROVE  LET T == Put(S, y, <<>>)
             H == G \cup Elems(S[y])
         IN  /\ T \in Fam /\ Once(T, H) /\ All(T, H) = All(S, G)
             /\ T[y] = <<>>
             /\ \A x \in Spots \ {y} : T[x] = S[x]
<1> DEFINE T == Put(S, y, <<>>)
           H == G \cup Elems(S[y])
<1>0. DOMAIN S = Spots /\ <<>> \in Seq(Line)
  BY FamType, EmptySeq
<1>1. /\ T \in Fam /\ DOMAIN T = Spots
      /\ T[y] = <<>>
      /\ \A x \in Spots \ {y} : T[x] = S[x]
  <2> DEFINE e == <<>>
  <2> HIDE DEF e
  <2>0. e \in Seq(Line)
    BY <1>0 DEF e
  <2>1. /\ Put(S, y, e) \in Fam
        /\ DOMAIN Put(S, y, e) = Spots
        /\ Put(S, y, e)[y] = e
        /\ \A x \in Spots \ {y} : Put(S, y, e)[x] = S[x]
    BY <2>0, PutType
  <2> QED BY <2>1 DEF e
<1> HIDE DEF T
<1>2. Elems(T[y]) = {} /\ NoRepeat(T[y])
  BY <1>1, ElemsEmpty
<1>3. Once(T, H)
  BY <1>0, <1>1, <1>2 DEF Once
<1>4. All(T, H) = All(S, G)
  <2>1. DOMAIN S = Spots /\ DOMAIN T = Spots
    BY <1>0, <1>1
  <2>2. ASSUME NEW e
        PROVE  (e \in H \/ \E x \in Spots : e \in Elems(T[x]))
                 <=> (e \in G \/ \E x \in Spots : e \in Elems(S[x]))
    BY <1>1, <1>2
  <2>3. ASSUME NEW e PROVE e \in All(T, H) <=> e \in All(S, G)
    BY <2>1, <2>2, AllMember
  <2> QED BY <2>3
<1> QED BY <1>1, <1>3, <1>4 DEF T

-----------------------------------------------------------------------------
(* The places of WriteStack as one family.                                 *)

Where(st, vm, ou, ha) ==
  [x \in Spots |->
     CASE x[1] = "stack"  -> st[x[2]]
       [] x[1] = "valmap" -> vm[x[2]]
       [] x[1] = "out"    -> ou[x[2]]
       [] x[1] = "hand"   -> ha[x[2]]]

W == Where(stack, valmap, out, hand)
G == lost \cup dropped

OnceInv ==
  /\ Once(W, G)
  /\ lost \cap dropped = {}
  /\ \A l \in Line : l \in All(W, G) <=> Finished(l)

LEMMA SpotCases ==
  /\ \A f \in Files : /\ <<"stack", f>> \in Spots
                      /\ <<"valmap", f>> \in Spots
                      /\ <<"out", f>> \in Spots
  /\ \A a \in Actors : <<"hand", a>> \in Spots
  /\ \A x \in Spots :
       \/ \E f \in Files : x = <<"stack", f>> \/ x = <<"valmap", f>> \/ x = <<"out", f>>
       \/ \E a \in Actors : x = <<"hand", a>>
BY DEF Spots

LEMMA WhereAt ==
  ASSUME NEW st, NEW vm, NEW ou, NEW ha
  PROVE  /\ DOMAIN Where(st, vm, ou, ha) = Spots
         /\ \A f \in Files : /\ Where(st, vm, ou, ha)[<<"stack", f>>] = st[f]
                             /\ Where(st, vm, ou, ha)[<<"valmap", f>>] = vm[f]
                             /\ Where(st, vm, ou, ha)[<<"out", f>>] = ou[f]
         /\ \A a \in Actors : Where(st, vm, ou, ha)[<<"hand", a>>] = ha[a]
BY SpotCases DEF Where

LEMMA WhereType == TypeOK => W \in Fam
<1> SUFFICES ASSUME TypeOK, NEW x \in Spots PROVE W[x] \in Seq(Line)
  BY WhereAt DEF W, Where, Fam
<1>1. ASSUME NEW f \in Files
      PROVE  /\ W[<<"stack", f>>] \in Seq(Line)
             /\ W[<<"valmap", f>>] \in Seq(Line)
             /\ W[<<"out", f>>] \in Seq(Line)
  <2>1. /\ W[<<"stack", f>>] = stack[f]
        /\ W[<<"valmap", f>>] = valmap[f]
        /\ W[<<"out", f>>] = out[f]
    BY WhereAt DEF W
  <2> QED BY <2>1 DEF TypeOK
<1>2. ASSUME NEW a \in Actors
      PROVE  W[<<"hand", a>>] \in Seq(Line)
  <2>1. W[<<"hand", a>>] = hand[a]
    BY WhereAt DEF W
  <2> QED BY <2>1 DEF TypeOK
<1> QED BY <1>1, <1>2, SpotCases

LEMMA WAt ==
  /\ \A f \in Files : /\ W[<<"stack", f>>] = stack[f]
                      /\ W[<<"valmap", f>>] = valmap[f]
                      /\ W[<<"out", f>>] = out[f]
  /\ \A a \in Actors : W[<<"hand", a>>] = hand[a]
BY WhereAt DEF W

\* To know the places after a step it is enough to know each of them.
LEMMA WPrime ==
  ASSUME NEW T \in Fam,
         \A f \in Files : /\ stack'[f] = T[<<"stack", f>>]
                          /\ valmap'[f] = T[<<"valmap", f>>]
                          /\ out'[f] = T[<<"out", f>>],
         \A a \in Actors : hand'[a] = T[<<"hand", a>>]
  PROVE  W' = T
<1>1. /\ \A f \in Files : /\ W'[<<"stack", f>>] = stack'[f]
                           /\ W'[<<"valmap", f>>] = valmap'[f]
                           /\ W'[<<"out", f>>] = out'[f]
      /\ \A a \in Actors : W'[<<"hand", a>>] = hand'[a]
  BY WhereAt DEF W
<1>2. DOMAIN T = Spots
  BY FamType
<1>3. ASSUME NEW x \in Spots PROVE W'[x] = T[x]
  <2>1. CASE \E g \in Files : x = <<"stack", g>> \/ x = <<"valmap", g>> \/ x = <<"out", g>>
    <3> PICK g \in Files : x = <<"stack", g>> \/ x = <<"valmap", g>> \/ x = <<"out", g>>
      BY <2>1
    <3>1. CASE x = <<"stack", g>>
      BY <1>1, <3>1
    <3>2. CASE x = <<"valmap", g>>
      BY <1>1, <3>2
    <3>3. CASE x = <<"out", g>>
      BY <1>1, <3>3
    <3> QED BY <3>1, <3>2, <3>3
  <2>2. CASE \E b \in Actors : x = <<"hand", b>>
    BY <1>1, <2>2
  <2> QED BY <2>1, <2>2, SpotCases
<1> QED BY <1>2, <1>3 DEF W, Where, Fam

-----------------------------------------------------------------------------
(* The ways in the actions.                                                *)

\* The next line of a process is nowhere yet, and finishing it is what makes
\* it a finished line.
LEMMA NextLineFresh ==
  ASSUME TypeOK, OnceInv, NEW f \in Files, NEW p \in Procs,
         done' = [done EXCEPT ![f][p] = @ + 1]
  PROVE  /\ NextLine(f, p) \in Line
         /\ NextLine(f, p) \notin All(W, G)
         /\ \A l \in Line : Finished(l)' <=> Finished(l) \/ l = NextLine(f, p)
<1> DEFINE n == NextLine(f, p)
<1>1. /\ n \in Line /\ n.file = f /\ n.pid = p
      /\ n.no = done[f][p] + 1 /\ done[f][p] \in Nat
  BY NextLineType
<1> HIDE DEF n
<1>2. ~Finished(n)
  BY <1>1 DEF Finished
<1>3. ASSUME NEW l \in Line
      PROVE  Finished(l)' <=> Finished(l) \/ l = n
  <2>1. l = n <=> l.file = f /\ l.pid = p /\ l.no = done[f][p] + 1
    BY <1>1 DEF Line
  <2>2. l.file \in Files /\ l.pid \in Procs /\ l.no \in Nat
    BY DEF Line
  <2>3. done'[l.file][l.pid] = IF l.file = f /\ l.pid = p THEN done[f][p] + 1
                                                       ELSE done[l.file][l.pid]
    BY <2>2 DEF TypeOK
  <2>4. done[l.file][l.pid] \in Nat
    BY <2>2 DEF TypeOK
  <2> QED BY <1>1, <2>1, <2>2, <2>3, <2>4 DEF Finished
<1> QED BY <1>1, <1>2, <1>3 DEF n, OnceInv

\* A line that is nowhere may be given up.
LEMMA GiveUpFresh ==
  ASSUME TypeOK, OnceInv, NEW l, l \notin All(W, G)
  PROVE  /\ Once(W, G \cup {l})
         /\ All(W, G \cup {l}) = All(W, G) \cup {l}
         /\ l \notin lost /\ l \notin dropped
<1>1. W \in Fam /\ Once(W, G)
  BY WhereType DEF OnceInv
<1>2. Once(W, G \cup {l}) /\ All(W, G \cup {l}) = All(W, G) \cup {l}
  BY <1>1, GiveUpNew
<1>3. l \notin G
  BY <1>1, FamType, AllMember
<1> QED BY <1>2, <1>3 DEF G

\* A new line that is appended to a stack, dropped, or lost in freed memory.
LEMMA StackPushOnce ==
  ASSUME TypeOK, OnceInv, NEW f \in Files, NEW p \in Procs,
         StackPush(f, p), UNCHANGED <<valmap, out, hand, lost>>
  PROVE  OnceInv'
<1> DEFINE l == NextLine(f, p)
<1>1. /\ l \in Line /\ l \notin All(W, G)
      /\ \A k \in Line : Finished(k)' <=> Finished(k) \/ k = l
  BY NextLineFresh DEF StackPush
<1>2. W \in Fam /\ Once(W, G) /\ lost \cap dropped = {}
  BY WhereType DEF OnceInv
<1>3. <<"stack", f>> \in Spots
  BY SpotCases
<1> HIDE DEF l
<1>4. CASE stack' = [stack EXCEPT ![f] = Append(@, l)] /\ UNCHANGED dropped
  <2> DEFINE y == <<"stack", f>>
             T == Put(W, y, Append(W[y], l))
  <2>1. W[y] = stack[f] /\ y \in Spots
    BY <1>3, WAt
  <2> HIDE DEF y
  <2>2. /\ T \in Fam /\ Once(T, G) /\ All(T, G) = All(W, G) \cup {l}
        /\ T[y] = Append(W[y], l)
        /\ \A x \in Spots \ {y} : T[x] = W[x]
    BY <1>1, <1>2, <2>1, AppendNew, SMTT(40)
  <2> HIDE DEF T
  <2>4. /\ \A g \in Files : /\ stack'[g] = T[<<"stack", g>>]
                            /\ valmap'[g] = T[<<"valmap", g>>]
                            /\ out'[g] = T[<<"out", g>>]
        /\ \A a \in Actors : hand'[a] = T[<<"hand", a>>]
    <3>1. \A g \in Files : stack'[g] = IF g = f THEN Append(stack[f], l) ELSE stack[g]
      BY <1>4 DEF TypeOK
    <3> QED BY <2>1, <2>2, <3>1, WAt, SpotCases, ZenonT(40) DEF y
  <2>5. W' = T /\ G' = G
    BY <1>4, <2>2, <2>4, WPrime DEF G
  <2>7. Once(W', G') /\ All(W', G') = All(W, G) \cup {l}
    BY <2>2, <2>5
  <2> QED BY <1>1, <1>2, <1>4, <2>7 DEF OnceInv
<1>5. CASE dropped' = dropped \cup {l} /\ UNCHANGED stack
  <2>1. W' = W /\ G' = G \cup {l}
    BY <1>5 DEF W, G
  <2>2. Once(W', G') /\ All(W', G') = All(W, G) \cup {l} /\ l \notin lost
    BY <1>1, <2>1, GiveUpFresh
  <2> QED BY <1>1, <1>2, <1>5, <2>2 DEF OnceInv
<1> QED BY <1>4, <1>5 DEF StackPush, l

LEMMA LoseOnce ==
  ASSUME TypeOK, OnceInv, NEW f \in Files, NEW p \in Procs,
         done' = [done EXCEPT ![f][p] = @ + 1],
         lost' = lost \cup {NextLine(f, p)},
         UNCHANGED <<stack, valmap, out, hand, dropped>>
  PROVE  OnceInv'
<1> DEFINE l == NextLine(f, p)
<1>1. /\ l \in Line /\ l \notin All(W, G)
      /\ \A k \in Line : Finished(k)' <=> Finished(k) \/ k = l
  BY NextLineFresh
<1>2. W \in Fam /\ Once(W, G) /\ lost \cap dropped = {}
  BY WhereType DEF OnceInv
<1> HIDE DEF l
<1>3. W' = W /\ G' = G \cup {l}
  BY DEF W, G, l
<1>4. Once(W', G') /\ All(W', G') = All(W, G) \cup {l} /\ l \notin dropped
  BY <1>1, <1>3, GiveUpFresh
<1>6. lost' \cap dropped' = {}
  BY <1>2, <1>4 DEF l
<1> QED BY <1>1, <1>2, <1>4, <1>6 DEF OnceInv
\* The first line of a batch is put out, or lost, when it is taken off.
LEMMA BeheadOut ==
  ASSUME NEW S \in Fam, NEW D, Once(S, D),
         NEW y \in Spots, NEW z \in Spots, S[y] # <<>>, y # z
  PROVE  LET h == Head(S[y])
             R == Put(S, y, Tail(S[y]))
             T == Put(R, z, Append(R[z], h))
         IN  /\ T \in Fam /\ Once(T, D) /\ All(T, D) = All(S, D)
             /\ T[y] = Tail(S[y]) /\ T[z] = Append(S[z], h)
             /\ \A x \in Spots \ {y, z} : T[x] = S[x]
<1> DEFINE h == Head(S[y])
           R == Put(S, y, Tail(S[y]))
           T == Put(R, z, Append(R[z], h))
<1>1. /\ R \in Fam /\ Once(R, D)
      /\ h \in Line
      /\ h \in All(S, D)
      /\ All(R, D) = All(S, D) \ {h}
      /\ R[y] = Tail(S[y])
      /\ \A x \in Spots \ {y} : R[x] = S[x]
  BY Behead
<1> HIDE DEF R, h
<1>2. /\ T \in Fam /\ Once(T, D) /\ All(T, D) = All(R, D) \cup {h}
      /\ T[z] = Append(R[z], h)
      /\ \A x \in Spots \ {z} : T[x] = R[x]
  BY <1>1, AppendNew
<1> HIDE DEF T
<1>3. /\ T \in Fam /\ Once(T, D) /\ All(T, D) = All(S, D)
      /\ T[y] = Tail(S[y]) /\ T[z] = Append(S[z], h)
      /\ \A x \in Spots \ {y, z} : T[x] = S[x]
  BY <1>1, <1>2
<1> QED BY <1>3 DEF T, R, h

LEMMA BeheadLose ==
  ASSUME NEW S \in Fam, NEW D, Once(S, D), NEW y \in Spots, S[y] # <<>>
  PROVE  LET h == Head(S[y])
             R == Put(S, y, Tail(S[y]))
         IN  /\ R \in Fam /\ Once(R, D \cup {h}) /\ All(R, D \cup {h}) = All(S, D)
             /\ R[y] = Tail(S[y])
             /\ \A x \in Spots \ {y} : R[x] = S[x]
             /\ h \notin D
<1> DEFINE h == Head(S[y])
           R == Put(S, y, Tail(S[y]))
<1>1. /\ R \in Fam /\ Once(R, D)
      /\ h \in Line
      /\ h \in All(S, D)
      /\ All(R, D) = All(S, D) \ {h}
      /\ R[y] = Tail(S[y])
      /\ \A x \in Spots \ {y} : R[x] = S[x]
  BY Behead
<1> HIDE DEF R, h
<1>5. h \notin All(R, D)
  BY <1>1
<1>2. Once(R, D \cup {h}) /\ All(R, D \cup {h}) = All(R, D) \cup {h}
  <2>1. R \in Fam /\ Once(R, D)
    BY <1>1
  <2> QED BY <1>5, <2>1, GiveUpNew
<1>3. h \notin D
  BY <1>1, <1>5, FamType, AllMember
<1>4. All(R, D \cup {h}) = All(S, D)
  BY <1>1, <1>2
<1> QED BY <1>1, <1>2, <1>3, <1>4 DEF R, h

\* What spot x holds when W[y] has been beheaded, or moved to spot z.
Beheaded(y, x) == IF x = y THEN Tail(W[y]) ELSE W[x]
Moved(y, z, x) == IF x = y THEN <<>> ELSE IF x = z THEN W[y] ELSE W[x]

\* One line of a batch is processed.
LEMMA PutOutOnce ==
  ASSUME TypeOK, OnceInv, NEW y \in Spots, W[y] # <<>>,
         PutOut(Head(W[y])),
         UNCHANGED <<done, dropped, stack>>,
         \A f \in Files : y # <<"out", f>> /\ y # <<"stack", f>>,
         \A f \in Files : valmap'[f] = Beheaded(y, <<"valmap", f>>),
         \A a \in Actors : hand'[a] = Beheaded(y, <<"hand", a>>)
  PROVE  OnceInv'
<1> DEFINE h == Head(W[y])
           z == <<"out", h.file>>
<1>1. W \in Fam /\ Once(W, G) /\ lost \cap dropped = {}
  BY WhereType DEF OnceInv
<1>2. h \in Line /\ h.file \in Files
  <2>1. h \in Line
    BY <1>1, Behead
  <2> QED BY <2>1 DEF Line
<1>3. z \in Spots /\ z # y /\ W[z] = out[h.file]
  BY <1>2, SpotCases, WAt
<1>4. SUFFICES \E T : W' = T /\ Once(T, G') /\ All(T, G') = All(W, G) /\ lost' \cap dropped' = {}
  <2>1. PICK T : W' = T /\ Once(T, G') /\ All(T, G') = All(W, G) /\ lost' \cap dropped' = {}
    BY <1>4
  <2>2. \A l \in Line : l \in All(W, G) <=> Finished(l)
    BY DEF OnceInv
  <2>3. \A l \in Line : Finished(l)' <=> Finished(l)
    BY DEF Finished
  <2> QED BY <2>1, <2>2, <2>3 DEF OnceInv
<1>5. CASE out' = [out EXCEPT ![h.file] = Append(@, h)] /\ UNCHANGED lost
  <2> DEFINE R == Put(W, y, Tail(W[y]))
             T == Put(R, z, Append(R[z], h))
  <2> HIDE DEF z
  <2>1. /\ T \in Fam /\ Once(T, G) /\ All(T, G) = All(W, G)
        /\ T[y] = Tail(W[y]) /\ T[z] = Append(W[z], h)
        /\ \A x \in Spots \ {y, z} : T[x] = W[x]
    BY <1>1, <1>3, BeheadOut, SMTT(40)
  <2> HIDE DEF T, h
  <2>2. /\ \A g \in Files : /\ stack'[g] = T[<<"stack", g>>]
                            /\ valmap'[g] = T[<<"valmap", g>>]
                            /\ out'[g] = T[<<"out", g>>]
        /\ \A a \in Actors : hand'[a] = T[<<"hand", a>>]
    <3>1. \A g \in Files : out'[g] = IF g = h.file THEN Append(out[h.file], h) ELSE out[g]
      BY <1>5 DEF TypeOK
    <3>2. \A g \in Files : <<"stack", g>> # z /\ <<"valmap", g>> # z
      BY DEF z
    <3>3. \A a \in Actors : <<"hand", a>> # z
      BY DEF z
    <3>4. \A g \in Files : <<"out", g>> = z <=> g = h.file
      BY DEF z
    <3>5. \A x \in Spots : x # z => T[x] = Beheaded(y, x)
      BY <2>1 DEF Beheaded
    <3>6. \A g \in Files : stack'[g] = T[<<"stack", g>>]
      BY <2>1, <3>2, SpotCases, WAt
    <3>7. \A g \in Files : valmap'[g] = T[<<"valmap", g>>]
      BY <3>2, <3>5, SpotCases
    <3>8. \A a \in Actors : hand'[a] = T[<<"hand", a>>]
      BY <3>3, <3>5, SpotCases
    <3>9. ASSUME NEW g \in Files
          PROVE  out'[g] = T[<<"out", g>>]
      <4>1. CASE g = h.file
        BY <1>3, <2>1, <3>1, <3>4, <4>1
      <4>2. CASE g # h.file
        <5>1. <<"out", g>> # y /\ <<"out", g>> \in Spots /\ <<"out", g>> # z
          BY <3>4, <4>2, SpotCases
        <5> QED BY <2>1, <3>1, <4>2, <5>1, WAt
      <4> QED BY <4>1, <4>2
    <3> QED BY <3>6, <3>7, <3>8, <3>9
  <2>3. W' = T /\ G' = G
    BY <1>5, <2>1, <2>2, WPrime DEF G
  <2> QED BY <1>1, <1>5, <2>1, <2>3
<1>6. CASE lost' = lost \cup {h} /\ UNCHANGED out
  <2> DEFINE R == Put(W, y, Tail(W[y]))
  <2>1. /\ R \in Fam /\ Once(R, G \cup {h}) /\ All(R, G \cup {h}) = All(W, G)
        /\ R[y] = Tail(W[y])
        /\ \A x \in Spots \ {y} : R[x] = W[x]
        /\ h \notin G
    BY <1>1, BeheadLose
  <2> HIDE DEF R, h
  <2>2. /\ \A g \in Files : /\ stack'[g] = R[<<"stack", g>>]
                            /\ valmap'[g] = R[<<"valmap", g>>]
                            /\ out'[g] = R[<<"out", g>>]
        /\ \A a \in Actors : hand'[a] = R[<<"hand", a>>]
    BY <1>6, <2>1, WAt, SpotCases DEF Beheaded
  <2>3. W' = R
    BY <2>1, <2>2, WPrime
  <2>4. G' = G \cup {h} /\ lost' \cap dropped' = {}
    BY <1>1, <1>6, <2>1 DEF G
  <2> QED BY <2>1, <2>3, <2>4
<1> QED BY <1>5, <1>6 DEF PutOut

\* A whole sequence moves to an empty spot.
LEMMA MoveOnce ==
  ASSUME TypeOK, OnceInv, NEW y \in Spots, NEW z \in Spots, y # z, W[z] = <<>>,
         UNCHANGED <<done, lost, dropped>>,
         \A f \in Files : /\ stack'[f] = Moved(y, z, <<"stack", f>>)
                          /\ valmap'[f] = Moved(y, z, <<"valmap", f>>)
                          /\ out'[f] = Moved(y, z, <<"out", f>>),
         \A a \in Actors : hand'[a] = Moved(y, z, <<"hand", a>>)
  PROVE  OnceInv'
<1> DEFINE T == Put(Put(W, y, <<>>), z, W[y])
<1>1. W \in Fam /\ Once(W, G) /\ lost \cap dropped = {}
  BY WhereType DEF OnceInv
<1>2. /\ T \in Fam /\ Once(T, G) /\ All(T, G) = All(W, G)
      /\ T[y] = <<>> /\ T[z] = W[y]
      /\ \A x \in Spots \ {y, z} : T[x] = W[x]
  BY <1>1, MoveAll
<1> HIDE DEF T
<1>3. \A x \in Spots : T[x] = Moved(y, z, x)
  BY <1>2 DEF Moved
<1>4. /\ \A g \in Files : /\ stack'[g] = T[<<"stack", g>>]
                          /\ valmap'[g] = T[<<"valmap", g>>]
                          /\ out'[g] = T[<<"out", g>>]
      /\ \A a \in Actors : hand'[a] = T[<<"hand", a>>]
  BY <1>3, SpotCases
<1>5. W' = T /\ G' = G
  BY <1>2, <1>4, WPrime DEF G
<1>6. Once(W', G') /\ All(W', G') = All(W, G)
  BY <1>2, <1>5
<1>7. \A l \in Line : Finished(l)' <=> Finished(l)
  BY DEF Finished
<1> QED BY <1>1, <1>6, <1>7 DEF OnceInv

\* The stack of a file is deleted with what is in it.
LEMMA GiveUpOnce ==
  ASSUME TypeOK, OnceInv, NEW f \in Files,
         UNCHANGED <<done, dropped, valmap, out, hand>>,
         stack' = [stack EXCEPT ![f] = <<>>],
         lost' = lost \cup Elems(stack[f])
  PROVE  OnceInv'
<1> DEFINE y == <<"stack", f>>
           T == Put(W, y, <<>>)
           H == G \cup Elems(W[y])
<1>1. W \in Fam /\ Once(W, G) /\ lost \cap dropped = {}
  BY WhereType DEF OnceInv
<1>2. y \in Spots /\ W[y] = stack[f]
  BY SpotCases, WAt
<1> HIDE DEF y
<1>3. /\ T \in Fam /\ Once(T, H) /\ All(T, H) = All(W, G)
      /\ T[y] = <<>>
      /\ \A x \in Spots \ {y} : T[x] = W[x]
  BY <1>1, <1>2, GiveUpAll
<1>4. Elems(stack[f]) \cap G = {}
  BY <1>1, <1>2, FamType DEF Once
<1> HIDE DEF T
<1>5. /\ \A g \in Files : /\ stack'[g] = T[<<"stack", g>>]
                          /\ valmap'[g] = T[<<"valmap", g>>]
                          /\ out'[g] = T[<<"out", g>>]
      /\ \A a \in Actors : hand'[a] = T[<<"hand", a>>]
  <2>1. \A g \in Files : stack'[g] = IF g = f THEN <<>> ELSE stack[g]
    BY DEF TypeOK
  <2> QED BY <1>3, <2>1, WAt, SpotCases DEF y
<1>6. W' = T
  BY <1>3, <1>5, WPrime
<1>7. G' = H /\ lost' \cap dropped' = {}
  BY <1>1, <1>2, <1>4 DEF G
<1>8. Once(W', G') /\ All(W', G') = All(W, G)
  BY <1>3, <1>6, <1>7
<1>9. \A l \in Line : Finished(l)' <=> Finished(l)
  BY DEF Finished
<1> QED BY <1>7, <1>8, <1>9 DEF OnceInv

\* Nothing moves.
LEMMA StayOnce ==
  ASSUME OnceInv, UNCHANGED <<done, stack, valmap, out, hand, lost, dropped>>
  PROVE  OnceInv'
<1>1. W' = W /\ G' = G
  BY DEF W, G
<1>2. \A l \in Line : Finished(l)' <=> Finished(l)
  BY DEF Finished
<1> QED BY <1>1, <1>2 DEF OnceInv

\* A pop moves the stack of f to an empty spot of another kind.
LEMMA PopOnce ==
  ASSUME TypeOK, OnceInv, NEW f \in Files, Pop(f),
         UNCHANGED <<done, out, lost, dropped>>,
         \/ /\ valmap[f] = <<>>
            /\ valmap' = [valmap EXCEPT ![f] = stack[f]]
            /\ UNCHANGED hand
         \/ \E a \in Actors : /\ hand[a] = <<>>
                              /\ hand' = [hand EXCEPT ![a] = stack[f]]
                              /\ UNCHANGED valmap
  PROVE  OnceInv'
<1> DEFINE y == <<"stack", f>>
<1>1. \A g \in Files : stack'[g] = IF g = f THEN <<>> ELSE stack[g]
  BY DEF Pop, TypeOK
<1>2. y \in Spots /\ W[y] = stack[f]
  BY SpotCases, WAt
<1>3. CASE /\ valmap[f] = <<>>
           /\ valmap' = [valmap EXCEPT ![f] = stack[f]]
           /\ UNCHANGED hand
  <2> DEFINE z == <<"valmap", f>>
  <2>1. z \in Spots /\ W[z] = <<>> /\ y # z
    BY <1>3, SpotCases, WAt
  <2>2. \A g \in Files : valmap'[g] = IF g = f THEN stack[f] ELSE valmap[g]
    BY <1>3 DEF TypeOK
  <2>3. /\ \A g \in Files : /\ stack'[g] = Moved(y, z, <<"stack", g>>)
                            /\ valmap'[g] = Moved(y, z, <<"valmap", g>>)
                            /\ out'[g] = Moved(y, z, <<"out", g>>)
        /\ \A a \in Actors : hand'[a] = Moved(y, z, <<"hand", a>>)
    BY <1>1, <1>2, <1>3, <2>2, WAt DEF Moved
  <2> HIDE DEF y, z
  <2> QED BY <1>2, <2>1, <2>3, MoveOnce
<1>4. ASSUME NEW a \in Actors, hand[a] = <<>>,
             hand' = [hand EXCEPT ![a] = stack[f]], UNCHANGED valmap
      PROVE  OnceInv'
  <2> DEFINE z == <<"hand", a>>
  <2>1. z \in Spots /\ W[z] = <<>> /\ y # z
    BY <1>4, SpotCases, WAt
  <2>2. \A b \in Actors : hand'[b] = IF b = a THEN stack[f] ELSE hand[b]
    BY <1>4 DEF TypeOK
  <2>3. /\ \A g \in Files : /\ stack'[g] = Moved(y, z, <<"stack", g>>)
                            /\ valmap'[g] = Moved(y, z, <<"valmap", g>>)
                            /\ out'[g] = Moved(y, z, <<"out", g>>)
        /\ \A b \in Actors : hand'[b] = Moved(y, z, <<"hand", b>>)
    BY <1>1, <1>2, <1>4, <2>2, WAt DEF Moved
  <2> HIDE DEF y, z
  <2> QED BY <1>2, <2>1, <2>3, MoveOnce
<1> QED BY <1>3, <1>4

-----------------------------------------------------------------------------
(* What a step of the daemon does to the lines.                            *)

Still == UNCHANGED <<done, stack, valmap, out, hand, lost, dropped>>

\* A line is finished and stacked or dropped (StackPush), or written into
\* freed memory.
PushStep(f, p) == StackPush(f, p) /\ UNCHANGED <<valmap, out, hand, lost>>
LoseStep(f, p) ==
  /\ done' = [done EXCEPT ![f][p] = @ + 1]
  /\ lost' = lost \cup {NextLine(f, p)}
  /\ UNCHANGED <<stack, valmap, out, hand, dropped>>

\* The stack of f becomes the batch of the timeup thread, or of actor a.
ScanStep(f) ==
  /\ Pop(f) /\ valmap[f] = <<>>
  /\ valmap' = [valmap EXCEPT ![f] = stack[f]]
  /\ UNCHANGED <<done, out, hand, lost, dropped>>
TakeStep(f, a) ==
  /\ Pop(f) /\ hand[a] = <<>>
  /\ hand' = [hand EXCEPT ![a] = stack[f]]
  /\ UNCHANGED <<done, valmap, out, lost, dropped>>

\* The first line of the batch of actor a, or of the timeup thread for f.
HandStep(a) ==
  /\ hand[a] # <<>> /\ PutOut(Head(hand[a]))
  /\ hand' = [hand EXCEPT ![a] = Tail(@)]
  /\ UNCHANGED <<done, stack, valmap, dropped>>
BatchStep(f) ==
  /\ valmap[f] # <<>> /\ PutOut(Head(valmap[f]))
  /\ valmap' = [valmap EXCEPT ![f] = Tail(@)]
  /\ UNCHANGED <<done, stack, hand, dropped>>

\* The buffer of f is deleted with what is stacked in it.
FreeStep(f) ==
  /\ Pop(f)
  /\ lost' = lost \cup Elems(stack[f])
  /\ UNCHANGED <<done, valmap, out, hand, dropped>>

LineStep ==
  \/ Still
  \/ \E f \in Files, p \in Procs : PushStep(f, p) \/ LoseStep(f, p)
  \/ \E f \in Files : ScanStep(f) \/ BatchStep(f) \/ FreeStep(f)
  \/ \E f \in Files, a \in Actors : TakeStep(f, a)
  \/ \E a \in Actors : HandStep(a)

LEMMA NextLineStep ==
  ASSUME Typing, [Next]_vars
  PROVE  LineStep
<1> USE DEF Typing
<1>0. Still => LineStep
  BY DEF LineStep
<1>1. ASSUME NEW p \in Procs, Issue(p) PROVE Still
  BY <1>1 DEF Still, Issue, Write, Flush, Release, Arrive, timerVars, lineVars
<1>2. ASSUME NEW p \in Procs, FindForWrite(p) \/ FindForClose(p) \/ GetBinBuff(p)
      PROVE  Still
  BY <1>2 DEF Still, FindForWrite, FindForClose, GetBinBuff, timerVars, lineVars
<1>3. ASSUME NEW p \in Procs, PushTail(p) \/ CheckLimit(p) \/ LeaveFreed(p)
      PROVE  Still
  BY <1>3 DEF Still, PushTail, CheckLimit, LeaveFreed, timerVars, lineVars
<1>4. ASSUME NEW p \in Procs, PushLine(p) PROVE LineStep
  <2>1. File(p) \in Files
    BY <1>4, FileOfRequest DEF PushLine
  <2>2. PushStep(File(p), p)
    BY <1>4 DEF PushStep, PushLine, timerVars
  <2> QED BY <2>1, <2>2 DEF LineStep
<1>5. ASSUME NEW p \in Procs, PopBatch(p) PROVE LineStep
  <2>1. File(p) \in Files
    BY <1>5, FileOfRequest DEF PopBatch
  <2>2. p \in Actors /\ hand[p] = <<>>
    BY <1>5 DEF PopBatch, StepOK, Actors
  <2>3. TakeStep(File(p), p)
    BY <1>5, <2>2 DEF TakeStep, PopBatch, timerVars
  <2> QED BY <2>1, <2>2, <2>3 DEF LineStep
<1>6. ASSUME NEW p \in Procs, ProcessLine(p) PROVE LineStep
  <2>1. p \in Actors /\ hand[p] # <<>>
    BY <1>6 DEF ProcessLine, StepOK, Actors
  <2>2. HandStep(p)
    BY <1>6, <2>1 DEF HandStep, ProcessLine, timerVars
  <2> QED BY <2>1, <2>2 DEF LineStep
<1>7. ASSUME NEW p \in Procs, LoseLine(p) PROVE LineStep
  <2>1. File(p) \in Files
    BY <1>7, FileOfRequest DEF LoseLine, StepOK
  <2>2. LoseStep(File(p), p)
    BY <1>7 DEF LoseStep, LoseLine, timerVars
  <2> QED BY <2>1, <2>2 DEF LineStep
<1>8. CASE TimerSleep \/ TimerLock \/ TimerUnlock \/ TimerDone
  BY <1>0, <1>8 DEF Still, TimerSleep, TimerLock, TimerUnlock, TimerDone, lineVars
<1>9. ASSUME NEW f \in Files, TimerScan(f) PROVE LineStep
  <2>1. valmap[f] = <<>>
    BY <1>9 DEF TimerScan, StepOK
  <2>2. ScanStep(f) \/ Still
    BY <1>9, <2>1 DEF TimerScan, ScanStep, Still
  <2> QED BY <2>2 DEF LineStep
<1>10. ASSUME NEW f \in Files, TimerProcess(f) PROVE LineStep
  BY <1>10 DEF TimerProcess, BatchStep, LineStep
<1>11. CASE CleanStart \/ CleanJoin \/ CloseAllLock \/ CloseAllUnlock
  BY <1>0, <1>11 DEF Still, CleanStart, CleanJoin, CloseAllLock, CloseAllUnlock, timerVars, lineVars
<1>12. ASSUME NEW f \in Files, CloseAllNext(f) \/ Age(f) PROVE Still
  BY <1>12 DEF Still, CloseAllNext, Age, timerVars, lineVars
<1>13. ASSUME NEW p \in Procs, CloseAllForce(p) PROVE LineStep
  <2>1. cfile \in Files
    BY <1>13 DEF CloseAllForce, TypeOK, StepOK
  <2>2. PushStep(cfile, p) \/ Still
    BY <1>13 DEF CloseAllForce, PushStep, Still, timerVars
  <2> QED BY <2>1, <2>2 DEF LineStep
<1>14. CASE CloseAllPop
  <2>1. cfile \in Files
    BY <1>14 DEF CloseAllPop, TypeOK, StepOK
  <2>2. "cleaner" \in Actors /\ hand["cleaner"] = <<>>
    BY <1>14 DEF CloseAllPop, StepOK, Actors
  <2>3. TakeStep(cfile, "cleaner")
    BY <1>14, <2>2 DEF TakeStep, CloseAllPop, timerVars
  <2> QED BY <2>1, <2>2, <2>3 DEF LineStep
<1>15. CASE CloseAllProcess
  <2>1. HandStep("cleaner") /\ "cleaner" \in Actors
    BY <1>15 DEF HandStep, CloseAllProcess, Actors, timerVars
  <2> QED BY <2>1 DEF LineStep
<1>16. CASE CloseAllDelete
  <2>1. cfile \in Files
    BY <1>16 DEF CloseAllDelete, TypeOK, StepOK
  <2>2. FreeStep(cfile)
    BY <1>16 DEF FreeStep, CloseAllDelete, timerVars
  <2> QED BY <2>1, <2>2 DEF LineStep
<1>17. CASE UNCHANGED vars
  BY <1>0, <1>17 DEF Still, vars, timerVars, lineVars
<1> HIDE DEF Typing
<1> QED
  BY <1>0, <1>1, <1>2, <1>3, <1>4, <1>5, <1>6, <1>7, <1>8, <1>9, <1>10, <1>11, <1>12, <1>13,
     <1>14, <1>15, <1>16, <1>17
  DEF Next, Worker, Timer, Cleaner, Stopped

-----------------------------------------------------------------------------
(* The invariant.                                                          *)

LEMMA InitOnce == Init => OnceInv
<1> SUFFICES ASSUME Init PROVE OnceInv
  OBVIOUS
<1>1. \A x \in Spots : W[x] = <<>>
  <2>1. /\ \A f \in Files : stack[f] = <<>> /\ valmap[f] = <<>> /\ out[f] = <<>>
        /\ \A a \in Actors : hand[a] = <<>>
    BY DEF Init
  <2> TAKE x \in Spots
  <2>2. CASE \E f \in Files : x = <<"stack", f>> \/ x = <<"valmap", f>> \/ x = <<"out", f>>
    BY <2>1, <2>2, WAt, ZenonT(40)
  <2>3. CASE \E a \in Actors : x = <<"hand", a>>
    BY <2>1, <2>3, WAt
  <2> QED BY <2>2, <2>3, SpotCases
<1>2. DOMAIN W = Spots
  BY WhereAt DEF W
<1>3. \A x \in Spots : Elems(W[x]) = {} /\ NoRepeat(W[x])
  BY <1>1, ElemsEmpty
<1>4. G = {} /\ lost \cap dropped = {}
  BY DEF Init, G
<1>5. Once(W, G)
  BY <1>2, <1>3, <1>4 DEF Once
<1>6. ASSUME NEW l PROVE l \notin All(W, G)
  BY <1>2, <1>3, <1>4, AllMember
<1>7. ASSUME NEW l \in Line PROVE ~Finished(l)
  BY DEF Finished, Line, Init
<1> QED BY <1>4, <1>5, <1>6, <1>7 DEF OnceInv

\* Every step of the daemon keeps every finished line in one place.
LEMMA NextOnce ==
  ASSUME Typing, OnceInv, [Next]_vars
  PROVE  OnceInv'
<1>0. TypeOK /\ LineStep
  BY NextLineStep DEF Typing
<1>1. CASE Still
  BY <1>1, StayOnce DEF Still
<1>2. ASSUME NEW f \in Files, NEW p \in Procs, PushStep(f, p) PROVE OnceInv'
  BY <1>0, <1>2, StackPushOnce DEF PushStep
<1>3. ASSUME NEW f \in Files, NEW p \in Procs, LoseStep(f, p) PROVE OnceInv'
  BY <1>0, <1>3, LoseOnce DEF LoseStep
<1>4. ASSUME NEW f \in Files, ScanStep(f) PROVE OnceInv'
  BY <1>0, <1>4, PopOnce DEF ScanStep
<1>5. ASSUME NEW f \in Files, NEW a \in Actors, TakeStep(f, a) PROVE OnceInv'
  BY <1>0, <1>5, PopOnce DEF TakeStep
<1>6. ASSUME NEW a \in Actors, HandStep(a) PROVE OnceInv'
  <2> DEFINE y == <<"hand", a>>
  <2>1. y \in Spots /\ W[y] = hand[a]
    BY SpotCases, WAt
  <2>2. \A f \in Files : y # <<"out", f>> /\ y # <<"stack", f>>
    OBVIOUS
  <2>3. \A b \in Actors : hand'[b] = IF b = a THEN Tail(hand[a]) ELSE hand[b]
    BY <1>0, <1>6 DEF HandStep, TypeOK
  <2>4. /\ \A f \in Files : valmap'[f] = Beheaded(y, <<"valmap", f>>)
        /\ \A b \in Actors : hand'[b] = Beheaded(y, <<"hand", b>>)
    BY <1>6, <2>1, <2>3, WAt, ZenonT(40) DEF HandStep, Beheaded
  <2>5. PutOut(Head(W[y])) /\ W[y] # <<>> /\ UNCHANGED <<done, dropped, stack>>
    BY <1>6, <2>1 DEF HandStep
  <2> HIDE DEF y
  <2> QED BY <1>0, <2>1, <2>2, <2>4, <2>5, PutOutOnce
<1>7. ASSUME NEW g \in Files, BatchStep(g) PROVE OnceInv'
  <2> DEFINE y == <<"valmap", g>>
  <2>1. y \in Spots /\ W[y] = valmap[g]
    BY SpotCases, WAt
  <2>2. \A f \in Files : y # <<"out", f>> /\ y # <<"stack", f>>
    OBVIOUS
  <2>3. \A f \in Files : valmap'[f] = IF f = g THEN Tail(valmap[g]) ELSE valmap[f]
    BY <1>0, <1>7 DEF BatchStep, TypeOK
  <2>4. /\ \A f \in Files : valmap'[f] = Beheaded(y, <<"valmap", f>>)
        /\ \A b \in Actors : hand'[b] = Beheaded(y, <<"hand", b>>)
    BY <1>7, <2>1, <2>3, WAt, ZenonT(40) DEF Beheaded, BatchStep
  <2>5. PutOut(Head(W[y])) /\ W[y] # <<>> /\ UNCHANGED <<done, dropped, stack>>
    BY <1>7, <2>1 DEF BatchStep
  <2> HIDE DEF y
  <2> QED BY <1>0, <2>1, <2>2, <2>4, <2>5, PutOutOnce
<1>8. ASSUME NEW f \in Files, FreeStep(f) PROVE OnceInv'
  BY <1>0, <1>8, GiveUpOnce DEF FreeStep, Pop
<1> QED BY <1>0, <1>1, <1>2, <1>3, <1>4, <1>5, <1>6, <1>7, <1>8 DEF LineStep

LEMMA OnceImplies ==
  ASSUME TypeOK, OnceInv
  PROVE  ExactlyOnce
<1>1. DOMAIN W = Spots
  BY WhereAt DEF W
<1>2. ASSUME NEW x \in Spots PROVE SeqAt(x) = W[x]
  <2>1. CASE \E f \in Files : x = <<"stack", f>> \/ x = <<"valmap", f>> \/ x = <<"out", f>>
    <3> PICK f \in Files : x = <<"stack", f>> \/ x = <<"valmap", f>> \/ x = <<"out", f>>
      BY <2>1
    <3>1. CASE x = <<"stack", f>>
      BY <3>1, WAt DEF SeqAt
    <3>2. CASE x = <<"valmap", f>>
      BY <3>2, WAt DEF SeqAt
    <3>3. CASE x = <<"out", f>>
      BY <3>3, WAt DEF SeqAt
    <3> QED BY <3>1, <3>2, <3>3
  <2>2. CASE \E a \in Actors : x = <<"hand", a>>
    <3> PICK a \in Actors : x = <<"hand", a>>
      BY <2>2
    <3> QED BY WAt DEF SeqAt
  <2> QED BY <2>1, <2>2, SpotCases
<1>3. AtMostOnce
  BY <1>1, <1>2 DEF OnceInv, Once, AtMostOnce, At, G
<1>4. Somewhere
  <2> DEFINE all == (UNION {At(x) : x \in Spots}) \cup lost \cup dropped
  <2>1. ASSUME NEW l PROVE l \in all <=> l \in All(W, G)
    <3>1. l \in all <=> l \in G \/ \E x \in Spots : l \in At(x)
      BY DEF G
    <3>2. \A x \in Spots : At(x) = Elems(W[x])
      BY <1>2 DEF At
    <3> HIDE DEF all
    <3> QED BY <1>1, <3>1, <3>2, AllMember
  <2>2. \A l \in all : l \in Line
    <3>1. \A x \in Spots : W[x] \in Seq(Line)
      BY WhereType, FamType
    <3>2. \A x \in Spots : At(x) \subseteq Line
      BY <1>2, <3>1 DEF At, Elems
    <3> QED BY <3>2 DEF TypeOK
  <2>3. \A l \in Line : l \in all <=> Finished(l)
    BY <2>1 DEF OnceInv
  <2>4. ASSUME NEW f \in Files, NEW p \in Procs, NEW n \in 1 .. done[f][p]
        PROVE  [file |-> f, pid |-> p, no |-> n] \in all
    <3>1. /\ [file |-> f, pid |-> p, no |-> n] \in Line
          /\ Finished([file |-> f, pid |-> p, no |-> n])
      BY DEF Line, Finished, TypeOK
    <3> HIDE DEF all
    <3> QED BY <2>3, <3>1
  <2> HIDE DEF all
  <2>5. /\ \A l \in all : Finished(l)
        /\ \A f \in Files, p \in Procs : \A n \in 1 .. done[f][p] :
             [file |-> f, pid |-> p, no |-> n] \in all
    BY <2>2, <2>3, <2>4
  <2> QED BY <2>5 DEF Somewhere, all
<1> QED BY <1>3, <1>4 DEF ExactlyOnce

\* ExactlyOnce: whichever of the four kinds of threads pops a stack
\* (K2hFtWriteBuff::Pop), no finished line is doubled and none disappears.
THEOREM LinesExactlyOnce == Spec => []ExactlyOnce
<1> DEFINE PlacesInv == Typing /\ OnceInv
<1>1. Init => PlacesInv
  BY InitTyping, InitOnce
<1>2. PlacesInv /\ [Next]_vars => PlacesInv'
  BY NextTyping, NextOnce
<1>3. PlacesInv => ExactlyOnce
  BY OnceImplies DEF Typing
<1> QED BY <1>1, <1>2, <1>3, PTL DEF Spec

-----------------------------------------------------------------------------
(* The order of the lines, and the proof that WriteStack implements        *)
(* LineConduit.  Both are read off the seven ways a step of the daemon     *)
(* handles lines (LineStep) and off OnceInv, which says that the line a    *)
(* step takes from one place is in no other.                               *)

LEMMA ElemsType ==
  ASSUME NEW L, NEW s \in Seq(L)
  PROVE  Elems(s) \subseteq L
BY DEF Elems

LEMMA TailElems ==
  ASSUME NEW L, NEW s \in Seq(L), s # <<>>
  PROVE  /\ Head(s) \in L /\ Tail(s) \in Seq(L)
         /\ Head(s) \in Elems(s)
         /\ Elems(Tail(s)) \subseteq Elems(s)
<1>1. /\ Head(s) \in L /\ Tail(s) \in Seq(L) /\ Head(s) = s[1]
      /\ Len(s) \in Nat \ {0}
      /\ DOMAIN s = 1 .. Len(s)
      /\ DOMAIN Tail(s) = 1 .. (Len(s) - 1)
      /\ \A i \in 1 .. (Len(s) - 1) : Tail(s)[i] = s[i + 1]
  BY HeadTailProperties, LenProperties, EmptySeq
<1>2. \A i \in 1 .. (Len(s) - 1) : i + 1 \in DOMAIN s
  BY <1>1
<1>3. 1 \in DOMAIN s
  BY <1>1
<1> QED BY <1>1, <1>2, <1>3 DEF Elems

LEMMA AscendingEmpty == Ascending(<<>>)
BY DEF Ascending

\* A line may follow the lines of its writer that have lower numbers.
LEMMA AscendingAppend ==
  ASSUME NEW s \in Seq(Line), NEW l \in Line, Ascending(s),
         \A m \in Elems(s) : m.pid = l.pid => m.no < l.no
  PROVE  Ascending(Append(s, l))
<1> DEFINE t == Append(s, l)
<1>1. /\ Len(s) \in Nat
      /\ DOMAIN s = 1 .. Len(s)
      /\ DOMAIN t = 1 .. (Len(s) + 1)
      /\ \A i \in 1 .. Len(s) : t[i] = s[i]
      /\ t[Len(s) + 1] = l
  BY AppendProperties, LenProperties
<1> HIDE DEF t
<1> SUFFICES ASSUME NEW i \in DOMAIN t, NEW j \in DOMAIN t, i < j, t[i].pid = t[j].pid
             PROVE  t[i].no < t[j].no
  BY DEF Ascending, t
<1>2. i \in DOMAIN s /\ t[i] = s[i]
  BY <1>1
<1>3. CASE j \in DOMAIN s
  BY <1>1, <1>2, <1>3 DEF Ascending
<1>4. CASE j = Len(s) + 1
  <2>1. s[i] \in Elems(s) /\ t[j] = l
    BY <1>1, <1>2, <1>4 DEF Elems
  <2> QED BY <1>2, <2>1
<1> QED BY <1>1, <1>3, <1>4

LEMMA AscendingTail ==
  ASSUME NEW s \in Seq(Line), s # <<>>, Ascending(s)
  PROVE  Ascending(Tail(s))
<1>1. /\ Len(s) \in Nat \ {0}
      /\ DOMAIN s = 1 .. Len(s)
      /\ DOMAIN Tail(s) = 1 .. (Len(s) - 1)
      /\ \A i \in 1 .. (Len(s) - 1) : Tail(s)[i] = s[i + 1]
  BY HeadTailProperties, LenProperties, EmptySeq
<1> SUFFICES ASSUME NEW i \in DOMAIN Tail(s), NEW j \in DOMAIN Tail(s), i < j,
                    Tail(s)[i].pid = Tail(s)[j].pid
             PROVE  Tail(s)[i].no < Tail(s)[j].no
  BY DEF Ascending
<1>2. /\ i + 1 \in DOMAIN s /\ j + 1 \in DOMAIN s /\ i + 1 < j + 1
      /\ Tail(s)[i] = s[i + 1] /\ Tail(s)[j] = s[j + 1]
  BY <1>1
<1> QED BY <1>2 DEF Ascending

-----------------------------------------------------------------------------
(* The order.  A line gets the next number of its writer when it is        *)
(* pushed, so it is newer than all that are anywhere; from then on stacks  *)
(* are only taken as a whole and batches only lose their head.             *)

\* The lines that have left the stacks.
Gone ==
  (UNION {Elems(valmap[f]) : f \in Files}) \cup (UNION {Elems(out[f]) : f \in Files})
    \cup (UNION {Elems(hand[a]) : a \in Actors})

StackOwn == \A f \in Files : \A l \in Elems(stack[f]) : l.file = f

Newest ==
  \A f \in Files : \A l \in Elems(stack[f]) :
    \A m \in Gone : m.file = f /\ m.pid = l.pid => m.no < l.no

OrderInv == StackOwn /\ BatchesInOrder /\ Newest

LEMMA PlacesFinished ==
  ASSUME TypeOK, OnceInv
  PROVE  /\ \A f \in Files : \A l \in Elems(stack[f]) : l \in Line /\ Finished(l)
         /\ \A l \in Gone : l \in Line /\ Finished(l)
<1>1. ASSUME NEW x \in Spots, NEW l \in Elems(W[x]) PROVE l \in Line /\ Finished(l)
  <2>1. W \in Fam /\ W[x] \in Seq(Line) /\ DOMAIN W = Spots
    BY WhereType, FamType
  <2>2. l \in Line
    BY <2>1, ElemsType
  <2>3. l \in All(W, G)
    BY <2>1, AllMember
  <2> QED BY <2>2, <2>3 DEF OnceInv
<1>2. ASSUME NEW f \in Files
      PROVE  /\ \A l \in Elems(stack[f]) : l \in Line /\ Finished(l)
             /\ \A l \in Elems(valmap[f]) : l \in Line /\ Finished(l)
             /\ \A l \in Elems(out[f]) : l \in Line /\ Finished(l)
  <2>1. /\ <<"stack", f>> \in Spots /\ <<"valmap", f>> \in Spots /\ <<"out", f>> \in Spots
        /\ W[<<"stack", f>>] = stack[f]
        /\ W[<<"valmap", f>>] = valmap[f]
        /\ W[<<"out", f>>] = out[f]
    BY SpotCases, WAt
  <2> QED BY <1>1, <2>1
<1>3. ASSUME NEW a \in Actors, NEW l \in Elems(hand[a]) PROVE l \in Line /\ Finished(l)
  <2>1. <<"hand", a>> \in Spots /\ W[<<"hand", a>>] = hand[a]
    BY SpotCases, WAt
  <2> QED BY <1>1, <1>3, <2>1
<1> QED BY <1>2, <1>3 DEF Gone

LEMMA InitOrder == Init => OrderInv
<1> SUFFICES ASSUME Init PROVE OrderInv
  OBVIOUS
<1>1. /\ \A f \in Files : stack[f] = <<>> /\ valmap[f] = <<>>
      /\ \A a \in Actors : hand[a] = <<>>
  BY DEF Init
<1>2. Elems(<<>>) = {} /\ Ascending(<<>>)
  BY ElemsEmpty, AscendingEmpty
<1> QED BY <1>1, <1>2 DEF OrderInv, StackOwn, BatchesInOrder, Newest

\* When no stack gains a line and no line leaves the stacks for a place where
\* it was not, the order of the rest is what it was.
LEMMA ShrinkNewest ==
  ASSUME OrderInv, Gone' \subseteq Gone,
         \A f \in Files : Elems(stack[f])' \subseteq Elems(stack[f])
  PROVE  StackOwn' /\ Newest'
BY DEF OrderInv, StackOwn, Newest

\* The stack of f has become a batch.
LEMMA PopNewest ==
  ASSUME OrderInv, NEW f \in Files,
         \A g \in Files : stack'[g] = IF g = f THEN <<>> ELSE stack[g],
         Gone' \subseteq Gone \cup Elems(stack[f])
  PROVE  StackOwn' /\ Newest'
<1>1. \A g \in Files : Elems(stack'[g]) \subseteq Elems(stack[g])
  BY ElemsEmpty
<1>2. \A g \in Files : g # f => Elems(stack'[g]) = Elems(stack[g])
  OBVIOUS
<1>3. Elems(stack'[f]) = {}
  BY ElemsEmpty
<1>4. StackOwn'
  BY <1>1 DEF OrderInv, StackOwn
<1>5. ASSUME NEW g \in Files, NEW l \in Elems(stack'[g]), NEW m \in Gone',
             m.file = g, m.pid = l.pid
      PROVE  m.no < l.no
  <2>1. g # f /\ l \in Elems(stack[g])
    BY <1>2, <1>3, <1>5
  <2>2. m \in Gone
    BY <1>5, <2>1 DEF OrderInv, StackOwn
  <2> QED BY <1>5, <2>1, <2>2 DEF OrderInv, Newest
<1> QED BY <1>4, <1>5 DEF Newest

LEMMA GoneMember ==
  \A l : l \in Gone <=> \/ \E f \in Files : l \in Elems(valmap[f]) \/ l \in Elems(out[f])
                        \/ \E a \in Actors : l \in Elems(hand[a])
BY DEF Gone

LEMMA PopType ==
  ASSUME TypeOK, NEW f \in Files, Pop(f)
  PROVE  \A g \in Files : stack'[g] = IF g = f THEN <<>> ELSE stack[g]
BY DEF Pop, TypeOK

LEMMA PushOrder ==
  ASSUME TypeOK, OnceInv, OrderInv, NEW f \in Files, NEW p \in Procs, PushStep(f, p)
  PROVE  OrderInv'
<1> DEFINE l == NextLine(f, p)
<1>1. /\ l \in Line /\ l.file = f /\ l.pid = p /\ l.no = done[f][p] + 1
      /\ done[f][p] \in Nat
  BY NextLineType
<1>2. ASSUME NEW m \in Line, Finished(m), m.file = f, m.pid = p PROVE m.no < l.no
  BY <1>1, <1>2 DEF Finished
<1>3. Gone' = Gone
  BY DEF PushStep, Gone
<1>4. CASE stack' = [stack EXCEPT ![f] = Append(@, l)]
  <2> HIDE DEF l
  <2>1. stack[f] \in Seq(Line) /\ Ascending(stack[f])
    BY DEF TypeOK, OrderInv, BatchesInOrder
  <2>2. \A g \in Files : stack'[g] = IF g = f THEN Append(stack[f], l) ELSE stack[g]
    BY <1>4 DEF TypeOK
  <2>3. Elems(stack'[f]) = Elems(stack[f]) \cup {l}
    BY <1>1, <2>1, <2>2, ElemsAppend
  <2>4. \A m \in Elems(stack[f]) : m.pid = p => m.no < l.no
    BY <1>2, PlacesFinished DEF OrderInv, StackOwn
  <2>5. Ascending(stack'[f])
    BY <1>1, <2>1, <2>2, <2>4, AscendingAppend
  <2>6. BatchesInOrder'
    BY <2>2, <2>5 DEF OrderInv, BatchesInOrder, PushStep
  <2>7. StackOwn'
    BY <1>1, <2>2, <2>3 DEF OrderInv, StackOwn
  <2>8. ASSUME NEW g \in Files, NEW k \in Elems(stack'[g]), NEW m \in Gone',
               m.file = g, m.pid = k.pid
        PROVE  m.no < k.no
    <3>1. m \in Gone /\ m \in Line /\ Finished(m)
      BY <1>3, PlacesFinished
    <3>2. CASE k \in Elems(stack[g])
      BY <2>8, <3>1, <3>2 DEF OrderInv, Newest
    <3>3. CASE k = l /\ g = f
      BY <1>1, <1>2, <2>8, <3>1, <3>3
    <3> QED BY <2>2, <2>3, <3>2, <3>3
  <2> QED BY <2>6, <2>7, <2>8 DEF OrderInv, Newest
<1>5. CASE UNCHANGED stack
  BY <1>3, <1>5 DEF PushStep, OrderInv, StackOwn, Newest, BatchesInOrder
<1> QED BY <1>4, <1>5 DEF PushStep, StackPush

LEMMA ScanOrder ==
  ASSUME TypeOK, OrderInv, NEW f \in Files, ScanStep(f)
  PROVE  OrderInv'
<1>1. \A g \in Files : stack'[g] = IF g = f THEN <<>> ELSE stack[g]
  BY PopType DEF ScanStep
<1>2. \A g \in Files : valmap'[g] = IF g = f THEN stack[f] ELSE valmap[g]
  BY DEF ScanStep, TypeOK
<1>3. Gone' \subseteq Gone \cup Elems(stack[f])
  BY <1>2 DEF ScanStep, Gone
<1>4. BatchesInOrder'
  BY <1>1, <1>2, AscendingEmpty DEF ScanStep, OrderInv, BatchesInOrder
<1> QED BY <1>1, <1>3, <1>4, PopNewest DEF OrderInv

LEMMA TakeOrder ==
  ASSUME TypeOK, OrderInv, NEW f \in Files, NEW a \in Actors, TakeStep(f, a)
  PROVE  OrderInv'
<1>1. \A g \in Files : stack'[g] = IF g = f THEN <<>> ELSE stack[g]
  BY PopType DEF TakeStep
<1>2. \A b \in Actors : hand'[b] = IF b = a THEN stack[f] ELSE hand[b]
  BY DEF TakeStep, TypeOK
<1>3. Gone' \subseteq Gone \cup Elems(stack[f])
  BY <1>2 DEF TakeStep, Gone
<1>4. BatchesInOrder'
  BY <1>1, <1>2, AscendingEmpty DEF TakeStep, OrderInv, BatchesInOrder
<1> QED BY <1>1, <1>3, <1>4, PopNewest DEF OrderInv

\* The line that is put out was among the lines that had left the stacks.
LEMMA PutOutGone ==
  ASSUME TypeOK, NEW h \in Line, PutOut(h)
  PROVE  \A f \in Files : Elems(out'[f]) \subseteq Elems(out[f]) \cup {h}
<1>1. h.file \in Files
  BY DEF Line
<1>2. CASE out' = [out EXCEPT ![h.file] = Append(@, h)]
  <2>1. \A f \in Files : out'[f] = IF f = h.file THEN Append(out[f], h) ELSE out[f]
    BY <1>1, <1>2 DEF TypeOK
  <2>2. out[h.file] \in Seq(Line)
    BY <1>1 DEF TypeOK
  <2>3. Elems(Append(out[h.file], h)) = Elems(out[h.file]) \cup {h}
    BY <2>2, ElemsAppend
  <2> QED BY <2>1, <2>3
<1> QED BY <1>2 DEF PutOut

LEMMA HandOrder ==
  ASSUME TypeOK, OrderInv, NEW a \in Actors, HandStep(a)
  PROVE  OrderInv'
<1> DEFINE h == Head(hand[a])
<1>1. hand[a] \in Seq(Line) /\ hand[a] # <<>> /\ Ascending(hand[a])
  BY DEF HandStep, TypeOK, OrderInv, BatchesInOrder
<1>2. /\ h \in Line /\ h \in Elems(hand[a])
      /\ Elems(Tail(hand[a])) \subseteq Elems(hand[a])
      /\ Ascending(Tail(hand[a]))
  BY <1>1, TailElems, AscendingTail
<1>3. \A b \in Actors : hand'[b] = IF b = a THEN Tail(hand[a]) ELSE hand[b]
  BY DEF HandStep, TypeOK
<1>4. \A f \in Files : Elems(out'[f]) \subseteq Elems(out[f]) \cup {h}
  BY <1>2, PutOutGone DEF HandStep
<1> HIDE DEF h
<1>5. \A b \in Actors : Elems(hand'[b]) \subseteq Elems(hand[b])
  BY <1>2, <1>3
<1>6. Gone' \subseteq Gone
  BY <1>2, <1>4, <1>5 DEF HandStep, Gone
<1>7. BatchesInOrder'
  BY <1>2, <1>3 DEF HandStep, OrderInv, BatchesInOrder
<1>8. \A f \in Files : Elems(stack[f])' \subseteq Elems(stack[f])
  BY DEF HandStep
<1> QED BY <1>6, <1>7, <1>8, ShrinkNewest DEF OrderInv

LEMMA BatchOrder ==
  ASSUME TypeOK, OrderInv, NEW g \in Files, BatchStep(g)
  PROVE  OrderInv'
<1> DEFINE h == Head(valmap[g])
<1>1. valmap[g] \in Seq(Line) /\ valmap[g] # <<>> /\ Ascending(valmap[g])
  BY DEF BatchStep, TypeOK, OrderInv, BatchesInOrder
<1>2. /\ h \in Line /\ h \in Elems(valmap[g])
      /\ Elems(Tail(valmap[g])) \subseteq Elems(valmap[g])
      /\ Ascending(Tail(valmap[g]))
  BY <1>1, TailElems, AscendingTail
<1>3. \A f \in Files : valmap'[f] = IF f = g THEN Tail(valmap[g]) ELSE valmap[f]
  BY DEF BatchStep, TypeOK
<1>4. \A f \in Files : Elems(out'[f]) \subseteq Elems(out[f]) \cup {h}
  BY <1>2, PutOutGone DEF BatchStep
<1> HIDE DEF h
<1>5. \A f \in Files : Elems(valmap'[f]) \subseteq Elems(valmap[f])
  BY <1>2, <1>3
<1>6. Gone' \subseteq Gone
  <2>1. \A a \in Actors : Elems(hand'[a]) = Elems(hand[a])
    BY DEF BatchStep
  <2>2. h \in Gone
    BY <1>2 DEF Gone
  <2> QED BY <1>4, <1>5, <2>1, <2>2 DEF Gone
<1>7. BatchesInOrder'
  BY <1>2, <1>3 DEF BatchStep, OrderInv, BatchesInOrder
<1>8. \A f \in Files : Elems(stack[f])' \subseteq Elems(stack[f])
  BY DEF BatchStep
<1> QED BY <1>6, <1>7, <1>8, ShrinkNewest DEF OrderInv

LEMMA FreeOrder ==
  ASSUME TypeOK, OrderInv, NEW f \in Files, FreeStep(f)
  PROVE  OrderInv'
<1>1. \A g \in Files : stack'[g] = IF g = f THEN <<>> ELSE stack[g]
  BY PopType DEF FreeStep
<1>2. Gone' = Gone
  BY DEF FreeStep, Gone
<1>3. BatchesInOrder'
  BY <1>1, AscendingEmpty DEF FreeStep, OrderInv, BatchesInOrder
<1> QED BY <1>1, <1>2, <1>3, PopNewest DEF OrderInv

LEMMA NextOrder ==
  ASSUME Typing, OnceInv, OrderInv, [Next]_vars
  PROVE  OrderInv'
<1>0. TypeOK /\ LineStep
  BY NextLineStep DEF Typing
<1>1. ASSUME UNCHANGED <<stack, valmap, out, hand>> PROVE OrderInv'
  BY <1>1 DEF OrderInv, StackOwn, BatchesInOrder, Newest, Gone
<1>2. ASSUME NEW f \in Files, NEW p \in Procs, PushStep(f, p) \/ LoseStep(f, p)
      PROVE  OrderInv'
  BY <1>0, <1>1, <1>2, PushOrder DEF LoseStep
<1>3. ASSUME NEW f \in Files, ScanStep(f) \/ BatchStep(f) \/ FreeStep(f)
      PROVE  OrderInv'
  BY <1>0, <1>3, ScanOrder, BatchOrder, FreeOrder
<1>4. ASSUME NEW f \in Files, NEW a \in Actors, TakeStep(f, a) PROVE OrderInv'
  BY <1>0, <1>4, TakeOrder
<1>5. ASSUME NEW a \in Actors, HandStep(a) PROVE OrderInv'
  BY <1>0, <1>5, HandOrder
<1>6. CASE Still
  BY <1>1, <1>6 DEF Still
<1> QED BY <1>0, <1>2, <1>3, <1>4, <1>5, <1>6 DEF LineStep

IInv == Typing /\ OnceInv /\ OrderInv

LEMMA OrderHolds == Spec => []IInv
<1>1. Init => IInv
  BY InitTyping, InitOnce, InitOrder DEF IInv
<1>2. IInv /\ [Next]_vars => IInv'
  BY NextTyping, NextOnce, NextOrder DEF IInv
<1> QED BY <1>1, <1>2, PTL DEF Spec

\* BatchesInOrder: a stack and every batch popped from it (K2hFtWriteBuff::Pop)
\* keep the lines of each writer in the order it finished them.
THEOREM BatchesKeepOrder == Spec => []BatchesInOrder
<1>1. IInv => BatchesInOrder
  BY DEF IInv, OrderInv
<1> QED BY <1>1, OrderHolds, PTL

LEMMA SeqAtCases ==
  /\ \A f \in Files : /\ SeqAt(<<"stack", f>>) = stack[f]
                      /\ SeqAt(<<"valmap", f>>) = valmap[f]
                      /\ SeqAt(<<"out", f>>) = out[f]
  /\ \A a \in Actors : SeqAt(<<"hand", a>>) = hand[a]
BY DEF SeqAt

LEMMA NewestImplies ==
  ASSUME TypeOK, OrderInv
  PROVE  StackIsNewest
<1> SUFFICES ASSUME NEW f \in Files, NEW i \in DOMAIN stack[f],
                    NEW x \in Spots \ {<<"stack", f>>}, NEW m \in At(x),
                    m.file = f, m.pid = stack[f][i].pid
             PROVE  m.no < stack[f][i].no
  BY DEF StackIsNewest
<1>1. stack[f][i] \in Elems(stack[f])
  BY DEF Elems
<1>2. m \in Gone
  <2>1. CASE \E g \in Files : x = <<"stack", g>>
    <3> PICK g \in Files : x = <<"stack", g>>
      BY <2>1
    <3>1. m \in Elems(stack[g]) /\ g # f
      BY SeqAtCases DEF At
    <3> QED BY <3>1 DEF OrderInv, StackOwn
  <2>2. CASE \E g \in Files : x = <<"valmap", g>>
    <3> PICK g \in Files : x = <<"valmap", g>>
      BY <2>2
    <3>1. m \in Elems(valmap[g])
      BY SeqAtCases DEF At
    <3> QED BY <3>1 DEF Gone
  <2>3. CASE \E g \in Files : x = <<"out", g>>
    <3> PICK g \in Files : x = <<"out", g>>
      BY <2>3
    <3>1. m \in Elems(out[g])
      BY SeqAtCases DEF At
    <3> QED BY <3>1 DEF Gone
  <2>4. CASE \E a \in Actors : x = <<"hand", a>>
    <3> PICK a \in Actors : x = <<"hand", a>>
      BY <2>4
    <3>1. m \in Elems(hand[a])
      BY SeqAtCases DEF At
    <3> QED BY <3>1 DEF Gone
  <2> QED BY <2>1, <2>2, <2>3, <2>4, SpotCases
<1> QED BY <1>1, <1>2 DEF OrderInv, Newest

\* StackIsNewest: what still waits in the stack of a file (K2hFtWriteBuff::Stack)
\* is newer than what its writer finished and anybody has taken out.
THEOREM NothingOvertakesStack == Spec => []StackIsNewest
<1>1. IInv => StackIsNewest
  BY NewestImplies DEF IInv, Typing
<1> QED BY <1>1, OrderHolds, PTL

-----------------------------------------------------------------------------
(* Refinement.  A line that is stacked or in a batch is pending; OnceInv    *)
(* makes taking it from its one place the same as taking it from Pending.  *)

LEMMA PendingMember ==
  \A l : l \in Pending <=> \/ \E f \in Files : l \in Elems(stack[f]) \/ l \in Elems(valmap[f])
                           \/ \E a \in Actors : l \in Elems(hand[a])
<1> TAKE l
<1>1. ASSUME l \in Pending
      PROVE  \/ \E f \in Files : l \in Elems(stack[f]) \/ l \in Elems(valmap[f])
             \/ \E a \in Actors : l \in Elems(hand[a])
  <2> PICK x \in Spots \ ({"out"} \X Files) : l \in At(x)
    BY <1>1 DEF Pending
  <2>1. ASSUME NEW f \in Files PROVE x # <<"out", f>>
    OBVIOUS
  <2>2. CASE \E f \in Files : x = <<"stack", f>> \/ x = <<"valmap", f>>
    BY <2>2, SeqAtCases DEF At
  <2>3. CASE \E a \in Actors : x = <<"hand", a>>
    BY <2>3, SeqAtCases DEF At
  <2> QED BY <2>1, <2>2, <2>3, SpotCases
<1>2. ASSUME NEW f \in Files, l \in Elems(stack[f]) \/ l \in Elems(valmap[f])
      PROVE  l \in Pending
  <2>1. /\ <<"stack", f>> \in Spots \ ({"out"} \X Files)
        /\ <<"valmap", f>> \in Spots \ ({"out"} \X Files)
    BY SpotCases
  <2>2. At(<<"stack", f>>) = Elems(stack[f]) /\ At(<<"valmap", f>>) = Elems(valmap[f])
    BY SeqAtCases DEF At
  <2> QED BY <1>2, <2>1, <2>2 DEF Pending
<1>3. ASSUME NEW a \in Actors, l \in Elems(hand[a]) PROVE l \in Pending
  <2>1. <<"hand", a>> \in Spots \ ({"out"} \X Files)
    BY SpotCases
  <2>2. At(<<"hand", a>>) = Elems(hand[a])
    BY SeqAtCases DEF At
  <2> QED BY <1>3, <2>1, <2>2 DEF Pending
<1> QED BY <1>1, <1>2, <1>3

LEMMA PendingMemberNext ==
  (\A l : l \in Pending <=> \/ \E f \in Files : l \in Elems(stack[f]) \/ l \in Elems(valmap[f])
                            \/ \E a \in Actors : l \in Elems(hand[a]))'
BY PendingMember, PTL

LEMMA OnlyPlace ==
  ASSUME TypeOK, OnceInv
  PROVE  /\ \A a \in Actors : /\ NoRepeat(hand[a])
                              /\ \A b \in Actors \ {a} : Elems(hand[a]) \cap Elems(hand[b]) = {}
                              /\ \A f \in Files : /\ Elems(hand[a]) \cap Elems(stack[f]) = {}
                                                  /\ Elems(hand[a]) \cap Elems(valmap[f]) = {}
         /\ \A f \in Files : /\ NoRepeat(valmap[f])
                             /\ \A g \in Files : Elems(valmap[f]) \cap Elems(stack[g]) = {}
                             /\ \A g \in Files \ {f} :
                                  /\ Elems(valmap[f]) \cap Elems(valmap[g]) = {}
                                  /\ Elems(stack[f]) \cap Elems(stack[g]) = {}
<1>1. /\ \A x \in Spots : NoRepeat(W[x])
      /\ \A x, y \in Spots : x # y => Elems(W[x]) \cap Elems(W[y]) = {}
  BY WhereType, FamType DEF OnceInv, Once
<1>2. ASSUME NEW a \in Actors
      PROVE  /\ NoRepeat(hand[a])
             /\ \A b \in Actors \ {a} : Elems(hand[a]) \cap Elems(hand[b]) = {}
  <2>1. <<"hand", a>> \in Spots /\ W[<<"hand", a>>] = hand[a]
    BY SpotCases, WAt
  <2>2. ASSUME NEW b \in Actors \ {a} PROVE Elems(hand[a]) \cap Elems(hand[b]) = {}
    <3>1. /\ <<"hand", b>> \in Spots /\ W[<<"hand", b>>] = hand[b]
          /\ <<"hand", a>> # <<"hand", b>>
      BY SpotCases, WAt
    <3> QED BY <1>1, <2>1, <3>1
  <2> QED BY <1>1, <2>1, <2>2
<1>3. ASSUME NEW a \in Actors, NEW f \in Files
      PROVE  /\ Elems(hand[a]) \cap Elems(stack[f]) = {}
             /\ Elems(hand[a]) \cap Elems(valmap[f]) = {}
  <2>1. <<"hand", a>> # <<"stack", f>> /\ <<"hand", a>> # <<"valmap", f>>
    OBVIOUS
  <2>2. <<"hand", a>> \in Spots /\ <<"stack", f>> \in Spots /\ <<"valmap", f>> \in Spots
    BY SpotCases
  <2>3. /\ Elems(W[<<"hand", a>>]) \cap Elems(W[<<"stack", f>>]) = {}
        /\ Elems(W[<<"hand", a>>]) \cap Elems(W[<<"valmap", f>>]) = {}
    BY <1>1, <2>1, <2>2
  <2> QED BY <2>3, WAt
<1>4. ASSUME NEW f \in Files, NEW g \in Files
      PROVE  /\ NoRepeat(valmap[f])
             /\ Elems(valmap[f]) \cap Elems(stack[g]) = {}
  <2>1. <<"valmap", f>> # <<"stack", g>>
    OBVIOUS
  <2>2. <<"valmap", f>> \in Spots /\ <<"stack", g>> \in Spots
    BY SpotCases
  <2>3. /\ NoRepeat(W[<<"valmap", f>>])
        /\ Elems(W[<<"valmap", f>>]) \cap Elems(W[<<"stack", g>>]) = {}
    BY <1>1, <2>1, <2>2
  <2> QED BY <2>3, WAt
<1>5. ASSUME NEW f \in Files, NEW g \in Files \ {f}
      PROVE  /\ Elems(valmap[f]) \cap Elems(valmap[g]) = {}
             /\ Elems(stack[f]) \cap Elems(stack[g]) = {}
  <2>1. <<"valmap", f>> # <<"valmap", g>> /\ <<"stack", f>> # <<"stack", g>>
    OBVIOUS
  <2>2. /\ <<"valmap", f>> \in Spots /\ <<"valmap", g>> \in Spots
        /\ <<"stack", f>> \in Spots /\ <<"stack", g>> \in Spots
    BY SpotCases
  <2>3. /\ Elems(W[<<"valmap", f>>]) \cap Elems(W[<<"valmap", g>>]) = {}
        /\ Elems(W[<<"stack", f>>]) \cap Elems(W[<<"stack", g>>]) = {}
    BY <1>1, <2>1, <2>2
  <2> QED BY <2>3, WAt
<1> QED BY <1>2, <1>3, <1>4, <1>5

LEMMA InitConduit == Init => Conduit!Init
<1> SUFFICES ASSUME Init PROVE Conduit!Init
  OBVIOUS
<1>1. /\ \A f \in Files : stack[f] = <<>> /\ valmap[f] = <<>>
      /\ \A a \in Actors : hand[a] = <<>>
  BY DEF Init
<1>2. Pending = {}
  BY <1>1, ElemsEmpty, PendingMember
<1> QED BY <1>2 DEF Init, Conduit!Init

\* A finished line is accepted, and is pending or already given up.
LEMMA PushAccepts ==
  ASSUME TypeOK, NEW f \in Files, NEW p \in Procs, PushStep(f, p)
  PROVE  Conduit!Accept(f, p)
<1> DEFINE l == NextLine(f, p)
<1>1. l \in Line /\ l = Conduit!LineOf(f, p, done[f][p] + 1)
  BY NextLineType DEF NextLine, Conduit!LineOf
<1> HIDE DEF l
<1>2. done' = [done EXCEPT ![f][p] = @ + 1] /\ out' = out
  BY DEF PushStep, StackPush
<1>3. CASE stack' = [stack EXCEPT ![f] = Append(@, l)] /\ UNCHANGED dropped
  <2>1. \A g \in Files : stack'[g] = IF g = f THEN Append(stack[f], l) ELSE stack[g]
    BY <1>3 DEF TypeOK
  <2>2. Elems(stack'[f]) = Elems(stack[f]) \cup {l}
    BY <1>1, <2>1, ElemsAppend DEF TypeOK
  <2>3. \A g \in Files : Elems(stack'[g]) = IF g = f THEN Elems(stack[f]) \cup {l} ELSE Elems(stack[g])
    BY <2>1, <2>2
  <2>4. UNCHANGED <<valmap, hand, lost>>
    BY DEF PushStep
  <2>5. ASSUME NEW k PROVE k \in Pending' <=> k \in Pending \cup {l}
    BY <2>3, <2>4, PendingMember, PendingMemberNext
  <2>6. Pending' = Pending \cup {l} /\ UNCHANGED (lost \cup dropped)
    BY <1>3, <2>4, <2>5
  <2> QED BY <1>1, <1>2, <2>6 DEF Conduit!Accept
<1>4. CASE dropped' = dropped \cup {l} /\ UNCHANGED stack
  <2>1. UNCHANGED <<stack, valmap, hand, lost>>
    BY <1>4 DEF PushStep
  <2>2. Pending' = Pending
    BY <2>1, PendingMember, PendingMemberNext
  <2>3. (lost \cup dropped)' = (lost \cup dropped) \cup {l}
    BY <1>4, <2>1
  <2> QED BY <1>1, <1>2, <2>2, <2>3 DEF Conduit!Accept
<1> QED BY <1>3, <1>4 DEF PushStep, StackPush, l

LEMMA LoseAccepts ==
  ASSUME TypeOK, NEW f \in Files, NEW p \in Procs, LoseStep(f, p)
  PROVE  Conduit!Accept(f, p)
<1>1. NextLine(f, p) = Conduit!LineOf(f, p, done[f][p] + 1)
  BY DEF NextLine, Conduit!LineOf
<1>2. Pending' = Pending
  BY PendingMember, PendingMemberNext DEF LoseStep
<1>3. (lost \cup dropped)' = (lost \cup dropped) \cup {NextLine(f, p)}
  BY DEF LoseStep
<1> QED BY <1>1, <1>2, <1>3 DEF LoseStep, Conduit!Accept

\* A pop moves pending lines to another thread.
LEMMA PopStutters ==
  ASSUME TypeOK, NEW f \in Files, ScanStep(f) \/ \E a \in Actors : TakeStep(f, a)
  PROVE  UNCHANGED Conduit!vars
<1>1. \A g \in Files : stack'[g] = IF g = f THEN <<>> ELSE stack[g]
  BY PopType DEF ScanStep, TakeStep
<1>2. \A g \in Files : Elems(stack'[g]) = IF g = f THEN {} ELSE Elems(stack[g])
  BY <1>1, ElemsEmpty
<1>3. CASE ScanStep(f)
  <2>1. \A g \in Files : Elems(valmap'[g]) = IF g = f THEN Elems(stack[f]) ELSE Elems(valmap[g])
    BY <1>3 DEF ScanStep, TypeOK
  <2>2. Elems(valmap[f]) = {}
    BY <1>3, ElemsEmpty DEF ScanStep
  <2>3. UNCHANGED hand
    BY <1>3 DEF ScanStep
  <2>4. ASSUME NEW k PROVE k \in Pending' <=> k \in Pending
    BY <1>2, <2>1, <2>2, <2>3, PendingMember, PendingMemberNext
  <2> QED BY <1>3, <2>4 DEF ScanStep, Conduit!vars
<1>4. ASSUME NEW a \in Actors, TakeStep(f, a) PROVE UNCHANGED Conduit!vars
  <2>1. \A b \in Actors : Elems(hand'[b]) = IF b = a THEN Elems(stack[f]) ELSE Elems(hand[b])
    BY <1>4 DEF TakeStep, TypeOK
  <2>2. Elems(hand[a]) = {}
    BY <1>4, ElemsEmpty DEF TakeStep
  <2>3. UNCHANGED valmap
    BY <1>4 DEF TakeStep
  <2>4. ASSUME NEW k PROVE k \in Pending' <=> k \in Pending
    BY <1>2, <2>1, <2>2, <2>3, PendingMember, PendingMemberNext
  <2> QED BY <1>4, <2>4 DEF TakeStep, Conduit!vars
<1> QED BY <1>3, <1>4

\* A line that is put out, or that fails, was pending and is no more.
LEMMA PutOutEmits ==
  ASSUME NEW h \in Pending, PutOut(h), Pending' = Pending \ {h}, UNCHANGED <<done, dropped>>
  PROVE  Conduit!Next
<1>1. CASE out' = [out EXCEPT ![h.file] = Append(@, h)] /\ UNCHANGED lost
  <2>1. Conduit!Emit(h)
    BY <1>1 DEF Conduit!Emit
  <2> QED BY <2>1 DEF Conduit!Next
<1>2. CASE lost' = lost \cup {h} /\ UNCHANGED out
  <2>1. (lost \cup dropped)' = (lost \cup dropped) \cup {h}
    BY <1>2
  <2>2. Conduit!GiveUp({h}) /\ {h} \in SUBSET Pending
    BY <1>2, <2>1 DEF Conduit!GiveUp
  <2> QED BY <2>2 DEF Conduit!Next
<1> QED BY <1>1, <1>2 DEF PutOut

LEMMA HandEmits ==
  ASSUME TypeOK, OnceInv, NEW a \in Actors, HandStep(a)
  PROVE  Conduit!Next
<1> DEFINE h == Head(hand[a])
<1>1. hand[a] \in Seq(Line) /\ hand[a] # <<>> /\ NoRepeat(hand[a])
  BY OnlyPlace DEF HandStep, TypeOK
<1>2. h \in Elems(hand[a]) /\ Elems(Tail(hand[a])) = Elems(hand[a]) \ {h}
  BY <1>1, ElemsTail
<1>3. PutOut(h)
  BY DEF HandStep
<1>4. \A b \in Actors : hand'[b] = IF b = a THEN Tail(hand[a]) ELSE hand[b]
  BY DEF HandStep, TypeOK
<1> HIDE DEF h
<1>5. \A b \in Actors : Elems(hand'[b]) = Elems(hand[b]) \ {h}
  <2> TAKE b \in Actors
  <2>1. CASE b = a
    BY <1>2, <1>4, <2>1
  <2>2. CASE b # a
    <3>1. Elems(hand[a]) \cap Elems(hand[b]) = {}
      BY <2>2, OnlyPlace
    <3> QED BY <1>2, <1>4, <2>2, <3>1
  <2> QED BY <2>1, <2>2
<1>6. \A f \in Files : h \notin Elems(stack[f]) /\ h \notin Elems(valmap[f])
  <2> TAKE f \in Files
  <2>1. Elems(hand[a]) \cap Elems(stack[f]) = {} /\ Elems(hand[a]) \cap Elems(valmap[f]) = {}
    BY OnlyPlace
  <2> QED BY <1>2, <2>1
<1>7. UNCHANGED <<stack, valmap, done, dropped>>
  BY DEF HandStep
<1>8. ASSUME NEW k PROVE k \in Pending' <=> k \in Pending /\ k # h
  <2>1. \A f \in Files : /\ k \in Elems(stack'[f]) <=> k \in Elems(stack[f]) /\ k # h
                         /\ k \in Elems(valmap'[f]) <=> k \in Elems(valmap[f]) /\ k # h
    BY <1>5, <1>6, <1>7
  <2>2. \A b \in Actors : k \in Elems(hand'[b]) <=> k \in Elems(hand[b]) /\ k # h
    BY <1>5, <1>6, <1>7
  <2> QED BY <2>1, <2>2, PendingMember, PendingMemberNext
<1>9. h \in Pending
  BY <1>2, PendingMember
<1>10. Pending' = Pending \ {h}
  BY <1>8
<1> QED BY <1>3, <1>7, <1>9, <1>10, PutOutEmits

LEMMA BatchEmits ==
  ASSUME TypeOK, OnceInv, NEW g \in Files, BatchStep(g)
  PROVE  Conduit!Next
<1> DEFINE h == Head(valmap[g])
<1>1. valmap[g] \in Seq(Line) /\ valmap[g] # <<>> /\ NoRepeat(valmap[g])
  BY OnlyPlace DEF BatchStep, TypeOK
<1>2. h \in Elems(valmap[g]) /\ Elems(Tail(valmap[g])) = Elems(valmap[g]) \ {h}
  BY <1>1, ElemsTail
<1>3. PutOut(h)
  BY DEF BatchStep
<1>4. \A f \in Files : valmap'[f] = IF f = g THEN Tail(valmap[g]) ELSE valmap[f]
  BY DEF BatchStep, TypeOK
<1> HIDE DEF h
<1>5. \A f \in Files : Elems(valmap'[f]) = Elems(valmap[f]) \ {h}
  <2> TAKE f \in Files
  <2>1. CASE f = g
    BY <1>2, <1>4, <2>1
  <2>2. CASE f # g
    <3>1. Elems(valmap[g]) \cap Elems(valmap[f]) = {}
      BY <2>2, OnlyPlace
    <3> QED BY <1>2, <1>4, <2>2, <3>1
  <2> QED BY <2>1, <2>2
<1>6. /\ \A f \in Files : h \notin Elems(stack[f])
      /\ \A a \in Actors : h \notin Elems(hand[a])
  <2>1. \A f \in Files : Elems(valmap[g]) \cap Elems(stack[f]) = {}
    BY OnlyPlace
  <2>2. \A a \in Actors : Elems(hand[a]) \cap Elems(valmap[g]) = {}
    BY OnlyPlace
  <2> QED BY <1>2, <2>1, <2>2
<1>7. UNCHANGED <<stack, hand, done, dropped>>
  BY DEF BatchStep
<1>8. ASSUME NEW k PROVE k \in Pending' <=> k \in Pending /\ k # h
  <2>1. \A f \in Files : /\ k \in Elems(stack'[f]) <=> k \in Elems(stack[f]) /\ k # h
                         /\ k \in Elems(valmap'[f]) <=> k \in Elems(valmap[f]) /\ k # h
    BY <1>5, <1>6, <1>7
  <2>2. \A b \in Actors : k \in Elems(hand'[b]) <=> k \in Elems(hand[b]) /\ k # h
    BY <1>5, <1>6, <1>7
  <2> QED BY <2>1, <2>2, PendingMember, PendingMemberNext
<1>9. h \in Pending
  BY <1>2, PendingMember
<1>10. Pending' = Pending \ {h}
  BY <1>8
<1> QED BY <1>3, <1>7, <1>9, <1>10, PutOutEmits

\* A buffer is deleted with what is in it, which may be nothing.
LEMMA FreeGivesUp ==
  ASSUME TypeOK, OnceInv, NEW f \in Files, FreeStep(f)
  PROVE  Conduit!Next \/ UNCHANGED Conduit!vars
<1> DEFINE L == Elems(stack[f])
<1>1. \A g \in Files : stack'[g] = IF g = f THEN <<>> ELSE stack[g]
  BY PopType DEF FreeStep
<1>2. \A g \in Files : Elems(stack'[g]) = Elems(stack[g]) \ L
  <2> TAKE g \in Files
  <2>1. CASE g = f
    BY <1>1, <2>1, ElemsEmpty
  <2>2. CASE g # f
    <3>1. Elems(stack[f]) \cap Elems(stack[g]) = {}
      BY <2>2, OnlyPlace
    <3> QED BY <1>1, <2>2, <3>1
  <2> QED BY <2>1, <2>2
<1>3. /\ \A g \in Files : Elems(valmap[g]) \cap L = {}
      /\ \A a \in Actors : Elems(hand[a]) \cap L = {}
  BY OnlyPlace
<1>4. /\ UNCHANGED <<valmap, hand, done, out>>
      /\ (lost \cup dropped)' = (lost \cup dropped) \cup L
  BY DEF FreeStep
<1>5. L \subseteq Pending
  BY PendingMember
<1> HIDE DEF L
<1>6. ASSUME NEW k PROVE k \in Pending' <=> k \in Pending /\ k \notin L
  BY <1>2, <1>3, <1>4, PendingMember, PendingMemberNext
<1>7. Pending' = Pending \ L
  BY <1>6
<1>8. CASE L = {}
  BY <1>4, <1>7, <1>8 DEF Conduit!vars
<1>9. CASE L # {}
  <2>1. Conduit!GiveUp(L)
    BY <1>4, <1>5, <1>7, <1>9 DEF Conduit!GiveUp
  <2> QED BY <1>5, <2>1 DEF Conduit!Next
<1> QED BY <1>8, <1>9

LEMMA NextConduit ==
  ASSUME Typing, OnceInv, [Next]_vars
  PROVE  [Conduit!Next]_Conduit!vars
<1>0. TypeOK /\ LineStep
  BY NextLineStep DEF Typing
<1>1. CASE Still
  <2>1. UNCHANGED <<done, out, lost, dropped>> /\ Pending' = Pending
    BY <1>1, PendingMember, PendingMemberNext DEF Still
  <2> QED BY <2>1 DEF Conduit!vars
<1>2. ASSUME NEW f \in Files, NEW p \in Procs, PushStep(f, p) \/ LoseStep(f, p)
      PROVE  Conduit!Next
  <2>1. Conduit!Accept(f, p)
    BY <1>0, <1>2, PushAccepts, LoseAccepts
  <2> QED BY <2>1 DEF Conduit!Next
<1>3. ASSUME NEW f \in Files, ScanStep(f) \/ \E a \in Actors : TakeStep(f, a)
      PROVE  UNCHANGED Conduit!vars
  BY <1>0, <1>3, PopStutters
<1>4. ASSUME NEW f \in Files, BatchStep(f) PROVE Conduit!Next
  BY <1>0, <1>4, BatchEmits
<1>5. ASSUME NEW a \in Actors, HandStep(a) PROVE Conduit!Next
  BY <1>0, <1>5, HandEmits
<1>6. ASSUME NEW f \in Files, FreeStep(f)
      PROVE  Conduit!Next \/ UNCHANGED Conduit!vars
  BY <1>0, <1>6, FreeGivesUp
<1> QED BY <1>0, <1>1, <1>2, <1>3, <1>4, <1>5, <1>6 DEF LineStep

\* ImplementsConduit: the buffers, stacks, batches and four kinds of threads of
\* k2hftman.cc and k2hftwbuf.cc do to each line what LineConduit promises.
THEOREM WritePathImplementsConduit == Spec => ImplementsConduit
<1>1. IInv /\ [Next]_vars => [Conduit!Next]_Conduit!vars
  BY NextConduit DEF IInv
<1> QED BY <1>1, InitConduit, OrderHolds, PTL DEF Spec, ImplementsConduit, Conduit!Spec

=============================================================================
