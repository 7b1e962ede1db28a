---------------------------- MODULE LoaderProofs ----------------------------
(***************************************************************************)
(* Proofs about Loader, for every configuration: what is loaded is what it *)
(* says.                                                                   *)
(***************************************************************************)
EXTENDS Loader, SequenceFacts, FiniteSetTheorems

-----------------------------------------------------------------------------
(* What one more key means.                                                *)

Word == Words \cup {""}
Entry == (MainKeys \cup RuleKeys \cup {""}) \X Word

LEMMA PairIs == \A A, B : \A x \in A \X B : x = <<x[1], x[2]>>
OBVIOUS

LEMMA WiderSeq ==
  ASSUME NEW S, NEW T, S \subseteq T, NEW s \in Seq(S)
  PROVE  s \in Seq(T)
<1>1. Len(s) \in Nat /\ s \in [1 .. Len(s) -> S]
  BY LenProperties
<1>2. s \in [1 .. Len(s) -> T]
  BY <1>1
<1> QED BY <1>1, <1>2, SeqDef

LEMMA AppendEntry ==
  ASSUME NEW S, NEW s \in Seq(S), NEW e \in S
  PROVE  /\ Len(s) \in Nat /\ DOMAIN s = 1 .. Len(s) /\ \A i \in 1 .. Len(s) : s[i] \in S
         /\ Append(s, e) \in Seq(S) /\ DOMAIN Append(s, e) = 1 .. Len(s) + 1
         /\ \A i \in 1 .. Len(s) : Append(s, e)[i] = s[i]
         /\ Append(s, e)[Len(s) + 1] = e
<1>1. Len(s) \in Nat /\ DOMAIN s = 1 .. Len(s) /\ \A i \in 1 .. Len(s) : s[i] \in S
  BY LenProperties, ElementOfSeq
<1>2. /\ Append(s, e) \in Seq(S) /\ Len(Append(s, e)) = Len(s) + 1
      /\ \A i \in 1 .. Len(s) : Append(s, e)[i] = s[i]
      /\ Append(s, e)[Len(s) + 1] = e
  BY AppendProperties
<1> QED BY <1>1, <1>2, LenProperties

LEMMA GreatestIs ==
  ASSUME NEW I \in SUBSET Nat, NEW i \in I, \A j \in I : j <= i
  PROVE  Greatest(I) = i
<1>1. Greatest(I) \in I /\ \A j \in I : j <= Greatest(I)
  BY DEF Greatest
<1>2. Greatest(I) \in Nat /\ i \in Nat /\ i <= Greatest(I) /\ Greatest(I) <= i
  BY <1>1
<1> QED BY ONLY <1>2

LEMMA GreatestIn ==
  ASSUME NEW n \in Nat, NEW I \in SUBSET (1 .. n), I # {}
  PROVE  Greatest(I) \in I /\ \A j \in I : j <= Greatest(I)
<1> DEFINE J == {n - i : i \in I}
<1>1. J \in SUBSET Nat /\ J # {}
  <2>1. \A i \in I : n - i \in Nat
    OBVIOUS
  <2> QED BY <2>1
<1>2. PICK m \in J : \A y \in J : m <= y
  BY <1>1, LeastNumber
<1>3. PICK i \in I : m = n - i
  BY <1>2
<1>4. \A j \in I : j <= i
  <2> SUFFICES ASSUME NEW j \in I PROVE j <= i
    OBVIOUS
  <2>1. m <= n - j
    BY <1>2
  <2> QED BY <1>3, <2>1
<1> QED BY <1>4 DEF Greatest

LEMMA LastValueStart ==
  ASSUME NEW key, NEW values, NEW default
  PROVE  LastValue(<<>>, key, values, default) = default
BY DEF LastValue, Positions

LEMMA LastValueGrows ==
  ASSUME NEW s \in Seq(Entry), NEW e \in Entry, NEW key, NEW values, NEW default
  PROVE  LastValue(Append(s, e), key, values, default) =
           IF e[1] = key /\ e[2] \in values THEN e[2] ELSE LastValue(s, key, values, default)
<1> DEFINE t == Append(s, e)
<1>1. /\ Len(s) \in Nat /\ DOMAIN s = 1 .. Len(s)
      /\ DOMAIN t = 1 .. Len(s) + 1
      /\ \A i \in 1 .. Len(s) : t[i] = s[i]
      /\ t[Len(s) + 1] = e
  BY AppendEntry, SMTT(40)
<1> HIDE DEF t
<1>2. PICK n \in Nat : n = Len(s)
  BY <1>1
<1>3. /\ Positions(t, key, values) \subseteq 1 .. n + 1
      /\ Positions(s, key, values) \subseteq 1 .. n
      /\ \A i \in 1 .. n : i \in Positions(t, key, values) <=> i \in Positions(s, key, values)
      /\ n + 1 \in Positions(t, key, values) <=> e[1] = key /\ e[2] \in values
  BY <1>1, <1>2 DEF Positions
<1>4. CASE e[1] = key /\ e[2] \in values
  <2>1. Positions(t, key, values) # {}
    BY <1>3, <1>4
  <2>2. Greatest(Positions(t, key, values)) = n + 1
    <3>1. Positions(t, key, values) \in SUBSET Nat /\ \A j \in Positions(t, key, values) : j <= n + 1
      BY <1>3
    <3> QED BY <1>3, <1>4, <3>1, GreatestIs
  <2> QED BY <1>1, <1>2, <1>4, <2>1, <2>2 DEF LastValue, t
<1>5. CASE ~(e[1] = key /\ e[2] \in values)
  <2>1. Positions(t, key, values) = Positions(s, key, values)
    <3>1. \A i \in Positions(t, key, values) : i \in 1 .. n
      BY <1>3, <1>5
    <3> QED BY <1>3, <3>1
  <2>2. Positions(s, key, values) # {} => Greatest(Positions(s, key, values)) \in 1 .. n
    BY <1>3, GreatestIn
  <2>3. Positions(s, key, values) # {} =>
          t[Greatest(Positions(s, key, values))] = s[Greatest(Positions(s, key, values))]
    BY <1>1, <1>2, <2>2
  <2> QED BY <1>5, <2>1, <2>3 DEF LastValue, t
<1> QED BY <1>4, <1>5

\* Every value counts.
LEMMA AnyValueIs ==
  ASSUME NEW s \in Seq(Entry), NEW key, NEW default
  PROVE  AnyValue(s, key, default) = LastValue(s, key, Word, default)
<1>1. \A i \in DOMAIN s : s[i][2] \in Word
  <2>1. \A i \in DOMAIN s : s[i] \in Entry
    BY LenProperties, ElementOfSeq
  <2>2. \A x \in Entry : x[2] \in Word
    BY DEF Entry
  <2> QED BY <2>1, <2>2
<1>2. Positions(s, key, Values(s, key)) = Positions(s, key, Word)
  BY <1>1 DEF Positions, Values
<1> QED BY <1>2 DEF AnyValue, LastValue

LEMMA AnyValueGrows ==
  ASSUME NEW s \in Seq(Entry), NEW e \in Entry, NEW key, NEW default
  PROVE  AnyValue(Append(s, e), key, default) = IF e[1] = key THEN e[2] ELSE AnyValue(s, key, default)
<1>1. Append(s, e) \in Seq(Entry) /\ e[2] \in Word
  BY AppendEntry DEF Entry
<1>2. LastValue(Append(s, e), key, Word, default) = IF e[1] = key THEN e[2] ELSE LastValue(s, key, Word, default)
  BY <1>1, LastValueGrows
<1> QED BY <1>1, <1>2, AnyValueIs

LEMMA AnyValueStart ==
  ASSUME NEW key, NEW default
  PROVE  AnyValue(<<>>, key, default) = default
BY LastValueStart DEF AnyValue

LEMMA YesGrows ==
  ASSUME NEW s \in Seq(Entry), NEW e \in Entry, NEW key, NEW default
  PROVE  IsYes(Append(s, e), key, default) = IF e[1] = key THEN Flag(IsYes(s, key, default), e[2]) ELSE IsYes(s, key, default)
BY LastValueGrows DEF IsYes, Flag

\* MeantFile: what comes before a K2HTYPE that clears the file does not count.
Clearing(items) == Positions(items, "K2HTYPE", {"mem", "temp"})
Standing(items) == [i \in DOMAIN items |-> IF \E j \in Clearing(items) : j > i THEN <<"", "">> ELSE items[i]]

LEMMA FileGrows ==
  ASSUME NEW s \in Seq(Entry), NEW e \in Entry
  PROVE  MeantFile(Append(s, e)) =
           CASE e[1] = "K2HTYPE" /\ e[2] \in {"mem", "temp"} -> ""
             [] e[1] = "K2HFILE" -> e[2]
             [] OTHER -> MeantFile(s)
<1> DEFINE t == Append(s, e)
<1>1. /\ Len(s) \in Nat /\ DOMAIN s = 1 .. Len(s) /\ \A i \in 1 .. Len(s) : s[i] \in Entry
      /\ t \in Seq(Entry) /\ DOMAIN t = 1 .. Len(s) + 1
      /\ \A i \in 1 .. Len(s) : t[i] = s[i]
      /\ t[Len(s) + 1] = e
  BY AppendEntry, SMTT(40)
<1> HIDE DEF t
<1>2. PICK n \in Nat : n = Len(s)
  BY <1>1
<1>3. /\ Clearing(t) \subseteq 1 .. n + 1 /\ Clearing(s) \subseteq 1 .. n
      /\ \A i \in 1 .. n : i \in Clearing(t) <=> i \in Clearing(s)
      /\ n + 1 \in Clearing(t) <=> e[1] = "K2HTYPE" /\ e[2] \in {"mem", "temp"}
  BY <1>1, <1>2 DEF Clearing, Positions
<1>4. MeantFile(t) = AnyValue(Standing(t), "K2HFILE", "") /\ MeantFile(s) = AnyValue(Standing(s), "K2HFILE", "")
  BY DEF MeantFile, Standing, Clearing
<1>5. <<"", "">> \in Entry
  BY DEF Entry, Word
<1>6. /\ Standing(t) \in [1 .. n + 1 -> Entry] /\ Standing(s) \in [1 .. n -> Entry]
      /\ Standing(t)[n + 1] = e
  <2>1. \A i \in 1 .. n + 1 : t[i] \in Entry
    <3>1. \A i \in 1 .. n + 1 : i \in 1 .. n \/ i = n + 1
      OBVIOUS
    <3> QED BY <1>1, <1>2, <1>5, <3>1
  <2>2. ~ \E j \in Clearing(t) : j > n + 1
    BY <1>3
  <2>3. Standing(t) = [i \in 1 .. n + 1 |-> IF \E j \in Clearing(t) : j > i THEN <<"", "">> ELSE t[i]]
    BY <1>1, <1>2 DEF Standing
  <2>4. Standing(s) = [i \in 1 .. n |-> IF \E j \in Clearing(s) : j > i THEN <<"", "">> ELSE s[i]]
    BY <1>1, <1>2 DEF Standing
  <2>5. Standing(t) \in [1 .. n + 1 -> Entry]
    BY <1>5, <2>1, <2>3
  <2>6. Standing(s) \in [1 .. n -> Entry]
    BY <1>1, <1>2, <1>5, <2>4
  <2>7. Standing(t)[n + 1] = e
    <3>1. n + 1 \in 1 .. n + 1 /\ t[n + 1] = e
      BY <1>1, <1>2
    <3> QED BY <2>2, <2>3, <3>1
  <2> QED BY <2>5, <2>6, <2>7
<1>7. Standing(t) \in Seq(Entry) /\ Standing(s) \in Seq(Entry) /\ Len(Standing(t)) = n + 1 /\ Len(Standing(s)) = n
  BY <1>6, SeqOfFunction
<1>8. CASE e[1] = "K2HTYPE" /\ e[2] \in {"mem", "temp"}
  <2>1. \A i \in 1 .. n : Standing(t)[i] = <<"", "">>
    <3> SUFFICES ASSUME NEW i \in 1 .. n PROVE Standing(t)[i] = <<"", "">>
      OBVIOUS
    <3>1. n + 1 \in Clearing(t) /\ n + 1 > i
      BY <1>3, <1>8
    <3>2. i \in DOMAIN t
      BY <1>1, <1>2
    <3> QED BY <3>1, <3>2 DEF Standing
  <2>2. \A i \in DOMAIN Standing(t) : Standing(t)[i][1] # "K2HFILE"
    <3> SUFFICES ASSUME NEW i \in DOMAIN Standing(t) PROVE Standing(t)[i][1] # "K2HFILE"
      OBVIOUS
    <3>1. i \in 1 .. n \/ i = n + 1
      BY <1>6
    <3>2. CASE i \in 1 .. n
      <4>1. Standing(t)[i] = <<"", "">>
        BY <2>1, <3>2
      <4>2. <<"", "">>[1] # "K2HFILE"
        OBVIOUS
      <4> QED BY <4>1, <4>2, Zenon
    <3>3. CASE i = n + 1
      BY <1>6, <1>8, <3>3
    <3> QED BY <3>1, <3>2, <3>3
  <2>3. Positions(Standing(t), "K2HFILE", Values(Standing(t), "K2HFILE")) = {}
    BY <2>2 DEF Positions
  <2> QED BY <1>4, <1>8, <2>3 DEF AnyValue, LastValue, t
<1>9. CASE ~(e[1] = "K2HTYPE" /\ e[2] \in {"mem", "temp"})
  <2>1. \A i \in 1 .. n : Standing(t)[i] = Standing(s)[i]
    <3> SUFFICES ASSUME NEW i \in 1 .. n PROVE Standing(t)[i] = Standing(s)[i]
      OBVIOUS
    <3>1. Clearing(t) = Clearing(s)
      <4>1. \A j \in Clearing(t) : j \in 1 .. n
        BY <1>3, <1>9
      <4> QED BY <1>3, <4>1
    <3>2. i \in DOMAIN t /\ i \in DOMAIN s /\ t[i] = s[i]
      BY <1>1, <1>2
    <3> QED BY <3>1, <3>2 DEF Standing
  <2>2. Standing(t) = Append(Standing(s), e)
    <3>1. PICK x \in Seq(Entry), y \in Seq(Entry) : x = Standing(s) /\ y = Standing(t)
      BY <1>7
    <3>2. /\ Append(x, e) \in Seq(Entry) /\ Len(Append(x, e)) = Len(x) + 1
          /\ \A i \in 1 .. Len(x) : Append(x, e)[i] = x[i]
          /\ Append(x, e)[Len(x) + 1] = e
      BY <3>1, AppendProperties
    <3>3. Len(x) = n /\ Len(y) = n + 1 /\ y[n + 1] = e /\ \A i \in 1 .. n : y[i] = x[i]
      BY <1>6, <1>7, <2>1, <3>1
    <3>4. \A i \in 1 .. n + 1 : y[i] = Append(x, e)[i]
      BY ONLY <1>2, <3>2, <3>3
    <3>5. y = Append(x, e)
      BY <3>2, <3>3, <3>4, SameSeq
    <3> QED BY <3>1, <3>5
  <2>3. AnyValue(Standing(t), "K2HFILE", "") = IF e[1] = "K2HFILE" THEN e[2] ELSE AnyValue(Standing(s), "K2HFILE", "")
    <3>1. PICK x \in Seq(Entry) : x = Standing(s)
      BY <1>7
    <3>2. AnyValue(Append(x, e), "K2HFILE", "") = IF e[1] = "K2HFILE" THEN e[2] ELSE AnyValue(x, "K2HFILE", "")
      <4>1. PICK k, d : k = "K2HFILE" /\ d = ""
        OBVIOUS
      <4>2. AnyValue(Append(x, e), k, d) = IF e[1] = k THEN e[2] ELSE AnyValue(x, k, d)
        BY AnyValueGrows
      <4> QED BY <4>1, <4>2
    <3> QED BY <2>2, <3>1, <3>2
  <2> QED BY <1>4, <1>9, <2>3 DEF t
<1> QED BY <1>8, <1>9

LEMMA MembersStart == MeantMembers(<<>>) = NoMembers
<1>1. MeantFile(<<>>) = ""
  <2>1. DOMAIN Standing(<<>>) = {}
    BY DEF Standing
  <2>2. Positions(Standing(<<>>), "K2HFILE", Values(Standing(<<>>), "K2HFILE")) = {}
    BY <2>1 DEF Positions
  <2>3. AnyValue(Standing(<<>>), "K2HFILE", "") = ""
    BY <2>2 DEF AnyValue, LastValue
  <2> QED BY <2>3 DEF MeantFile, Standing, Clearing
<1>2. /\ LastValue(<<>>, "K2HTYPE", {"mem", "temp", "file"}, "mem") = "mem"
      /\ LastValue(<<>>, "K2HINIT", {"yes", "no"}, "yes") = "yes"
      /\ LastValue(<<>>, "K2HFULLMAP", {"yes", "no"}, "yes") = "yes"
      /\ LastValue(<<>>, "BINTRANS", {"yes", "no"}, "no") = "no"
  BY LastValueStart
<1> QED BY <1>1, <1>2 DEF MeantMembers, NoMembers, IsYes

LEMMA MembersGrow ==
  ASSUME NEW s \in Seq(Entry), NEW e \in Entry
  PROVE  MeantMembers(Append(s, e)) = MainValue(MeantMembers(s), e[1], e[2])
<1> DEFINE m == MeantMembers(s)
<1> DEFINE l == MeantMembers(Append(s, e))
<1>1. l.file = CASE e[1] = "K2HTYPE" /\ e[2] \in {"mem", "temp"} -> ""
                 [] e[1] = "K2HFILE" -> e[2]
                 [] OTHER -> m.file
  BY FileGrows DEF MeantMembers
<1>2. l.mem = IF e[1] = "K2HTYPE" /\ e[2] \in {"mem", "temp", "file"} THEN e[2] = "mem" ELSE m.mem
  BY LastValueGrows DEF MeantMembers
<1>3. /\ l.init = IF e[1] = "K2HINIT" THEN Flag(m.init, e[2]) ELSE m.init
      /\ l.fullmap = IF e[1] = "K2HFULLMAP" THEN Flag(m.fullmap, e[2]) ELSE m.fullmap
      /\ l.binary = IF e[1] = "BINTRANS" THEN Flag(m.binary, e[2]) ELSE m.binary
  BY YesGrows DEF MeantMembers
<1>4. /\ m = [mem |-> m.mem, file |-> m.file, init |-> m.init, fullmap |-> m.fullmap, binary |-> m.binary]
      /\ l = [mem |-> l.mem, file |-> l.file, init |-> l.init, fullmap |-> l.fullmap, binary |-> l.binary]
  BY DEF MeantMembers
<1> HIDE DEF m, l
<1> QED BY <1>1, <1>2, <1>3, <1>4 DEF MainValue, m, l

LEMMA RuleStart == MeantRule(FALSE, <<>>, TRUE) = [NewRule EXCEPT !.pPlugin = ""]
<1>1. /\ AnyValue(<<>>, "TARGET", "") = "" /\ AnyValue(<<>>, "OUTPUTFILE", "") = "" /\ AnyValue(<<>>, "PLUGIN", "") = ""
      /\ LastValue(<<>>, "TRUNS", {"yes", "no"}, "no") = "no"
      /\ LastValue(<<>>, "DEFAULTALL", {"allow", "deny"}, "deny") = "deny"
  BY AnyValueStart, LastValueStart
<1>2. IsYes(<<>>, "TRUNS", "no") = FALSE
  BY <1>1 DEF IsYes
<1>3. MeantRule(FALSE, <<>>, TRUE) =
        [TargetPath |-> "", dir |-> FALSE, IsTransfer |-> FALSE, OutputPath |-> "",
         pPlugin |-> "", DefaultDenyAll |-> TRUE, MatchingList |-> <<>>]
  BY <1>1, <1>2, Zenon DEF MeantRule
<1>4. PICK q : q = NewRule
  OBVIOUS
<1>5. /\ q = [TargetPath |-> q.TargetPath, dir |-> q.dir, IsTransfer |-> q.IsTransfer, OutputPath |-> q.OutputPath,
              pPlugin |-> q.pPlugin, DefaultDenyAll |-> q.DefaultDenyAll, MatchingList |-> q.MatchingList]
      /\ q.TargetPath = "" /\ q.dir = FALSE /\ q.IsTransfer = FALSE /\ q.OutputPath = ""
      /\ q.DefaultDenyAll = TRUE /\ q.MatchingList = <<>>
  BY <1>4 DEF NewRule
<1>6. [q EXCEPT !.pPlugin = ""] =
        [TargetPath |-> "", dir |-> FALSE, IsTransfer |-> FALSE, OutputPath |-> "",
         pPlugin |-> "", DefaultDenyAll |-> TRUE, MatchingList |-> <<>>]
  <2>1. PICK a, b, c, d, e, f, g, h :
          /\ a = "" /\ b = FALSE /\ c = FALSE /\ d = "" /\ e = q.pPlugin /\ f = TRUE /\ g = <<>> /\ h = ""
    OBVIOUS
  <2>2. q = [TargetPath |-> a, dir |-> b, IsTransfer |-> c, OutputPath |-> d, pPlugin |-> e,
             DefaultDenyAll |-> f, MatchingList |-> g]
    BY <1>5, <2>1
  <2>3. [q EXCEPT !.pPlugin = h] = [TargetPath |-> a, dir |-> b, IsTransfer |-> c, OutputPath |-> d, pPlugin |-> h,
                                    DefaultDenyAll |-> f, MatchingList |-> g]
    BY ONLY <2>2
  <2> QED BY <2>1, <2>3
<1> QED BY <1>3, <1>4, <1>6

LEMMA RuleGrows ==
  ASSUME NEW dir, NEW s \in Seq(Entry), NEW e \in Entry
  PROVE  MeantRule(dir, Append(s, e), TRUE) =
           IF e[1] = "PLUGIN" THEN [MeantRule(dir, s, TRUE) EXCEPT !.pPlugin = e[2]]
                              ELSE RuleValue(MeantRule(dir, s, TRUE), e[1], e[2])
<1> DEFINE m == MeantRule(dir, s, TRUE)
<1> DEFINE l == MeantRule(dir, Append(s, e), TRUE)
<1>1. /\ l.TargetPath = IF e[1] = "TARGET" THEN e[2] ELSE m.TargetPath
      /\ l.OutputPath = IF e[1] = "OUTPUTFILE" THEN e[2] ELSE m.OutputPath
      /\ l.pPlugin = IF e[1] = "PLUGIN" THEN e[2] ELSE m.pPlugin
  <2>1. \A key, default : AnyValue(Append(s, e), key, default) = IF e[1] = key THEN e[2] ELSE AnyValue(s, key, default)
    BY AnyValueGrows
  <2> QED BY <2>1 DEF MeantRule
<1>2. /\ l.IsTransfer = IF e[1] = "TRUNS" THEN Flag(m.IsTransfer, e[2]) ELSE m.IsTransfer
      /\ l.DefaultDenyAll = IF e[1] = "DEFAULTALL" /\ e[2] \in {"allow", "deny"} THEN e[2] = "deny" ELSE m.DefaultDenyAll
  BY YesGrows, LastValueGrows DEF MeantRule
<1>3. l.dir = m.dir /\ l.MatchingList = m.MatchingList
  BY DEF MeantRule
<1>4. /\ m = [TargetPath |-> m.TargetPath, dir |-> m.dir, IsTransfer |-> m.IsTransfer, OutputPath |-> m.OutputPath,
              pPlugin |-> m.pPlugin, DefaultDenyAll |-> m.DefaultDenyAll, MatchingList |-> m.MatchingList]
      /\ l = [TargetPath |-> l.TargetPath, dir |-> l.dir, IsTransfer |-> l.IsTransfer, OutputPath |-> l.OutputPath,
              pPlugin |-> l.pPlugin, DefaultDenyAll |-> l.DefaultDenyAll, MatchingList |-> l.MatchingList]
  BY DEF MeantRule
<1> HIDE DEF m, l
<1> QED BY <1>1, <1>2, <1>3, <1>4, ZenonT(60) DEF RuleValue, m, l

\* The pattern of one entry, if it is one of ALLOW or of DENY that means something.
PatternOf(e, key) == IF e[1] = key THEN Patterns(e[2]) ELSE <<>>

LEMMA PatternsStart == \A key : MeantPatterns(<<>>, key) = <<>>
<1> SUFFICES ASSUME NEW key PROVE MeantPatterns(<<>>, key) = <<>>
  OBVIOUS
<1> DEFINE f == [i \in DOMAIN <<>> |-> IF <<>>[i][1] = key /\ <<>>[i][2] \notin {"?", "long"} THEN << <<>>[i][2] >> ELSE <<>>]
<1>1. f = <<>>
  OBVIOUS
<1>2. Len(f) = 0
  BY <1>1
<1>3. MeantPatterns(<<>>, key) = FlattenSeq(f)
  BY DEF MeantPatterns
<1> HIDE DEF f
<1> QED BY <1>1, <1>2, <1>3, FlattenNothing

LEMMA PatternsGrow ==
  ASSUME NEW s \in Seq(Entry), NEW e \in Entry, NEW key
  PROVE  /\ MeantPatterns(Append(s, e), key) = MeantPatterns(s, key) \o PatternOf(e, key)
         /\ MeantPatterns(s, key) \in Seq(Word) /\ PatternOf(e, key) \in Seq(Word)
<1> DEFINE t == Append(s, e)
<1> DEFINE ps(u) == [i \in DOMAIN u |-> IF u[i][1] = key /\ u[i][2] \notin {"?", "long"} THEN <<u[i][2]>> ELSE <<>>]
<1>1. /\ Len(s) \in Nat /\ DOMAIN s = 1 .. Len(s) /\ \A i \in 1 .. Len(s) : s[i] \in Entry
      /\ t \in Seq(Entry) /\ DOMAIN t = 1 .. Len(s) + 1
      /\ \A i \in 1 .. Len(s) : t[i] = s[i]
      /\ t[Len(s) + 1] = e
  BY AppendEntry
<1>2. PICK n \in Nat : n = Len(s)
  BY <1>1
<1> HIDE DEF t
<1>3. \A x \in Entry : PatternOf(x, key) = IF x[1] = key /\ x[2] \notin {"?", "long"} THEN <<x[2]>> ELSE <<>>
  BY DEF PatternOf, Patterns
<1>4. \A x \in Entry : PatternOf(x, key) \in Seq(Word)
  <2> SUFFICES ASSUME NEW x \in Entry PROVE PatternOf(x, key) \in Seq(Word)
    OBVIOUS
  <2>1. x[2] \in Word
    BY DEF Entry
  <2>2. <<x[2]>> \in Seq(Word) /\ <<>> \in Seq(Word)
    BY <2>1
  <2> QED BY <1>3, <2>2
<1>5. ps(s) \in [1 .. n -> Seq(Word)] /\ ps(t) \in [1 .. n + 1 -> Seq(Word)]
      /\ (\A i \in 1 .. n : ps(t)[i] = ps(s)[i]) /\ ps(t)[n + 1] = PatternOf(e, key)
  <2>1. \A i \in 1 .. n : ps(s)[i] = PatternOf(s[i], key)
    BY <1>1, <1>2, <1>3
  <2>2. \A i \in 1 .. n + 1 : t[i] \in Entry
    <3>1. \A i \in 1 .. n + 1 : i \in 1 .. n \/ i = n + 1
      OBVIOUS
    <3> QED BY <1>1, <1>2, <3>1
  <2>3. \A i \in 1 .. n + 1 : ps(t)[i] = PatternOf(t[i], key)
    BY <1>1, <1>2, <1>3, <2>2
  <2>4. ps(s) = [i \in 1 .. n |-> PatternOf(s[i], key)] /\ ps(t) = [i \in 1 .. n + 1 |-> PatternOf(t[i], key)]
    BY <1>1, <1>2, <2>1, <2>3
  <2>5. n + 1 \in 1 .. n + 1 /\ \A i \in 1 .. n : i \in 1 .. n + 1
    OBVIOUS
  <2> HIDE DEF ps
  <2> QED BY <1>1, <1>2, <1>4, <2>2, <2>4, <2>5
<1>6. MeantPatterns(s, key) = FlattenSeq(ps(s)) /\ MeantPatterns(t, key) = FlattenSeq(ps(t))
  BY DEF MeantPatterns
<1> HIDE DEF ps
<1>7. PICK x \in Seq(Seq(Word)), y \in Seq(Seq(Word)), z \in Seq(Word) :
        x = ps(s) /\ y = ps(t) /\ z = PatternOf(e, key) /\ Len(x) = n /\ Len(y) = n + 1
  BY <1>4, <1>5, SeqOfFunction
<1>8. y = Append(x, z)
  <2>1. /\ Append(x, z) \in Seq(Seq(Word)) /\ Len(Append(x, z)) = Len(x) + 1
        /\ \A i \in 1 .. Len(x) : Append(x, z)[i] = x[i]
        /\ Append(x, z)[Len(x) + 1] = z
    BY AppendProperties
  <2>2. \A i \in 1 .. Len(y) : y[i] = Append(x, z)[i]
    BY <1>5, <1>7, <2>1
  <2> QED BY <1>7, <2>1, <2>2, SameSeq
<1>9. FlattenSeq(y) = FlattenSeq(x) \o z /\ FlattenSeq(x) \in Seq(Word)
  BY <1>8, FlattenAppend, FlattenType
<1> QED BY <1>4, <1>6, <1>7, <1>9, SMTT(40) DEF t

-----------------------------------------------------------------------------
(* The text of a configuration.                                            *)

Token == [t : {"main", "dir", "rule", "{", "}", "]", "item"}, key : MainKeys \cup RuleKeys \cup {""}, value : Word]

\* The items behind the first k.
Item(e) == [t |-> "item", key |-> e[1], value |-> e[2]]
ItemsFrom(s, k) == [i \in 1 .. Len(s) - k |-> Item(s[k + i])]
Prefix(s, k) == SubSeq(s, 1, k)

LEMMA DocType ==
  ASSUME NEW d \in Docs
  PROVE  /\ d.main \in Seq(Entry) /\ d.main_last \in BOOLEAN /\ d.twice \in BOOLEAN
         /\ Len(d.main) \in Nat /\ DOMAIN d.main = 1 .. Len(d.main)
         /\ Len(d.groups) \in Nat /\ DOMAIN d.groups = 1 .. Len(d.groups)
         /\ \A n \in 1 .. Len(d.groups) :
              /\ d.groups[n] \in Groups /\ d.groups[n].dir \in BOOLEAN
              /\ d.groups[n].rules \in Seq(Seq(Entry))
              /\ Len(d.groups[n].rules) \in Nat
              /\ DOMAIN d.groups[n].rules = 1 .. Len(d.groups[n].rules)
              /\ \A r \in 1 .. Len(d.groups[n].rules) :
                   /\ d.groups[n].rules[r] \in Seq(Entry)
                   /\ Len(d.groups[n].rules[r]) \in Nat
                   /\ DOMAIN d.groups[n].rules[r] = 1 .. Len(d.groups[n].rules[r])
<1>1. /\ d.main \in Seq(MainKeys \X Words) /\ d.main_last \in BOOLEAN /\ d.twice \in BOOLEAN
      /\ d.groups \in Seq(Groups)
  BY DocAssumption DEF Documents
<1>2. /\ MainKeys \X Words \subseteq Entry /\ RuleKeys \X Words \subseteq Entry
  BY DEF Entry, Word
<1>3. d.main \in Seq(Entry)
  BY <1>1, <1>2, WiderSeq
<1>4. ASSUME NEW n \in 1 .. Len(d.groups)
      PROVE  /\ d.groups[n] \in Groups /\ d.groups[n].dir \in BOOLEAN
             /\ d.groups[n].rules \in Seq(Seq(Entry))
             /\ Len(d.groups[n].rules) \in Nat
             /\ DOMAIN d.groups[n].rules = 1 .. Len(d.groups[n].rules)
             /\ \A r \in 1 .. Len(d.groups[n].rules) :
                  /\ d.groups[n].rules[r] \in Seq(Entry)
                  /\ Len(d.groups[n].rules[r]) \in Nat
                  /\ DOMAIN d.groups[n].rules[r] = 1 .. Len(d.groups[n].rules[r])
  <2>1. d.groups[n] \in Groups
    BY <1>1, ElementOfSeq
  <2>2. d.groups[n].dir \in BOOLEAN /\ d.groups[n].rules \in Seq(Seq(RuleKeys \X Words))
    BY <2>1 DEF Groups
  <2>3. Seq(RuleKeys \X Words) \subseteq Seq(Entry)
    BY <1>2, WiderSeq
  <2>4. d.groups[n].rules \in Seq(Seq(Entry))
    BY <2>2, <2>3, WiderSeq
  <2>5. /\ Len(d.groups[n].rules) \in Nat /\ DOMAIN d.groups[n].rules = 1 .. Len(d.groups[n].rules)
        /\ \A r \in 1 .. Len(d.groups[n].rules) : d.groups[n].rules[r] \in Seq(Entry)
    BY <2>4, LenProperties, ElementOfSeq
  <2> QED BY <2>1, <2>2, <2>4, <2>5, LenProperties
<1>5. Len(d.main) \in Nat /\ DOMAIN d.main = 1 .. Len(d.main) /\ Len(d.groups) \in Nat /\ DOMAIN d.groups = 1 .. Len(d.groups)
  BY <1>1, LenProperties
<1> QED BY <1>1, <1>3, <1>4, <1>5

LEMMA JoinAgain == \A x, y, z \in Seq(Token) : (x \o y) \o z = x \o (y \o z)
BY ONLY Associative

Joined(h, i, x, y) == ((h \o i) \o x) \o y = h \o (i \o (x \o y))

LEMMA JoinFour == \A h, i, x, y \in Seq(Token) : Joined(h, i, x, y)
<1> SUFFICES ASSUME NEW h \in Seq(Token), NEW i \in Seq(Token), NEW x \in Seq(Token), NEW y \in Seq(Token)
             PROVE  Joined(h, i, x, y)
  OBVIOUS
<1> DEFINE J(u, v, w) == (u \o v) \o w = u \o (v \o w)
<1>1. \A u, v, w \in Seq(Token) : J(u, v, w)
  BY JoinAgain
<1> HIDE DEF J
<1>2. PICK p \in Seq(Token), q \in Seq(Token) : p = h \o i /\ q = x \o y
  BY ConcatProperties
<1>3. J(p, x, y) /\ J(h, i, q)
  BY <1>1
<1> QED BY <1>2, <1>3, Zenon DEF J, Joined

LEMMA ItemType ==
  /\ \A e \in Entry : Item(e) \in Token
  /\ Mark("main") \in Token /\ Mark("{") \in Token /\ Mark("}") \in Token /\ Mark("]") \in Token
  /\ \A x \in BOOLEAN : Mark(Kind(x)) \in Token
BY DEF Item, Entry, Token, Mark, Kind, Word

LEMMA ItemsFromType ==
  ASSUME NEW s \in Seq(Entry), NEW k \in 0 .. Len(s)
  PROVE  ItemsFrom(s, k) \in Seq(Token) /\ Len(ItemsFrom(s, k)) = Len(s) - k
<1>1. Len(s) \in Nat /\ \A i \in 1 .. Len(s) : s[i] \in Entry
  BY LenProperties, ElementOfSeq
<1>2. Len(s) - k \in Nat /\ \A i \in 1 .. Len(s) - k : k + i \in 1 .. Len(s)
  BY <1>1
<1>3. ItemsFrom(s, k) \in [1 .. Len(s) - k -> Token]
  BY <1>1, <1>2, ItemType DEF ItemsFrom
<1> QED BY <1>2, <1>3, SeqOfFunction

LEMMA ItemsAll ==
  ASSUME NEW s \in Seq(Entry)
  PROVE  ItemsFrom(s, 0) = Items(s) /\ ItemsFrom(s, Len(s)) = <<>> /\ Items(s) \in Seq(Token)
<1>1. Len(s) \in Nat /\ DOMAIN s = 1 .. Len(s)
  BY LenProperties
<1>2. ItemsFrom(s, 0) = Items(s)
  BY <1>1 DEF ItemsFrom, Items, Item
<1>3. 0 \in 0 .. Len(s) /\ Len(s) \in 0 .. Len(s) /\ Len(s) - Len(s) = 0
  BY <1>1
<1> QED BY <1>2, <1>3, ItemsFromType, EmptySeq

\* One token in front.
LEMMA FirstToken ==
  ASSUME NEW a \in Token, NEW y \in Seq(Token)
  PROVE  <<a>> \o y \in Seq(Token) /\ <<a>> \o y # <<>> /\ Head(<<a>> \o y) = a /\ Tail(<<a>> \o y) = y
<1>1. <<a>> \in Seq(Token) /\ Len(<<a>>) = 1 /\ <<a>>[1] = a /\ Len(y) \in Nat
  BY LenProperties
<1>2. PICK x \in Seq(Token) : x = <<a>> \o y
  BY <1>1, ConcatProperties
<1>3. Len(x) = 1 + Len(y) /\ \A i \in 1 .. 1 + Len(y) : x[i] = IF i <= 1 THEN a ELSE y[i - 1]
  BY <1>1, <1>2, ConcatProperties
<1>4. x # <<>>
  BY <1>1, <1>3, EmptySeq
<1>5. Head(x) = x[1]
  BY <1>2, <1>4
<1>6. x[1] = a
  BY <1>1, <1>3
<1>7. /\ Tail(x) \in Seq(Token) /\ Len(Tail(x)) = Len(x) - 1
      /\ \A i \in 1 .. Len(Tail(x)) : Tail(x)[i] = x[i + 1]
  BY <1>4, HeadTailProperties
<1>8. \A i \in 1 .. Len(y) : i + 1 \in 1 .. 1 + Len(y) /\ ~(i + 1 <= 1) /\ i + 1 - 1 = i
  BY <1>1
<1>9. Len(Tail(x)) = Len(y)
  BY <1>1, <1>3, <1>7
<1>10. \A i \in 1 .. Len(Tail(x)) : Tail(x)[i] = y[i]
  BY <1>3, <1>7, <1>8, <1>9
<1>11. Tail(x) = y
  BY <1>7, <1>9, <1>10, SameSeq
<1> QED BY <1>2, <1>4, <1>5, <1>6, <1>11

\* The next item, or what comes behind the items.
LEMMA NextItem ==
  ASSUME NEW s \in Seq(Entry), NEW k \in 0 .. Len(s), NEW y \in Seq(Token)
  PROVE  /\ ItemsFrom(s, k) \o y \in Seq(Token)
         /\ k = Len(s) => ItemsFrom(s, k) \o y = y
         /\ k < Len(s) => /\ k + 1 \in 0 .. Len(s) /\ s[k + 1] \in Entry
                          /\ ItemsFrom(s, k) \o y # <<>>
                          /\ Head(ItemsFrom(s, k) \o y) = Item(s[k + 1])
                          /\ Tail(ItemsFrom(s, k) \o y) = ItemsFrom(s, k + 1) \o y
                          /\ Prefix(s, k + 1) = Append(Prefix(s, k), s[k + 1])
<1>1. Len(s) \in Nat /\ \A i \in 1 .. Len(s) : s[i] \in Entry
  BY LenProperties, ElementOfSeq
<1>2. ItemsFrom(s, k) \o y \in Seq(Token)
  BY ItemsFromType, ConcatProperties
<1>3. k = Len(s) => ItemsFrom(s, k) \o y = y
  BY ItemsAll, ConcatEmptySeq
<1>4. CASE k < Len(s)
  <2>1. k + 1 \in 0 .. Len(s) /\ k + 1 \in 1 .. Len(s) /\ k \in Nat
    BY <1>1, <1>4
  <2>2. PICK e \in Entry : e = s[k + 1]
    BY <1>1, <2>1
  <2>3. Item(e) \in Token
    BY ItemType
  <2>4. PICK u \in Seq(Token), v \in Seq(Token) : u = ItemsFrom(s, k) /\ v = ItemsFrom(s, k + 1)
    BY <2>1, ItemsFromType
  <2>5. u = <<Item(e)>> \o v
    <3>1. Len(u) = Len(s) - k /\ Len(v) = Len(s) - (k + 1)
      BY <2>1, <2>4, ItemsFromType
    <3>2. <<Item(e)>> \in Seq(Token) /\ Len(<<Item(e)>>) = 1 /\ <<Item(e)>>[1] = Item(e)
      BY <2>3
    <3>3. PICK w \in Seq(Token) : w = <<Item(e)>> \o v
      BY <3>2, ConcatProperties
    <3>4. Len(w) = 1 + Len(v) /\ \A i \in 1 .. 1 + Len(v) : w[i] = IF i <= 1 THEN Item(e) ELSE v[i - 1]
      BY <3>2, <3>3, ConcatProperties
    <3>5. ASSUME NEW i \in 1 .. Len(u) PROVE u[i] = w[i]
      <4>1. i \in 1 .. Len(s) - k /\ i \in 1 .. 1 + Len(v)
        BY <1>1, <3>1
      <4>2. u[i] = Item(s[k + i])
        BY <2>4, <4>1 DEF ItemsFrom
      <4>3. CASE i = 1
        BY <2>2, <3>4, <4>1, <4>2, <4>3
      <4>4. CASE i # 1
        <5>1. i - 1 \in 1 .. Len(s) - (k + 1) /\ ~(i <= 1) /\ (k + 1) + (i - 1) = k + i
          BY <1>1, <4>1, <4>4
        <5>2. v[i - 1] = Item(s[(k + 1) + (i - 1)])
          BY <2>4, <5>1 DEF ItemsFrom
        <5> QED BY <3>4, <4>1, <4>2, <5>1, <5>2
      <4> QED BY <4>3, <4>4
    <3>6. Len(u) = Len(w)
      BY <1>1, <2>1, <3>1, <3>4
    <3>7. u = w
      BY <3>5, <3>6, SameSeq
    <3> QED BY <3>3, <3>7
  <2>6. u \o y = <<Item(e)>> \o (v \o y)
    <3>1. <<Item(e)>> \in Seq(Token)
      BY <2>3
    <3>2. PICK h \in Seq(Token) : h = <<Item(e)>>
      BY <3>1
    <3>3. (h \o v) \o y = h \o (v \o y)
      BY <2>4, <3>2, JoinAgain, ZenonT(60)
    <3> QED BY <2>5, <3>2, <3>3
  <2>7. v \o y \in Seq(Token)
    BY ConcatProperties
  <2>8. u \o y # <<>> /\ Head(u \o y) = Item(e) /\ Tail(u \o y) = v \o y
    BY <2>3, <2>6, <2>7, FirstToken
  <2>9. Prefix(s, k + 1) = Append(Prefix(s, k), s[k + 1])
    <3>1. 1 \in Nat \ {0} /\ 1 <= k + 1
      BY <2>1
    <3> QED BY <1>4, <2>1, <3>1, PrefixAppend DEF Prefix
  <2>10. /\ ItemsFrom(s, k) \o y # <<>>
         /\ Head(ItemsFrom(s, k) \o y) = Item(s[k + 1])
         /\ Tail(ItemsFrom(s, k) \o y) = ItemsFrom(s, k + 1) \o y
    BY <2>2, <2>4, <2>8, Zenon
  <2>11. s[k + 1] \in Entry
    BY <2>2
  <2> QED BY <1>2, <1>3, <2>1, <2>9, <2>10, <2>11, Zenon
<1> QED BY <1>1, <1>2, <1>3, <1>4

\* The rules of a group in each form, and the groups.
IniTexts(g) == [r \in DOMAIN g.rules |-> IniRuleText(g.dir, g.rules[r])]
IniGroups(d) == [n \in DOMAIN d.groups |-> IniGroupText(d.groups[n])]
YamlTexts(g) == [r \in DOMAIN g.rules |-> YamlRuleText(g.rules[r])]
YamlGroups(d) == [n \in DOMAIN d.groups |-> YamlGroupText(d.groups[n])]

LEMMA IniTextType ==
  ASSUME NEW d \in Docs
  PROVE  /\ IniGroups(d) \in Seq(Seq(Token)) /\ Len(IniGroups(d)) = Len(d.groups)
         /\ \A n \in 1 .. Len(d.groups) :
              /\ IniTexts(d.groups[n]) \in Seq(Seq(Token))
              /\ Len(IniTexts(d.groups[n])) = Len(d.groups[n].rules)
              /\ IniGroups(d)[n] = From(IniTexts(d.groups[n]), 0)
              /\ \A r \in 1 .. Len(d.groups[n].rules) :
                   IniTexts(d.groups[n])[r] = <<Mark(Kind(d.groups[n].dir))>> \o ItemsFrom(d.groups[n].rules[r], 0)
<1>1. ASSUME NEW n \in 1 .. Len(d.groups)
      PROVE  /\ IniTexts(d.groups[n]) \in Seq(Seq(Token))
             /\ Len(IniTexts(d.groups[n])) = Len(d.groups[n].rules)
             /\ IniGroups(d)[n] = From(IniTexts(d.groups[n]), 0)
             /\ IniGroups(d)[n] \in Seq(Token)
             /\ \A r \in 1 .. Len(d.groups[n].rules) :
                  IniTexts(d.groups[n])[r] = <<Mark(Kind(d.groups[n].dir))>> \o ItemsFrom(d.groups[n].rules[r], 0)
  <2>1. PICK g : g = d.groups[n]
    OBVIOUS
  <2>2. /\ g.dir \in BOOLEAN /\ Len(g.rules) \in Nat /\ DOMAIN g.rules = 1 .. Len(g.rules)
        /\ \A r \in 1 .. Len(g.rules) : g.rules[r] \in Seq(Entry)
    BY <2>1, DocType
  <2>3. ASSUME NEW r \in 1 .. Len(g.rules)
        PROVE  /\ IniTexts(g)[r] = <<Mark(Kind(g.dir))>> \o ItemsFrom(g.rules[r], 0)
               /\ IniTexts(g)[r] \in Seq(Token)
    <3>1. PICK s \in Seq(Entry) : s = g.rules[r]
      BY <2>2
    <3>2. IniTexts(g)[r] = IniRuleText(g.dir, s)
      BY <2>2, <3>1 DEF IniTexts
    <3>3. ItemsFrom(s, 0) = Items(s) /\ Items(s) \in Seq(Token)
      BY ItemsAll
    <3>4. Mark(Kind(g.dir)) \in Token
      BY <2>2, ItemType
    <3>5. <<Mark(Kind(g.dir))>> \o Items(s) \in Seq(Token)
      BY <3>3, <3>4, FirstToken
    <3> QED BY <3>1, <3>2, <3>3, <3>5 DEF IniRuleText
  <2>4. IniTexts(g) \in [1 .. Len(g.rules) -> Seq(Token)]
    BY <2>2, <2>3 DEF IniTexts
  <2>5. IniTexts(g) \in Seq(Seq(Token)) /\ Len(IniTexts(g)) = Len(g.rules)
    BY <2>2, <2>4, SeqOfFunction
  <2>6. IniGroups(d)[n] = FlattenSeq(IniTexts(g))
    BY <2>1, DocType DEF IniGroups, IniGroupText, IniTexts
  <2>7. From(IniTexts(g), 0) = FlattenSeq(IniTexts(g)) /\ FlattenSeq(IniTexts(g)) \in Seq(Token)
    BY <2>5, FromStep, FlattenType
  <2> QED BY <2>1, <2>3, <2>5, <2>6, <2>7
<1>2. IniGroups(d) \in [1 .. Len(d.groups) -> Seq(Token)] /\ Len(d.groups) \in Nat
  BY <1>1, DocType DEF IniGroups
<1>3. IniGroups(d) \in Seq(Seq(Token)) /\ Len(IniGroups(d)) = Len(d.groups)
  BY <1>2, SeqOfFunction
<1> QED BY <1>1, <1>3

\* The places of the rules up to rule r of group n.
PlacesTo(d, n, r) == Places(d, n - 1) \cup ({n} \X (1 .. r))

LEMMA PlacesStep ==
  ASSUME NEW d \in Docs
  PROVE  /\ Places(d, 0) = {}
         /\ \A n \in 1 .. Len(d.groups) :
              /\ PlacesTo(d, n, 0) = Places(d, n - 1)
              /\ PlacesTo(d, n, Len(d.groups[n].rules)) = Places(d, n)
<1>1. Places(d, 0) = {}
  BY DEF Places
<1>2. ASSUME NEW n \in 1 .. Len(d.groups)
      PROVE  PlacesTo(d, n, 0) = Places(d, n - 1) /\ PlacesTo(d, n, Len(d.groups[n].rules)) = Places(d, n)
  <2>1. n \in Nat \ {0} /\ DOMAIN d.groups[n].rules = 1 .. Len(d.groups[n].rules)
    BY DocType
  <2>2. PlacesTo(d, n, 0) = Places(d, n - 1)
    BY DEF PlacesTo
  <2>3. \A g : g \in 1 .. n <=> g \in 1 .. n - 1 \/ g = n
    BY <2>1
  <2>4. \A p : p \in Places(d, n) <=> \E g \in 1 .. n : p \in {g} \X DOMAIN d.groups[g].rules
    BY DEF Places
  <2>5. \A p : p \in Places(d, n - 1) <=> \E g \in 1 .. n - 1 : p \in {g} \X DOMAIN d.groups[g].rules
    BY DEF Places
  <2>6. \A p : p \in Places(d, n) <=> p \in Places(d, n - 1) \/ p \in {n} \X DOMAIN d.groups[n].rules
    BY <2>3, <2>4, <2>5, Zenon
  <2>7. Places(d, n) = Places(d, n - 1) \cup ({n} \X (1 .. Len(d.groups[n].rules)))
    BY <2>1, <2>6
  <2> QED BY <2>2, <2>7 DEF PlacesTo
<1> QED BY <1>1, <1>2

\* What the INI file still has when the rules at P have been read, and nothing of the next.
AfterRule(d, n, r) == From(IniTexts(d.groups[n]), r) \o From(IniGroups(d), n)

Left(d, left, P) ==
  \/ left = <<>> /\ P = Places(d, Len(d.groups))
  \/ \E n \in 1 .. Len(d.groups) : \E r \in 1 .. Len(d.groups[n].rules) :
       /\ left = <<Mark(Kind(d.groups[n].dir))>> \o (ItemsFrom(d.groups[n].rules[r], 0) \o AfterRule(d, n, r))
       /\ P = PlacesTo(d, n, r - 1)

LEMMA AfterType ==
  ASSUME NEW d \in Docs, NEW n \in 1 .. Len(d.groups), NEW r \in 0 .. Len(d.groups[n].rules)
  PROVE  /\ AfterRule(d, n, r) \in Seq(Token)
         /\ From(IniTexts(d.groups[n]), r) \in Seq(Token) /\ From(IniGroups(d), n) \in Seq(Token)
<1>1. n \in 0 .. Len(d.groups)
  OBVIOUS
<1>2. From(IniGroups(d), n) \in Seq(Token)
  BY <1>1, IniTextType, FromStep, Zenon
<1>3. From(IniTexts(d.groups[n]), r) \in Seq(Token)
  BY IniTextType, FromStep, Zenon
<1> QED BY <1>2, <1>3, ConcatProperties DEF AfterRule

LEMMA NextRule ==
  ASSUME NEW d \in Docs, NEW n \in 1 .. Len(d.groups), NEW r \in 0 .. Len(d.groups[n].rules), r < Len(d.groups[n].rules)
  PROVE  Left(d, AfterRule(d, n, r), PlacesTo(d, n, r))
<1>1. Len(d.groups[n].rules) \in Nat /\ r \in 0 .. Len(d.groups[n].rules) - 1 /\ r + 1 \in 1 .. Len(d.groups[n].rules)
      /\ r + 1 \in 0 .. Len(d.groups[n].rules) /\ (r + 1) - 1 = r
  BY DocType
<1>2. PICK tt \in Seq(Seq(Token)) : tt = IniTexts(d.groups[n]) /\ Len(tt) = Len(d.groups[n].rules)
  BY IniTextType
<1>3. tt[r + 1] = <<Mark(Kind(d.groups[n].dir))>> \o ItemsFrom(d.groups[n].rules[r + 1], 0)
  BY <1>1, <1>2, IniTextType
<1>4. From(tt, r) = tt[r + 1] \o From(tt, r + 1)
  BY <1>1, <1>2, FromStep
<1>5. PICK h \in Seq(Token), i \in Seq(Token), x \in Seq(Token), y \in Seq(Token) :
        /\ h = <<Mark(Kind(d.groups[n].dir))>> /\ i = ItemsFrom(d.groups[n].rules[r + 1], 0)
        /\ x = From(tt, r + 1) /\ y = From(IniGroups(d), n)
  <2>1. Mark(Kind(d.groups[n].dir)) \in Token
    BY DocType, ItemType
  <2>2. <<Mark(Kind(d.groups[n].dir))>> \in Seq(Token)
    BY <2>1
  <2>3. d.groups[n].rules[r + 1] \in Seq(Entry)
    BY <1>1, DocType
  <2>4. ItemsFrom(d.groups[n].rules[r + 1], 0) \in Seq(Token)
    BY <2>3, ItemsAll
  <2> QED BY <1>1, <1>2, <2>2, <2>4, AfterType
<1>6. ((h \o i) \o x) \o y = h \o (i \o (x \o y))
  <2>1. Joined(h, i, x, y)
    BY JoinFour
  <2> QED BY <2>1, Zenon DEF Joined
<1>7. AfterRule(d, n, r) = h \o (i \o AfterRule(d, n, r + 1))
  BY <1>2, <1>3, <1>4, <1>5, <1>6, Zenon DEF AfterRule
<1> QED BY <1>1, <1>5, <1>7, Zenon DEF Left

-----------------------------------------------------------------------------
(* The inductive invariant.                                                *)

Rule == [TargetPath : Word, dir : BOOLEAN, IsTransfer : BOOLEAN, OutputPath : Word,
         pPlugin : Nat, DefaultDenyAll : BOOLEAN, MatchingList : Seq(Word)]

\* The rules have rules of the plugin manager's plugins.
MapType(map, plugins) == map \in [DOMAIN map -> Rule] /\ \A t \in DOMAIN map : map[t].pPlugin <= Len(plugins)

LoadTypes ==
  /\ doc \in Docs /\ form \in {"ini", "yaml"} /\ set_main_sec \in BOOLEAN
  /\ rest \in Seq(Token) /\ stop_plugin \in Seq(Word)
  /\ is_dir_rule \in BOOLEAN /\ pTmpRule \in Rule /\ pTmpRule.pPlugin <= Len(stop_plugin)
  /\ AllowMatchs \in Seq(Word) /\ DenyMatchs \in Seq(Word)
  /\ MapType(RuleMap, stop_plugin)

\* A rule, and all of them, with the plugin by its name.
WithName(r, plugins) == [r EXCEPT !.pPlugin = IF @ = NoPlugin THEN "" ELSE plugins[@]]
Named(map, plugins) == [t \in DOMAIN map |-> WithName(map[t], plugins)]

\* What the theorems are about.
Sound == form = "ini" \/ Plain(doc)
\* LoadYaml drops the patterns of a configuration in binary mode at the end of
\* each array, LoadIni at the end of the file.
Listed == form = "ini" \/ ~MeantMembers(doc.main).binary

\* RuleMap holds the rules at the places P.
Ruled(P) ==
  LET map == Named(RuleMap, stop_plugin)
  IN  IF Listed THEN map = RulesAt(doc, P, FALSE) ELSE WithoutMatching(map) = RulesAt(doc, P, TRUE)
Stripped == ~Listed => WithoutMatching(RuleMap) = RuleMap

HasPlugin(items, plugin) == \E i \in DOMAIN items : items[i] = <<"PLUGIN", plugin>>

\* The rule that is read, and the main section, after these keys.
RuleSoFar(items) ==
  /\ WithName(pTmpRule, stop_plugin) = MeantRule(FALSE, items, TRUE)
  /\ AllowMatchs = MeantPatterns(items, "ALLOW")
  /\ DenyMatchs = MeantPatterns(items, "DENY")
  /\ pTmpRule.pPlugin # NoPlugin => HasPlugin(items, stop_plugin[pTmpRule.pPlugin])
MainSoFar(k) ==
  /\ members = MeantMembers(Prefix(doc.main, k))
  /\ \A i \in 1 .. k : ~IsRefused(doc.main[i][1], doc.main[i][2])

\* A spot between two rules: behind rule r of group n, or in front of them all.
Spots(d) == {<<0, 0>>} \cup UNION {{n} \X (0 .. Len(d.groups[n].rules)) : n \in DOMAIN d.groups}
IniLeft(d, s) == IF s[1] = 0 THEN From(IniGroups(d), 0) ELSE AfterRule(d, s[1], s[2])
RuledTo(s) == Ruled(PlacesTo(doc, s[1], s[2]))

IniTail == IF set_main_sec THEN Again(doc, MainSec(doc)) ELSE MainSec(doc) \o Again(doc, MainSec(doc))

IniAtStart ==
  /\ at = "top" /\ ~set_main_sec /\ ~doc.main_last
  /\ rest = MainSec(doc) \o (IniLeft(doc, <<0, 0>>) \o Again(doc, MainSec(doc)))
  /\ MainSoFar(0) /\ RuledTo(<<0, 0>>)

IniAtTop ==
  /\ at = "top" /\ MainSoFar(IF set_main_sec THEN Len(doc.main) ELSE 0)
  /\ \E s \in Spots(doc) : rest = IniLeft(doc, s) \o IniTail /\ RuledTo(s)

IniAtMain ==
  /\ at = "main" /\ set_main_sec
  /\ \E k \in 0 .. Len(doc.main) : \E s \in Spots(doc) :
       /\ rest = ItemsFrom(doc.main, k) \o (IniLeft(doc, s) \o Again(doc, MainSec(doc)))
       /\ MainSoFar(k) /\ RuledTo(s)

InRule(n, r, k, tail) ==
  /\ rest = ItemsFrom(doc.groups[n].rules[r], k) \o tail
  /\ RuleSoFar(Prefix(doc.groups[n].rules[r], k))
  /\ RuledTo(<<n, r - 1>>)

IniAtRule ==
  /\ at = "rule" /\ MainSoFar(IF set_main_sec THEN Len(doc.main) ELSE 0)
  /\ \E n \in 1 .. Len(doc.groups) : \E r \in 1 .. Len(doc.groups[n].rules) :
       \E k \in 0 .. Len(doc.groups[n].rules[r]) :
         InRule(n, r, k, AfterRule(doc, n, r) \o IniTail) /\ is_dir_rule = doc.groups[n].dir

IniLoading == at = "end" \/ IniAtStart \/ IniAtTop \/ IniAtMain \/ IniAtRule

\* In YAML the rest of the main section is behind the arrays, or has been read.
Kept(d) == IF d.main_last THEN 0 ELSE Len(d.main)
YamlTail == ItemsFrom(doc.main, Kept(doc)) \o <<Mark("}")>>
YamlLeft(n) == From(YamlGroups(doc), n) \o YamlTail
InGroup(n, r) == From(YamlTexts(doc.groups[n]), r) \o (<<Mark("]")>> \o YamlLeft(n))

YamlAtStart == at = "top" /\ rest = AsYaml(doc) /\ MainSoFar(0) /\ Ruled({}) /\ Stripped

\* Between the keys of the main section, and between the arrays.
AtItems(k, left) ==
  \/ ~doc.main_last /\ left = ItemsFrom(doc.main, k) \o YamlLeft(0) /\ Ruled({})
  \/ doc.main_last /\ left = ItemsFrom(doc.main, k) \o <<Mark("}")>> /\ Ruled(Places(doc, Len(doc.groups)))
AtArrays(n) == rest = YamlLeft(n) /\ MainSoFar(Kept(doc)) /\ Ruled(Places(doc, n))

YamlAtMain ==
  /\ at = "main" /\ Stripped
  /\ \/ \E n \in 0 .. Len(doc.groups) : AtArrays(n)
     \/ \E k \in 0 .. Len(doc.main) : AtItems(k, rest) /\ MainSoFar(k)

YamlAtGroup ==
  /\ at = "group" /\ MainSoFar(Kept(doc)) /\ ~is_dir_rule
  /\ \E n \in 1 .. Len(doc.groups) : \E r \in 0 .. Len(doc.groups[n].rules) :
       rest = InGroup(n, r) /\ RuledTo(<<n, r>>)

YamlAtRule ==
  /\ at = "rule" /\ MainSoFar(Kept(doc)) /\ ~is_dir_rule
  /\ \E n \in 1 .. Len(doc.groups) : \E r \in 1 .. Len(doc.groups[n].rules) :
       \E k \in 0 .. Len(doc.groups[n].rules[r]) : InRule(n, r, k, <<Mark("}")>> \o InGroup(n, r))

YamlAtEnd ==
  /\ at = "top" /\ rest = <<>> /\ MainSoFar(Len(doc.main)) /\ MembersAgree(members)
  /\ Ruled(Places(doc, Len(doc.groups))) /\ Stripped

YamlLoading == at = "end" \/ YamlAtStart \/ YamlAtMain \/ YamlAtGroup \/ YamlAtRule \/ YamlAtEnd

\* Deleted plugins have been replaced.
Frees == \A p \in freed : p \in 1 .. Len(stop_plugin) /\ Replaced(doc, stop_plugin[p])

Outcome ==
  /\ at = "end" => AsMeant
  /\ at # "end" => result = "loading" /\ ~Config
  /\ result # "false" => Frees

LoadInv == Sound => LoadTypes /\ Outcome /\ IF form = "ini" THEN IniLoading ELSE YamlLoading

-----------------------------------------------------------------------------
(* The rules at some places, and RuleMap.                                  *)

LEMMA RulesGrow ==
  ASSUME NEW d, NEW P, NEW p, NEW b,
         \A q \in P : Before(q, p) /\ ~Before(p, q), ~Before(p, p)
  PROVE  RulesAt(d, P \cup {p}, b) = PutRule(RulesAt(d, P, b), RuleAt(d, p, b))
<1> DEFINE for(Q, t) == {q \in Q : RuleAt(d, q, b).TargetPath = t}
<1> DEFINE last(Q, t) == CHOOSE q \in for(Q, t) : \A x \in for(Q, t) : ~Before(q, x)
<1> DEFINE all(Q) == {RuleAt(d, q, b).TargetPath : q \in Q}
<1>1. \A Q : RulesAt(d, Q, b) = [t \in all(Q) |-> RuleAt(d, last(Q, t), b)]
  BY DEF RulesAt
<1>2. all(P \cup {p}) = all(P) \cup {RuleAt(d, p, b).TargetPath}
  OBVIOUS
<1>3. last(P \cup {p}, RuleAt(d, p, b).TargetPath) = p
  <2> DEFINE t == RuleAt(d, p, b).TargetPath
  <2>1. p \in for(P \cup {p}, t) /\ \A x \in for(P \cup {p}, t) : ~Before(p, x)
    OBVIOUS
  <2>2. \A q \in for(P \cup {p}, t) : q = p \/ Before(q, p)
    OBVIOUS
  <2>3. last(P \cup {p}, t) \in for(P \cup {p}, t) /\ \A x \in for(P \cup {p}, t) : ~Before(last(P \cup {p}, t), x)
    BY <2>1
  <2> QED BY <2>1, <2>2, <2>3
<1>4. \A t \in all(P) : t # RuleAt(d, p, b).TargetPath => last(P \cup {p}, t) = last(P, t)
  <2> SUFFICES ASSUME NEW t \in all(P), t # RuleAt(d, p, b).TargetPath PROVE last(P \cup {p}, t) = last(P, t)
    OBVIOUS
  <2>1. for(P \cup {p}, t) = for(P, t)
    OBVIOUS
  <2> QED BY <2>1
<1> HIDE DEF for, last, all
<1>5. RulesAt(d, P \cup {p}, b) = [t \in all(P) \cup {RuleAt(d, p, b).TargetPath} |->
                                     IF t = RuleAt(d, p, b).TargetPath THEN RuleAt(d, p, b) ELSE RuleAt(d, last(P, t), b)]
  BY <1>1, <1>2, <1>3, <1>4
<1> QED BY <1>1, <1>5 DEF PutRule

LEMMA NoRule == \A d, b : RulesAt(d, {}, b) = NoRules
BY DEF RulesAt, NoRules

\* Only the list of patterns depends on the binary mode.
LEMMA WithoutList ==
  ASSUME NEW d, NEW p, NEW b
  PROVE  RuleAt(d, p, TRUE) = [RuleAt(d, p, b) EXCEPT !.MatchingList = <<>>]
<1>1. PICK m, none : m = RuleAt(d, p, b) /\ none = <<>>
  OBVIOUS
<1>2. m = [TargetPath |-> m.TargetPath, dir |-> m.dir, IsTransfer |-> m.IsTransfer, OutputPath |-> m.OutputPath,
           pPlugin |-> m.pPlugin, DefaultDenyAll |-> m.DefaultDenyAll, MatchingList |-> m.MatchingList]
  BY <1>1 DEF RuleAt, MeantRule
<1>3. RuleAt(d, p, TRUE) = [TargetPath |-> m.TargetPath, dir |-> m.dir, IsTransfer |-> m.IsTransfer,
                            OutputPath |-> m.OutputPath, pPlugin |-> m.pPlugin,
                            DefaultDenyAll |-> m.DefaultDenyAll, MatchingList |-> none]
  BY <1>1 DEF RuleAt, MeantRule
<1>4. [m EXCEPT !.MatchingList = none] =
        [TargetPath |-> m.TargetPath, dir |-> m.dir, IsTransfer |-> m.IsTransfer,
         OutputPath |-> m.OutputPath, pPlugin |-> m.pPlugin,
         DefaultDenyAll |-> m.DefaultDenyAll, MatchingList |-> none]
  BY ONLY <1>2
<1> QED BY <1>1, <1>3, <1>4

LEMMA RulesWithoutList ==
  ASSUME NEW d, NEW P, NEW b
  PROVE  WithoutMatching(RulesAt(d, P, b)) = RulesAt(d, P, TRUE)
<1>1. \A p : RuleAt(d, p, TRUE).TargetPath = RuleAt(d, p, b).TargetPath
  BY DEF RuleAt, MeantRule
<1> DEFINE for(c, t) == {q \in P : RuleAt(d, q, c).TargetPath = t}
<1> DEFINE last(c, t) == CHOOSE q \in for(c, t) : \A x \in for(c, t) : ~Before(q, x)
<1> DEFINE all(c) == {RuleAt(d, q, c).TargetPath : q \in P}
<1>2. \A c : RulesAt(d, P, c) = [t \in all(c) |-> RuleAt(d, last(c, t), c)]
  BY DEF RulesAt
<1>3. all(TRUE) = all(b)
  BY <1>1
<1>4. \A t : last(TRUE, t) = last(b, t)
  <2>1. \A t : for(TRUE, t) = for(b, t)
    BY <1>1
  <2> QED BY <2>1
<1> HIDE DEF for, last, all
<1>5. \A t : RuleAt(d, last(TRUE, t), TRUE) = [RuleAt(d, last(b, t), b) EXCEPT !.MatchingList = <<>>]
  <2> SUFFICES ASSUME NEW t
               PROVE  RuleAt(d, last(TRUE, t), TRUE) = [RuleAt(d, last(b, t), b) EXCEPT !.MatchingList = <<>>]
    OBVIOUS
  <2>1. PICK q : q = last(b, t)
    OBVIOUS
  <2>2. RuleAt(d, q, TRUE) = [RuleAt(d, q, b) EXCEPT !.MatchingList = <<>>]
    BY WithoutList
  <2>3. last(TRUE, t) = q
    BY <1>4, <2>1
  <2> QED BY <2>1, <2>2, <2>3
<1>6. RulesAt(d, P, TRUE) = [t \in all(b) |-> [RuleAt(d, last(b, t), b) EXCEPT !.MatchingList = <<>>]]
  BY <1>2, <1>3, <1>5, ZenonT(60)
<1>7. RulesAt(d, P, b) = [t \in all(b) |-> RuleAt(d, last(b, t), b)]
  BY <1>2
<1> DEFINE none == <<>>
<1> HIDE DEF none
<1>8. WithoutMatching([t \in all(b) |-> RuleAt(d, last(b, t), b)]) =
        [t \in all(b) |-> [RuleAt(d, last(b, t), b) EXCEPT !.MatchingList = none]]
  BY DEF WithoutMatching, none
<1> QED BY <1>6, <1>7, <1>8 DEF none

LEMMA StripTwice == \A map : WithoutMatching(WithoutMatching(map)) = WithoutMatching(map)
BY ZenonT(60) DEF WithoutMatching

LEMMA NamedStripped ==
  \A map, plugins : WithoutMatching(Named(map, plugins)) = Named(WithoutMatching(map), plugins)
BY ZenonT(120) DEF WithoutMatching, Named, WithName

LEMMA OutputsSame ==
  ASSUME NEW a, NEW b, DOMAIN a = DOMAIN b,
         \A t \in DOMAIN a : a[t].dir = b[t].dir /\ a[t].OutputPath = b[t].OutputPath
  PROVE  InitializeOutputFiles(a) <=> InitializeOutputFiles(b)
<1>1. ASSUME NEW t \in DOMAIN a PROVE OutputFound(a, a[t]) <=> OutputFound(b, b[t])
  <2>1. \A p : (\E u \in DOMAIN a : p = IF a[u].dir THEN u ELSE ParentOf[u])
               <=> \E u \in DOMAIN b : p = IF b[u].dir THEN u ELSE ParentOf[u]
    OBVIOUS
  <2>2. \A p : (\E u \in DOMAIN a : u = IF a[u].dir THEN ParentOf[p] ELSE p)
               <=> \E u \in DOMAIN b : u = IF b[u].dir THEN ParentOf[p] ELSE p
    OBVIOUS
  <2>3. PICK r, q : r = a[t] /\ q = b[t] /\ r.dir = q.dir /\ r.OutputPath = q.OutputPath
    OBVIOUS
  <2>4. PICK o : o = Outputs[r.OutputPath]
    OBVIOUS
  <2> DEFINE LiesIn(map) == \E u \in DOMAIN map : o.path = IF map[u].dir THEN u ELSE ParentOf[u]
  <2> DEFINE IsOne(map) == \E u \in DOMAIN map : u = IF map[u].dir THEN ParentOf[o.path] ELSE o.path
  <2> DEFINE Found(map, x) ==
        CASE x.OutputPath = "" -> TRUE
          [] x.OutputPath # "" /\ ~o.under -> o.path \in Makeable /\ (o.slash => x.dir)
          [] (x.dir /\ o.slash) /\ o.under -> LiesIn(map)
          [] OTHER -> ~o.slash /\ IsOne(map)
  <2>5. LiesIn(a) = LiesIn(b) /\ IsOne(a) = IsOne(b)
    BY <2>1, <2>2
  <2>6. OutputFound(a, r) = Found(a, r) /\ OutputFound(b, q) = Found(b, q)
    BY <2>3, <2>4, ZenonT(60) DEF OutputFound
  <2> HIDE DEF LiesIn, IsOne
  <2>7. Found(a, r) = Found(b, q)
    BY <2>3, <2>5, Zenon
  <2>8. OutputFound(a, r) = OutputFound(b, q)
    BY <2>6, <2>7
  <2> QED BY <2>3, <2>8
<1> QED BY <1>1 DEF InitializeOutputFiles

\* The plugin manager's list only grows, and a rule keeps its place in it.
LEMMA NameKept ==
  ASSUME NEW r \in Rule, NEW plugins \in Seq(Word), r.pPlugin <= Len(plugins), NEW v \in Word
  PROVE  WithName(r, Append(plugins, v)) = WithName(r, plugins)
<1>1. Len(plugins) \in Nat /\ \A i \in 1 .. Len(plugins) : Append(plugins, v)[i] = plugins[i]
  BY LenProperties, AppendProperties
<1>2. r.pPlugin = NoPlugin \/ r.pPlugin \in 1 .. Len(plugins)
  BY <1>1 DEF Rule, NoPlugin
<1> QED BY <1>1, <1>2 DEF WithName

LEMMA PutNamed ==
  ASSUME NEW map, map \in [DOMAIN map -> Rule], NEW r \in Rule, NEW plugins
  PROVE  /\ Named(PutRule(map, r), plugins) = PutRule(Named(map, plugins), WithName(r, plugins))
         /\ WithoutMatching(PutRule(map, r)) = PutRule(WithoutMatching(map), [r EXCEPT !.MatchingList = <<>>])
<1>1. /\ WithName(r, plugins).TargetPath = r.TargetPath
      /\ [r EXCEPT !.MatchingList = <<>>].TargetPath = r.TargetPath
  BY DEF WithName, Rule
<1>2. Named(PutRule(map, r), plugins) = PutRule(Named(map, plugins), WithName(r, plugins))
  <2>1. PICK q : q = WithName(r, plugins) /\ q.TargetPath = r.TargetPath
    BY <1>1
  <2>2. \A t \in DOMAIN map \cup {r.TargetPath} :
          WithName(IF t = r.TargetPath THEN r ELSE map[t], plugins) = IF t = r.TargetPath THEN q ELSE WithName(map[t], plugins)
    BY <2>1
  <2>3. Named(PutRule(map, r), plugins) =
          [t \in DOMAIN map \cup {r.TargetPath} |-> IF t = r.TargetPath THEN q ELSE WithName(map[t], plugins)]
    BY <2>2 DEF Named, PutRule
  <2>4. PutRule(Named(map, plugins), q) =
          [t \in DOMAIN map \cup {r.TargetPath} |-> IF t = r.TargetPath THEN q ELSE WithName(map[t], plugins)]
    BY <2>1 DEF Named, PutRule
  <2> QED BY <2>1, <2>3, <2>4
<1>3. WithoutMatching(PutRule(map, r)) = PutRule(WithoutMatching(map), [r EXCEPT !.MatchingList = <<>>])
  <2>1. PICK q : q = [r EXCEPT !.MatchingList = <<>>] /\ q.TargetPath = r.TargetPath
    BY <1>1
  <2>2. WithoutMatching(PutRule(map, r)) =
          [t \in DOMAIN map \cup {r.TargetPath} |-> IF t = r.TargetPath THEN q ELSE [map[t] EXCEPT !.MatchingList = <<>>]]
    BY <2>1 DEF WithoutMatching, PutRule
  <2>3. PutRule(WithoutMatching(map), q) =
          [t \in DOMAIN map \cup {r.TargetPath} |-> IF t = r.TargetPath THEN q ELSE [map[t] EXCEPT !.MatchingList = <<>>]]
    BY <2>1 DEF WithoutMatching, PutRule
  <2> QED BY <2>1, <2>2, <2>3
<1> QED BY <1>2, <1>3

\* What a rule is when its last key has been read.
Complete(r, dir, allow, deny) ==
  [r EXCEPT !.dir = dir, !.MatchingList = MatchingList(r.DefaultDenyAll, allow, deny)]

Completes(r, plugins, items, dir, c) ==
  /\ c = Complete(r, dir, MeantPatterns(items, "ALLOW"), MeantPatterns(items, "DENY"))
  /\ WithName(r, plugins) = MeantRule(FALSE, items, TRUE)
  /\ r \in Rule /\ dir \in BOOLEAN
  /\ MeantPatterns(items, "ALLOW") \in Seq(Word) /\ MeantPatterns(items, "DENY") \in Seq(Word)

IsMeant(c, plugins, items, dir) == WithName(c, plugins) = MeantRule(dir, items, FALSE)

LEMMA CompleteIs ==
  ASSUME NEW r, NEW plugins, NEW items, NEW dir, NEW c, Completes(r, plugins, items, dir, c)
  PROVE  IsMeant(c, plugins, items, dir)
<1>1. PICK a, d : a = MeantPatterns(items, "ALLOW") /\ d = MeantPatterns(items, "DENY") /\ a \in Seq(Word) /\ d \in Seq(Word)
  BY DEF Completes
<1>2. c = Complete(r, dir, a, d) /\ r \in Rule /\ dir \in BOOLEAN
  BY <1>1 DEF Completes
<1>4. PICK w : w = WithName(r, plugins)
  OBVIOUS
<1>5. /\ WithName(c, plugins) = [w EXCEPT !.dir = dir, !.MatchingList = MatchingList(r.DefaultDenyAll, a, d)]
      /\ w.DefaultDenyAll = r.DefaultDenyAll
  BY <1>2, <1>4 DEF WithName, Complete, Rule
<1>6. PICK m : m = MeantRule(dir, items, FALSE)
  OBVIOUS
<1>7. /\ m = [TargetPath |-> w.TargetPath, dir |-> dir, IsTransfer |-> w.IsTransfer, OutputPath |-> w.OutputPath,
              pPlugin |-> w.pPlugin, DefaultDenyAll |-> w.DefaultDenyAll,
              MatchingList |-> IF w.DefaultDenyAll THEN a ELSE d]
      /\ w = [TargetPath |-> w.TargetPath, dir |-> w.dir, IsTransfer |-> w.IsTransfer, OutputPath |-> w.OutputPath,
              pPlugin |-> w.pPlugin, DefaultDenyAll |-> w.DefaultDenyAll, MatchingList |-> w.MatchingList]
  <2>1. w = MeantRule(FALSE, items, TRUE)
    BY <1>4 DEF Completes
  <2> QED BY <1>1, <1>6, <2>1 DEF MeantRule
<1>8. WithName(c, plugins) = m
  BY <1>5, <1>7 DEF MatchingList
<1> QED BY <1>6, <1>8 DEF IsMeant

-----------------------------------------------------------------------------
(* What comes next in the file.                                            *)

LEMMA PlacesGrow ==
  ASSUME NEW d \in Docs, NEW n \in 1 .. Len(d.groups), NEW r \in 1 .. Len(d.groups[n].rules)
  PROVE  /\ PlacesTo(d, n, r) = PlacesTo(d, n, r - 1) \cup {<<n, r>>}
         /\ \A q \in PlacesTo(d, n, r - 1) : Before(q, <<n, r>>) /\ ~Before(<<n, r>>, q)
         /\ ~Before(<<n, r>>, <<n, r>>)
<1>1. n \in Nat /\ r \in Nat /\ 1 .. r = (1 .. r - 1) \cup {r}
  OBVIOUS
<1>2. PlacesTo(d, n, r) = PlacesTo(d, n, r - 1) \cup {<<n, r>>}
  BY <1>1 DEF PlacesTo
<1>3. ASSUME NEW q \in PlacesTo(d, n, r - 1) PROVE Before(q, <<n, r>>) /\ ~Before(<<n, r>>, q)
  <2>1. CASE q \in Places(d, n - 1)
    <3>1. PICK g \in 1 .. n - 1 : q \in {g} \X DOMAIN d.groups[g].rules
      BY <2>1 DEF Places
    <3>2. q[1] = g /\ g < n /\ ~(n < g) /\ n # g
      BY <3>1
    <3> QED BY <3>2 DEF Before
  <2>2. CASE q \in {n} \X (1 .. r - 1)
    BY <2>2 DEF Before
  <2> QED BY <2>1, <2>2 DEF PlacesTo
<1>4. ~Before(<<n, r>>, <<n, r>>)
  BY <1>1 DEF Before
<1> QED BY <1>2, <1>3, <1>4

\* From the last group to the first: those without a rule are passed over.
LEMMA LeftGroups ==
  ASSUME NEW d \in Docs
  PROVE  \A n \in 0 .. Len(d.groups) : Left(d, From(IniGroups(d), n), Places(d, n))
<1> DEFINE all == Len(d.groups)
<1> DEFINE Is(n) == Left(d, From(IniGroups(d), n), Places(d, n))
<1> DEFINE wrong == {j \in 0 .. all : ~Is(all - j)}
<1>1. all \in Nat
  BY DocType
<1> HIDE DEF all
<1>2. PICK gs \in Seq(Seq(Token)) : gs = IniGroups(d) /\ Len(gs) = all
  BY IniTextType DEF all
<1>3. Is(all)
  <2>1. From(gs, all) = <<>>
    BY <1>2, FromStep
  <2> QED BY <1>2, <2>1 DEF Left, all
<1>4. ASSUME NEW n \in 0 .. all, n # all, Is(n + 1) PROVE Is(n)
  <2>1. n + 1 \in 1 .. Len(d.groups) /\ n \in 0 .. all - 1 /\ (n + 1) - 1 = n /\ n + 1 \in 0 .. all
    BY <1>1, <1>4 DEF all
  <2>2. From(gs, n) = gs[n + 1] \o From(gs, n + 1) /\ From(gs, n + 1) \in Seq(Token)
    BY <1>2, <2>1, FromStep
  <2>3. From(gs, n) = AfterRule(d, n + 1, 0)
    BY <1>2, <2>1, <2>2, IniTextType DEF AfterRule
  <2>4. PlacesTo(d, n + 1, 0) = Places(d, n)
        /\ PlacesTo(d, n + 1, Len(d.groups[n + 1].rules)) = Places(d, n + 1)
    BY <2>1, PlacesStep
  <2>5. Len(d.groups[n + 1].rules) \in Nat
    BY <2>1, DocType
  <2>6. CASE Len(d.groups[n + 1].rules) = 0
    <3>1. PICK tt \in Seq(Seq(Token)) : tt = IniTexts(d.groups[n + 1]) /\ Len(tt) = 0
      BY <2>1, <2>6, IniTextType
    <3>2. From(tt, 0) = <<>>
      BY <3>1, FromStep
    <3>3. <<>> \o From(gs, n + 1) = From(gs, n + 1)
      BY <2>2, ConcatEmptySeq
    <3>4. From(gs, n) = From(gs, n + 1)
      BY <1>2, <2>3, <3>1, <3>2, <3>3 DEF AfterRule
    <3> QED BY <1>2, <1>4, <2>4, <2>6, <3>4
  <2>7. CASE Len(d.groups[n + 1].rules) # 0
    <3>1. 0 \in 0 .. Len(d.groups[n + 1].rules) /\ 0 < Len(d.groups[n + 1].rules)
      BY <2>5, <2>7
    <3>2. Left(d, AfterRule(d, n + 1, 0), PlacesTo(d, n + 1, 0))
      BY <2>1, <3>1, NextRule
    <3> QED BY <1>2, <2>3, <2>4, <3>2
  <2> QED BY <2>6, <2>7
<1> HIDE DEF Is
<1>5. wrong = {}
  <2> SUFFICES ASSUME wrong # {} PROVE FALSE
    OBVIOUS
  <2>1. wrong \in SUBSET Nat
    OBVIOUS
  <2>2. PICK j \in wrong : \A i \in wrong : j <= i
    BY <2>1, LeastNumber
  <2>3. j \in Nat /\ j <= all /\ ~Is(all - j)
    BY <1>1
  <2>4. j # 0
    BY <1>1, <1>3, <2>3
  <2>5. j - 1 \in 0 .. all /\ ~(j <= j - 1) /\ all - (j - 1) = (all - j) + 1 /\ all - j \in 0 .. all /\ all - j # all
    BY <1>1, <2>3, <2>4
  <2>6. Is((all - j) + 1)
    BY <2>2, <2>5
  <2> QED BY <1>4, <2>3, <2>5, <2>6
<1>6. ASSUME NEW n \in 0 .. all PROVE Is(n)
  <2>1. all - n \in 0 .. all /\ all - (all - n) = n
    BY <1>1
  <2> QED BY <1>5, <2>1
<1> QED BY <1>6 DEF Is, all

\* Behind each spot.
LEMMA LeftSpot ==
  ASSUME NEW d \in Docs, NEW s \in Spots(d)
  PROVE  Left(d, IniLeft(d, s), PlacesTo(d, s[1], s[2]))
<1>1. Len(d.groups) \in Nat /\ DOMAIN d.groups = 1 .. Len(d.groups)
  BY DocType
<1>2. CASE s = <<0, 0>>
  <2>1. PlacesTo(d, 0, 0) = {} /\ Places(d, 0) = {}
    BY DEF PlacesTo, Places
  <2>2. Left(d, From(IniGroups(d), 0), Places(d, 0))
    BY <1>1, LeftGroups
  <2> QED BY <1>2, <2>1, <2>2 DEF IniLeft
<1>3. CASE s # <<0, 0>>
  <2>1. PICK n \in 1 .. Len(d.groups) : s \in {n} \X (0 .. Len(d.groups[n].rules))
    BY <1>1, <1>3 DEF Spots
  <2>2. PICK r \in 0 .. Len(d.groups[n].rules) : s[1] = n /\ s[2] = r
    BY <2>1
  <2>3. IniLeft(d, s) = AfterRule(d, n, r)
    BY <2>2 DEF IniLeft
  <2>4. Len(d.groups[n].rules) \in Nat
    BY DocType
  <2>5. CASE r < Len(d.groups[n].rules)
    BY <2>2, <2>3, <2>5, NextRule
  <2>6. CASE r = Len(d.groups[n].rules)
    <3>1. PICK tt \in Seq(Seq(Token)) : tt = IniTexts(d.groups[n]) /\ Len(tt) = r
      BY <2>6, IniTextType
    <3>2. From(tt, r) = <<>>
      BY <3>1, FromStep
    <3>3. <<>> \o From(IniGroups(d), n) = From(IniGroups(d), n)
      BY AfterType, ConcatEmptySeq
    <3>4. AfterRule(d, n, r) = From(IniGroups(d), n)
      BY <3>1, <3>2, <3>3 DEF AfterRule
    <3>5. PlacesTo(d, n, r) = Places(d, n)
      BY <2>6, PlacesStep
    <3>6. Left(d, From(IniGroups(d), n), Places(d, n))
      BY <1>1, LeftGroups
    <3> QED BY <2>2, <2>3, <3>4, <3>5, <3>6
  <2> QED BY <2>4, <2>5, <2>6
<1> QED BY <1>2, <1>3

Joins(a, b, c, x, y) == ((a \o (b \o c)) \o x) \o y = a \o (b \o (c \o (x \o y)))

LEMMA JoinFive == \A a, b, c, x, y \in Seq(Token) : Joins(a, b, c, x, y)
<1> SUFFICES ASSUME NEW a \in Seq(Token), NEW b \in Seq(Token), NEW c \in Seq(Token),
                    NEW x \in Seq(Token), NEW y \in Seq(Token)
             PROVE  Joins(a, b, c, x, y)
  OBVIOUS
<1> DEFINE J(u, v, w) == (u \o v) \o w = u \o (v \o w)
<1>1. \A u, v, w \in Seq(Token) : J(u, v, w)
  BY JoinAgain
<1> HIDE DEF J
<1>2. PICK p \in Seq(Token), q \in Seq(Token) : p = b \o c /\ q = x \o y
  BY ConcatProperties
<1>3. PICK w \in Seq(Token) : w = a \o p
  BY ConcatProperties
<1>4. J(w, x, y) /\ J(a, p, q) /\ J(b, c, q)
  BY <1>1
<1>5. (w \o x) \o y = w \o q /\ w \o q = a \o (p \o q) /\ p \o q = b \o (c \o q)
  BY <1>2, <1>3, <1>4, Zenon DEF J
<1> QED BY ONLY <1>2, <1>3, <1>5, Zenon DEF Joins

LEMMA OneToken == \A x \in Token : <<x>> \in Seq(Token)
OBVIOUS

LEMMA YamlTextType ==
  ASSUME NEW d \in Docs
  PROVE  /\ YamlGroups(d) \in Seq(Seq(Token)) /\ Len(YamlGroups(d)) = Len(d.groups)
         /\ \A n \in 1 .. Len(d.groups) :
              /\ YamlTexts(d.groups[n]) \in Seq(Seq(Token))
              /\ Len(YamlTexts(d.groups[n])) = Len(d.groups[n].rules)
              /\ YamlGroups(d)[n] =
                   <<Mark(Kind(d.groups[n].dir))>> \o (From(YamlTexts(d.groups[n]), 0) \o <<Mark("]")>>)
              /\ \A r \in 1 .. Len(d.groups[n].rules) :
                   YamlTexts(d.groups[n])[r] = <<Mark("{")>> \o (ItemsFrom(d.groups[n].rules[r], 0) \o <<Mark("}")>>)
<1>1. PICK open \in Seq(Token), close \in Seq(Token), last \in Seq(Token) :
        open = <<Mark("{")>> /\ close = <<Mark("}")>> /\ last = <<Mark("]")>>
  <2>1. <<Mark("{")>> \in Seq(Token)
    BY ItemType, OneToken
  <2>2. <<Mark("}")>> \in Seq(Token)
    BY ItemType, OneToken
  <2>3. <<Mark("]")>> \in Seq(Token)
    BY ItemType, OneToken, ZenonT(60)
  <2> QED BY <2>1, <2>2, <2>3, Zenon
<1>2. ASSUME NEW n \in 1 .. Len(d.groups)
      PROVE  /\ YamlTexts(d.groups[n]) \in Seq(Seq(Token))
             /\ Len(YamlTexts(d.groups[n])) = Len(d.groups[n].rules)
             /\ YamlGroups(d)[n] =
                   <<Mark(Kind(d.groups[n].dir))>> \o (From(YamlTexts(d.groups[n]), 0) \o <<Mark("]")>>)
             /\ YamlGroups(d)[n] \in Seq(Token)
             /\ \A r \in 1 .. Len(d.groups[n].rules) :
                   YamlTexts(d.groups[n])[r] = <<Mark("{")>> \o (ItemsFrom(d.groups[n].rules[r], 0) \o <<Mark("}")>>)
  <2>1. PICK g : g = d.groups[n]
    OBVIOUS
  <2>2. /\ g.dir \in BOOLEAN /\ Len(g.rules) \in Nat /\ DOMAIN g.rules = 1 .. Len(g.rules)
        /\ \A r \in 1 .. Len(g.rules) : g.rules[r] \in Seq(Entry)
    BY <2>1, DocType
  <2>3. ASSUME NEW r \in 1 .. Len(g.rules)
        PROVE  /\ YamlTexts(g)[r] = open \o (ItemsFrom(g.rules[r], 0) \o close)
               /\ YamlTexts(g)[r] \in Seq(Token)
    <3>1. PICK s \in Seq(Entry) : s = g.rules[r]
      BY <2>2
    <3>2. YamlTexts(g)[r] = YamlRuleText(s)
      BY <2>2, <3>1 DEF YamlTexts
    <3>3. ItemsFrom(s, 0) = Items(s) /\ Items(s) \in Seq(Token)
      BY ItemsAll
    <3>4. PICK i \in Seq(Token) : i = Items(s)
      BY <3>3
    <3>5. (open \o i) \o close = open \o (i \o close)
      BY JoinAgain, ZenonT(60)
    <3>6. open \o (i \o close) \in Seq(Token)
      BY ConcatProperties
    <3> QED BY <1>1, <3>1, <3>2, <3>3, <3>4, <3>5, <3>6 DEF YamlRuleText
  <2>4. YamlTexts(g) \in [1 .. Len(g.rules) -> Seq(Token)]
    BY <2>2, <2>3 DEF YamlTexts
  <2>5. YamlTexts(g) \in Seq(Seq(Token)) /\ Len(YamlTexts(g)) = Len(g.rules)
    BY <2>2, <2>4, SeqOfFunction
  <2>6. YamlGroups(d)[n] = (<<Mark(Kind(g.dir))>> \o FlattenSeq(YamlTexts(g))) \o last
    BY <1>1, <2>1, DocType DEF YamlGroups, YamlGroupText, YamlTexts
  <2>7. From(YamlTexts(g), 0) = FlattenSeq(YamlTexts(g)) /\ FlattenSeq(YamlTexts(g)) \in Seq(Token)
    BY <2>5, FromStep, FlattenType
  <2>8. PICK h \in Seq(Token), f \in Seq(Token) : h = <<Mark(Kind(g.dir))>> /\ f = FlattenSeq(YamlTexts(g))
    <3>1. <<Mark(Kind(g.dir))>> \in Seq(Token)
      BY <2>2, ItemType, OneToken
    <3> QED BY <2>7, <3>1, Zenon
  <2>9. (h \o f) \o last = h \o (f \o last) /\ h \o (f \o last) \in Seq(Token)
    <3>1. (h \o f) \o last = h \o (f \o last)
      BY JoinAgain, ZenonT(60)
    <3>2. h \o (f \o last) \in Seq(Token)
      BY ConcatProperties
    <3> QED BY <3>1, <3>2
  <2> QED BY <1>1, <2>1, <2>3, <2>5, <2>6, <2>7, <2>8, <2>9
<1>3. YamlGroups(d) \in [1 .. Len(d.groups) -> Seq(Token)] /\ Len(d.groups) \in Nat
  BY <1>2, DocType DEF YamlGroups
<1>4. YamlGroups(d) \in Seq(Seq(Token)) /\ Len(YamlGroups(d)) = Len(d.groups)
  BY <1>3, SeqOfFunction
<1> QED BY <1>2, <1>4

\* The next array.
LEMMA NextGroup ==
  ASSUME NEW d \in Docs, NEW n \in 0 .. Len(d.groups), NEW y \in Seq(Token)
  PROVE  /\ From(YamlGroups(d), n) \o y \in Seq(Token)
         /\ n = Len(d.groups) => From(YamlGroups(d), n) \o y = y
         /\ n < Len(d.groups) =>
              From(YamlGroups(d), n) \o y =
                <<Mark(Kind(d.groups[n + 1].dir))>>
                  \o (From(YamlTexts(d.groups[n + 1]), 0) \o (<<Mark("]")>> \o (From(YamlGroups(d), n + 1) \o y)))
<1>1. PICK gs \in Seq(Seq(Token)) : gs = YamlGroups(d) /\ Len(gs) = Len(d.groups)
  BY YamlTextType
<1>2. From(gs, n) \in Seq(Token)
  BY <1>1, FromStep
<1>3. n = Len(d.groups) => From(gs, n) \o y = y
  <2>1. From(gs, Len(gs)) = <<>> /\ <<>> \o y = y
    BY FromStep, ConcatEmptySeq
  <2> QED BY <1>1, <2>1
<1>4. ASSUME n < Len(d.groups)
      PROVE  From(gs, n) \o y =
               <<Mark(Kind(d.groups[n + 1].dir))>>
                 \o (From(YamlTexts(d.groups[n + 1]), 0) \o (<<Mark("]")>> \o (From(gs, n + 1) \o y)))
  <2>1. n + 1 \in 1 .. Len(d.groups) /\ n \in 0 .. Len(gs) - 1 /\ n + 1 \in 0 .. Len(gs)
    BY <1>1, <1>4, DocType
  <2>2. From(gs, n) = gs[n + 1] \o From(gs, n + 1) /\ From(gs, n + 1) \in Seq(Token)
    BY <2>1, FromStep
  <2>3. PICK a \in Seq(Token), b \in Seq(Token), c \in Seq(Token), z \in Seq(Token) :
          /\ a = <<Mark(Kind(d.groups[n + 1].dir))>> /\ b = From(YamlTexts(d.groups[n + 1]), 0)
          /\ c = <<Mark("]")>> /\ z = From(gs, n + 1)
    <3>1. <<Mark(Kind(d.groups[n + 1].dir))>> \in Seq(Token)
      <4>1. d.groups[n + 1].dir \in BOOLEAN
        BY <2>1, DocType
      <4> QED BY <4>1, ItemType, OneToken
    <3>4. <<Mark("]")>> \in Seq(Token)
      BY ItemType, OneToken
    <3>2. YamlTexts(d.groups[n + 1]) \in Seq(Seq(Token))
      BY <2>1, YamlTextType
    <3>3. From(YamlTexts(d.groups[n + 1]), 0) \in Seq(Token)
      BY <3>2, FromStep, FlattenType
    <3> QED BY <2>2, <3>1, <3>3, <3>4, Zenon
  <2>4. gs[n + 1] = a \o (b \o c)
    BY <1>1, <2>1, <2>3, YamlTextType
  <2>5. ((a \o (b \o c)) \o z) \o y = a \o (b \o (c \o (z \o y)))
    <3>1. Joins(a, b, c, z, y)
      BY JoinFive, SMTT(40)
    <3> QED BY <3>1, Zenon DEF Joins
  <2> QED BY <2>2, <2>3, <2>4, <2>5
<1> QED BY <1>1, <1>2, <1>3, <1>4, ConcatProperties

\* The next rule of an array.
LEMMA NextInGroup ==
  ASSUME NEW d \in Docs, NEW n \in 1 .. Len(d.groups), NEW r \in 0 .. Len(d.groups[n].rules), NEW y \in Seq(Token)
  PROVE  /\ From(YamlTexts(d.groups[n]), r) \o y \in Seq(Token)
         /\ r = Len(d.groups[n].rules) => From(YamlTexts(d.groups[n]), r) \o y = y
         /\ r < Len(d.groups[n].rules) =>
              From(YamlTexts(d.groups[n]), r) \o y =
                <<Mark("{")>> \o (ItemsFrom(d.groups[n].rules[r + 1], 0)
                                    \o (<<Mark("}")>> \o (From(YamlTexts(d.groups[n]), r + 1) \o y)))
<1>1. PICK tt \in Seq(Seq(Token)) : tt = YamlTexts(d.groups[n]) /\ Len(tt) = Len(d.groups[n].rules)
  BY YamlTextType
<1>2. From(tt, r) \in Seq(Token)
  BY <1>1, FromStep
<1>3. r = Len(d.groups[n].rules) => From(tt, r) \o y = y
  <2>1. From(tt, Len(tt)) = <<>> /\ <<>> \o y = y
    BY FromStep, ConcatEmptySeq, Zenon
  <2> QED BY <1>1, <2>1
<1>4. ASSUME r < Len(d.groups[n].rules)
      PROVE  From(tt, r) \o y =
                <<Mark("{")>> \o (ItemsFrom(d.groups[n].rules[r + 1], 0) \o (<<Mark("}")>> \o (From(tt, r + 1) \o y)))
  <2>1. r + 1 \in 1 .. Len(d.groups[n].rules) /\ r \in 0 .. Len(tt) - 1 /\ r + 1 \in 0 .. Len(tt)
    BY <1>1, <1>4, DocType
  <2>2. From(tt, r) = tt[r + 1] \o From(tt, r + 1) /\ From(tt, r + 1) \in Seq(Token)
    BY <2>1, FromStep
  <2>3. PICK a \in Seq(Token), b \in Seq(Token), c \in Seq(Token), z \in Seq(Token) :
          /\ a = <<Mark("{")>> /\ b = ItemsFrom(d.groups[n].rules[r + 1], 0)
          /\ c = <<Mark("}")>> /\ z = From(tt, r + 1)
    <3>1. <<Mark("{")>> \in Seq(Token)
      BY ItemType, OneToken
    <3>4. <<Mark("}")>> \in Seq(Token)
      BY ItemType, OneToken
    <3>2. d.groups[n].rules[r + 1] \in Seq(Entry)
      BY <2>1, DocType
    <3>3. ItemsFrom(d.groups[n].rules[r + 1], 0) \in Seq(Token)
      BY <3>2, ItemsAll
    <3> QED BY <2>2, <3>1, <3>3, <3>4, Zenon
  <2>4. tt[r + 1] = a \o (b \o c)
    BY <1>1, <2>1, <2>3, YamlTextType
  <2>5. ((a \o (b \o c)) \o z) \o y = a \o (b \o (c \o (z \o y)))
    <3>1. Joins(a, b, c, z, y)
      BY JoinFive
    <3> QED BY <3>1, Zenon DEF Joins
  <2> QED BY <2>2, <2>3, <2>4, <2>5, Zenon
<1> QED BY <1>1, <1>2, <1>3, <1>4, ConcatProperties

LEMMA PrefixEnds ==
  ASSUME NEW s \in Seq(Entry)
  PROVE  /\ Prefix(s, 0) = <<>> /\ Prefix(s, Len(s)) = s
         /\ \A k \in 0 .. Len(s) : Prefix(s, k) \in Seq(Entry) /\ DOMAIN Prefix(s, k) = 1 .. k
                                   /\ \A i \in 1 .. k : Prefix(s, k)[i] = s[i]
<1>1. Prefix(s, Len(s)) = s
  BY WholeSeq DEF Prefix
<1>2. ASSUME NEW k \in 0 .. Len(s)
      PROVE  Prefix(s, k) \in Seq(Entry) /\ DOMAIN Prefix(s, k) = 1 .. k /\ Len(Prefix(s, k)) = k
             /\ \A i \in 1 .. k : Prefix(s, k)[i] = s[i]
  <2>1. Len(s) \in Nat /\ k \in Nat /\ k <= Len(s)
    BY LenProperties
  <2>2. Prefix(s, k) = [i \in 1 .. k |-> s[i]]
    BY <2>1 DEF Prefix
  <2>3. \A i \in 1 .. k : s[i] \in Entry
    <3>1. \A i \in 1 .. k : i \in 1 .. Len(s)
      BY <2>1
    <3> QED BY <3>1, ElementOfSeq
  <2>4. Prefix(s, k) \in [1 .. k -> Entry]
    BY <2>2, <2>3
  <2> QED BY <2>1, <2>2, <2>4, SeqOfFunction
<1>3. 0 \in 0 .. Len(s)
  BY LenProperties
<1>4. Prefix(s, 0) \in Seq(Entry) /\ Len(Prefix(s, 0)) = 0
  BY <1>2, <1>3
<1>5. Prefix(s, 0) = <<>>
  BY <1>4, EmptySeq
<1> QED BY <1>1, <1>2, <1>5

LEMMA MainSecFirst ==
  ASSUME NEW d \in Docs, NEW y \in Seq(Token)
  PROVE  /\ MainSec(d) \in Seq(Token) /\ MainSec(d) \o y \in Seq(Token)
         /\ MainSec(d) \o y # <<>> /\ Head(MainSec(d) \o y) = Mark("main")
         /\ Tail(MainSec(d) \o y) = ItemsFrom(d.main, 0) \o y
<1>1. ItemsFrom(d.main, 0) = Items(d.main) /\ Items(d.main) \in Seq(Token)
  BY DocType, ItemsAll
<1>2. PICK i \in Seq(Token), m \in Seq(Token) : i = Items(d.main) /\ m = <<Mark("main")>>
  <2>1. <<Mark("main")>> \in Seq(Token)
    BY ItemType, OneToken
  <2> QED BY <1>1, <2>1
<1>3. m \o i \in Seq(Token) /\ i \o y \in Seq(Token) /\ (m \o i) \o y \in Seq(Token)
  BY ConcatProperties
<1>4. (m \o i) \o y = m \o (i \o y)
  BY JoinAgain, Zenon
<1>5. Mark("main") \in Token
  BY ItemType
<1>6. <<Mark("main")>> \o (i \o y) # <<>> /\ Head(<<Mark("main")>> \o (i \o y)) = Mark("main")
      /\ Tail(<<Mark("main")>> \o (i \o y)) = i \o y
  BY <1>3, <1>5, FirstToken
<1>7. MainSec(d) = m \o i
  BY <1>2 DEF MainSec
<1>8. MainSec(d) \o y = m \o (i \o y)
  BY ONLY <1>4, <1>7
<1>9. m \o (i \o y) # <<>> /\ Head(m \o (i \o y)) = Mark("main") /\ Tail(m \o (i \o y)) = i \o y
  BY ONLY <1>2, <1>6
<1>10. ItemsFrom(d.main, 0) \o y = i \o y
  BY ONLY <1>1, <1>2, SMTT(40)
<1> QED BY ONLY <1>3, <1>7, <1>8, <1>9, <1>10

\* What comes behind a spot: the next rule, or what comes behind all of them.
LEMMA SpotCases ==
  ASSUME NEW d \in Docs, NEW s \in Spots(d), NEW y \in Seq(Token)
  PROVE  /\ IniLeft(d, s) \o y \in Seq(Token)
         /\ \/ IniLeft(d, s) = <<>> /\ IniLeft(d, s) \o y = y /\ PlacesTo(d, s[1], s[2]) = Places(d, Len(d.groups))
            \/ \E n \in 1 .. Len(d.groups) : \E r \in 1 .. Len(d.groups[n].rules) :
                 /\ PlacesTo(d, s[1], s[2]) = PlacesTo(d, n, r - 1)
                 /\ IniLeft(d, s) \o y # <<>> /\ Head(IniLeft(d, s) \o y) = Mark(Kind(d.groups[n].dir))
                 /\ Tail(IniLeft(d, s) \o y) = ItemsFrom(d.groups[n].rules[r], 0) \o (AfterRule(d, n, r) \o y)
<1>1. Left(d, IniLeft(d, s), PlacesTo(d, s[1], s[2]))
  BY LeftSpot
<1>2. CASE IniLeft(d, s) = <<>> /\ PlacesTo(d, s[1], s[2]) = Places(d, Len(d.groups))
  <2>1. <<>> \o y = y
    BY ConcatEmptySeq, SMTT(40)
  <2> QED BY <1>2, <2>1
<1>3. ASSUME NEW n \in 1 .. Len(d.groups), NEW r \in 1 .. Len(d.groups[n].rules),
             IniLeft(d, s) = <<Mark(Kind(d.groups[n].dir))>> \o (ItemsFrom(d.groups[n].rules[r], 0) \o AfterRule(d, n, r)),
             PlacesTo(d, s[1], s[2]) = PlacesTo(d, n, r - 1)
      PROVE  /\ IniLeft(d, s) \o y \in Seq(Token) /\ IniLeft(d, s) \o y # <<>>
             /\ Head(IniLeft(d, s) \o y) = Mark(Kind(d.groups[n].dir))
             /\ Tail(IniLeft(d, s) \o y) = ItemsFrom(d.groups[n].rules[r], 0) \o (AfterRule(d, n, r) \o y)
  <2>1. PICK m \in Token : m = Mark(Kind(d.groups[n].dir))
    BY DocType, ItemType
  <2>2. PICK i \in Seq(Token), a \in Seq(Token) : i = ItemsFrom(d.groups[n].rules[r], 0) /\ a = AfterRule(d, n, r)
    <3>1. d.groups[n].rules[r] \in Seq(Entry)
      BY DocType
    <3>2. ItemsFrom(d.groups[n].rules[r], 0) \in Seq(Token)
      BY <3>1, ItemsAll
    <3>3. r \in 0 .. Len(d.groups[n].rules)
      OBVIOUS
    <3>4. AfterRule(d, n, r) \in Seq(Token)
      BY <3>3, AfterType
    <3> QED BY <3>2, <3>4
  <2>3. <<m>> \in Seq(Token) /\ i \o a \in Seq(Token) /\ a \o y \in Seq(Token) /\ i \o (a \o y) \in Seq(Token)
    BY ConcatProperties, OneToken
  <2>4. PICK h \in Seq(Token), ia \in Seq(Token) : h = <<m>> /\ ia = i \o a
    BY <2>3
  <2>5. (h \o ia) \o y = h \o (ia \o y)
    BY JoinAgain, ZenonT(60)
  <2>6. (i \o a) \o y = i \o (a \o y)
    BY JoinAgain, ZenonT(60)
  <2>7. IniLeft(d, s) \o y = <<m>> \o (i \o (a \o y))
    BY ONLY <1>3, <2>1, <2>2, <2>4, <2>5, <2>6, Zenon
  <2>8. /\ <<m>> \o (i \o (a \o y)) \in Seq(Token) /\ <<m>> \o (i \o (a \o y)) # <<>>
        /\ Head(<<m>> \o (i \o (a \o y))) = m /\ Tail(<<m>> \o (i \o (a \o y))) = i \o (a \o y)
    BY <2>3, FirstToken
  <2> QED BY ONLY <2>1, <2>2, <2>7, <2>8, Zenon
<1> QED BY <1>1, <1>2, <1>3, Zenon DEF Left

-----------------------------------------------------------------------------
(* The types.                                                              *)

LEMMA HeadType ==
  ASSUME rest \in Seq(Token), rest # <<>>
  PROVE  Head(rest) \in Token /\ Tail(rest) \in Seq(Token) /\ Value \in Word
<1>1. Head(rest) \in Token /\ Tail(rest) \in Seq(Token)
  BY HeadTailProperties
<1> QED BY <1>1 DEF Token, Value

LEMMA NewRuleType == NewRule \in Rule /\ NewRule.pPlugin = 0
<1>1. <<>> \in Seq(Word)
  OBVIOUS
<1> QED BY <1>1 DEF NewRule, Rule, Word, NoPlugin

LEMMA RuleValueType ==
  ASSUME NEW r \in Rule, NEW key, NEW value \in Word
  PROVE  RuleValue(r, key, value) \in Rule /\ RuleValue(r, key, value).pPlugin = r.pPlugin
<1>1. Flag(r.IsTransfer, value) \in BOOLEAN
  BY DEF Flag, Rule
<1> QED BY <1>1 DEF RuleValue, Rule

LEMMA PatternsType == \A value \in Word : Patterns(value) \in Seq(Word)
<1> SUFFICES ASSUME NEW value \in Word PROVE Patterns(value) \in Seq(Word)
  OBVIOUS
<1>1. <<value>> \in Seq(Word) /\ <<>> \in Seq(Word)
  OBVIOUS
<1> QED BY <1>1 DEF Patterns

LEMMA FinishedIs ==
  ASSUME LoadTypes
  PROVE  /\ Finished = Complete(pTmpRule, is_dir_rule, AllowMatchs, DenyMatchs)
         /\ Finished \in Rule /\ Finished.pPlugin = pTmpRule.pPlugin
<1>1. Finished = Complete(pTmpRule, is_dir_rule, AllowMatchs, DenyMatchs)
  BY DEF Finished, Complete
<1>2. pTmpRule \in Rule /\ is_dir_rule \in BOOLEAN /\ AllowMatchs \in Seq(Word) /\ DenyMatchs \in Seq(Word)
  BY DEF LoadTypes
<1> QED BY <1>1, <1>2 DEF Complete, MatchingList, Rule

LEMMA MapTypes ==
  ASSUME NEW map, NEW plugins \in Seq(Word), MapType(map, plugins)
  PROVE  /\ MapType(NoRules, plugins)
         /\ MapType(WithoutMatching(map), plugins)
         /\ \A r \in Rule : r.pPlugin <= Len(plugins) => MapType(PutRule(map, r), plugins)
         /\ \A value \in Word : MapType(map, Append(plugins, value))
<1>1. MapType(NoRules, plugins)
  BY DEF NoRules, MapType
<1>2. MapType(WithoutMatching(map), plugins)
  <2>1. \A r \in Rule : [r EXCEPT !.MatchingList = <<>>] \in Rule /\ [r EXCEPT !.MatchingList = <<>>].pPlugin = r.pPlugin
    <3>1. <<>> \in Seq(Word)
      OBVIOUS
    <3> QED BY <3>1 DEF Rule
  <2> QED BY <2>1 DEF WithoutMatching, MapType
<1>3. ASSUME NEW r \in Rule, r.pPlugin <= Len(plugins) PROVE MapType(PutRule(map, r), plugins)
  BY <1>3 DEF PutRule, MapType
<1>4. ASSUME NEW value \in Word PROVE MapType(map, Append(plugins, value))
  <2>1. Len(Append(plugins, value)) = Len(plugins) + 1 /\ Len(plugins) \in Nat
    BY AppendProperties, LenProperties
  <2>2. \A t \in DOMAIN map : map[t].pPlugin \in Nat
    BY DEF MapType, Rule
  <2> QED BY <2>1, <2>2 DEF MapType
<1> QED BY <1>1, <1>2, <1>3, <1>4

\* The variables that RuleKey sets.
LEMMA PluginKeyType ==
  ASSUME LoadTypes, NEW value \in Word, PluginKey(value)
  PROVE  /\ stop_plugin' \in Seq(Word) /\ pTmpRule' \in Rule /\ pTmpRule'.pPlugin <= Len(stop_plugin')
         /\ MapType(RuleMap, stop_plugin')
<1>1. /\ stop_plugin \in Seq(Word) /\ Len(stop_plugin) \in Nat /\ pTmpRule \in Rule /\ MapType(RuleMap, stop_plugin)
      /\ Len(Append(stop_plugin, value)) = Len(stop_plugin) + 1 /\ Append(stop_plugin, value) \in Seq(Word)
  BY LenProperties, AppendProperties DEF LoadTypes, MapType
<1>2. CASE value = ""
  <2>1. pTmpRule' = [pTmpRule EXCEPT !.pPlugin = 0] /\ stop_plugin' = stop_plugin
    BY <1>2 DEF PluginKey, NoPlugin
  <2>2. pTmpRule' \in Rule /\ pTmpRule'.pPlugin = 0
    BY <1>1, <2>1 DEF Rule
  <2> QED BY <1>1, <2>1, <2>2
<1>3. CASE value # ""
  <2>1. pTmpRule' = [pTmpRule EXCEPT !.pPlugin = Len(stop_plugin) + 1] /\ stop_plugin' = Append(stop_plugin, value)
    BY <1>3 DEF PluginKey
  <2>2. pTmpRule' \in Rule /\ pTmpRule'.pPlugin = Len(stop_plugin) + 1
    BY <1>1, <2>1 DEF Rule
  <2>3. MapType(RuleMap, Append(stop_plugin, value))
    BY <1>1, MapTypes
  <2> QED BY <1>1, <2>1, <2>2, <2>3
<1> QED BY <1>2, <1>3

\* The rest of LoadTypes.
LEMMA TypesKept ==
  ASSUME LoadTypes, doc' = doc, form' = form, set_main_sec' \in BOOLEAN, rest' \in Seq(Token),
         is_dir_rule' \in BOOLEAN, AllowMatchs' \in Seq(Word), DenyMatchs' \in Seq(Word),
         stop_plugin' \in Seq(Word), pTmpRule' \in Rule, pTmpRule'.pPlugin <= Len(stop_plugin'),
         MapType(RuleMap', stop_plugin')
  PROVE  LoadTypes'
BY DEF LoadTypes, MapType

LEMMA FailTypes == ASSUME LoadTypes, Fail PROVE LoadTypes'
<1>1. RuleMap' = NoRules /\ UNCHANGED <<doc, form, rest, set_main_sec, is_dir_rule, pTmpRule, AllowMatchs, DenyMatchs, stop_plugin>>
  BY DEF Fail, Clean, inputVars, sectionVars
<1>2. MapType(RuleMap, stop_plugin) /\ stop_plugin \in Seq(Word)
  BY DEF LoadTypes
<1>3. MapType(RuleMap', stop_plugin')
  BY <1>1, <1>2, MapTypes
<1> QED BY <1>1, <1>3, TypesKept DEF LoadTypes

LEMMA KeyTypes == ASSUME LoadTypes, Next1("item"), MainKey \/ RuleKey PROVE LoadTypes'
<1>1. Tail(rest) \in Seq(Token) /\ Value \in Word
  BY HeadType DEF LoadTypes, Next1
<1>2. CASE MainKey
  <2>1. rest' = Tail(rest) /\ UNCHANGED <<doc, form, set_main_sec, is_dir_rule, pTmpRule, AllowMatchs, DenyMatchs, RuleMap, stop_plugin>>
    BY <1>2 DEF MainKey, Read, inputVars, sectionVars
  <2> QED BY <1>1, <2>1, TypesKept DEF LoadTypes
<1>3. CASE RuleKey
  <2>1. rest' = Tail(rest) /\ UNCHANGED <<doc, form, set_main_sec, is_dir_rule, AllowMatchs, DenyMatchs, RuleMap>>
    BY <1>3 DEF RuleKey, Read, inputVars
  <2>2. CASE Key = "PLUGIN"
    <3>1. PluginKey(Value)
      BY <1>3, <2>2 DEF RuleKey
    <3>2. /\ stop_plugin' \in Seq(Word) /\ pTmpRule' \in Rule /\ pTmpRule'.pPlugin <= Len(stop_plugin')
          /\ MapType(RuleMap, stop_plugin')
      BY <1>1, <3>1, PluginKeyType
    <3> QED BY <1>1, <2>1, <3>2, TypesKept DEF LoadTypes
  <2>3. CASE Key # "PLUGIN"
    <3>1. pTmpRule' = RuleValue(pTmpRule, Key, Value) /\ stop_plugin' = stop_plugin
      BY <1>3, <2>3 DEF RuleKey
    <3>2. pTmpRule' \in Rule /\ pTmpRule'.pPlugin = pTmpRule.pPlugin
      BY <1>1, <3>1, RuleValueType DEF LoadTypes
    <3> QED BY <1>1, <2>1, <3>1, <3>2, TypesKept DEF LoadTypes
  <2> QED BY <2>2, <2>3
<1> QED BY <1>2, <1>3

LEMMA SetRuleTypes ==
  ASSUME LoadTypes, SetRule, doc' = doc, form' = form, set_main_sec' = set_main_sec,
         rest' \in Seq(Token), UNCHANGED sectionVars
  PROVE  LoadTypes'
<1>1. /\ Finished \in Rule /\ Finished.pPlugin <= Len(stop_plugin)
      /\ MapType(RuleMap, stop_plugin) /\ stop_plugin \in Seq(Word)
  BY FinishedIs DEF LoadTypes
<1>2. RuleMap' = PutRule(RuleMap, Finished) /\ stop_plugin' = stop_plugin
  BY DEF SetRule
<1>3. MapType(RuleMap', stop_plugin')
  BY <1>1, <1>2, MapTypes
<1> QED BY <1>2, <1>3, TypesKept DEF LoadTypes, sectionVars

LEMMA TypesStep == ASSUME LoadTypes, [Next]_vars PROVE LoadTypes'
<1>1. MapType(RuleMap, stop_plugin) /\ stop_plugin \in Seq(Word) /\ Len(stop_plugin) \in Nat /\ set_main_sec \in BOOLEAN
  BY LenProperties DEF LoadTypes
<1>2. \A t : Next1(t) => Tail(rest) \in Seq(Token) /\ Value \in Word
  BY HeadType DEF LoadTypes, Next1
<1>3. CASE UNCHANGED vars
  BY <1>3 DEF vars, inputVars, sectionVars, keptVars, LoadTypes
<1>4. CASE Fail
  BY <1>4, FailTypes
<1>5. CASE Next1("item") /\ (MainKey \/ RuleKey)
  BY <1>5, KeyTypes
\* Only what is read, the place and the flags change.
<1>6. ASSUME UNCHANGED keptVars, doc' = doc, form' = form, set_main_sec' \in BOOLEAN, rest' = rest \/ \E t : Next1(t) /\ Read,
             is_dir_rule' \in BOOLEAN, UNCHANGED <<pTmpRule, AllowMatchs, DenyMatchs>>
      PROVE  LoadTypes'
  <2>1. rest' \in Seq(Token)
    BY <1>2, <1>6 DEF Read, LoadTypes
  <2>2. UNCHANGED <<RuleMap, stop_plugin>>
    BY <1>6 DEF keptVars
  <2> QED BY <1>6, <2>1, <2>2, TypesKept DEF LoadTypes
<1>7. ASSUME UNCHANGED keptVars, doc' = doc, form' = form, set_main_sec' = set_main_sec, \E t : Next1(t) /\ Read,
             is_dir_rule' \in BOOLEAN, NEW to, NewSection(to)
      PROVE  LoadTypes'
  <2>1. rest' \in Seq(Token) /\ <<>> \in Seq(Word)
    BY <1>2, <1>7 DEF Read
  <2>2. UNCHANGED <<RuleMap, stop_plugin>> /\ pTmpRule' = NewRule /\ AllowMatchs' = <<>> /\ DenyMatchs' = <<>>
    BY <1>7 DEF keptVars, NewSection
  <2>3. pTmpRule' \in Rule /\ pTmpRule'.pPlugin <= Len(stop_plugin')
    BY <1>1, <2>2, NewRuleType
  <2> QED BY <1>1, <1>7, <2>1, <2>2, <2>3, TypesKept
<1>8. ASSUME UNCHANGED <<doc, form, set_main_sec, is_dir_rule, pTmpRule, keptVars>>, \E t : Next1(t) /\ Read,
             AllowMatchs' = AllowMatchs \o Patterns(Value) \/ AllowMatchs' = AllowMatchs,
             DenyMatchs' = DenyMatchs \o Patterns(Value) \/ DenyMatchs' = DenyMatchs
      PROVE  LoadTypes'
  <2>1. rest' \in Seq(Token) /\ Patterns(Value) \in Seq(Word)
    BY <1>2, <1>8, PatternsType DEF Read
  <2>2. AllowMatchs' \in Seq(Word) /\ DenyMatchs' \in Seq(Word)
    <3>1. AllowMatchs \in Seq(Word) /\ DenyMatchs \in Seq(Word)
      BY DEF LoadTypes
    <3>2. AllowMatchs \o Patterns(Value) \in Seq(Word) /\ DenyMatchs \o Patterns(Value) \in Seq(Word)
      BY ONLY <2>1, <3>1, ConcatProperties
    <3> QED BY ONLY <1>8, <3>1, <3>2
  <2>3. UNCHANGED <<RuleMap, stop_plugin>>
    BY <1>8 DEF keptVars
  <2> QED BY <1>1, <1>8, <2>1, <2>2, <2>3, TypesKept DEF LoadTypes
\* The patterns are dropped, or everything.
<1>9. ASSUME UNCHANGED <<doc, form, set_main_sec, sectionVars, stop_plugin>>, rest' = rest \/ \E t : Next1(t) /\ Read,
             RuleMap' = CheckBinaryMode(RuleMap) \/ RuleMap' = NoRules \/ RuleMap' = RuleMap
      PROVE  LoadTypes'
  <2>1. rest' \in Seq(Token)
    BY <1>2, <1>9 DEF Read, LoadTypes
  <2>2. MapType(RuleMap', stop_plugin')
    <3>1. RuleMap' = RuleMap \/ RuleMap' = NoRules \/ RuleMap' = WithoutMatching(RuleMap)
      BY <1>9 DEF CheckBinaryMode
    <3> QED BY <1>1, <1>9, <3>1, MapTypes
  <2> QED BY <1>1, <1>9, <2>1, <2>2, TypesKept DEF LoadTypes, sectionVars
<1>10. ASSUME SetRule, doc' = doc, form' = form, set_main_sec' = set_main_sec, UNCHANGED sectionVars,
              rest' = rest \/ \E t : Next1(t) /\ Read
       PROVE  LoadTypes'
  <2>1. rest' \in Seq(Token)
    BY <1>2, <1>10 DEF Read, LoadTypes
  <2> QED BY <1>10, <2>1, SetRuleTypes
<1>11. CASE IniMain
  BY <1>6, <1>11 DEF IniMain, inputVars, sectionVars, LoadTypes
<1>12. CASE IniSecondMain
  BY <1>4, <1>12 DEF IniSecondMain
<1>13. CASE IniMainKey
  BY <1>5, <1>13 DEF IniMainKey
<1>14. CASE IniMainRefused
  BY <1>4, <1>14 DEF IniMainRefused
<1>15. CASE IniMainEnd
  BY <1>4, <1>6, <1>15 DEF IniMainEnd, inputVars, sectionVars, LoadTypes
<1>16. CASE IniRule
  BY <1>7, <1>16 DEF IniRule, inputVars
<1>17. CASE IniRuleKey
  BY <1>5, <1>17 DEF IniRuleKey
<1>18. CASE IniRuleAcl
  BY <1>8, <1>18 DEF IniRuleAcl, inputVars
<1>19. CASE IniRuleEnd
  BY <1>10, <1>19 DEF IniRuleEnd, inputVars
<1>20. CASE IniEnd
  BY <1>4, <1>9, <1>20 DEF IniEnd, Load, inputVars
<1>21. CASE YamlMain
  BY <1>1, <1>6, <1>21 DEF YamlMain, inputVars, sectionVars, LoadTypes
<1>22. CASE YamlMainKey
  BY <1>5, <1>22 DEF YamlMainKey
<1>23. CASE YamlMainRefused
  BY <1>4, <1>23 DEF YamlMainRefused
<1>24. CASE YamlMainEnd
  BY <1>4, <1>6, <1>24 DEF YamlMainEnd, inputVars, sectionVars, LoadTypes
<1>25. CASE YamlRules
  BY <1>6, <1>25 DEF YamlRules, inputVars, LoadTypes
<1>26. CASE YamlRule
  BY <1>7, <1>26 DEF YamlRule, inputVars, LoadTypes
<1>27. CASE YamlRuleKey
  BY <1>5, <1>27 DEF YamlRuleKey
<1>28. CASE YamlRuleAcl
  BY <1>8, <1>28 DEF YamlRuleAcl, inputVars
<1>29. CASE YamlAclRefused
  BY <1>4, <1>29 DEF YamlAclRefused
<1>30. CASE YamlRuleEnd
  BY <1>10, <1>30 DEF YamlRuleEnd, inputVars
<1>31. CASE YamlRulesEnd
  BY <1>9, <1>31 DEF YamlRulesEnd, Clean, inputVars
<1>32. CASE YamlEnd
  BY <1>9, <1>32 DEF YamlEnd, Load, inputVars, keptVars
<1> QED
  BY <1>3, <1>11, <1>12, <1>13, <1>14, <1>15, <1>16, <1>17, <1>18, <1>19, <1>20, <1>21, <1>22, <1>23, <1>24, <1>25,
     <1>26, <1>27, <1>28, <1>29, <1>30, <1>31, <1>32 DEF Next, LoadIni, LoadYaml

-----------------------------------------------------------------------------
(* One more key.                                                           *)

\* Key k + 1 of a section s is the next that is read.
AtKey(s, k) == rest # <<>> /\ Head(rest) = Item(s[k + 1])

LEMMA KeyIs ==
  ASSUME NEW s, NEW k, AtKey(s, k)
  PROVE  Next1("item") /\ Key = s[k + 1][1] /\ Value = s[k + 1][2]
BY DEF AtKey, Item, Next1, Key, Value

LEMMA MainSoFarGrows ==
  ASSUME LoadTypes, NEW k \in 0 .. Len(doc.main), k < Len(doc.main), AtKey(doc.main, k), MainSoFar(k), MainKey
  PROVE  MainSoFar(k + 1)'
<1> DEFINE s == doc.main
<1>1. s \in Seq(Entry) /\ Len(s) \in Nat
  BY DocType DEF LoadTypes
<1>2. Prefix(s, k) \in Seq(Entry) /\ Prefix(s, k + 1) = Append(Prefix(s, k), s[k + 1]) /\ s[k + 1] \in Entry
  <2>1. <<>> \in Seq(Token)
    OBVIOUS
  <2> QED BY <1>1, <2>1, NextItem, PrefixEnds
<1>3. Key = s[k + 1][1] /\ Value = s[k + 1][2]
  BY KeyIs
<1>4. doc' = doc /\ members' = MainValue(members, Key, Value) /\ ~IsRefused(Key, Value)
  BY DEF MainKey, inputVars
<1>5. members' = MeantMembers(Prefix(s, k + 1))
  <2>1. PICK p \in Seq(Entry), e \in Entry : p = Prefix(s, k) /\ e = s[k + 1]
    BY <1>2
  <2>2. MeantMembers(Append(p, e)) = MainValue(MeantMembers(p), e[1], e[2])
    BY MembersGrow
  <2>3. members = MeantMembers(p)
    BY <2>1 DEF MainSoFar
  <2> QED BY <1>2, <1>3, <1>4, <2>1, <2>2, <2>3
<1>6. \A i \in 1 .. k + 1 : ~IsRefused(s[i][1], s[i][2])
  <2>1. \A i \in 1 .. k + 1 : i \in 1 .. k \/ i = k + 1
    BY <1>1
  <2>2. \A i \in 1 .. k : ~IsRefused(s[i][1], s[i][2])
    BY DEF MainSoFar
  <2> QED BY <1>3, <1>4, <2>1, <2>2
<1> QED BY <1>4, <1>5, <1>6 DEF MainSoFar

\* A key that is refused is one of those that the configuration may not have.
LEMMA RefusedIs ==
  ASSUME LoadTypes, NEW k \in 0 .. Len(doc.main), k < Len(doc.main), AtKey(doc.main, k), IsRefused(Key, Value)
  PROVE  ~MayLoad(doc)
<1>1. k + 1 \in DOMAIN doc.main
  BY DocType DEF LoadTypes
<1>2. "bad" \in Values(doc.main, "CHECKED")
  BY <1>1, KeyIs DEF Values, IsRefused
<1> QED BY <1>2 DEF MayLoad

LEMMA NoneRefused ==
  ASSUME LoadTypes, MainSoFar(Len(doc.main))
  PROVE  members = MeantMembers(doc.main) /\ "bad" \notin Values(doc.main, "CHECKED")
<1>1. doc.main \in Seq(Entry) /\ DOMAIN doc.main = 1 .. Len(doc.main)
  BY DocType DEF LoadTypes
<1>2. Prefix(doc.main, Len(doc.main)) = doc.main
  BY <1>1, PrefixEnds
<1>3. members = MeantMembers(doc.main)
  BY <1>2 DEF MainSoFar
<1>4. \A i \in DOMAIN doc.main : ~IsRefused(doc.main[i][1], doc.main[i][2])
  BY <1>1 DEF MainSoFar
<1>5. "bad" \notin Values(doc.main, "CHECKED")
  BY <1>4 DEF Values, IsRefused
<1> QED BY <1>3, <1>5

\* A plugin is put into a rule, or none; or something else of the rule changes.
PutsName(r, plugins, value) ==
  /\ WithName([r EXCEPT !.pPlugin = 0], plugins) = [WithName(r, plugins) EXCEPT !.pPlugin = ""]
  /\ WithName([r EXCEPT !.pPlugin = Len(plugins) + 1], Append(plugins, value))
       = [WithName(r, plugins) EXCEPT !.pPlugin = value]
KeepsName(r, plugins, key, value) ==
  WithName(RuleValue(r, key, value), plugins) = RuleValue(WithName(r, plugins), key, value)

LEMMA NameChanges ==
  ASSUME NEW r \in Rule, NEW plugins \in Seq(Word), NEW value \in Word
  PROVE  PutsName(r, plugins, value)
<1>1. Len(plugins) \in Nat /\ Append(plugins, value)[Len(plugins) + 1] = value
  BY LenProperties, AppendProperties
<1>2. WithName([r EXCEPT !.pPlugin = 0], plugins) = [WithName(r, plugins) EXCEPT !.pPlugin = ""]
  BY DEF WithName, Rule, NoPlugin
<1>3. WithName([r EXCEPT !.pPlugin = Len(plugins) + 1], Append(plugins, value))
        = [WithName(r, plugins) EXCEPT !.pPlugin = value]
  <2>1. PICK n \in Nat : n = Len(plugins) + 1 /\ n # 0
    BY <1>1
  <2>2. PICK more : more = Append(plugins, value) /\ more[n] = value
    BY <1>1, <2>1
  <2>3. WithName([r EXCEPT !.pPlugin = n], more) = [WithName(r, plugins) EXCEPT !.pPlugin = value]
    BY <2>1, <2>2 DEF WithName, Rule, NoPlugin
  <2> QED BY <2>1, <2>2, <2>3
<1> QED BY <1>2, <1>3 DEF PutsName

LEMMA NameStays ==
  ASSUME NEW r \in Rule, NEW plugins, NEW key, NEW value
  PROVE  KeepsName(r, plugins, key, value)
<1>1. PICK w : w = WithName(r, plugins)
  OBVIOUS
<1>2. PICK p : p = IF r.pPlugin = NoPlugin THEN "" ELSE plugins[r.pPlugin]
  OBVIOUS
<1>3. w = [r EXCEPT !.pPlugin = p]
  BY <1>1, <1>2 DEF WithName
<1>4. PICK q : q = RuleValue(r, key, value)
  OBVIOUS
<1>5. q.pPlugin = r.pPlugin
  BY <1>4 DEF RuleValue, Rule
<1>6. WithName(q, plugins) = [q EXCEPT !.pPlugin = p]
  BY <1>2, <1>5 DEF WithName
<1>7. [q EXCEPT !.pPlugin = p] = RuleValue([r EXCEPT !.pPlugin = p], key, value)
  BY <1>4 DEF RuleValue, Rule
<1> QED BY <1>1, <1>3, <1>4, <1>6, <1>7 DEF KeepsName

LEMMA NoPatterns ==
  ASSUME NEW s \in Seq(Entry), NEW e \in Entry, NEW key, PatternOf(e, key) = <<>>
  PROVE  MeantPatterns(Append(s, e), key) = MeantPatterns(s, key)
<1>1. PICK p \in Seq(Word) : p = MeantPatterns(s, key)
  BY PatternsGrow
<1>2. MeantPatterns(Append(s, e), key) = p \o PatternOf(e, key)
  BY <1>1, PatternsGrow
<1>3. p \o <<>> = p
  BY ConcatEmptySeq
<1> QED BY <1>1, <1>2, <1>3

\* A rule with its keys up to this one.
LEMMA RuleSoFarGrows ==
  ASSUME LoadTypes, NEW s \in Seq(Entry), NEW k \in 0 .. Len(s), k < Len(s), AtKey(s, k), RuleSoFar(Prefix(s, k)), RuleKey
  PROVE  RuleSoFar(Prefix(s, k + 1))'
<1>1. PICK p \in Seq(Entry), e \in Entry : p = Prefix(s, k) /\ e = s[k + 1] /\ Prefix(s, k + 1) = Append(p, e)
  <2>1. <<>> \in Seq(Token)
    OBVIOUS
  <2>2. Prefix(s, k + 1) = Append(Prefix(s, k), s[k + 1]) /\ s[k + 1] \in Entry
    BY <2>1, NextItem
  <2>3. Prefix(s, k) \in Seq(Entry)
    BY PrefixEnds
  <2> QED BY <2>2, <2>3
<1>2. Key = e[1] /\ Value = e[2] /\ e[2] \in Word
  BY <1>1, KeyIs DEF Entry
<1>3. /\ pTmpRule \in Rule /\ pTmpRule.pPlugin <= Len(stop_plugin) /\ stop_plugin \in Seq(Word)
      /\ e[1] \notin {"ALLOW", "DENY"} /\ UNCHANGED <<AllowMatchs, DenyMatchs>>
  BY <1>2 DEF LoadTypes, RuleKey
<1>4. /\ WithName(pTmpRule, stop_plugin) = MeantRule(FALSE, p, TRUE)
      /\ AllowMatchs = MeantPatterns(p, "ALLOW") /\ DenyMatchs = MeantPatterns(p, "DENY")
      /\ pTmpRule.pPlugin # NoPlugin => HasPlugin(p, stop_plugin[pTmpRule.pPlugin])
  BY <1>1 DEF RuleSoFar
<1>5. AllowMatchs' = MeantPatterns(Append(p, e), "ALLOW") /\ DenyMatchs' = MeantPatterns(Append(p, e), "DENY")
  <2>1. PatternOf(e, "ALLOW") = <<>> /\ PatternOf(e, "DENY") = <<>>
    BY <1>3 DEF PatternOf
  <2> QED BY <1>3, <1>4, <2>1, NoPatterns
<1>6. /\ Len(p) \in Nat /\ DOMAIN p = 1 .. Len(p) /\ DOMAIN Append(p, e) = 1 .. Len(p) + 1
      /\ \A i \in 1 .. Len(p) : Append(p, e)[i] = p[i]
      /\ Append(p, e)[Len(p) + 1] = e
  BY AppendEntry
<1>7. PICK m : m = MeantRule(FALSE, p, TRUE)
  OBVIOUS
<1>8. CASE e[1] = "PLUGIN"
  <2>1. PluginKey(e[2])
    BY <1>2, <1>8 DEF RuleKey
  <2>2. MeantRule(FALSE, Append(p, e), TRUE) = [m EXCEPT !.pPlugin = e[2]]
    <3>1. PICK dir : dir = FALSE
      OBVIOUS
    <3>2. MeantRule(dir, Append(p, e), TRUE) =
            IF e[1] = "PLUGIN" THEN [MeantRule(dir, p, TRUE) EXCEPT !.pPlugin = e[2]]
                               ELSE RuleValue(MeantRule(dir, p, TRUE), e[1], e[2])
      BY RuleGrows
    <3> QED BY <1>7, <1>8, <3>1, <3>2
  <2>3. WithName(pTmpRule', stop_plugin') = [m EXCEPT !.pPlugin = e[2]]
    <3>1. /\ WithName([pTmpRule EXCEPT !.pPlugin = 0], stop_plugin) = [m EXCEPT !.pPlugin = ""]
          /\ WithName([pTmpRule EXCEPT !.pPlugin = Len(stop_plugin) + 1], Append(stop_plugin, e[2]))
               = [m EXCEPT !.pPlugin = e[2]]
      <4>1. PutsName(pTmpRule, stop_plugin, e[2])
        BY <1>2, <1>3, NameChanges
      <4> QED BY ONLY <1>4, <1>7, <4>1 DEF PutsName
    <3>2. CASE e[2] = ""
      <4>1. pTmpRule' = [pTmpRule EXCEPT !.pPlugin = 0] /\ stop_plugin' = stop_plugin
        BY <2>1, <3>2 DEF PluginKey, NoPlugin
      <4> QED BY ONLY <3>1, <3>2, <4>1
    <3>3. CASE e[2] # ""
      <4>1. pTmpRule' = [pTmpRule EXCEPT !.pPlugin = Len(stop_plugin) + 1] /\ stop_plugin' = Append(stop_plugin, e[2])
        BY <2>1, <3>3 DEF PluginKey
      <4> QED BY ONLY <3>1, <4>1
    <3> QED BY <3>2, <3>3
  <2>4. pTmpRule'.pPlugin # NoPlugin => HasPlugin(Append(p, e), stop_plugin'[pTmpRule'.pPlugin])
    <3>1. CASE e[2] = ""
      <4>1. pTmpRule'.pPlugin = NoPlugin
        BY <1>3, <2>1, <3>1 DEF PluginKey, Rule
      <4> QED BY <4>1
    <3>2. CASE e[2] # ""
      <4>1. pTmpRule'.pPlugin = Len(stop_plugin) + 1 /\ stop_plugin' = Append(stop_plugin, e[2])
        BY <1>3, <2>1, <3>2 DEF PluginKey, Rule
      <4>2. stop_plugin'[pTmpRule'.pPlugin] = e[2]
        BY <1>2, <1>3, <4>1, AppendProperties
      <4>3. e = <<"PLUGIN", e[2]>>
        <5>1. e = <<e[1], e[2]>>
          BY PairIs DEF Entry
        <5> QED BY <1>8, <5>1
      <4>4. Len(p) + 1 \in DOMAIN Append(p, e)
        BY <1>6
      <4>5. HasPlugin(Append(p, e), e[2])
        BY <1>6, <4>3, <4>4 DEF HasPlugin
      <4> QED BY <4>2, <4>5
    <3> QED BY <3>1, <3>2
  <2> QED BY <1>1, <1>5, <2>2, <2>3, <2>4 DEF RuleSoFar
<1>9. CASE e[1] # "PLUGIN"
  <2>1. pTmpRule' = RuleValue(pTmpRule, e[1], e[2]) /\ stop_plugin' = stop_plugin
    BY <1>2, <1>9 DEF RuleKey
  <2>2. MeantRule(FALSE, Append(p, e), TRUE) = RuleValue(m, e[1], e[2])
    <3>1. PICK dir : dir = FALSE
      OBVIOUS
    <3>2. MeantRule(dir, Append(p, e), TRUE) =
            IF e[1] = "PLUGIN" THEN [MeantRule(dir, p, TRUE) EXCEPT !.pPlugin = e[2]]
                               ELSE RuleValue(MeantRule(dir, p, TRUE), e[1], e[2])
      BY RuleGrows
    <3> QED BY <1>7, <1>9, <3>1, <3>2
  <2>3. WithName(pTmpRule', stop_plugin') = RuleValue(m, e[1], e[2])
    <3>1. KeepsName(pTmpRule, stop_plugin, e[1], e[2])
      BY <1>3, NameStays
    <3> QED BY ONLY <1>4, <1>7, <2>1, <3>1 DEF KeepsName
  <2>4. pTmpRule'.pPlugin = pTmpRule.pPlugin
    BY <1>2, <1>3, <2>1, RuleValueType
  <2>5. pTmpRule'.pPlugin # NoPlugin => HasPlugin(Append(p, e), stop_plugin'[pTmpRule'.pPlugin])
    <3>1. \A i \in DOMAIN p : i \in DOMAIN Append(p, e) /\ Append(p, e)[i] = p[i]
      BY <1>6
    <3>2. \A x : HasPlugin(p, x) => HasPlugin(Append(p, e), x)
      BY <3>1 DEF HasPlugin
    <3> QED BY <1>4, <2>1, <2>4, <3>2
  <2> QED BY <1>1, <1>5, <2>2, <2>3, <2>5 DEF RuleSoFar
<1> QED BY <1>8, <1>9

\* ALLOW and DENY, for which the two loaders differ.
LEMMA RuleSoFarAcl ==
  ASSUME LoadTypes, NEW s \in Seq(Entry), NEW k \in 0 .. Len(s), k < Len(s), RuleSoFar(Prefix(s, k)),
         s[k + 1][1] \in {"ALLOW", "DENY"}, UNCHANGED <<pTmpRule, stop_plugin>>,
         AllowMatchs' = AllowMatchs \o PatternOf(s[k + 1], "ALLOW"),
         DenyMatchs' = DenyMatchs \o PatternOf(s[k + 1], "DENY")
  PROVE  RuleSoFar(Prefix(s, k + 1))'
<1>1. PICK p \in Seq(Entry), e \in Entry : p = Prefix(s, k) /\ e = s[k + 1] /\ Prefix(s, k + 1) = Append(p, e)
  <2>1. <<>> \in Seq(Token)
    OBVIOUS
  <2>2. Prefix(s, k + 1) = Append(Prefix(s, k), s[k + 1]) /\ s[k + 1] \in Entry
    BY <2>1, NextItem
  <2>3. Prefix(s, k) \in Seq(Entry)
    BY PrefixEnds
  <2> QED BY <2>2, <2>3
<1>2. /\ WithName(pTmpRule, stop_plugin) = MeantRule(FALSE, p, TRUE)
      /\ AllowMatchs = MeantPatterns(p, "ALLOW") /\ DenyMatchs = MeantPatterns(p, "DENY")
      /\ pTmpRule.pPlugin # NoPlugin => HasPlugin(p, stop_plugin[pTmpRule.pPlugin])
  BY <1>1 DEF RuleSoFar
<1>3. AllowMatchs' = MeantPatterns(Append(p, e), "ALLOW") /\ DenyMatchs' = MeantPatterns(Append(p, e), "DENY")
  BY <1>1, <1>2, PatternsGrow
<1>4. MeantRule(FALSE, Append(p, e), TRUE) = MeantRule(FALSE, p, TRUE)
  <2>1. PICK dir : dir = FALSE
    OBVIOUS
  <2>2. MeantRule(dir, Append(p, e), TRUE) =
          IF e[1] = "PLUGIN" THEN [MeantRule(dir, p, TRUE) EXCEPT !.pPlugin = e[2]]
                             ELSE RuleValue(MeantRule(dir, p, TRUE), e[1], e[2])
    BY RuleGrows
  <2>3. RuleValue(MeantRule(dir, p, TRUE), e[1], e[2]) = MeantRule(dir, p, TRUE)
    BY <1>1 DEF RuleValue
  <2> QED BY <1>1, <2>1, <2>2, <2>3
<1>5. pTmpRule.pPlugin # NoPlugin => HasPlugin(Append(p, e), stop_plugin[pTmpRule.pPlugin])
  <2>1. /\ Len(p) \in Nat /\ DOMAIN p = 1 .. Len(p) /\ DOMAIN Append(p, e) = 1 .. Len(p) + 1
        /\ \A i \in 1 .. Len(p) : Append(p, e)[i] = p[i]
    BY AppendEntry
  <2>2. \A i \in DOMAIN p : i \in DOMAIN Append(p, e) /\ Append(p, e)[i] = p[i]
    BY <2>1
  <2>3. \A x : HasPlugin(p, x) => HasPlugin(Append(p, e), x)
    BY <2>2 DEF HasPlugin
  <2> QED BY <1>2, <2>3
<1> QED BY <1>1, <1>2, <1>3, <1>4, <1>5 DEF RuleSoFar

LEMMA RuleSoFarStart ==
  ASSUME LoadTypes, NEW s \in Seq(Entry), NEW to, NewSection(to), UNCHANGED stop_plugin
  PROVE  RuleSoFar(Prefix(s, 0))'
<1>1. Prefix(s, 0) = <<>>
  BY PrefixEnds
<1>2. pTmpRule' = NewRule /\ AllowMatchs' = <<>> /\ DenyMatchs' = <<>>
  BY DEF NewSection
<1>3. NewRule.pPlugin = NoPlugin
  BY NewRuleType DEF NoPlugin
<1>4. WithName(NewRule, stop_plugin') = MeantRule(FALSE, <<>>, TRUE)
  BY <1>3, RuleStart DEF WithName
<1>5. MeantPatterns(<<>>, "ALLOW") = <<>> /\ MeantPatterns(<<>>, "DENY") = <<>>
  BY PatternsStart
<1> QED BY <1>1, <1>2, <1>3, <1>4, <1>5 DEF RuleSoFar

\* A key deletes a plugin of the rule only if it is another PLUGIN.
LEMMA FreesGrow ==
  ASSUME LoadTypes, NEW n \in 1 .. Len(doc.groups), NEW r \in 1 .. Len(doc.groups[n].rules),
         NEW k \in 0 .. Len(doc.groups[n].rules[r]), k < Len(doc.groups[n].rules[r]),
         AtKey(doc.groups[n].rules[r], k), RuleSoFar(Prefix(doc.groups[n].rules[r], k)), RuleKey, Frees, doc' = doc
  PROVE  Frees'
<1>1. PICK s \in Seq(Entry) : s = doc.groups[n].rules[r]
  BY DocType DEF LoadTypes
<1>2. /\ Len(s) \in Nat /\ DOMAIN s = 1 .. Len(s) /\ n \in DOMAIN doc.groups /\ r \in DOMAIN doc.groups[n].rules
      /\ Key = s[k + 1][1]
  BY <1>1, DocType, KeyIs DEF LoadTypes
<1>3. /\ stop_plugin \in Seq(Word) /\ Len(stop_plugin) \in Nat /\ pTmpRule.pPlugin \in Nat
      /\ pTmpRule.pPlugin <= Len(stop_plugin) /\ Value \in Word
  BY LenProperties, KeyIs, HeadType DEF LoadTypes, Rule, Next1
<1>4. CASE Key # "PLUGIN"
  BY <1>4 DEF RuleKey, Frees
<1>5. CASE Key = "PLUGIN"
  <2>1. PluginKey(Value)
    BY <1>5 DEF RuleKey
  <2>2. \A p \in 1 .. Len(stop_plugin) : p \in 1 .. Len(stop_plugin') /\ stop_plugin'[p] = stop_plugin[p]
    <3>1. CASE stop_plugin' = stop_plugin
      BY <3>1
    <3>2. CASE stop_plugin' = Append(stop_plugin, Value)
      BY <1>3, <3>2, AppendProperties
    <3> QED BY <2>1, <3>1, <3>2 DEF PluginKey
  <2>3. freed' = freed \cup ({pTmpRule.pPlugin} \ {NoPlugin})
    BY <2>1 DEF PluginKey
  <2>4. ASSUME pTmpRule.pPlugin # NoPlugin
        PROVE  pTmpRule.pPlugin \in 1 .. Len(stop_plugin) /\ Replaced(doc, stop_plugin[pTmpRule.pPlugin])
    <3>1. pTmpRule.pPlugin \in 1 .. Len(stop_plugin)
      BY <1>3, <2>4 DEF NoPlugin
    <3>2. DOMAIN Prefix(s, k) = 1 .. k /\ \A i \in 1 .. k : Prefix(s, k)[i] = s[i]
      BY <1>1, PrefixEnds
    <3>3. HasPlugin(Prefix(s, k), stop_plugin[pTmpRule.pPlugin])
      BY <1>1, <2>4 DEF RuleSoFar
    <3>4. PICK i \in 1 .. k : s[i] = <<"PLUGIN", stop_plugin[pTmpRule.pPlugin]>>
      BY <3>2, <3>3 DEF HasPlugin
    <3>5. i \in DOMAIN s /\ k + 1 \in DOMAIN s /\ i < k + 1 /\ s[k + 1][1] = "PLUGIN"
      BY <1>1, <1>2, <1>5
    <3> QED BY <1>1, <1>2, <3>1, <3>4, <3>5 DEF Replaced
  <2> QED BY <2>2, <2>3, <2>4 DEF Frees
<1> QED BY <1>4, <1>5

-----------------------------------------------------------------------------
(* RuleMap.                                                                *)

LEMMA RuledStays ==
  ASSUME LoadTypes, doc' = doc, form' = form, RuleMap' = RuleMap,
         stop_plugin' = stop_plugin \/ \E v \in Word : stop_plugin' = Append(stop_plugin, v)
  PROVE  /\ \A P : Ruled(P) => Ruled(P)'
         /\ \A s : RuledTo(s) => RuledTo(s)'
         /\ Stripped => Stripped'
<1>1. Named(RuleMap', stop_plugin') = Named(RuleMap, stop_plugin)
  <2>1. CASE stop_plugin' = stop_plugin
    BY <2>1
  <2>2. ASSUME NEW v \in Word, stop_plugin' = Append(stop_plugin, v)
        PROVE  Named(RuleMap', stop_plugin') = Named(RuleMap, stop_plugin)
    <3>1. \A t \in DOMAIN RuleMap : RuleMap[t] \in Rule /\ RuleMap[t].pPlugin <= Len(stop_plugin)
      BY DEF LoadTypes, MapType
    <3>2. \A t \in DOMAIN RuleMap : WithName(RuleMap[t], stop_plugin') = WithName(RuleMap[t], stop_plugin)
      <4> SUFFICES ASSUME NEW t \in DOMAIN RuleMap PROVE WithName(RuleMap[t], stop_plugin') = WithName(RuleMap[t], stop_plugin)
        OBVIOUS
      <4>1. stop_plugin \in Seq(Word) /\ RuleMap[t] \in Rule /\ RuleMap[t].pPlugin <= Len(stop_plugin)
        BY <3>1 DEF LoadTypes
      <4>2. WithName(RuleMap[t], Append(stop_plugin, v)) = WithName(RuleMap[t], stop_plugin)
        BY <4>1, NameKept
      <4> QED BY <2>2, <4>2
    <3> QED BY <3>2 DEF Named
  <2> QED BY <2>1, <2>2
<1>2. Listed' = Listed
  BY DEF Listed
<1>3. \A P : Ruled(P) => Ruled(P)'
  BY <1>1, <1>2 DEF Ruled
<1>4. \A s : RuledTo(s) => RuledTo(s)'
  BY <1>3 DEF RuledTo
<1>5. Stripped => Stripped'
  BY <1>2 DEF Stripped
<1> QED BY <1>3, <1>4, <1>5

LEMMA RuledGrows ==
  ASSUME LoadTypes, NEW n \in 1 .. Len(doc.groups), NEW r \in 1 .. Len(doc.groups[n].rules),
         RuledTo(<<n, r - 1>>), RuleSoFar(doc.groups[n].rules[r]), is_dir_rule = doc.groups[n].dir,
         SetRule, doc' = doc, form' = form
  PROVE  RuledTo(<<n, r>>)'
<1> DEFINE P == PlacesTo(doc, n, r - 1)
<1> DEFINE p == <<n, r>>
<1>1. /\ PlacesTo(doc, n, r) = P \cup {p}
      /\ \A q \in P : Before(q, p) /\ ~Before(p, q)
      /\ ~Before(p, p)
  BY PlacesGrow DEF LoadTypes
<1>2. PICK items \in Seq(Entry) : items = doc.groups[n].rules[r]
  BY DocType DEF LoadTypes
<1>3. PICK f \in Rule : f = Finished
  BY FinishedIs
<1>4. WithName(f, stop_plugin) = RuleAt(doc, p, FALSE)
  <2>1. /\ WithName(pTmpRule, stop_plugin) = MeantRule(FALSE, items, TRUE)
        /\ AllowMatchs = MeantPatterns(items, "ALLOW") /\ DenyMatchs = MeantPatterns(items, "DENY")
    BY <1>2 DEF RuleSoFar
  <2>2. pTmpRule \in Rule /\ is_dir_rule \in BOOLEAN /\ AllowMatchs \in Seq(Word) /\ DenyMatchs \in Seq(Word)
    BY DEF LoadTypes
  <2>3. f = Complete(pTmpRule, is_dir_rule, MeantPatterns(items, "ALLOW"), MeantPatterns(items, "DENY"))
    BY <1>3, <2>1, FinishedIs
  <2>4. Completes(pTmpRule, stop_plugin, items, is_dir_rule, f)
    BY <2>1, <2>2, <2>3 DEF Completes
  <2>5. IsMeant(f, stop_plugin, items, is_dir_rule)
    BY <2>4, CompleteIs
  <2> QED BY <1>2, <2>5 DEF RuleAt, IsMeant
<1>5. PICK w : w = WithName(f, stop_plugin)
  OBVIOUS
<1>6. RuleMap' = PutRule(RuleMap, f) /\ stop_plugin' = stop_plugin
  BY <1>3 DEF SetRule
<1>7. RuleMap \in [DOMAIN RuleMap -> Rule]
  BY DEF LoadTypes, MapType
<1>8. Named(RuleMap', stop_plugin') = PutRule(Named(RuleMap, stop_plugin), w)
  BY <1>5, <1>6, <1>7, PutNamed
<1>9. Listed' = Listed
  BY DEF Listed
<1>10. Ruled(P)
  BY DEF RuledTo
<1> HIDE DEF P
<1>11. \A b : RulesAt(doc, P \cup {p}, b) = PutRule(RulesAt(doc, P, b), RuleAt(doc, p, b))
  <2> SUFFICES ASSUME NEW b PROVE RulesAt(doc, P \cup {p}, b) = PutRule(RulesAt(doc, P, b), RuleAt(doc, p, b))
    OBVIOUS
  <2> HIDE DEF p
  <2> QED BY <1>1, RulesGrow
<1>12. CASE Listed
  <2>1. Named(RuleMap, stop_plugin) = RulesAt(doc, P, FALSE)
    BY <1>10, <1>12 DEF Ruled
  <2>2. Named(RuleMap', stop_plugin') = RulesAt(doc, P \cup {p}, FALSE)
    BY <1>4, <1>5, <1>8, <1>11, <2>1
  <2> QED BY <1>1, <1>9, <1>12, <2>2 DEF RuledTo, Ruled
<1>13. CASE ~Listed
  <2>1. WithoutMatching(Named(RuleMap, stop_plugin)) = RulesAt(doc, P, TRUE)
    BY <1>10, <1>13 DEF Ruled
  <2>2. PICK z : z = [f EXCEPT !.MatchingList = <<>>]
    OBVIOUS
  <2>3. z \in Rule
    <3>1. <<>> \in Seq(Word)
      OBVIOUS
    <3> QED BY <2>2, <3>1 DEF Rule
  <2>4. WithoutMatching(RuleMap) \in [DOMAIN WithoutMatching(RuleMap) -> Rule]
    <3>1. MapType(WithoutMatching(RuleMap), stop_plugin)
      BY MapTypes DEF LoadTypes
    <3> QED BY <3>1 DEF MapType
  <2>5. WithoutMatching(RuleMap') = PutRule(WithoutMatching(RuleMap), z)
    BY <1>6, <1>7, <2>2, PutNamed
  <2>6. Named(PutRule(WithoutMatching(RuleMap), z), stop_plugin)
          = PutRule(Named(WithoutMatching(RuleMap), stop_plugin), WithName(z, stop_plugin))
    BY <2>3, <2>4, PutNamed, ZenonT(60)
  <2>7. WithName(z, stop_plugin) = [w EXCEPT !.MatchingList = <<>>]
    BY <1>5, <2>2 DEF WithName, Rule
  <2>8. WithName(z, stop_plugin) = RuleAt(doc, p, TRUE)
    <3>1. RuleAt(doc, p, TRUE) = [RuleAt(doc, p, FALSE) EXCEPT !.MatchingList = <<>>]
      BY WithoutList
    <3> QED BY <1>4, <1>5, <2>7, <3>1
  <2>9. WithoutMatching(Named(RuleMap', stop_plugin')) = Named(WithoutMatching(RuleMap'), stop_plugin)
    BY <1>6, NamedStripped
  <2>10. WithoutMatching(Named(RuleMap', stop_plugin')) = RulesAt(doc, P \cup {p}, TRUE)
    BY <1>11, <2>1, <2>5, <2>6, <2>8, <2>9, NamedStripped
  <2> QED BY <1>1, <1>9, <1>13, <2>10 DEF RuledTo, Ruled
<1> QED BY <1>12, <1>13

LEMMA StripOutputs ==
  ASSUME NEW map, \A t \in DOMAIN map : {"dir", "OutputPath"} \subseteq DOMAIN map[t]
  PROVE  InitializeOutputFiles(map) <=> InitializeOutputFiles(WithoutMatching(map))
<1>1. DOMAIN WithoutMatching(map) = DOMAIN map
  BY DEF WithoutMatching
<1>2. ASSUME NEW t \in DOMAIN map
      PROVE  map[t].dir = WithoutMatching(map)[t].dir /\ map[t].OutputPath = WithoutMatching(map)[t].OutputPath
  <2>1. PICK r : r = map[t] /\ "dir" \in DOMAIN r /\ "OutputPath" \in DOMAIN r
    OBVIOUS
  <2>2. WithoutMatching(map)[t] = [r EXCEPT !.MatchingList = <<>>]
    BY <2>1 DEF WithoutMatching
  <2>3. [r EXCEPT !.MatchingList = <<>>].dir = r.dir /\ [r EXCEPT !.MatchingList = <<>>].OutputPath = r.OutputPath
    BY <2>1
  <2> QED BY <2>1, <2>2, <2>3
<1> QED BY <1>1, <1>2, OutputsSame

\* Of a rule the outputs look at nothing that LoadYaml drops.
LEMMA OutputsMeant ==
  ASSUME LoadTypes, NEW P, Ruled(P), NEW b
  PROVE  InitializeOutputFiles(RuleMap) <=> InitializeOutputFiles(RulesAt(doc, P, b))
<1> DEFINE map == Named(RuleMap, stop_plugin)
<1>1. WithoutMatching(map) = RulesAt(doc, P, TRUE)
  BY RulesWithoutList DEF Ruled
<1>2. WithoutMatching(RulesAt(doc, P, b)) = RulesAt(doc, P, TRUE)
  BY RulesWithoutList
<1>3. InitializeOutputFiles(RuleMap) <=> InitializeOutputFiles(map)
  <2>1. DOMAIN map = DOMAIN RuleMap /\ \A t \in DOMAIN RuleMap : map[t].dir = RuleMap[t].dir /\ map[t].OutputPath = RuleMap[t].OutputPath
    BY DEF Named, WithName, LoadTypes, MapType, Rule
  <2> QED BY <2>1, OutputsSame
<1>4. InitializeOutputFiles(map) <=> InitializeOutputFiles(WithoutMatching(map))
  <2>1. \A t \in DOMAIN map : {"dir", "OutputPath"} \subseteq DOMAIN map[t]
    BY DEF Named, WithName, LoadTypes, MapType, Rule
  <2> QED BY <2>1, StripOutputs
<1>5. InitializeOutputFiles(RulesAt(doc, P, b)) <=> InitializeOutputFiles(WithoutMatching(RulesAt(doc, P, b)))
  <2>1. \A p : {"dir", "OutputPath"} \subseteq DOMAIN RuleAt(doc, p, b)
    BY DEF RuleAt, MeantRule
  <2>2. \A t \in DOMAIN RulesAt(doc, P, b) : \E p : RulesAt(doc, P, b)[t] = RuleAt(doc, p, b)
    BY DEF RulesAt
  <2>3. \A t \in DOMAIN RulesAt(doc, P, b) : {"dir", "OutputPath"} \subseteq DOMAIN RulesAt(doc, P, b)[t]
    BY <2>1, <2>2
  <2> QED BY <2>3, StripOutputs
<1> HIDE DEF map
<1> QED BY <1>1, <1>2, <1>3, <1>4, <1>5

-----------------------------------------------------------------------------
(* How loading ends.                                                       *)

LEMMA GoesOn ==
  ASSUME Outcome, at # "end", at' # "end", UNCHANGED <<doc, Config, result>>, Frees' \/ UNCHANGED <<stop_plugin, freed>>
  PROVE  Outcome'
<1>1. result = "loading" /\ ~Config /\ Frees
  BY DEF Outcome
<1>2. Frees'
  BY <1>1 DEF Frees
<1> QED BY <1>1, <1>2 DEF Outcome

LEMMA Refuses ==
  ASSUME Outcome, at # "end", Fail, ~MayLoad(doc)
  PROVE  Outcome' /\ at' = "end"
<1>1. at' = "end" /\ result' = "false" /\ Config' = Config /\ doc' = doc /\ RuleMap' = NoRules
  BY DEF Fail, Clean, inputVars
<1>2. ~Config
  BY DEF Outcome
<1>3. MayLoad(doc') <=> MayLoad(doc)
  BY <1>1
<1>4. DOMAIN RuleMap' = {}
  BY <1>1 DEF NoRules
<1>5. AsMeant'
  BY <1>1, <1>2, <1>3, <1>4 DEF AsMeant
<1> QED BY <1>1, <1>5 DEF Outcome

LEMMA IsBinary == \A d : MeantMembers(d.main).binary \in BOOLEAN
BY DEF MeantMembers, IsYes

\* LoadIni drops the patterns at the end, LoadYaml has dropped them.
LEMMA AllLoaded ==
  ASSUME LoadTypes, Outcome, at # "end", MainSoFar(Len(doc.main)), Ruled(Places(doc, Len(doc.groups))),
         MayLoad(doc), Load, UNCHANGED <<members, stop_plugin, freed>>,
         \/ form = "ini" /\ RuleMap' = CheckBinaryMode(RuleMap)
         \/ form = "yaml" /\ Stripped /\ RuleMap' = RuleMap
  PROVE  Outcome' /\ at' = "end"
<1> DEFINE P == Places(doc, Len(doc.groups))
<1>1. /\ Config' /\ at' = "end" /\ result' = "true" /\ doc' = doc /\ members' = members /\ stop_plugin' = stop_plugin
      /\ freed' = freed
  BY DEF Load, inputVars
<1>2. members = MeantMembers(doc.main)
  BY NoneRefused
<1>3. PICK b \in BOOLEAN : b = MeantMembers(doc.main).binary
  BY IsBinary
<1>4. MeantRules(doc, Len(doc.groups)) = RulesAt(doc, P, b)
  BY <1>3 DEF MeantRules
<1> HIDE DEF P
<1>5. Named(RuleMap', stop_plugin) = RulesAt(doc, P, b)
  <2>1. CASE form = "ini" /\ RuleMap' = CheckBinaryMode(RuleMap)
    <3>1. Named(RuleMap, stop_plugin) = RulesAt(doc, P, FALSE)
      BY <2>1 DEF Ruled, Listed, P
    <3>2. CASE b
      <4>1. RuleMap' = WithoutMatching(RuleMap)
        BY <1>2, <1>3, <2>1, <3>2 DEF CheckBinaryMode
      <4>2. Named(RuleMap', stop_plugin) = WithoutMatching(RulesAt(doc, P, FALSE))
        BY <3>1, <4>1, NamedStripped
      <4>3. WithoutMatching(RulesAt(doc, P, FALSE)) = RulesAt(doc, P, TRUE)
        BY RulesWithoutList
      <4>4. b = TRUE
        BY <3>2
      <4> QED BY <4>2, <4>3, <4>4
    <3>3. CASE ~b
      <4>1. RuleMap' = RuleMap /\ b = FALSE
        BY <1>2, <1>3, <2>1, <3>3 DEF CheckBinaryMode
      <4> QED BY <3>1, <4>1
    <3> QED BY <3>2, <3>3
  <2>2. CASE form = "yaml" /\ Stripped /\ RuleMap' = RuleMap
    <3>1. Listed <=> ~b
      BY <1>3, <2>2 DEF Listed
    <3>2. CASE b
      <4>1. WithoutMatching(RuleMap) = RuleMap
        BY <2>2, <3>1, <3>2 DEF Stripped
      <4>2. WithoutMatching(Named(RuleMap, stop_plugin)) = RulesAt(doc, P, TRUE)
        BY <3>1, <3>2 DEF Ruled, P
      <4>3. b = TRUE
        BY <3>2
      <4> QED BY <2>2, <4>1, <4>2, <4>3, NamedStripped
    <3>3. CASE ~b
      <4>1. Named(RuleMap, stop_plugin) = RulesAt(doc, P, FALSE) /\ b = FALSE
        BY <3>1, <3>3 DEF Ruled, P
      <4> QED BY <2>2, <4>1
    <3> QED BY <3>2, <3>3
  <2> QED BY <2>1, <2>2
<1>6. Loaded' = Named(RuleMap', stop_plugin')
  BY DEF Loaded, Named, WithName
<1>7. AsMeant'
  <2>1. MayLoad(doc')
    BY <1>1
  <2> QED BY <1>1, <1>2, <1>4, <1>5, <1>6, <2>1 DEF AsMeant
<1>8. Frees'
  BY <1>1 DEF Outcome, Frees
<1> QED BY <1>1, <1>7, <1>8 DEF Outcome

\* What else has to be right.
LEMMA MayLoadIs ==
  ASSUME LoadTypes, MainSoFar(Len(doc.main)), Ruled(Places(doc, Len(doc.groups)))
  PROVE  MayLoad(doc) <=> ~doc.twice /\ MembersAgree(members) /\ InitializeOutputFiles(RuleMap)
<1>1. members = MeantMembers(doc.main) /\ "bad" \notin Values(doc.main, "CHECKED")
  BY NoneRefused
<1>2. InitializeOutputFiles(RuleMap) <=> InitializeOutputFiles(MeantRules(doc, Len(doc.groups)))
  BY OutputsMeant DEF MeantRules
<1> QED BY <1>1, <1>2 DEF MayLoad

-----------------------------------------------------------------------------
(* LoadIni, step by step.                                                  *)

LEMMA TailType ==
  ASSUME LoadTypes
  PROVE  IniTail \in Seq(Token) /\ Again(doc, MainSec(doc)) \in Seq(Token)
<1>1. MainSec(doc) \in Seq(Token) /\ <<>> \in Seq(Token)
  <2>1. <<>> \in Seq(Token)
    OBVIOUS
  <2> QED BY <2>1, MainSecFirst DEF LoadTypes
<1>2. Again(doc, MainSec(doc)) \in Seq(Token)
  BY <1>1 DEF Again
<1>3. MainSec(doc) \o Again(doc, MainSec(doc)) \in Seq(Token)
  BY <1>1, <1>2, ConcatProperties
<1> QED BY <1>2, <1>3 DEF IniTail

LEMMA MarkIs == \A x : rest # <<>> /\ Head(rest) = Mark(x) => Next1(x)
<1>1. \A x : Mark(x).t = x
  BY SMTT(40) DEF Mark
<1> QED BY <1>1 DEF Next1

\* What can come behind a spot.
FirstOf(n, r, y) ==
  /\ Next1(Kind(doc.groups[n].dir))
  /\ Tail(rest) = ItemsFrom(doc.groups[n].rules[r], 0) \o (AfterRule(doc, n, r) \o y)
  /\ RuledTo(<<n, r - 1>>)

LEMMA AtSpot ==
  ASSUME LoadTypes, NEW s \in Spots(doc), NEW y \in Seq(Token), rest = IniLeft(doc, s) \o y, RuledTo(s)
  PROVE  \/ IniLeft(doc, s) = <<>> /\ rest = y /\ Ruled(Places(doc, Len(doc.groups)))
         \/ \E n \in 1 .. Len(doc.groups) : \E r \in 1 .. Len(doc.groups[n].rules) : FirstOf(n, r, y)
<1>1. doc \in Docs
  BY DEF LoadTypes
<1>2. CASE IniLeft(doc, s) = <<>> /\ IniLeft(doc, s) \o y = y /\ PlacesTo(doc, s[1], s[2]) = Places(doc, Len(doc.groups))
  BY <1>2, SMTT(40) DEF RuledTo
<1>3. ASSUME NEW n \in 1 .. Len(doc.groups), NEW r \in 1 .. Len(doc.groups[n].rules),
             PlacesTo(doc, s[1], s[2]) = PlacesTo(doc, n, r - 1),
             IniLeft(doc, s) \o y # <<>>, Head(IniLeft(doc, s) \o y) = Mark(Kind(doc.groups[n].dir)),
             Tail(IniLeft(doc, s) \o y) = ItemsFrom(doc.groups[n].rules[r], 0) \o (AfterRule(doc, n, r) \o y)
      PROVE  FirstOf(n, r, y)
  <2>1. rest # <<>> /\ Head(rest) = Mark(Kind(doc.groups[n].dir))
    BY <1>3, SMTT(40)
  <2>2. Next1(Kind(doc.groups[n].dir))
    BY <2>1, MarkIs
  <2>3. RuledTo(<<n, r - 1>>)
    BY <1>3, SMTT(40) DEF RuledTo
  <2> QED BY <1>3, <2>2, <2>3 DEF FirstOf
<1>4. \/ IniLeft(doc, s) = <<>> /\ IniLeft(doc, s) \o y = y /\ PlacesTo(doc, s[1], s[2]) = Places(doc, Len(doc.groups))
      \/ \E n \in 1 .. Len(doc.groups) : \E r \in 1 .. Len(doc.groups[n].rules) :
           /\ PlacesTo(doc, s[1], s[2]) = PlacesTo(doc, n, r - 1)
           /\ IniLeft(doc, s) \o y # <<>> /\ Head(IniLeft(doc, s) \o y) = Mark(Kind(doc.groups[n].dir))
           /\ Tail(IniLeft(doc, s) \o y) = ItemsFrom(doc.groups[n].rules[r], 0) \o (AfterRule(doc, n, r) \o y)
  BY <1>1, SpotCases
<1>5. CASE \E n \in 1 .. Len(doc.groups) : \E r \in 1 .. Len(doc.groups[n].rules) :
           /\ PlacesTo(doc, s[1], s[2]) = PlacesTo(doc, n, r - 1)
           /\ IniLeft(doc, s) \o y # <<>> /\ Head(IniLeft(doc, s) \o y) = Mark(Kind(doc.groups[n].dir))
           /\ Tail(IniLeft(doc, s) \o y) = ItemsFrom(doc.groups[n].rules[r], 0) \o (AfterRule(doc, n, r) \o y)
  BY <1>3, <1>5
<1> QED BY <1>2, <1>4, <1>5, Zenon

LEMMA IniTopIs ==
  ASSUME LoadTypes, IniAtTop
  PROVE  \/ rest = <<>> /\ set_main_sec /\ ~doc.twice /\ Ruled(Places(doc, Len(doc.groups)))
         \/ /\ ~set_main_sec /\ Next1("main")
            /\ \E s \in Spots(doc) :
                 /\ Tail(rest) = ItemsFrom(doc.main, 0) \o (IniLeft(doc, s) \o Again(doc, MainSec(doc)))
                 /\ RuledTo(s)
         \/ set_main_sec /\ doc.twice /\ Next1("main")
         \/ \E n \in 1 .. Len(doc.groups) : \E r \in 1 .. Len(doc.groups[n].rules) : FirstOf(n, r, IniTail)
<1>1. PICK s \in Spots(doc) : rest = IniLeft(doc, s) \o IniTail /\ RuledTo(s)
  BY DEF IniAtTop
<1>2. IniTail \in Seq(Token) /\ Again(doc, MainSec(doc)) \in Seq(Token) /\ doc \in Docs /\ doc.twice \in BOOLEAN
  BY TailType, DocType DEF LoadTypes
<1>3. CASE IniLeft(doc, s) = <<>> /\ rest = IniTail /\ Ruled(Places(doc, Len(doc.groups)))
  <2>1. CASE set_main_sec /\ ~doc.twice
    BY <1>3, <2>1 DEF IniTail, Again
  <2>2. CASE set_main_sec /\ doc.twice
    <3>1. rest = MainSec(doc)
      BY <1>3, <2>2 DEF IniTail, Again
    <3>2. <<>> \in Seq(Token) /\ MainSec(doc) \o <<>> = MainSec(doc)
      <4>1. <<>> \in Seq(Token)
        OBVIOUS
      <4> QED BY <1>2, <4>1, MainSecFirst, ConcatEmptySeq
    <3>3. rest # <<>> /\ Head(rest) = Mark("main")
      BY <1>2, <3>1, <3>2, MainSecFirst
    <3> QED BY <2>2, <3>3, MarkIs
  <2>3. CASE ~set_main_sec
    <3>1. PICK again \in Seq(Token) : again = Again(doc, MainSec(doc))
      BY <1>2
    <3>2. rest = MainSec(doc) \o again
      BY <1>3, <2>3, <3>1 DEF IniTail
    <3>3. rest # <<>> /\ Head(rest) = Mark("main") /\ Tail(rest) = ItemsFrom(doc.main, 0) \o again
      BY <1>2, <3>2, MainSecFirst
    <3>4. <<>> \o again = again
      BY ConcatEmptySeq
    <3>5. Next1("main")
      BY <3>3, MarkIs
    <3>6. Tail(rest) = ItemsFrom(doc.main, 0) \o (IniLeft(doc, s) \o Again(doc, MainSec(doc)))
      BY ONLY <1>3, <3>1, <3>3, <3>4
    <3> QED BY <1>1, <2>3, <3>5, <3>6
  <2> QED BY <1>2, <2>1, <2>2, <2>3
<1>4. CASE \E n \in 1 .. Len(doc.groups) : \E r \in 1 .. Len(doc.groups[n].rules) : FirstOf(n, r, IniTail)
  BY <1>4
<1> QED BY <1>1, <1>2, <1>3, <1>4, AtSpot

LEMMA KindIs == \A dir \in BOOLEAN : Kind(dir) \in {"dir", "rule"} /\ \A x \in BOOLEAN : Kind(x) = Kind(dir) => x = dir
BY DEF Kind

LEMMA IniMainStep ==
  ASSUME LoadTypes, Outcome, form = "ini", IniLoading, IniMain
  PROVE  Outcome' /\ IniLoading'
<1>1. /\ at = "top" /\ Next1("main") /\ ~set_main_sec /\ at' = "main" /\ set_main_sec' /\ rest' = Tail(rest)
      /\ UNCHANGED <<doc, form, members, RuleMap, stop_plugin, freed, Config, result>>
  BY DEF IniMain, Read, inputVars, keptVars
<1>2. Outcome'
  BY <1>1, GoesOn
<1>3. MainSoFar(0) /\ \E s \in Spots(doc) : /\ Tail(rest) = ItemsFrom(doc.main, 0) \o (IniLeft(doc, s) \o Again(doc, MainSec(doc)))
                                            /\ RuledTo(s)
  <2>1. CASE IniAtStart
    <3>1. <<0, 0>> \in Spots(doc) /\ doc \in Docs
      BY DEF Spots, LoadTypes
    <3>2. IniLeft(doc, <<0, 0>>) \o Again(doc, MainSec(doc)) \in Seq(Token)
      BY <3>1, TailType, SpotCases
    <3>3. Tail(rest) = ItemsFrom(doc.main, 0) \o (IniLeft(doc, <<0, 0>>) \o Again(doc, MainSec(doc)))
      BY <2>1, <3>1, <3>2, MainSecFirst DEF IniAtStart
    <3> QED BY <2>1, <3>1, <3>3 DEF IniAtStart
  <2>2. CASE IniAtTop
    <3>1. MainSoFar(0)
      BY <1>1, <2>2 DEF IniAtTop
    <3>2. ~ \E n \in 1 .. Len(doc.groups) : \E r \in 1 .. Len(doc.groups[n].rules) : FirstOf(n, r, IniTail)
      <4> SUFFICES ASSUME NEW n \in 1 .. Len(doc.groups), NEW r \in 1 .. Len(doc.groups[n].rules), FirstOf(n, r, IniTail)
                   PROVE  FALSE
        OBVIOUS
      <4>1. Kind(doc.groups[n].dir) \in {"dir", "rule"}
        BY DocType, KindIs DEF LoadTypes
      <4> QED BY <1>1, <4>1 DEF FirstOf, Next1
    <3>3. rest # <<>>
      BY <1>1 DEF Next1
    <3> QED BY <1>1, <2>2, <3>1, <3>2, <3>3, IniTopIs
  <2> QED BY <1>1, <2>1, <2>2 DEF IniLoading, IniAtMain, IniAtRule
<1>4. PICK s \in Spots(doc) : Tail(rest) = ItemsFrom(doc.main, 0) \o (IniLeft(doc, s) \o Again(doc, MainSec(doc))) /\ RuledTo(s)
  BY <1>3
<1>5. RuledTo(s)'
  BY <1>1, <1>4, RuledStays
<1>6. MainSoFar(0)'
  BY <1>1, <1>3 DEF MainSoFar
<1>7. 0 \in 0 .. Len(doc.main)
  BY DocType DEF LoadTypes
<1>8. IniAtMain'
  BY <1>1, <1>4, <1>5, <1>6, <1>7 DEF IniAtMain
<1> QED BY <1>2, <1>8 DEF IniLoading

LEMMA IniSecondMainStep ==
  ASSUME LoadTypes, Outcome, form = "ini", IniLoading, IniSecondMain
  PROVE  Outcome' /\ IniLoading'
<1>1. at = "top" /\ Next1("main") /\ set_main_sec /\ Fail
  BY DEF IniSecondMain
<1>2. IniAtTop
  BY <1>1 DEF IniLoading, IniAtStart, IniAtMain, IniAtRule
<1>3. ~ \E n \in 1 .. Len(doc.groups) : \E r \in 1 .. Len(doc.groups[n].rules) : FirstOf(n, r, IniTail)
  <2> SUFFICES ASSUME NEW n \in 1 .. Len(doc.groups), NEW r \in 1 .. Len(doc.groups[n].rules), FirstOf(n, r, IniTail)
               PROVE  FALSE
    OBVIOUS
  <2>1. Kind(doc.groups[n].dir) \in {"dir", "rule"}
    BY DocType, KindIs DEF LoadTypes
  <2> QED BY <1>1, <2>1 DEF FirstOf, Next1
<1>4. doc.twice
  BY <1>1, <1>2, <1>3, IniTopIs DEF Next1
<1>5. Outcome' /\ at' = "end"
  BY <1>1, <1>4, Refuses DEF MayLoad
<1> QED BY <1>5 DEF IniLoading

LEMMA Reading ==
  ASSUME NEW s \in Seq(Entry), NEW k \in 0 .. Len(s), NEW y \in Seq(Token), rest = ItemsFrom(s, k) \o y
  PROVE  \/ k = Len(s) /\ rest = y
         \/ k < Len(s) /\ k + 1 \in 0 .. Len(s) /\ AtKey(s, k) /\ Tail(rest) = ItemsFrom(s, k + 1) \o y
<1>1. Len(s) \in Nat
  BY LenProperties
<1>2. CASE k = Len(s)
  BY <1>2, NextItem
<1>3. CASE k < Len(s)
  <2>1. /\ k + 1 \in 0 .. Len(s)
        /\ ItemsFrom(s, k) \o y # <<>>
        /\ Head(ItemsFrom(s, k) \o y) = Item(s[k + 1])
        /\ Tail(ItemsFrom(s, k) \o y) = ItemsFrom(s, k + 1) \o y
    BY <1>3, NextItem
  <2> QED BY <1>3, <2>1 DEF AtKey
<1>4. k = Len(s) \/ k < Len(s)
  BY <1>1
<1> QED BY <1>2, <1>3, <1>4, Zenon

\* Behind a section there is no further key of it.
LEMMA NoFurtherKey ==
  ASSUME LoadTypes, NEW s \in Spots(doc),
         NEW y, y = IniTail \/ y = Again(doc, MainSec(doc)), rest = IniLeft(doc, s) \o y
  PROVE  ~Next1("item")
<1>1. y \in Seq(Token) /\ doc \in Docs /\ <<>> \in Seq(Token)
  BY TailType DEF LoadTypes
<1>2. CASE rest = y
  <2>1. y = <<>> \/ \E z \in Seq(Token) : y = MainSec(doc) \o z
    <3>1. MainSec(doc) = MainSec(doc) \o <<>>
      BY <1>1, MainSecFirst, ConcatEmptySeq
    <3>2. Again(doc, MainSec(doc)) = <<>> \/ Again(doc, MainSec(doc)) = MainSec(doc) \o <<>>
      BY <3>1 DEF Again
    <3>3. Again(doc, MainSec(doc)) \in Seq(Token)
      BY TailType
    <3> QED BY <1>1, <3>2, <3>3 DEF IniTail
  <2>2. CASE y = <<>>
    BY <1>2, <2>2 DEF Next1
  <2>3. ASSUME NEW z \in Seq(Token), y = MainSec(doc) \o z PROVE ~Next1("item")
    <3>1. rest # <<>> /\ Head(rest) = Mark("main")
      BY <1>1, <1>2, <2>3, MainSecFirst
    <3>2. Next1("main")
      BY <3>1, MarkIs
    <3> QED BY <3>2 DEF Next1
  <2> QED BY <2>1, <2>2, <2>3
<1>3. ASSUME NEW n \in 1 .. Len(doc.groups), rest # <<>>, Head(rest) = Mark(Kind(doc.groups[n].dir))
      PROVE  ~Next1("item")
  <2>1. Kind(doc.groups[n].dir) \in {"dir", "rule"}
    BY <1>1, DocType, KindIs
  <2>2. Next1(Kind(doc.groups[n].dir))
    BY <1>3, MarkIs
  <2> QED BY <2>1, <2>2 DEF Next1
<1>4. \/ IniLeft(doc, s) = <<>> /\ IniLeft(doc, s) \o y = y /\ PlacesTo(doc, s[1], s[2]) = Places(doc, Len(doc.groups))
      \/ \E n \in 1 .. Len(doc.groups) : \E r \in 1 .. Len(doc.groups[n].rules) :
           /\ PlacesTo(doc, s[1], s[2]) = PlacesTo(doc, n, r - 1)
           /\ IniLeft(doc, s) \o y # <<>> /\ Head(IniLeft(doc, s) \o y) = Mark(Kind(doc.groups[n].dir))
           /\ Tail(IniLeft(doc, s) \o y) = ItemsFrom(doc.groups[n].rules[r], 0) \o (AfterRule(doc, n, r) \o y)
  BY <1>1, SpotCases
<1>5. rest = y \/ \E n \in 1 .. Len(doc.groups) : rest # <<>> /\ Head(rest) = Mark(Kind(doc.groups[n].dir))
  BY <1>4
<1> QED BY <1>2, <1>3, <1>5

LEMMA SpotType == ASSUME LoadTypes, NEW s \in Spots(doc) PROVE IniLeft(doc, s) \in Seq(Token)
<1>1. <<>> \in Seq(Token) /\ doc \in Docs
  BY DEF LoadTypes
<1>2. IniLeft(doc, s) \o <<>> \in Seq(Token)
  BY <1>1, SpotCases
<1>3. CASE s[1] = 0
  <2>1. 0 \in 0 .. Len(doc.groups)
    BY <1>1, DocType
  <2>2. From(IniGroups(doc), 0) \in Seq(Token)
    BY <1>1, <2>1, IniTextType, FromStep
  <2> QED BY <1>3, <2>2 DEF IniLeft
<1>4. CASE s[1] # 0
  <2>1. DOMAIN doc.groups = 1 .. Len(doc.groups)
    BY <1>1, DocType
  <2>2. s # <<0, 0>>
    BY <1>4
  <2>3. PICK n \in 1 .. Len(doc.groups) : s \in {n} \X (0 .. Len(doc.groups[n].rules))
    BY <2>1, <2>2 DEF Spots
  <2>4. s[1] = n /\ s[2] \in 0 .. Len(doc.groups[n].rules)
    BY <2>3
  <2> QED BY <1>1, <1>4, <2>4, AfterType DEF IniLeft
<1> QED BY <1>3, <1>4

\* Where LoadIni is in the main section.
LEMMA IniMainIs ==
  ASSUME LoadTypes, IniAtMain
  PROVE  \/ ~Next1("item") /\ MainSoFar(Len(doc.main))
            /\ \E s \in Spots(doc) : rest = IniLeft(doc, s) \o Again(doc, MainSec(doc)) /\ RuledTo(s)
         \/ \E k \in 0 .. Len(doc.main) :
              /\ k < Len(doc.main) /\ k + 1 \in 0 .. Len(doc.main) /\ AtKey(doc.main, k) /\ MainSoFar(k)
              /\ \E s \in Spots(doc) :
                   /\ Tail(rest) = ItemsFrom(doc.main, k + 1) \o (IniLeft(doc, s) \o Again(doc, MainSec(doc)))
                   /\ RuledTo(s)
<1>1. PICK k \in 0 .. Len(doc.main), s \in Spots(doc) :
        /\ rest = ItemsFrom(doc.main, k) \o (IniLeft(doc, s) \o Again(doc, MainSec(doc)))
        /\ MainSoFar(k) /\ RuledTo(s)
  BY DEF IniAtMain
<1>2. doc.main \in Seq(Entry) /\ Again(doc, MainSec(doc)) \in Seq(Token)
  BY TailType, DocType DEF LoadTypes
<1>3. PICK y \in Seq(Token) : y = IniLeft(doc, s) \o Again(doc, MainSec(doc))
  BY <1>2, SpotType, ConcatProperties
<1>4. \/ k = Len(doc.main) /\ rest = y
      \/ k < Len(doc.main) /\ k + 1 \in 0 .. Len(doc.main) /\ AtKey(doc.main, k) /\ Tail(rest) = ItemsFrom(doc.main, k + 1) \o y
  BY <1>1, <1>2, <1>3, Reading
<1>5. CASE k = Len(doc.main) /\ rest = y
  <2>1. ~Next1("item")
    BY <1>1, <1>3, <1>5, NoFurtherKey
  <2> QED BY <1>1, <1>3, <1>5, <2>1
<1>6. CASE k < Len(doc.main) /\ k + 1 \in 0 .. Len(doc.main) /\ AtKey(doc.main, k) /\ Tail(rest) = ItemsFrom(doc.main, k + 1) \o y
  BY <1>1, <1>3, <1>6
<1> QED BY <1>4, <1>5, <1>6

LEMMA IniMainKeyStep ==
  ASSUME LoadTypes, Outcome, form = "ini", IniLoading, IniMainKey
  PROVE  Outcome' /\ IniLoading'
<1>1. at = "main" /\ Next1("item") /\ MainKey
  BY DEF IniMainKey
<1>2. /\ rest' = Tail(rest)
      /\ UNCHANGED <<doc, form, at, set_main_sec, RuleMap, stop_plugin, freed, Config, result>>
  BY <1>1 DEF MainKey, Read, inputVars
<1>3. IniAtMain
  BY <1>1 DEF IniLoading, IniAtStart, IniAtTop, IniAtRule
<1>4. PICK k \in 0 .. Len(doc.main) :
        /\ k < Len(doc.main) /\ k + 1 \in 0 .. Len(doc.main) /\ AtKey(doc.main, k) /\ MainSoFar(k)
        /\ \E s \in Spots(doc) :
             /\ Tail(rest) = ItemsFrom(doc.main, k + 1) \o (IniLeft(doc, s) \o Again(doc, MainSec(doc)))
             /\ RuledTo(s)
  BY <1>1, <1>3, IniMainIs
<1>5. MainSoFar(k + 1)'
  BY <1>1, <1>4, MainSoFarGrows
<1>6. \A s : RuledTo(s) => RuledTo(s)'
  BY <1>2, RuledStays
<1>7. IniAtMain'
  BY <1>2, <1>3, <1>4, <1>5, <1>6 DEF IniAtMain
<1>8. Outcome'
  BY <1>1, <1>2, GoesOn
<1> QED BY <1>7, <1>8 DEF IniLoading

LEMMA IniMainRefusedStep ==
  ASSUME LoadTypes, Outcome, form = "ini", IniLoading, IniMainRefused
  PROVE  Outcome' /\ IniLoading'
<1>1. at = "main" /\ Next1("item") /\ IsRefused(Key, Value) /\ Fail
  BY DEF IniMainRefused
<1>2. IniAtMain
  BY <1>1 DEF IniLoading, IniAtStart, IniAtTop, IniAtRule
<1>3. PICK k \in 0 .. Len(doc.main) : k < Len(doc.main) /\ AtKey(doc.main, k)
  BY <1>1, <1>2, IniMainIs
<1>4. ~MayLoad(doc)
  BY <1>1, <1>3, RefusedIs
<1>5. Outcome' /\ at' = "end"
  BY <1>1, <1>4, Refuses
<1> QED BY <1>5 DEF IniLoading

LEMMA IniMainEndStep ==
  ASSUME LoadTypes, Outcome, form = "ini", IniLoading, IniMainEnd
  PROVE  Outcome' /\ IniLoading'
<1>1. at = "main" /\ ~Next1("item")
  BY DEF IniMainEnd
<1>2. IniAtMain
  BY <1>1 DEF IniLoading, IniAtStart, IniAtTop, IniAtRule
<1>3. MainSoFar(Len(doc.main)) /\ \E s \in Spots(doc) : rest = IniLeft(doc, s) \o Again(doc, MainSec(doc)) /\ RuledTo(s)
  <2>1. \A k : AtKey(doc.main, k) => Next1("item")
    BY KeyIs
  <2> QED BY <1>1, <1>2, <2>1, IniMainIs
<1>4. CASE Fail
  <2>1. members.mem /\ members.file # ""
    BY <1>1, <1>4 DEF IniMainEnd, Fail
  <2>2. ~MayLoad(doc)
    BY <1>3, <2>1, NoneRefused DEF MayLoad, MembersAgree
  <2>3. Outcome' /\ at' = "end"
    BY <1>1, <1>4, <2>2, Refuses
  <2> QED BY <2>3 DEF IniLoading
<1>5. CASE at' = "top" /\ UNCHANGED <<inputVars, rest, set_main_sec, sectionVars, keptVars, Config, result>>
  <2>1. UNCHANGED <<doc, form, rest, set_main_sec, members, RuleMap, stop_plugin, freed, Config, result>>
    BY <1>5 DEF inputVars, keptVars
  <2>2. Outcome'
    BY <1>1, <1>5, <2>1, GoesOn
  <2>3. \A s : RuledTo(s) => RuledTo(s)'
    BY <2>1, RuledStays
  <2>4. MainSoFar(Len(doc.main))' /\ set_main_sec'
    BY <1>2, <1>3, <2>1 DEF MainSoFar, IniAtMain
  <2>5. IniTail' = Again(doc, MainSec(doc))
    BY <2>1, <2>4 DEF IniTail
  <2>6. IniAtTop'
    BY <1>3, <1>5, <2>1, <2>3, <2>4, <2>5, SMTT(40) DEF IniAtTop
  <2> QED BY <2>2, <2>6 DEF IniLoading
<1> QED BY <1>4, <1>5 DEF IniMainEnd

LEMMA InRuleIs ==
  ASSUME LoadTypes, NEW n \in 1 .. Len(doc.groups), NEW r \in 1 .. Len(doc.groups[n].rules),
         NEW k \in 0 .. Len(doc.groups[n].rules[r]), NEW tail \in Seq(Token), InRule(n, r, k, tail)
  PROVE  /\ doc.groups[n].rules[r] \in Seq(Entry)
         /\ \/ k = Len(doc.groups[n].rules[r]) /\ rest = tail /\ RuleSoFar(doc.groups[n].rules[r])
            \/ /\ k < Len(doc.groups[n].rules[r]) /\ k + 1 \in 0 .. Len(doc.groups[n].rules[r])
               /\ AtKey(doc.groups[n].rules[r], k)
               /\ Tail(rest) = ItemsFrom(doc.groups[n].rules[r], k + 1) \o tail
<1>1. PICK s \in Seq(Entry) : s = doc.groups[n].rules[r]
  BY DocType DEF LoadTypes
<1>2. rest = ItemsFrom(s, k) \o tail /\ RuleSoFar(Prefix(s, k))
  BY <1>1 DEF InRule
<1>3. \/ k = Len(s) /\ rest = tail
      \/ k < Len(s) /\ k + 1 \in 0 .. Len(s) /\ AtKey(s, k) /\ Tail(rest) = ItemsFrom(s, k + 1) \o tail
  BY <1>1, <1>2, Reading
<1>4. k = Len(s) => RuleSoFar(s)
  <2>1. Prefix(s, Len(s)) = s
    BY PrefixEnds
  <2> QED BY <1>2, <2>1
<1> QED BY <1>1, <1>3, <1>4

LEMMA InRuleGoes ==
  ASSUME LoadTypes, NEW n \in 1 .. Len(doc.groups), NEW r \in 1 .. Len(doc.groups[n].rules),
         NEW k \in 0 .. Len(doc.groups[n].rules[r]), NEW tail \in Seq(Token), InRule(n, r, k, tail),
         k < Len(doc.groups[n].rules[r])
  PROVE  /\ k + 1 \in 0 .. Len(doc.groups[n].rules[r]) /\ AtKey(doc.groups[n].rules[r], k)
         /\ Tail(rest) = ItemsFrom(doc.groups[n].rules[r], k + 1) \o tail
<1>1. PICK s \in Seq(Entry) : s = doc.groups[n].rules[r]
  BY DocType DEF LoadTypes
<1>2. Len(s) \in Nat /\ k < Len(s) /\ k \in 0 .. Len(s)
  BY <1>1, LenProperties
<1>3. \/ k = Len(s) /\ rest = tail
      \/ k < Len(s) /\ k + 1 \in 0 .. Len(s) /\ AtKey(s, k) /\ Tail(rest) = ItemsFrom(s, k + 1) \o tail
  <2>1. rest = ItemsFrom(s, k) \o tail
    BY <1>1 DEF InRule
  <2> QED BY <1>2, <2>1, Reading
<1>4. k # Len(s)
  BY ONLY <1>2
<1> QED BY <1>1, <1>3, <1>4, Zenon

LEMMA InRuleEnds ==
  ASSUME LoadTypes, NEW n \in 1 .. Len(doc.groups), NEW r \in 1 .. Len(doc.groups[n].rules),
         NEW k \in 0 .. Len(doc.groups[n].rules[r]), NEW tail \in Seq(Token), InRule(n, r, k, tail),
         ~(k < Len(doc.groups[n].rules[r]))
  PROVE  rest = tail /\ RuleSoFar(doc.groups[n].rules[r])
<1>1. \/ k = Len(doc.groups[n].rules[r]) /\ rest = tail /\ RuleSoFar(doc.groups[n].rules[r])
      \/ /\ k < Len(doc.groups[n].rules[r]) /\ k + 1 \in 0 .. Len(doc.groups[n].rules[r])
         /\ AtKey(doc.groups[n].rules[r], k)
         /\ Tail(rest) = ItemsFrom(doc.groups[n].rules[r], k + 1) \o tail
  BY InRuleIs, Zenon
<1> QED BY <1>1, Zenon

LEMMA InRuleGrows ==
  ASSUME LoadTypes, NEW n \in 1 .. Len(doc.groups), NEW r \in 1 .. Len(doc.groups[n].rules),
         NEW k \in 0 .. Len(doc.groups[n].rules[r]), NEW tail \in Seq(Token), InRule(n, r, k, tail),
         k < Len(doc.groups[n].rules[r]), RuleKey
  PROVE  InRule(n, r, k + 1, tail)'
<1>1. PICK s \in Seq(Entry) : s = doc.groups[n].rules[r]
  BY DocType DEF LoadTypes
<1>2. AtKey(s, k) /\ Tail(rest) = ItemsFrom(s, k + 1) \o tail
  BY <1>1, InRuleGoes
<1>3. doc' = doc /\ form' = form /\ RuleMap' = RuleMap /\ rest' = Tail(rest)
  BY DEF RuleKey, Read, inputVars
<1>4. RuleSoFar(Prefix(s, k + 1))'
  BY <1>1, <1>2, RuleSoFarGrows DEF InRule
<1>5. stop_plugin' = stop_plugin \/ \E v \in Word : stop_plugin' = Append(stop_plugin, v)
  <2>1. Value \in Word
    BY <1>2, HeadType DEF AtKey, LoadTypes
  <2> QED BY <2>1 DEF RuleKey, PluginKey
<1>6. RuledTo(<<n, r - 1>>)'
  BY <1>3, <1>5, RuledStays, SMTT(40) DEF InRule
<1> QED BY <1>1, <1>2, <1>3, <1>4, <1>6, Zenon DEF InRule

LEMMA InRuleAcl ==
  ASSUME LoadTypes, NEW n \in 1 .. Len(doc.groups), NEW r \in 1 .. Len(doc.groups[n].rules),
         NEW k \in 0 .. Len(doc.groups[n].rules[r]), NEW tail \in Seq(Token), InRule(n, r, k, tail),
         k < Len(doc.groups[n].rules[r]), NEW s \in Seq(Entry), s = doc.groups[n].rules[r],
         s[k + 1][1] \in {"ALLOW", "DENY"}, rest' = Tail(rest),
         AllowMatchs' = AllowMatchs \o PatternOf(s[k + 1], "ALLOW"),
         DenyMatchs' = DenyMatchs \o PatternOf(s[k + 1], "DENY"),
         UNCHANGED <<doc, form, pTmpRule, RuleMap, stop_plugin>>
  PROVE  InRule(n, r, k + 1, tail)'
<1>1. Tail(rest) = ItemsFrom(s, k + 1) \o tail
  BY InRuleGoes, ZenonT(60)
<1>2. RuleSoFar(Prefix(s, k))
  BY ZenonT(60) DEF InRule
<1>3. RuleSoFar(Prefix(s, k + 1))'
  BY <1>2, RuleSoFarAcl, ZenonT(60)
<1>4. RuledTo(<<n, r - 1>>)'
  BY RuledStays, Zenon DEF InRule
<1> QED BY <1>1, <1>3, <1>4, ZenonT(60) DEF InRule

LEMMA SpotBehind ==
  ASSUME LoadTypes, NEW n \in 1 .. Len(doc.groups), NEW r \in 1 .. Len(doc.groups[n].rules)
  PROVE  <<n, r>> \in Spots(doc) /\ IniLeft(doc, <<n, r>>) = AfterRule(doc, n, r)
<1>1. DOMAIN doc.groups = 1 .. Len(doc.groups) /\ Len(doc.groups[n].rules) \in Nat
  BY DocType DEF LoadTypes
<1>2. <<n, r>> \in {n} \X (0 .. Len(doc.groups[n].rules))
  BY <1>1
<1>3. <<n, r>> \in Spots(doc)
  BY <1>1, <1>2 DEF Spots
<1>4. n # 0
  OBVIOUS
<1> QED BY <1>3, <1>4 DEF IniLeft

\* Where LoadIni is in a rule.
IniIn(n, r, k) ==
  /\ InRule(n, r, k, AfterRule(doc, n, r) \o IniTail)
  /\ AfterRule(doc, n, r) \o IniTail \in Seq(Token)
  /\ is_dir_rule = doc.groups[n].dir

LEMMA IniRuleIs ==
  ASSUME LoadTypes, IniAtRule
  PROVE  \E n \in 1 .. Len(doc.groups) : \E r \in 1 .. Len(doc.groups[n].rules) :
           \E k \in 0 .. Len(doc.groups[n].rules[r]) :
             /\ IniIn(n, r, k)
             /\ Next1("item") <=> k < Len(doc.groups[n].rules[r])
<1>1. PICK n \in 1 .. Len(doc.groups) : \E r \in 1 .. Len(doc.groups[n].rules) :
        \E k \in 0 .. Len(doc.groups[n].rules[r]) :
          InRule(n, r, k, AfterRule(doc, n, r) \o IniTail) /\ is_dir_rule = doc.groups[n].dir
  BY DEF IniAtRule
<1>2. PICK r \in 1 .. Len(doc.groups[n].rules) : \E k \in 0 .. Len(doc.groups[n].rules[r]) :
          InRule(n, r, k, AfterRule(doc, n, r) \o IniTail) /\ is_dir_rule = doc.groups[n].dir
  BY <1>1
<1>3. PICK k \in 0 .. Len(doc.groups[n].rules[r]) :
          InRule(n, r, k, AfterRule(doc, n, r) \o IniTail) /\ is_dir_rule = doc.groups[n].dir
  BY <1>2
<1>4. AfterRule(doc, n, r) \o IniTail \in Seq(Token)
  <2>1. r \in 0 .. Len(doc.groups[n].rules)
    OBVIOUS
  <2>2. AfterRule(doc, n, r) \in Seq(Token)
    BY <2>1, AfterType DEF LoadTypes
  <2> QED BY <2>2, TailType, ConcatProperties
<1>5. CASE k = Len(doc.groups[n].rules[r]) /\ rest = AfterRule(doc, n, r) \o IniTail
  <2>1. <<n, r>> \in Spots(doc) /\ IniLeft(doc, <<n, r>>) = AfterRule(doc, n, r)
    BY SpotBehind
  <2>2. PICK s \in Spots(doc) : IniLeft(doc, s) = AfterRule(doc, n, r)
    BY <2>1
  <2>3. ~Next1("item")
    BY <1>5, <2>2, NoFurtherKey
  <2>4. Len(doc.groups[n].rules[r]) \in Nat
    BY DocType DEF LoadTypes
  <2>5. ~(k < Len(doc.groups[n].rules[r]))
    BY <1>5, <2>4, SMTT(40)
  <2>6. IniIn(n, r, k)
    BY <1>3, <1>4 DEF IniIn
  <2> QED BY <2>3, <2>5, <2>6
<1>6. CASE k < Len(doc.groups[n].rules[r]) /\ AtKey(doc.groups[n].rules[r], k)
  BY <1>3, <1>4, <1>6, KeyIs DEF IniIn
<1> QED BY <1>3, <1>4, <1>5, <1>6, InRuleIs

LEMMA IniRuleStep ==
  ASSUME LoadTypes, Outcome, form = "ini", IniLoading, IniRule
  PROVE  Outcome' /\ IniLoading'
<1>1. /\ at = "top" /\ at' = "rule" /\ rest' = Tail(rest) /\ NewSection("rule")
      /\ UNCHANGED <<doc, form, set_main_sec, members, RuleMap, stop_plugin, freed, Config, result>>
  BY DEF IniRule, NewSection, Read, inputVars, keptVars
<1>2. PICK dir \in BOOLEAN : Next1(Kind(dir)) /\ is_dir_rule' = dir
  BY DEF IniRule
<1>3. ~Next1("main")
  BY <1>2, KindIs DEF Next1
<1>4. IniAtTop
  <2>1. ~IniAtStart
    <3> SUFFICES ASSUME IniAtStart PROVE FALSE
      OBVIOUS
    <3>1. <<0, 0>> \in Spots(doc) /\ doc \in Docs
      BY DEF Spots, LoadTypes
    <3>2. IniLeft(doc, <<0, 0>>) \o Again(doc, MainSec(doc)) \in Seq(Token)
      BY <3>1, TailType, SpotCases
    <3>3. rest # <<>> /\ Head(rest) = Mark("main")
      BY <3>1, <3>2, MainSecFirst DEF IniAtStart
    <3> QED BY <1>3, <3>3, MarkIs
  <2> QED BY <1>1, <2>1 DEF IniLoading, IniAtMain, IniAtRule
<1>5. PICK n \in 1 .. Len(doc.groups) : \E r \in 1 .. Len(doc.groups[n].rules) : FirstOf(n, r, IniTail)
  BY <1>2, <1>3, <1>4, IniTopIs DEF Next1
<1>6. PICK r \in 1 .. Len(doc.groups[n].rules) : FirstOf(n, r, IniTail)
  BY <1>5
<1>7. is_dir_rule' = doc.groups[n].dir
  <2>1. doc.groups[n].dir \in BOOLEAN
    BY DocType DEF LoadTypes
  <2>2. Kind(doc.groups[n].dir) = Kind(dir)
    BY <1>2, <1>6 DEF FirstOf, Next1
  <2> QED BY <1>2, <2>1, <2>2, KindIs
<1>8. doc.groups[n].rules[r] \in Seq(Entry) /\ 0 \in 0 .. Len(doc.groups[n].rules[r])
  <2>1. doc.groups[n].rules[r] \in Seq(Entry)
    BY DocType DEF LoadTypes
  <2> QED BY <2>1, LenProperties
<1>9. RuleSoFar(Prefix(doc.groups[n].rules[r], 0))'
  BY <1>1, <1>8, RuleSoFarStart
<1>10. RuledTo(<<n, r - 1>>)'
  BY <1>1, <1>6, RuledStays DEF FirstOf
<1>11. IniTail' = IniTail
  BY <1>1, SMTT(40) DEF IniTail
<1>12. InRule(n, r, 0, AfterRule(doc, n, r) \o IniTail)'
  BY <1>1, <1>6, <1>9, <1>10, <1>11 DEF InRule, FirstOf
<1>13. MainSoFar(IF set_main_sec THEN Len(doc.main) ELSE 0)'
  BY <1>1, <1>4 DEF MainSoFar, IniAtTop
<1>14. IniAtRule'
  BY <1>1, <1>7, <1>8, <1>12, <1>13 DEF IniAtRule
<1>15. Outcome'
  BY <1>1, GoesOn
<1> QED BY <1>14, <1>15 DEF IniLoading

LEMMA IniRuleKeyStep ==
  ASSUME LoadTypes, Outcome, form = "ini", IniLoading, IniRuleKey
  PROVE  Outcome' /\ IniLoading'
<1>1. at = "rule" /\ Next1("item") /\ RuleKey
  BY DEF IniRuleKey
<1>2. UNCHANGED <<doc, form, at, set_main_sec, is_dir_rule, members, Config, result>>
  BY <1>1 DEF RuleKey, inputVars
<1>3. IniAtRule
  BY <1>1 DEF IniLoading, IniAtStart, IniAtTop, IniAtMain
<1>4. PICK n \in 1 .. Len(doc.groups) : \E r \in 1 .. Len(doc.groups[n].rules) :
        \E k \in 0 .. Len(doc.groups[n].rules[r]) : IniIn(n, r, k) /\ k < Len(doc.groups[n].rules[r])
  BY <1>1, <1>3, IniRuleIs
<1>4r. PICK r \in 1 .. Len(doc.groups[n].rules) :
        \E k \in 0 .. Len(doc.groups[n].rules[r]) : IniIn(n, r, k) /\ k < Len(doc.groups[n].rules[r])
  BY <1>4
<1>5. PICK k \in 0 .. Len(doc.groups[n].rules[r]) : IniIn(n, r, k) /\ k < Len(doc.groups[n].rules[r])
  BY <1>4r
<1>6. PICK tail \in Seq(Token) : tail = AfterRule(doc, n, r) \o IniTail
  BY <1>5 DEF IniIn
<1>7. InRule(n, r, k, tail)
  BY <1>5, <1>6 DEF IniIn
<1>8. k + 1 \in 0 .. Len(doc.groups[n].rules[r]) /\ AtKey(doc.groups[n].rules[r], k)
  BY <1>5, <1>7, InRuleGoes
<1>9. InRule(n, r, k + 1, tail)'
  BY <1>1, <1>5, <1>7, InRuleGrows
<1>10. tail = (AfterRule(doc, n, r) \o IniTail)'
  BY <1>2, <1>6 DEF IniTail
<1>11. MainSoFar(IF set_main_sec THEN Len(doc.main) ELSE 0)'
  BY <1>2, <1>3 DEF MainSoFar, IniAtRule
<1>12. IniAtRule'
  BY <1>1, <1>2, <1>5, <1>8, <1>9, <1>10, <1>11 DEF IniAtRule, IniIn
<1>13. Frees'
  BY <1>1, <1>2, <1>5, <1>7, <1>8, FreesGrow DEF InRule, Outcome
<1>14. Outcome'
  BY <1>1, <1>2, <1>13, GoesOn
<1> QED BY <1>12, <1>14 DEF IniLoading

LEMMA IniRuleAclStep ==
  ASSUME LoadTypes, Outcome, form = "ini", IniLoading, IniRuleAcl
  PROVE  Outcome' /\ IniLoading'
<1>1. /\ at = "rule" /\ Next1("item") /\ Key \in {"ALLOW", "DENY"} /\ rest' = Tail(rest)
      /\ IF Key = "ALLOW" THEN AllowMatchs' = AllowMatchs \o Patterns(Value) /\ UNCHANGED DenyMatchs
                          ELSE DenyMatchs' = DenyMatchs \o Patterns(Value) /\ UNCHANGED AllowMatchs
      /\ UNCHANGED <<doc, form, at, set_main_sec, is_dir_rule, pTmpRule, members, RuleMap, stop_plugin, freed, Config, result>>
  BY DEF IniRuleAcl, Read, inputVars, keptVars
<1>2. IniAtRule
  BY <1>1 DEF IniLoading, IniAtStart, IniAtTop, IniAtMain
<1>3. PICK n \in 1 .. Len(doc.groups) : \E r \in 1 .. Len(doc.groups[n].rules) :
        \E k \in 0 .. Len(doc.groups[n].rules[r]) : IniIn(n, r, k) /\ k < Len(doc.groups[n].rules[r])
  BY <1>1, <1>2, IniRuleIs
<1>3r. PICK r \in 1 .. Len(doc.groups[n].rules) :
        \E k \in 0 .. Len(doc.groups[n].rules[r]) : IniIn(n, r, k) /\ k < Len(doc.groups[n].rules[r])
  BY <1>3
<1>4. PICK k \in 0 .. Len(doc.groups[n].rules[r]) : IniIn(n, r, k) /\ k < Len(doc.groups[n].rules[r])
  BY <1>3r
<1>5. PICK tail \in Seq(Token) : tail = AfterRule(doc, n, r) \o IniTail
  BY <1>4 DEF IniIn
<1>6. InRule(n, r, k, tail)
  BY <1>4, <1>5 DEF IniIn
<1>7. k + 1 \in 0 .. Len(doc.groups[n].rules[r]) /\ AtKey(doc.groups[n].rules[r], k)
  BY <1>4, <1>6, InRuleGoes
<1>8. PICK s \in Seq(Entry) : s = doc.groups[n].rules[r]
  BY DocType DEF LoadTypes
<1>9. Key = s[k + 1][1] /\ Value = s[k + 1][2]
  BY <1>7, <1>8, KeyIs
<1>10. AllowMatchs' = AllowMatchs \o PatternOf(s[k + 1], "ALLOW") /\ DenyMatchs' = DenyMatchs \o PatternOf(s[k + 1], "DENY")
  <2>1. AllowMatchs \o <<>> = AllowMatchs /\ DenyMatchs \o <<>> = DenyMatchs
    BY ConcatEmptySeq DEF LoadTypes
  <2> QED BY <1>1, <1>9, <2>1, Zenon DEF PatternOf
<1>11. InRule(n, r, k + 1, tail)'
  BY <1>1, <1>4, <1>6, <1>8, <1>9, <1>10, InRuleAcl, Zenon
<1>12. tail = (AfterRule(doc, n, r) \o IniTail)'
  BY <1>1, <1>5 DEF IniTail
<1>13. MainSoFar(IF set_main_sec THEN Len(doc.main) ELSE 0)'
  BY <1>1, <1>2 DEF MainSoFar, IniAtRule
<1>14. IniAtRule'
  BY <1>1, <1>4, <1>7, <1>11, <1>12, <1>13 DEF IniAtRule, IniIn
<1>15. Outcome'
  BY <1>1, GoesOn
<1> QED BY <1>14, <1>15 DEF IniLoading

LEMMA IniRuleEndStep ==
  ASSUME LoadTypes, Outcome, form = "ini", IniLoading, IniRuleEnd
  PROVE  Outcome' /\ IniLoading'
<1>1. /\ at = "rule" /\ ~Next1("item") /\ SetRule /\ at' = "top"
      /\ UNCHANGED <<doc, form, rest, set_main_sec, members, stop_plugin, freed, Config, result>>
  BY DEF IniRuleEnd, SetRule, inputVars
<1>2. IniAtRule
  BY <1>1 DEF IniLoading, IniAtStart, IniAtTop, IniAtMain
<1>3. PICK n \in 1 .. Len(doc.groups) : \E r \in 1 .. Len(doc.groups[n].rules) :
        \E k \in 0 .. Len(doc.groups[n].rules[r]) : IniIn(n, r, k) /\ ~(k < Len(doc.groups[n].rules[r]))
  BY <1>1, <1>2, IniRuleIs
<1>3r. PICK r \in 1 .. Len(doc.groups[n].rules) :
        \E k \in 0 .. Len(doc.groups[n].rules[r]) : IniIn(n, r, k) /\ ~(k < Len(doc.groups[n].rules[r]))
  BY <1>3
<1>4. PICK k \in 0 .. Len(doc.groups[n].rules[r]) : IniIn(n, r, k) /\ ~(k < Len(doc.groups[n].rules[r]))
  BY <1>3r
<1>5. PICK tail \in Seq(Token) : tail = AfterRule(doc, n, r) \o IniTail
  BY <1>4 DEF IniIn
<1>6. InRule(n, r, k, tail) /\ is_dir_rule = doc.groups[n].dir
  BY <1>4, <1>5 DEF IniIn
<1>7. rest = tail /\ RuleSoFar(doc.groups[n].rules[r])
  BY <1>4, <1>6, InRuleEnds
<1>8. RuledTo(<<n, r>>)'
  BY <1>1, <1>6, <1>7, RuledGrows DEF InRule
<1>9. <<n, r>> \in Spots(doc) /\ IniLeft(doc, <<n, r>>) = AfterRule(doc, n, r)
  BY SpotBehind
<1>10. (rest = IniLeft(doc, <<n, r>>) \o IniTail)'
  BY <1>1, <1>5, <1>7, <1>9 DEF IniTail
<1>11. MainSoFar(IF set_main_sec THEN Len(doc.main) ELSE 0)'
  BY <1>1, <1>2 DEF MainSoFar, IniAtRule
<1>12. IniAtTop'
  BY <1>1, <1>8, <1>9, <1>10, <1>11 DEF IniAtTop
<1>13. Outcome'
  BY <1>1, GoesOn
<1> QED BY <1>12, <1>13 DEF IniLoading

LEMMA IniEndStep ==
  ASSUME LoadTypes, Outcome, form = "ini", IniLoading, IniEnd
  PROVE  Outcome' /\ IniLoading'
<1>1. at = "top" /\ rest = <<>>
  BY DEF IniEnd
<1>2. IniAtTop
  <2>1. ~IniAtStart
    <3> SUFFICES ASSUME IniAtStart PROVE FALSE
      OBVIOUS
    <3>1. <<0, 0>> \in Spots(doc) /\ doc \in Docs
      BY DEF Spots, LoadTypes
    <3>2. IniLeft(doc, <<0, 0>>) \o Again(doc, MainSec(doc)) \in Seq(Token)
      BY <3>1, TailType, SpotCases
    <3>3. rest # <<>>
      BY <3>1, <3>2, MainSecFirst DEF IniAtStart
    <3> QED BY <1>1, <3>3
  <2> QED BY <1>1, <2>1 DEF IniLoading, IniAtMain, IniAtRule
<1>3. set_main_sec /\ ~doc.twice /\ Ruled(Places(doc, Len(doc.groups)))
  <2>1. \A x : ~Next1(x)
    BY <1>1 DEF Next1
  <2>2. ~ \E n \in 1 .. Len(doc.groups) : \E r \in 1 .. Len(doc.groups[n].rules) : FirstOf(n, r, IniTail)
    BY <2>1 DEF FirstOf
  <2> QED BY <1>2, <2>1, <2>2, IniTopIs
<1>4. MainSoFar(Len(doc.main))
  BY <1>2, <1>3 DEF IniAtTop
<1>5. MayLoad(doc) <=> MembersAgree(members) /\ InitializeOutputFiles(RuleMap)
  BY <1>3, <1>4, MayLoadIs
<1>6. CASE MayLoad(doc)
  <2>1. Load /\ RuleMap' = CheckBinaryMode(RuleMap) /\ UNCHANGED <<members, stop_plugin, freed>>
    BY <1>5, <1>6 DEF IniEnd
  <2>2. Outcome' /\ at' = "end"
    BY <1>1, <1>3, <1>4, <1>6, <2>1, AllLoaded
  <2> QED BY <2>2 DEF IniLoading
<1>7. CASE ~MayLoad(doc)
  <2>1. Fail
    BY <1>5, <1>7 DEF IniEnd
  <2>2. Outcome' /\ at' = "end"
    BY <1>1, <1>7, <2>1, Refuses
  <2> QED BY <2>2 DEF IniLoading
<1> QED BY <1>6, <1>7

LEMMA LoadIniStep ==
  ASSUME LoadTypes, Outcome, IniLoading, LoadIni
  PROVE  Outcome' /\ IniLoading'
BY IniMainStep, IniSecondMainStep, IniMainKeyStep, IniMainRefusedStep, IniMainEndStep, IniRuleStep, IniRuleKeyStep,
   IniRuleAclStep, IniRuleEndStep, IniEndStep DEF LoadIni

-----------------------------------------------------------------------------
(* LoadYaml, step by step.                                                 *)

LEMMA MarkSeq == <<Mark("main")>> \in Seq(Token) /\ <<Mark("{")>> \in Seq(Token) /\ <<Mark("}")>> \in Seq(Token) /\ <<Mark("]")>> \in Seq(Token)
<1>1. <<Mark("main")>> \in Seq(Token)
  BY ItemType, OneToken
<1>2. <<Mark("{")>> \in Seq(Token)
  BY ItemType, OneToken
<1>3. <<Mark("}")>> \in Seq(Token)
  BY ItemType, OneToken
<1>4. <<Mark("]")>> \in Seq(Token)
  BY ItemType, OneToken
<1> QED BY <1>1, <1>2, <1>3, <1>4, Zenon

LEMMA YamlTypes ==
  ASSUME doc \in Docs
  PROVE  /\ Kept(doc) \in 0 .. Len(doc.main) /\ YamlTail \in Seq(Token)
         /\ YamlTail = IF doc.main_last THEN ItemsFrom(doc.main, 0) \o <<Mark("}")>> ELSE <<Mark("}")>>
         /\ \A n \in 0 .. Len(doc.groups) : YamlLeft(n) \in Seq(Token)
         /\ \A n \in 1 .. Len(doc.groups) : \A r \in 0 .. Len(doc.groups[n].rules) : InGroup(n, r) \in Seq(Token)
<1>1. doc.main \in Seq(Entry) /\ Len(doc.main) \in Nat
  BY DocType
<1>2. Kept(doc) \in 0 .. Len(doc.main)
  BY <1>1 DEF Kept
<1>3. PICK close \in Seq(Token), last \in Seq(Token) : close = <<Mark("}")>> /\ last = <<Mark("]")>>
  BY MarkSeq
<1>4. YamlTail = ItemsFrom(doc.main, Kept(doc)) \o close
  BY <1>3 DEF YamlTail
<1>5. YamlTail \in Seq(Token)
  BY <1>1, <1>2, <1>4, NextItem
<1>6. YamlTail = IF doc.main_last THEN ItemsFrom(doc.main, 0) \o close ELSE close
  <2>1. CASE doc.main_last
    BY <1>4, <2>1 DEF Kept
  <2>2. CASE ~doc.main_last
    <3>1. Kept(doc) = Len(doc.main)
      BY <2>2 DEF Kept
    <3>2. ItemsFrom(doc.main, Kept(doc)) \o close = close
      BY <1>1, <1>2, <3>1, NextItem
    <3> QED BY <1>4, <2>2, <3>2
  <2> QED BY <2>1, <2>2
<1>7. \A n \in 0 .. Len(doc.groups) : YamlLeft(n) \in Seq(Token)
  BY <1>5, NextGroup DEF YamlLeft
<1>8. ASSUME NEW n \in 1 .. Len(doc.groups), NEW r \in 0 .. Len(doc.groups[n].rules) PROVE InGroup(n, r) \in Seq(Token)
  <2>1. n \in 0 .. Len(doc.groups)
    OBVIOUS
  <2>2. last \o YamlLeft(n) \in Seq(Token)
    BY <1>7, <2>1, ConcatProperties, SMTT(40)
  <2>3. From(YamlTexts(doc.groups[n]), r) \o (last \o YamlLeft(n)) \in Seq(Token)
    BY <2>2, NextInGroup
  <2> QED BY <1>3, <2>3 DEF InGroup
<1> QED BY <1>2, <1>3, <1>5, <1>6, <1>7, <1>8

\* The whole text, and what is left of it behind a token.
LEMMA YamlTextIs ==
  ASSUME doc \in Docs, ~doc.twice
  PROVE  /\ AsYaml(doc) \in Seq(Token) /\ AsYaml(doc) # <<>>
         /\ Tail(AsYaml(doc)) = IF doc.main_last THEN YamlLeft(0) ELSE ItemsFrom(doc.main, 0) \o YamlLeft(0)
<1>1. PICK m \in Seq(Token), close \in Seq(Token) : m = <<Mark("main")>> /\ close = <<Mark("}")>>
  BY MarkSeq
<1>2. PICK i \in Seq(Token) : i = Items(doc.main) /\ i = ItemsFrom(doc.main, 0)
  BY DocType, ItemsAll
<1>3. PICK x \in Seq(Token) : x = FlattenSeq([n \in DOMAIN doc.groups |-> YamlGroupText(doc.groups[n])]) /\ x = From(YamlGroups(doc), 0)
  <2>1. YamlGroups(doc) \in Seq(Seq(Token))
    BY YamlTextType
  <2>2. From(YamlGroups(doc), 0) = FlattenSeq(YamlGroups(doc)) /\ FlattenSeq(YamlGroups(doc)) \in Seq(Token)
    BY <2>1, FromStep, FlattenType
  <2> QED BY <2>2 DEF YamlGroups
<1>4. PICK y \in Seq(Token) : y = IF doc.main_last THEN x \o i ELSE i \o x
  BY ConcatProperties
<1>5. AsYaml(doc) = m \o (y \o close)
  <2>1. m \o y \in Seq(Token) /\ (m \o y) \o close \in Seq(Token)
    BY ConcatProperties
  <2>2. AsYaml(doc) = ((m \o y) \o close) \o <<>>
    BY <1>1, <1>2, <1>3, <1>4 DEF AsYaml, Again
  <2>3. ((m \o y) \o close) \o <<>> = (m \o y) \o close
    BY <2>1, ConcatEmptySeq
  <2>4. (m \o y) \o close = m \o (y \o close)
    BY JoinAgain, ZenonT(60)
  <2> QED BY <2>2, <2>3, <2>4
<1>6. y \o close \in Seq(Token) /\ Mark("main") \in Token
  BY ItemType, ConcatProperties
<1>7. AsYaml(doc) \in Seq(Token) /\ AsYaml(doc) # <<>> /\ Tail(AsYaml(doc)) = y \o close
  BY <1>1, <1>5, <1>6, FirstToken
<1>8. y \o close = IF doc.main_last THEN YamlLeft(0) ELSE ItemsFrom(doc.main, 0) \o YamlLeft(0)
  <2>1. YamlLeft(0) = x \o YamlTail
    BY <1>3 DEF YamlLeft
  <2>2. CASE doc.main_last
    <3>1. YamlTail = i \o close
      BY <1>1, <1>2, <2>2, YamlTypes
    <3>2. (x \o i) \o close = x \o (i \o close)
      BY JoinAgain, ZenonT(60)
    <3> QED BY <1>4, <2>1, <2>2, <3>1, <3>2
  <2>3. CASE ~doc.main_last
    <3>1. YamlTail = close
      BY <1>1, <2>3, YamlTypes
    <3>2. (i \o x) \o close = i \o (x \o close)
      BY JoinAgain, ZenonT(60)
    <3> QED BY <1>2, <1>4, <2>1, <2>3, <3>1, <3>2
  <2> QED BY <2>2, <2>3
<1> QED BY <1>7, <1>8

LEMMA YamlLeftIs ==
  ASSUME doc \in Docs, NEW n \in 0 .. Len(doc.groups), rest = YamlLeft(n)
  PROVE  \/ n = Len(doc.groups) /\ rest = YamlTail
         \/ /\ n + 1 \in 1 .. Len(doc.groups) /\ Next1(Kind(doc.groups[n + 1].dir)) /\ Tail(rest) = InGroup(n + 1, 0)
<1>1. PICK y \in Seq(Token) : y = YamlTail
  BY YamlTypes
<1>2. rest = From(YamlGroups(doc), n) \o y
  BY <1>1 DEF YamlLeft
<1>3. Len(doc.groups) \in Nat
  BY DocType
<1>4. CASE n = Len(doc.groups)
  <2>1. From(YamlGroups(doc), n) \o y = y
    BY <1>4, NextGroup
  <2> QED BY <1>1, <1>2, <1>4, <2>1
<1>5. CASE n # Len(doc.groups)
  <2>1. n + 1 \in 1 .. Len(doc.groups) /\ n < Len(doc.groups) /\ n + 1 \in 0 .. Len(doc.groups)
    BY <1>3, <1>5
  <2>2. PICK m \in Token : m = Mark(Kind(doc.groups[n + 1].dir))
    BY <2>1, DocType, ItemType
  <2>3. From(YamlGroups(doc), n) \o y =
          <<m>> \o (From(YamlTexts(doc.groups[n + 1]), 0) \o (<<Mark("]")>> \o (From(YamlGroups(doc), n + 1) \o y)))
    BY <2>1, <2>2, NextGroup
  <2>4. InGroup(n + 1, 0) = From(YamlTexts(doc.groups[n + 1]), 0) \o (<<Mark("]")>> \o (From(YamlGroups(doc), n + 1) \o y))
    BY <1>1 DEF InGroup, YamlLeft
  <2>5. InGroup(n + 1, 0) \in Seq(Token)
    <3>1. 0 \in 0 .. Len(doc.groups[n + 1].rules)
      BY <2>1, DocType
    <3> QED BY <2>1, <3>1, YamlTypes
  <2>6. rest = <<m>> \o InGroup(n + 1, 0)
    BY <1>2, <2>3, <2>4
  <2>7. rest # <<>> /\ Head(rest) = m /\ Tail(rest) = InGroup(n + 1, 0)
    BY <2>5, <2>6, FirstToken, SMTT(40)
  <2> QED BY <2>1, <2>2, <2>7, MarkIs
<1> QED BY <1>4, <1>5

LEMMA InGroupIs ==
  ASSUME doc \in Docs, NEW n \in 1 .. Len(doc.groups), NEW r \in 0 .. Len(doc.groups[n].rules), rest = InGroup(n, r)
  PROVE  \/ r = Len(doc.groups[n].rules) /\ Next1("]") /\ Tail(rest) = YamlLeft(n)
         \/ /\ r + 1 \in 1 .. Len(doc.groups[n].rules) /\ Next1("{")
            /\ Tail(rest) = ItemsFrom(doc.groups[n].rules[r + 1], 0) \o (<<Mark("}")>> \o InGroup(n, r + 1))
<1>1. YamlLeft(n) \in Seq(Token) /\ Mark("]") \in Token /\ Mark("{") \in Token /\ Len(doc.groups[n].rules) \in Nat
  <2>1. n \in 0 .. Len(doc.groups)
    OBVIOUS
  <2>2. YamlLeft(n) \in Seq(Token)
    BY <2>1, YamlTypes
  <2>3. Len(doc.groups[n].rules) \in Nat
    BY DocType, SMTT(40)
  <2> QED BY <2>2, <2>3, ItemType
<1>2. PICK y \in Seq(Token) : y = <<Mark("]")>> \o YamlLeft(n)
  BY <1>1, FirstToken
<1>3. rest = From(YamlTexts(doc.groups[n]), r) \o y
  BY <1>2 DEF InGroup
<1>4. CASE r = Len(doc.groups[n].rules)
  <2>1. From(YamlTexts(doc.groups[n]), r) \o y = y
    BY <1>4, NextInGroup
  <2>2. rest # <<>> /\ Head(rest) = Mark("]") /\ Tail(rest) = YamlLeft(n)
    BY <1>1, <1>2, <1>3, <2>1, FirstToken, ZenonT(60)
  <2> QED BY <1>4, <2>2, MarkIs, ZenonT(60)
<1>5. CASE r # Len(doc.groups[n].rules)
  <2>1. r + 1 \in 1 .. Len(doc.groups[n].rules) /\ r < Len(doc.groups[n].rules) /\ r + 1 \in 0 .. Len(doc.groups[n].rules)
    <3>1. PICK l \in Nat : l = Len(doc.groups[n].rules) /\ r \in 0 .. l
      BY <1>1, ZenonT(60)
    <3> QED BY <1>5, <3>1, SMTT(40)
  <2>2. From(YamlTexts(doc.groups[n]), r) \o y =
          <<Mark("{")>> \o (ItemsFrom(doc.groups[n].rules[r + 1], 0)
                              \o (<<Mark("}")>> \o (From(YamlTexts(doc.groups[n]), r + 1) \o y)))
    BY <2>1, NextInGroup
  <2>3. InGroup(n, r + 1) = From(YamlTexts(doc.groups[n]), r + 1) \o y
    BY <1>2 DEF InGroup
  <2>4. PICK z \in Seq(Token) : z = ItemsFrom(doc.groups[n].rules[r + 1], 0) \o (<<Mark("}")>> \o InGroup(n, r + 1))
    <3>1. PICK s \in Seq(Entry) : s = doc.groups[n].rules[r + 1]
      BY <2>1, DocType, Zenon
    <3>2. <<Mark("}")>> \o InGroup(n, r + 1) \in Seq(Token)
      BY <2>1, YamlTypes, ItemType, FirstToken
    <3>3. 0 \in 0 .. Len(s)
      BY LenProperties
    <3> QED BY <3>1, <3>2, <3>3, NextItem
  <2>5. rest = <<Mark("{")>> \o z
    BY <1>3, <2>2, <2>3, <2>4, Zenon
  <2>6. rest # <<>> /\ Head(rest) = Mark("{") /\ Tail(rest) = z
    BY <1>1, <2>5, FirstToken
  <2> QED BY <2>1, <2>4, <2>6, MarkIs
<1> QED BY <1>4, <1>5

\* Where LoadYaml is in the main section: at a key of it, at an array, or at the end.
KeyNext ==
  \E k \in 0 .. Len(doc.main) :
    k < Len(doc.main) /\ k + 1 \in 0 .. Len(doc.main) /\ AtKey(doc.main, k) /\ MainSoFar(k) /\ AtItems(k + 1, Tail(rest))
ArrayNext ==
  \E n \in 1 .. Len(doc.groups) :
    /\ Next1(Kind(doc.groups[n].dir)) /\ Tail(rest) = InGroup(n, 0)
    /\ MainSoFar(Kept(doc)) /\ RuledTo(<<n, 0>>)
EndNext == rest = <<Mark("}")>> /\ MainSoFar(Len(doc.main)) /\ Ruled(Places(doc, Len(doc.groups)))

LEMMA AtLastItems ==
  ASSUME LoadTypes, doc.main_last, NEW k \in 0 .. Len(doc.main), rest = ItemsFrom(doc.main, k) \o <<Mark("}")>>,
         MainSoFar(k), Ruled(Places(doc, Len(doc.groups)))
  PROVE  KeyNext \/ EndNext
<1>1. PICK close \in Seq(Token) : close = <<Mark("}")>>
  BY MarkSeq
<1>2. doc.main \in Seq(Entry)
  BY DocType DEF LoadTypes
<1>3. \/ k = Len(doc.main) /\ rest = close
      \/ k < Len(doc.main) /\ k + 1 \in 0 .. Len(doc.main) /\ AtKey(doc.main, k) /\ Tail(rest) = ItemsFrom(doc.main, k + 1) \o close
  BY <1>1, <1>2, Reading
<1>4. CASE k = Len(doc.main) /\ rest = close
  BY <1>1, <1>4 DEF EndNext
<1>5. CASE k < Len(doc.main) /\ k + 1 \in 0 .. Len(doc.main) /\ AtKey(doc.main, k) /\ Tail(rest) = ItemsFrom(doc.main, k + 1) \o close
  <2>1. AtItems(k + 1, Tail(rest))
    BY <1>1, <1>5 DEF AtItems
  <2> QED BY <1>5, <2>1 DEF KeyNext
<1> QED BY <1>3, <1>4, <1>5

LEMMA AtArraysIs ==
  ASSUME LoadTypes, NEW n \in 0 .. Len(doc.groups), AtArrays(n)
  PROVE  KeyNext \/ ArrayNext \/ EndNext
<1>1. rest = YamlLeft(n) /\ MainSoFar(Kept(doc)) /\ Ruled(Places(doc, n)) /\ doc \in Docs
  BY DEF AtArrays, LoadTypes
<1>2. \/ n = Len(doc.groups) /\ rest = YamlTail
      \/ n + 1 \in 1 .. Len(doc.groups) /\ Next1(Kind(doc.groups[n + 1].dir)) /\ Tail(rest) = InGroup(n + 1, 0)
  BY <1>1, YamlLeftIs
<1>3. CASE n = Len(doc.groups) /\ rest = YamlTail /\ doc.main_last
  <2>1. rest = ItemsFrom(doc.main, 0) \o <<Mark("}")>> /\ 0 \in 0 .. Len(doc.main)
    BY <1>1, <1>3, YamlTypes DEF Kept
  <2>2. MainSoFar(0)
    BY <1>1, <1>3 DEF Kept
  <2> QED BY <1>1, <1>3, <2>1, <2>2, AtLastItems
<1>4. CASE n = Len(doc.groups) /\ rest = YamlTail /\ ~doc.main_last
  <2>1. rest = <<Mark("}")>>
    BY <1>1, <1>4, YamlTypes
  <2> QED BY <1>1, <1>4, <2>1 DEF EndNext, Kept
<1>5. CASE n + 1 \in 1 .. Len(doc.groups) /\ Next1(Kind(doc.groups[n + 1].dir)) /\ Tail(rest) = InGroup(n + 1, 0)
  <2>1. PlacesTo(doc, n + 1, 0) = Places(doc, n)
    <3>1. (n + 1) - 1 = n
      OBVIOUS
    <3> QED BY <1>1, <1>5, <3>1, PlacesStep
  <2>2. RuledTo(<<n + 1, 0>>)
    BY <1>1, <2>1 DEF RuledTo
  <2> QED BY <1>1, <1>5, <2>2 DEF ArrayNext
<1> QED BY <1>2, <1>3, <1>4, <1>5

LEMMA YamlMainIs ==
  ASSUME LoadTypes, YamlAtMain
  PROVE  KeyNext \/ ArrayNext \/ EndNext
<1>1. CASE \E n \in 0 .. Len(doc.groups) : AtArrays(n)
  BY <1>1, AtArraysIs
<1>2. ASSUME NEW k \in 0 .. Len(doc.main), AtItems(k, rest), MainSoFar(k) PROVE KeyNext \/ ArrayNext \/ EndNext
  <2>1. CASE doc.main_last
    <3>1. rest = ItemsFrom(doc.main, k) \o <<Mark("}")>> /\ Ruled(Places(doc, Len(doc.groups)))
      BY <1>2, <2>1 DEF AtItems
    <3> QED BY <1>2, <2>1, <3>1, AtLastItems
  <2>2. CASE ~doc.main_last
    <3>1. rest = ItemsFrom(doc.main, k) \o YamlLeft(0) /\ Ruled({})
      BY <1>2, <2>2 DEF AtItems
    <3>2. 0 \in 0 .. Len(doc.groups) /\ doc.main \in Seq(Entry) /\ doc \in Docs
      BY DocType DEF LoadTypes
    <3>3. PICK y \in Seq(Token) : y = YamlLeft(0)
      BY <3>2, YamlTypes
    <3>4. \/ k = Len(doc.main) /\ rest = y
          \/ k < Len(doc.main) /\ k + 1 \in 0 .. Len(doc.main) /\ AtKey(doc.main, k) /\ Tail(rest) = ItemsFrom(doc.main, k + 1) \o y
      BY <3>1, <3>2, <3>3, Reading
    <3>5. CASE k = Len(doc.main) /\ rest = y
      <4>1. Places(doc, 0) = {}
        BY <3>2, PlacesStep
      <4>2. AtArrays(0)
        BY <1>2, <2>2, <3>1, <3>3, <3>5, <4>1 DEF AtArrays, Kept
      <4> QED BY <3>2, <4>2, AtArraysIs
    <3>6. CASE k < Len(doc.main) /\ k + 1 \in 0 .. Len(doc.main) /\ AtKey(doc.main, k) /\ Tail(rest) = ItemsFrom(doc.main, k + 1) \o y
      <4>1. AtItems(k + 1, Tail(rest))
        BY <2>2, <3>1, <3>3, <3>6 DEF AtItems
      <4> QED BY <1>2, <3>6, <4>1 DEF KeyNext
    <3> QED BY <3>4, <3>5, <3>6
  <2> QED BY <2>1, <2>2
<1> QED BY <1>1, <1>2 DEF YamlAtMain

\* Each of them is told from the others by what is read next.
LEMMA MainNextIs ==
  ASSUME LoadTypes, YamlAtMain
  PROVE  /\ Next1("item") => KeyNext
         /\ (\E dir \in BOOLEAN : Next1(Kind(dir))) => ArrayNext
         /\ Next1("}") => EndNext
<1>1. KeyNext => Next1("item")
  BY KeyIs DEF KeyNext
<1>2. ArrayNext => \E dir \in BOOLEAN : Next1(Kind(dir))
  BY DocType DEF ArrayNext, LoadTypes
<1>3. EndNext => Next1("}")
  <2>1. PICK m : m = Mark("}")
    OBVIOUS
  <2>2. <<m>> # <<>> /\ Head(<<m>>) = m
    OBVIOUS
  <2> QED BY <2>1, <2>2, MarkIs DEF EndNext
<1>4. \A dir \in BOOLEAN : Kind(dir) # "item" /\ Kind(dir) # "}"
  BY DEF Kind
<1> QED BY <1>1, <1>2, <1>3, <1>4, YamlMainIs DEF Next1

LEMMA PlainIs ==
  ASSUME LoadTypes, Plain(doc)
  PROVE  /\ ~doc.twice /\ (doc.main_last => ~MeantMembers(doc.main).binary)
         /\ \A n \in 1 .. Len(doc.groups) :
              /\ ~doc.groups[n].dir
              /\ InitializeOutputFiles(MeantRules(doc, n))
              /\ \A r \in 1 .. Len(doc.groups[n].rules) :
                   Values(doc.groups[n].rules[r], "ALLOW") \subseteq {"?"}
                   /\ Values(doc.groups[n].rules[r], "DENY") \cap NotTwo = {}
<1>1. \A n \in 1 .. Len(doc.groups) :
        n \in DOMAIN doc.groups /\ \A r \in 1 .. Len(doc.groups[n].rules) : r \in DOMAIN doc.groups[n].rules
  BY DocType DEF LoadTypes
<1> QED BY <1>1 DEF Plain, FoundSoFar

LEMMA YamlMainStep ==
  ASSUME LoadTypes, Outcome, form = "yaml", Plain(doc), YamlLoading, YamlMain
  PROVE  Outcome' /\ YamlLoading'
<1>1. /\ at = "top" /\ Next1("main") /\ at' = "main" /\ rest' = Tail(rest)
      /\ UNCHANGED <<doc, form, members, RuleMap, stop_plugin, freed, Config, result>>
  BY DEF YamlMain, Read, inputVars, keptVars
<1>2. Outcome'
  BY <1>1, GoesOn
<1>3. YamlAtStart
  BY <1>1 DEF YamlLoading, YamlAtMain, YamlAtGroup, YamlAtRule, YamlAtEnd, Next1
<1>4. rest = AsYaml(doc) /\ MainSoFar(0) /\ Ruled({}) /\ Stripped
  BY <1>3 DEF YamlAtStart
<1>5. doc \in Docs /\ ~doc.twice /\ 0 \in 0 .. Len(doc.groups) /\ 0 \in 0 .. Len(doc.main)
  BY PlainIs, DocType DEF LoadTypes
<1>6. Tail(rest) = IF doc.main_last THEN YamlLeft(0) ELSE ItemsFrom(doc.main, 0) \o YamlLeft(0)
  BY <1>4, <1>5, YamlTextIs
<1>7. MainSoFar(0)' /\ Ruled({})' /\ Stripped'
  <2>1. MainSoFar(0)'
    BY <1>1, <1>4 DEF MainSoFar
  <2> QED BY <1>1, <1>4, <2>1, RuledStays
<1>8. YamlLeft(0)' = YamlLeft(0)
  BY <1>1 DEF YamlLeft, YamlTail
<1>9. CASE doc.main_last
  <2>1. Places(doc, 0) = {}
    BY <1>5, PlacesStep
  <2>2. AtArrays(0)'
    BY <1>1, <1>6, <1>7, <1>8, <1>9, <2>1 DEF AtArrays, Kept
  <2>3. YamlAtMain'
    BY <1>1, <1>5, <1>7, <2>2 DEF YamlAtMain
  <2> QED BY <1>2, <2>3 DEF YamlLoading
<1>10. CASE ~doc.main_last
  <2>1. AtItems(0, rest)'
    BY <1>1, <1>6, <1>7, <1>8, <1>10 DEF AtItems
  <2>2. YamlAtMain'
    BY <1>1, <1>5, <1>7, <2>1 DEF YamlAtMain
  <2> QED BY <1>2, <2>2 DEF YamlLoading
<1> QED BY <1>9, <1>10

LEMMA YamlMainKeyStep ==
  ASSUME LoadTypes, Outcome, form = "yaml", Plain(doc), YamlLoading, YamlMainKey
  PROVE  Outcome' /\ YamlLoading'
<1>1. at = "main" /\ Next1("item") /\ MainKey
  BY DEF YamlMainKey
<1>2. rest' = Tail(rest) /\ UNCHANGED <<doc, form, at, RuleMap, stop_plugin, freed, Config, result>>
  BY <1>1 DEF MainKey, Read, inputVars
<1>3. YamlAtMain
  BY <1>1 DEF YamlLoading, YamlAtStart, YamlAtGroup, YamlAtRule, YamlAtEnd
<1>4. KeyNext
  BY <1>1, <1>3, MainNextIs
<1>5. PICK k \in 0 .. Len(doc.main) :
        k < Len(doc.main) /\ k + 1 \in 0 .. Len(doc.main) /\ AtKey(doc.main, k) /\ MainSoFar(k) /\ AtItems(k + 1, Tail(rest))
  BY <1>4 DEF KeyNext
<1>6. MainSoFar(k + 1)'
  BY <1>1, <1>5, MainSoFarGrows
<1>7. (\A P : Ruled(P) => Ruled(P)') /\ Stripped'
  BY <1>2, <1>3, RuledStays DEF YamlAtMain
<1>8. YamlLeft(0)' = YamlLeft(0)
  BY <1>2 DEF YamlLeft, YamlTail
<1>9. AtItems(k + 1, rest)'
  BY <1>2, <1>5, <1>7, <1>8 DEF AtItems
<1>10. YamlAtMain'
  BY <1>1, <1>2, <1>5, <1>6, <1>7, <1>9 DEF YamlAtMain
<1>11. Outcome'
  BY <1>1, <1>2, GoesOn
<1> QED BY <1>10, <1>11 DEF YamlLoading

LEMMA YamlMainRefusedStep ==
  ASSUME LoadTypes, Outcome, form = "yaml", Plain(doc), YamlLoading, YamlMainRefused
  PROVE  Outcome' /\ YamlLoading'
<1>1. at = "main" /\ Next1("item") /\ IsRefused(Key, Value) /\ Fail
  BY DEF YamlMainRefused
<1>2. YamlAtMain
  BY <1>1 DEF YamlLoading, YamlAtStart, YamlAtGroup, YamlAtRule, YamlAtEnd
<1>3. PICK k \in 0 .. Len(doc.main) : k < Len(doc.main) /\ AtKey(doc.main, k)
  BY <1>1, <1>2, MainNextIs DEF KeyNext
<1>4. ~MayLoad(doc)
  BY <1>1, <1>3, RefusedIs
<1>5. Outcome' /\ at' = "end"
  BY <1>1, <1>4, Refuses
<1> QED BY <1>5 DEF YamlLoading

LEMMA YamlMainEndStep ==
  ASSUME LoadTypes, Outcome, form = "yaml", Plain(doc), YamlLoading, YamlMainEnd
  PROVE  Outcome' /\ YamlLoading'
<1>1. at = "main" /\ Next1("}")
  BY DEF YamlMainEnd
<1>2. YamlAtMain
  BY <1>1 DEF YamlLoading, YamlAtStart, YamlAtGroup, YamlAtRule, YamlAtEnd
<1>3. rest = <<Mark("}")>> /\ MainSoFar(Len(doc.main)) /\ Ruled(Places(doc, Len(doc.groups))) /\ Stripped
  BY <1>1, <1>2, MainNextIs DEF EndNext, YamlAtMain
<1>4. CASE MembersAgree(members)
  <2>1. at' = "top" /\ rest' = Tail(rest) /\ UNCHANGED <<doc, form, members, RuleMap, stop_plugin, freed, Config, result>>
    BY <1>4 DEF YamlMainEnd, Read, inputVars, keptVars
  <2>2. rest' = <<>>
    <3>1. PICK m : m = Mark("}")
      OBVIOUS
    <3>2. Tail(<<m>>) = <<>>
      OBVIOUS
    <3> QED BY <1>3, <2>1, <3>1, <3>2
  <2>3. (\A P : Ruled(P) => Ruled(P)') /\ Stripped'
    BY <1>3, <2>1, RuledStays
  <2>4. MainSoFar(Len(doc.main))' /\ Ruled(Places(doc, Len(doc.groups)))' /\ MembersAgree(members)'
    BY <1>3, <1>4, <2>1, <2>3 DEF MainSoFar
  <2>5. YamlAtEnd'
    BY <2>1, <2>2, <2>3, <2>4 DEF YamlAtEnd
  <2>6. Outcome'
    BY <1>1, <2>1, GoesOn
  <2> QED BY <2>5, <2>6 DEF YamlLoading
<1>5. CASE ~MembersAgree(members)
  <2>1. Fail
    BY <1>5 DEF YamlMainEnd
  <2>2. ~MayLoad(doc)
    BY <1>3, <1>5, MayLoadIs
  <2>3. Outcome' /\ at' = "end"
    BY <1>1, <2>1, <2>2, Refuses
  <2> QED BY <2>3 DEF YamlLoading
<1> QED BY <1>4, <1>5

LEMMA YamlRulesStep ==
  ASSUME LoadTypes, Outcome, form = "yaml", Plain(doc), YamlLoading, YamlRules
  PROVE  Outcome' /\ YamlLoading'
<1>1. /\ at = "main" /\ (\E dir \in BOOLEAN : Next1(Kind(dir))) /\ at' = "group" /\ ~is_dir_rule' /\ rest' = Tail(rest)
      /\ UNCHANGED <<doc, form, members, RuleMap, stop_plugin, freed, Config, result>>
  BY DEF YamlRules, Read, inputVars, keptVars
<1>2. YamlAtMain
  BY <1>1 DEF YamlLoading, YamlAtStart, YamlAtGroup, YamlAtRule, YamlAtEnd
<1>3. ArrayNext
  BY <1>1, <1>2, MainNextIs
<1>4. PICK n \in 1 .. Len(doc.groups) : Tail(rest) = InGroup(n, 0) /\ MainSoFar(Kept(doc)) /\ RuledTo(<<n, 0>>)
  BY <1>3 DEF ArrayNext
<1>5. RuledTo(<<n, 0>>)' /\ MainSoFar(Kept(doc))'
  <2>1. MainSoFar(Kept(doc))'
    BY <1>1, <1>4 DEF MainSoFar
  <2> QED BY <1>1, <1>4, <2>1, RuledStays
<1>6. InGroup(n, 0)' = InGroup(n, 0)
  BY <1>1 DEF InGroup, YamlLeft, YamlTail
<1>7. 0 \in 0 .. Len(doc.groups[n].rules)
  BY DocType, SMTT(40) DEF LoadTypes
<1>8. YamlAtGroup'
  BY <1>1, <1>4, <1>5, <1>6, <1>7 DEF YamlAtGroup
<1>9. Outcome'
  BY <1>1, GoesOn
<1> QED BY <1>8, <1>9 DEF YamlLoading

LEMMA YamlRuleStep ==
  ASSUME LoadTypes, Outcome, form = "yaml", Plain(doc), YamlLoading, YamlRule
  PROVE  Outcome' /\ YamlLoading'
<1>1. /\ at = "group" /\ Next1("{") /\ at' = "rule" /\ rest' = Tail(rest) /\ NewSection("rule")
      /\ UNCHANGED <<doc, form, is_dir_rule, members, RuleMap, stop_plugin, freed, Config, result>>
  BY DEF YamlRule, NewSection, Read, inputVars, keptVars
<1>2. YamlAtGroup
  BY <1>1 DEF YamlLoading, YamlAtStart, YamlAtMain, YamlAtRule, YamlAtEnd
<1>3. PICK n \in 1 .. Len(doc.groups) : \E r \in 0 .. Len(doc.groups[n].rules) : rest = InGroup(n, r) /\ RuledTo(<<n, r>>)
  BY <1>2 DEF YamlAtGroup
<1>4. PICK r \in 0 .. Len(doc.groups[n].rules) : rest = InGroup(n, r) /\ RuledTo(<<n, r>>)
  BY <1>3
<1>5. /\ r + 1 \in 1 .. Len(doc.groups[n].rules)
      /\ Tail(rest) = ItemsFrom(doc.groups[n].rules[r + 1], 0) \o (<<Mark("}")>> \o InGroup(n, r + 1))
  <2>1. ~Next1("]") /\ doc \in Docs
    BY <1>1 DEF Next1, LoadTypes
  <2> QED BY <1>4, <2>1, InGroupIs
<1>6. doc.groups[n].rules[r + 1] \in Seq(Entry) /\ 0 \in 0 .. Len(doc.groups[n].rules[r + 1])
  <2>1. doc.groups[n].rules[r + 1] \in Seq(Entry)
    BY <1>5, DocType DEF LoadTypes
  <2> QED BY <2>1, LenProperties, SMTT(40)
<1>7. RuleSoFar(Prefix(doc.groups[n].rules[r + 1], 0))'
  BY <1>1, <1>6, RuleSoFarStart
<1>8. RuledTo(<<n, (r + 1) - 1>>)'
  <2>1. (r + 1) - 1 = r
    OBVIOUS
  <2> QED BY <1>1, <1>4, <2>1, RuledStays
<1>9. InGroup(n, r + 1)' = InGroup(n, r + 1)
  BY <1>1, ZenonT(60) DEF InGroup, YamlLeft, YamlTail
<1>10. InRule(n, r + 1, 0, <<Mark("}")>> \o InGroup(n, r + 1))'
  BY <1>1, <1>5, <1>7, <1>8, <1>9 DEF InRule
<1>11. MainSoFar(Kept(doc))' /\ ~is_dir_rule'
  BY <1>1, <1>2, ZenonT(60) DEF MainSoFar, YamlAtGroup
<1>12. YamlAtRule'
  BY <1>1, <1>5, <1>6, <1>10, <1>11 DEF YamlAtRule
<1>13. Outcome'
  BY <1>1, GoesOn
<1> QED BY <1>12, <1>13 DEF YamlLoading

\* Where LoadYaml is in a rule.
YamlIn(n, r, k) ==
  /\ InRule(n, r, k, <<Mark("}")>> \o InGroup(n, r))
  /\ <<Mark("}")>> \o InGroup(n, r) \in Seq(Token)

LEMMA YamlRuleIs ==
  ASSUME LoadTypes, YamlAtRule
  PROVE  \E n \in 1 .. Len(doc.groups) : \E r \in 1 .. Len(doc.groups[n].rules) :
           \E k \in 0 .. Len(doc.groups[n].rules[r]) :
             /\ YamlIn(n, r, k)
             /\ Next1("item") <=> k < Len(doc.groups[n].rules[r])
<1>1. PICK n \in 1 .. Len(doc.groups) : \E r \in 1 .. Len(doc.groups[n].rules) :
        \E k \in 0 .. Len(doc.groups[n].rules[r]) : InRule(n, r, k, <<Mark("}")>> \o InGroup(n, r))
  BY DEF YamlAtRule
<1>2. PICK r \in 1 .. Len(doc.groups[n].rules) :
        \E k \in 0 .. Len(doc.groups[n].rules[r]) : InRule(n, r, k, <<Mark("}")>> \o InGroup(n, r))
  BY <1>1
<1>3. PICK k \in 0 .. Len(doc.groups[n].rules[r]) : InRule(n, r, k, <<Mark("}")>> \o InGroup(n, r))
  BY <1>2
<1>4. PICK left \in Seq(Token) : left = InGroup(n, r)
  <2>1. r \in 0 .. Len(doc.groups[n].rules)
    OBVIOUS
  <2> QED BY <2>1, YamlTypes DEF LoadTypes
<1>5. PICK m \in Token : m = Mark("}")
  BY ItemType
<1>6. <<m>> \o left \in Seq(Token) /\ <<m>> \o left # <<>> /\ Head(<<m>> \o left) = m
  BY FirstToken
<1>7. YamlIn(n, r, k)
  BY <1>3, <1>4, <1>5, <1>6 DEF YamlIn
<1>8. CASE k < Len(doc.groups[n].rules[r])
  <2>1. PICK y \in Seq(Token) : y = <<m>> \o left
    BY <1>6
  <2>2. InRule(n, r, k, y)
    BY <1>3, <1>4, <1>5, <2>1
  <2>3. Next1("item")
    BY <1>8, <2>2, InRuleGoes, KeyIs
  <2> QED BY <1>7, <1>8, <2>3
<1>9. CASE ~(k < Len(doc.groups[n].rules[r]))
  <2>1. PICK y \in Seq(Token) : y = <<m>> \o left
    BY <1>6
  <2>2. InRule(n, r, k, y)
    BY <1>3, <1>4, <1>5, <2>1
  <2>3. rest = y
    BY <1>9, <2>2, InRuleEnds
  <2>4. Next1("}")
    BY <1>5, <1>6, <2>1, <2>3, MarkIs
  <2> QED BY <1>7, <1>9, <2>4 DEF Next1
<1> QED BY <1>8, <1>9

LEMMA YamlRuleKeyStep ==
  ASSUME LoadTypes, Outcome, form = "yaml", Plain(doc), YamlLoading, YamlRuleKey
  PROVE  Outcome' /\ YamlLoading'
<1>1. at = "rule" /\ Next1("item") /\ RuleKey
  BY DEF YamlRuleKey
<1>2. UNCHANGED <<doc, form, at, is_dir_rule, members, Config, result>>
  BY <1>1 DEF RuleKey, inputVars
<1>3. YamlAtRule
  BY <1>1 DEF YamlLoading, YamlAtStart, YamlAtMain, YamlAtGroup, YamlAtEnd
<1>4. PICK n \in 1 .. Len(doc.groups) : \E r \in 1 .. Len(doc.groups[n].rules) :
        \E k \in 0 .. Len(doc.groups[n].rules[r]) : YamlIn(n, r, k) /\ k < Len(doc.groups[n].rules[r])
  BY <1>1, <1>3, YamlRuleIs
<1>5. PICK r \in 1 .. Len(doc.groups[n].rules) :
        \E k \in 0 .. Len(doc.groups[n].rules[r]) : YamlIn(n, r, k) /\ k < Len(doc.groups[n].rules[r])
  BY <1>4
<1>6. PICK k \in 0 .. Len(doc.groups[n].rules[r]) : YamlIn(n, r, k) /\ k < Len(doc.groups[n].rules[r])
  BY <1>5
<1>7. PICK tail \in Seq(Token) : tail = <<Mark("}")>> \o InGroup(n, r)
  BY <1>6 DEF YamlIn
<1>8. InRule(n, r, k, tail)
  BY <1>6, <1>7 DEF YamlIn
<1>9. k + 1 \in 0 .. Len(doc.groups[n].rules[r]) /\ AtKey(doc.groups[n].rules[r], k)
  BY <1>6, <1>8, InRuleGoes
<1>10. InRule(n, r, k + 1, tail)'
  BY <1>1, <1>6, <1>8, InRuleGrows
<1>11. tail = (<<Mark("}")>> \o InGroup(n, r))'
  BY <1>2, <1>7 DEF InGroup, YamlLeft, YamlTail
<1>12. MainSoFar(Kept(doc))' /\ ~is_dir_rule'
  BY <1>2, <1>3 DEF MainSoFar, YamlAtRule
<1>13. YamlAtRule'
  BY <1>1, <1>2, <1>9, <1>10, <1>11, <1>12, ZenonT(60) DEF YamlAtRule
<1>14. Frees'
  BY <1>1, <1>2, <1>6, <1>8, <1>9, FreesGrow DEF InRule, Outcome
<1>15. Outcome'
  BY <1>1, <1>2, <1>14, GoesOn
<1> QED BY <1>13, <1>15 DEF YamlLoading

\* A plain configuration has no ALLOW that means something, and no list that has not two strings.
LEMMA PlainKey ==
  ASSUME LoadTypes, Plain(doc), NEW n \in 1 .. Len(doc.groups), NEW r \in 1 .. Len(doc.groups[n].rules),
         NEW k \in 0 .. Len(doc.groups[n].rules[r]), k < Len(doc.groups[n].rules[r]),
         NEW s \in Seq(Entry), s = doc.groups[n].rules[r]
  PROVE  /\ s[k + 1][1] = "ALLOW" => s[k + 1][2] = "?"
         /\ s[k + 1][1] = "DENY" => s[k + 1][2] \notin NotTwo
<1>1. k + 1 \in DOMAIN s
  BY LenProperties
<1>2. Values(s, "ALLOW") \subseteq {"?"} /\ Values(s, "DENY") \cap NotTwo = {}
  BY PlainIs
<1> QED BY <1>1, <1>2 DEF Values

LEMMA YamlRuleAclStep ==
  ASSUME LoadTypes, Outcome, form = "yaml", Plain(doc), YamlLoading, YamlRuleAcl
  PROVE  Outcome' /\ YamlLoading'
<1>1. /\ at = "rule" /\ Next1("item") /\ Key \in {"ALLOW", "DENY"} /\ rest' = Tail(rest)
      /\ DenyMatchs' = DenyMatchs \o Patterns(Value)
      /\ UNCHANGED <<doc, form, at, is_dir_rule, pTmpRule, AllowMatchs, members, RuleMap, stop_plugin, freed, Config, result>>
  BY DEF YamlRuleAcl, Read, inputVars, keptVars
<1>2. YamlAtRule
  BY <1>1 DEF YamlLoading, YamlAtStart, YamlAtMain, YamlAtGroup, YamlAtEnd
<1>3. PICK n \in 1 .. Len(doc.groups) : \E r \in 1 .. Len(doc.groups[n].rules) :
        \E k \in 0 .. Len(doc.groups[n].rules[r]) : YamlIn(n, r, k) /\ k < Len(doc.groups[n].rules[r])
  BY <1>1, <1>2, YamlRuleIs
<1>4. PICK r \in 1 .. Len(doc.groups[n].rules) :
        \E k \in 0 .. Len(doc.groups[n].rules[r]) : YamlIn(n, r, k) /\ k < Len(doc.groups[n].rules[r])
  BY <1>3
<1>5. PICK k \in 0 .. Len(doc.groups[n].rules[r]) : YamlIn(n, r, k) /\ k < Len(doc.groups[n].rules[r])
  BY <1>4
<1>6. PICK tail \in Seq(Token) : tail = <<Mark("}")>> \o InGroup(n, r)
  BY <1>5 DEF YamlIn
<1>7. InRule(n, r, k, tail)
  BY <1>5, <1>6 DEF YamlIn
<1>8. k + 1 \in 0 .. Len(doc.groups[n].rules[r]) /\ AtKey(doc.groups[n].rules[r], k)
  BY <1>5, <1>7, InRuleGoes
<1>9. PICK s \in Seq(Entry) : s = doc.groups[n].rules[r]
  BY DocType DEF LoadTypes
<1>10. Key = s[k + 1][1] /\ Value = s[k + 1][2]
  BY <1>8, <1>9, KeyIs
<1>11. /\ s[k + 1][1] = "ALLOW" => s[k + 1][2] = "?"
       /\ s[k + 1][1] = "DENY" => s[k + 1][2] \notin NotTwo
  BY <1>5, <1>9, PlainKey
<1>12. AllowMatchs' = AllowMatchs \o PatternOf(s[k + 1], "ALLOW") /\ DenyMatchs' = DenyMatchs \o PatternOf(s[k + 1], "DENY")
  <2>1. AllowMatchs \o <<>> = AllowMatchs /\ DenyMatchs \o <<>> = DenyMatchs
    BY ConcatEmptySeq DEF LoadTypes
  <2>2. Patterns("?") = <<>>
    BY DEF Patterns
  <2>3. PatternOf(s[k + 1], "ALLOW") = <<>>
    BY <1>11, <2>2 DEF PatternOf
  <2>4. CASE s[k + 1][1] = "ALLOW"
    <3>1. PatternOf(s[k + 1], "DENY") = <<>> /\ Patterns(Value) = <<>>
      BY <1>10, <1>11, <2>2, <2>4 DEF PatternOf
    <3> QED BY <1>1, <2>1, <2>3, <3>1
  <2>5. CASE s[k + 1][1] = "DENY"
    <3>1. PatternOf(s[k + 1], "DENY") = Patterns(Value)
      BY <1>10, <2>5 DEF PatternOf
    <3> QED BY <1>1, <2>1, <2>3, <3>1, Zenon
  <2> QED BY <1>1, <1>10, <2>4, <2>5
<1>13. InRule(n, r, k + 1, tail)'
  BY <1>1, <1>5, <1>7, <1>9, <1>10, <1>12, InRuleAcl, Zenon
<1>14. tail = (<<Mark("}")>> \o InGroup(n, r))'
  BY <1>1, <1>6 DEF InGroup, YamlLeft, YamlTail
<1>15. MainSoFar(Kept(doc))' /\ ~is_dir_rule'
  BY <1>1, <1>2 DEF MainSoFar, YamlAtRule
<1>16. YamlAtRule'
  BY <1>1, <1>8, <1>13, <1>14, <1>15 DEF YamlAtRule
<1>17. Outcome'
  BY <1>1, GoesOn
<1> QED BY <1>16, <1>17 DEF YamlLoading

LEMMA YamlAclRefusedStep ==
  ASSUME LoadTypes, Plain(doc), YamlLoading, YamlAclRefused
  PROVE  FALSE
<1>1. at = "rule" /\ Next1("item") /\ Key \in {"ALLOW", "DENY"} /\ Value \in NotTwo
  BY DEF YamlAclRefused
<1>2. YamlAtRule
  BY <1>1 DEF YamlLoading, YamlAtStart, YamlAtMain, YamlAtGroup, YamlAtEnd
<1>3. PICK n \in 1 .. Len(doc.groups) : \E r \in 1 .. Len(doc.groups[n].rules) :
        \E k \in 0 .. Len(doc.groups[n].rules[r]) : YamlIn(n, r, k) /\ k < Len(doc.groups[n].rules[r])
  BY <1>1, <1>2, YamlRuleIs
<1>4. PICK r \in 1 .. Len(doc.groups[n].rules) :
        \E k \in 0 .. Len(doc.groups[n].rules[r]) : YamlIn(n, r, k) /\ k < Len(doc.groups[n].rules[r])
  BY <1>3
<1>5. PICK k \in 0 .. Len(doc.groups[n].rules[r]) : YamlIn(n, r, k) /\ k < Len(doc.groups[n].rules[r])
  BY <1>4
<1>6. PICK tail \in Seq(Token) : tail = <<Mark("}")>> \o InGroup(n, r) /\ InRule(n, r, k, tail)
  BY <1>5 DEF YamlIn
<1>7. PICK s \in Seq(Entry) : s = doc.groups[n].rules[r]
  BY DocType DEF LoadTypes
<1>8. Key = s[k + 1][1] /\ Value = s[k + 1][2]
  BY <1>5, <1>6, <1>7, InRuleGoes, KeyIs
<1>9. /\ s[k + 1][1] = "ALLOW" => s[k + 1][2] = "?"
      /\ s[k + 1][1] = "DENY" => s[k + 1][2] \notin NotTwo
  BY <1>5, <1>7, PlainKey
<1>10. "?" \notin NotTwo
  BY DEF NotTwo
<1> QED BY <1>1, <1>8, <1>9, <1>10

LEMMA YamlRuleEndStep ==
  ASSUME LoadTypes, Outcome, form = "yaml", Plain(doc), YamlLoading, YamlRuleEnd
  PROVE  Outcome' /\ YamlLoading'
<1>1. /\ at = "rule" /\ Next1("}") /\ SetRule /\ at' = "group" /\ rest' = Tail(rest)
      /\ UNCHANGED <<doc, form, is_dir_rule, members, stop_plugin, freed, Config, result>>
  BY DEF YamlRuleEnd, SetRule, Read, inputVars, sectionVars
<1>2. YamlAtRule
  BY <1>1 DEF YamlLoading, YamlAtStart, YamlAtMain, YamlAtGroup, YamlAtEnd
<1>3. ~Next1("item")
  BY <1>1 DEF Next1
<1>4. PICK n \in 1 .. Len(doc.groups) : \E r \in 1 .. Len(doc.groups[n].rules) :
        \E k \in 0 .. Len(doc.groups[n].rules[r]) : YamlIn(n, r, k) /\ ~(k < Len(doc.groups[n].rules[r]))
  BY <1>2, <1>3, YamlRuleIs
<1>5. PICK r \in 1 .. Len(doc.groups[n].rules) :
        \E k \in 0 .. Len(doc.groups[n].rules[r]) : YamlIn(n, r, k) /\ ~(k < Len(doc.groups[n].rules[r]))
  BY <1>4
<1>6. PICK k \in 0 .. Len(doc.groups[n].rules[r]) : YamlIn(n, r, k) /\ ~(k < Len(doc.groups[n].rules[r]))
  BY <1>5
<1>7. PICK tail \in Seq(Token) : tail = <<Mark("}")>> \o InGroup(n, r) /\ InRule(n, r, k, tail)
  BY <1>6 DEF YamlIn
<1>8. rest = tail /\ RuleSoFar(doc.groups[n].rules[r])
  BY <1>6, <1>7, InRuleEnds
<1>9. is_dir_rule = doc.groups[n].dir
  BY <1>2, PlainIs, DocType, ZenonT(60) DEF YamlAtRule, LoadTypes
<1>10. RuledTo(<<n, r>>)'
  BY <1>1, <1>7, <1>8, <1>9, RuledGrows DEF InRule
<1>11. r \in 0 .. Len(doc.groups[n].rules)
  OBVIOUS
<1>12. rest' = InGroup(n, r)
  <2>1. PICK left \in Seq(Token), m \in Token : left = InGroup(n, r) /\ m = Mark("}")
    BY <1>11, YamlTypes, ItemType DEF LoadTypes
  <2>2. Tail(<<m>> \o left) = left
    BY FirstToken
  <2> QED BY <1>1, <1>7, <1>8, <2>1, <2>2
<1>13. InGroup(n, r)' = InGroup(n, r)
  BY <1>1 DEF InGroup, YamlLeft, YamlTail
<1>14. MainSoFar(Kept(doc))' /\ ~is_dir_rule'
  BY <1>1, <1>2 DEF MainSoFar, YamlAtRule
<1>15. YamlAtGroup'
  BY <1>1, <1>10, <1>11, <1>12, <1>13, <1>14 DEF YamlAtGroup
<1>16. Outcome'
  BY <1>1, GoesOn
<1> QED BY <1>15, <1>16 DEF YamlLoading

\* LoadYaml knows the binary mode at the end of an array when the main section comes first.
LEMMA BinaryKnown ==
  ASSUME LoadTypes, form = "yaml", Plain(doc), MainSoFar(Kept(doc))
  PROVE  members.binary <=> ~Listed
<1>1. doc.main \in Seq(Entry)
  BY DocType DEF LoadTypes
<1>2. members = MeantMembers(Prefix(doc.main, Kept(doc)))
  BY DEF MainSoFar
<1>3. CASE doc.main_last
  <2>1. Prefix(doc.main, Kept(doc)) = <<>>
    BY <1>1, <1>3, PrefixEnds DEF Kept
  <2>2. members = NoMembers
    BY <1>2, <2>1, MembersStart
  <2>3. ~NoMembers.binary
    BY DEF NoMembers
  <2> QED BY <1>3, <2>2, <2>3, PlainIs DEF Listed
<1>4. CASE ~doc.main_last
  <2>1. Prefix(doc.main, Kept(doc)) = doc.main
    BY <1>1, <1>4, PrefixEnds DEF Kept
  <2> QED BY <1>2, <2>1 DEF Listed
<1> QED BY <1>3, <1>4

LEMMA YamlRulesEndStep ==
  ASSUME LoadTypes, Outcome, form = "yaml", Plain(doc), YamlLoading, YamlRulesEnd
  PROVE  Outcome' /\ YamlLoading'
<1>1. /\ at = "group" /\ Next1("]") /\ at' = "main" /\ rest' = Tail(rest)
      /\ UNCHANGED <<doc, form, is_dir_rule, Config, result>>
  BY DEF YamlRulesEnd, Read, inputVars, sectionVars
<1>2. YamlAtGroup
  BY <1>1 DEF YamlLoading, YamlAtStart, YamlAtMain, YamlAtRule, YamlAtEnd
<1>3. PICK n \in 1 .. Len(doc.groups) : \E r \in 0 .. Len(doc.groups[n].rules) : rest = InGroup(n, r) /\ RuledTo(<<n, r>>)
  BY <1>2 DEF YamlAtGroup
<1>4. PICK r \in 0 .. Len(doc.groups[n].rules) : rest = InGroup(n, r) /\ RuledTo(<<n, r>>)
  BY <1>3
<1>5. r = Len(doc.groups[n].rules) /\ Tail(rest) = YamlLeft(n)
  <2>1. ~Next1("{") /\ doc \in Docs
    BY <1>1 DEF Next1, LoadTypes
  <2> QED BY <1>4, <2>1, InGroupIs
<1>6. Ruled(Places(doc, n))
  <2>1. PlacesTo(doc, n, r) = Places(doc, n)
    BY <1>5, PlacesStep DEF LoadTypes
  <2> QED BY <1>4, <2>1 DEF RuledTo
<1>7. InitializeOutputFiles(RuleMap)
  <2>1. InitializeOutputFiles(MeantRules(doc, n))
    BY PlainIs
  <2> QED BY <1>6, <2>1, OutputsMeant DEF MeantRules
<1>8. RuleMap' = CheckBinaryMode(RuleMap) /\ UNCHANGED <<members, stop_plugin, freed>>
  BY <1>7 DEF YamlRulesEnd
<1>9. MainSoFar(Kept(doc)) /\ MainSoFar(Kept(doc))'
  <2>1. MainSoFar(Kept(doc))
    BY <1>2 DEF YamlAtGroup
  <2> QED BY <1>1, <1>8, <2>1 DEF MainSoFar
<1>10. Listed' = Listed
  BY <1>1 DEF Listed
<1>11. Ruled(Places(doc, n))' /\ Stripped'
  <2>1. CASE Listed
    <3>1. ~members.binary
      BY <1>9, <2>1, BinaryKnown
    <3>2. RuleMap' = RuleMap
      BY <1>8, <3>1 DEF CheckBinaryMode
    <3>3. Ruled(Places(doc, n))'
      BY <1>1, <1>6, <1>8, <3>2, RuledStays
    <3> QED BY <1>10, <2>1, <3>3 DEF Stripped
  <2>2. CASE ~Listed
    <3>1. members.binary
      BY <1>9, <2>2, BinaryKnown
    <3>2. RuleMap' = WithoutMatching(RuleMap)
      BY <1>8, <3>1 DEF CheckBinaryMode
    <3>3. WithoutMatching(RuleMap') = RuleMap'
      BY <3>2, StripTwice
    <3>4. WithoutMatching(Named(RuleMap, stop_plugin)) = RulesAt(doc, Places(doc, n), TRUE)
      BY <1>6, <2>2 DEF Ruled
    <3>5. WithoutMatching(Named(RuleMap', stop_plugin')) = WithoutMatching(Named(RuleMap, stop_plugin))
      BY <1>8, <3>2, NamedStripped, StripTwice
    <3>6. Ruled(Places(doc, n))'
      BY <1>1, <1>10, <2>2, <3>4, <3>5 DEF Ruled
    <3> QED BY <3>3, <3>6 DEF Stripped
  <2> QED BY <2>1, <2>2
<1>12. YamlLeft(n)' = YamlLeft(n)
  BY <1>1 DEF YamlLeft, YamlTail
<1>13. AtArrays(n)'
  BY <1>1, <1>5, <1>9, <1>11, <1>12 DEF AtArrays
<1>14. n \in 0 .. Len(doc.groups)
  OBVIOUS
<1>15. YamlAtMain'
  BY <1>1, <1>11, <1>13, <1>14 DEF YamlAtMain
<1>16. Outcome'
  BY <1>1, <1>8, GoesOn
<1> QED BY <1>15, <1>16 DEF YamlLoading

LEMMA YamlEndStep ==
  ASSUME LoadTypes, Outcome, form = "yaml", Plain(doc), YamlLoading, YamlEnd
  PROVE  Outcome' /\ YamlLoading'
<1>1. at = "top" /\ rest = <<>> /\ Load /\ UNCHANGED <<members, RuleMap, stop_plugin, freed>>
  BY DEF YamlEnd, keptVars
<1>2. doc \in Docs /\ ~doc.twice /\ Len(doc.groups) \in Nat
  BY PlainIs, DocType DEF LoadTypes
<1>3. YamlAtEnd
  <2>1. ~YamlAtStart
    BY <1>1, <1>2, YamlTextIs DEF YamlAtStart
  <2> QED BY <1>1, <2>1 DEF YamlLoading, YamlAtMain, YamlAtGroup, YamlAtRule
<1>4. /\ MainSoFar(Len(doc.main)) /\ MembersAgree(members) /\ Ruled(Places(doc, Len(doc.groups))) /\ Stripped
  BY <1>3 DEF YamlAtEnd
<1>5. InitializeOutputFiles(RuleMap)
  <2>1. InitializeOutputFiles(RuleMap) <=> InitializeOutputFiles(MeantRules(doc, Len(doc.groups)))
    BY <1>4, OutputsMeant DEF MeantRules
  <2>2. CASE Len(doc.groups) = 0
    <3>1. MeantRules(doc, Len(doc.groups)) = NoRules
      BY <1>2, <2>2, PlacesStep, NoRule DEF MeantRules
    <3>2. InitializeOutputFiles(NoRules)
      BY DEF InitializeOutputFiles, NoRules
    <3> QED BY <2>1, <3>1, <3>2
  <2>3. CASE Len(doc.groups) # 0
    <3>1. Len(doc.groups) \in 1 .. Len(doc.groups)
      BY <1>2, <2>3
    <3> QED BY <2>1, <3>1, PlainIs
  <2> QED BY <2>2, <2>3
<1>6. MayLoad(doc)
  BY <1>2, <1>4, <1>5, MayLoadIs
<1>7. Outcome' /\ at' = "end"
  BY <1>1, <1>4, <1>6, AllLoaded
<1> QED BY <1>7 DEF YamlLoading

LEMMA LoadYamlStep ==
  ASSUME LoadTypes, Outcome, Plain(doc), YamlLoading, LoadYaml
  PROVE  Outcome' /\ YamlLoading'
BY SMTT(40), YamlMainStep, YamlMainKeyStep, YamlMainRefusedStep, YamlMainEndStep, YamlRulesStep, YamlRuleStep, YamlRuleKeyStep,
   YamlRuleAclStep, YamlAclRefusedStep, YamlRuleEndStep, YamlRulesEndStep, YamlEndStep DEF LoadYaml

-----------------------------------------------------------------------------
(* The theorems.                                                           *)

\* The whole text of an INI file.
LEMMA IniTextIs ==
  ASSUME doc \in Docs
  PROVE  /\ AsIni(doc) \in Seq(Token)
         /\ AsIni(doc) = IF doc.main_last
                           THEN IniLeft(doc, <<0, 0>>) \o (MainSec(doc) \o Again(doc, MainSec(doc)))
                           ELSE MainSec(doc) \o (IniLeft(doc, <<0, 0>>) \o Again(doc, MainSec(doc)))
<1>1. PICK x \in Seq(Token) : x = FlattenSeq([n \in DOMAIN doc.groups |-> IniGroupText(doc.groups[n])]) /\ x = IniLeft(doc, <<0, 0>>)
  <2>1. IniGroups(doc) \in Seq(Seq(Token))
    BY IniTextType
  <2>2. From(IniGroups(doc), 0) = FlattenSeq(IniGroups(doc)) /\ FlattenSeq(IniGroups(doc)) \in Seq(Token)
    BY <2>1, FromStep, FlattenType
  <2> QED BY <2>2 DEF IniGroups, IniLeft
<1>2. PICK m \in Seq(Token), again \in Seq(Token) : m = MainSec(doc) /\ again = Again(doc, MainSec(doc))
  <2>1. <<>> \in Seq(Token)
    OBVIOUS
  <2>2. MainSec(doc) \in Seq(Token)
    BY <2>1, MainSecFirst
  <2>3. Again(doc, MainSec(doc)) \in Seq(Token)
    BY <2>1, <2>2 DEF Again
  <2> QED BY <2>2, <2>3
<1>3. AsIni(doc) = (IF doc.main_last THEN x \o m ELSE m \o x) \o again
  BY <1>1, <1>2 DEF AsIni
<1>4. (x \o m) \o again = x \o (m \o again) /\ (m \o x) \o again = m \o (x \o again)
  BY JoinAgain, Zenon
<1>5. m \o again \in Seq(Token) /\ x \o again \in Seq(Token)
  BY ConcatProperties
<1>6. x \o (m \o again) \in Seq(Token) /\ m \o (x \o again) \in Seq(Token)
  BY <1>5, ConcatProperties
<1> QED BY <1>1, <1>2, <1>3, <1>4, <1>6

LEMMA YamlTextWhole == ASSUME doc \in Docs PROVE AsYaml(doc) \in Seq(Token)
<1>1. PICK m \in Seq(Token), close \in Seq(Token), none \in Seq(Token) : m = <<Mark("main")>> /\ close = <<Mark("}")>> /\ none = <<>>
  <2>1. <<>> \in Seq(Token)
    OBVIOUS
  <2> QED BY <2>1, MarkSeq
<1>2. PICK i \in Seq(Token), sec \in Seq(Token) : i = Items(doc.main) /\ sec = MainSec(doc)
  BY <1>1, DocType, ItemsAll, MainSecFirst
<1>3. PICK x \in Seq(Token) : x = FlattenSeq([n \in DOMAIN doc.groups |-> YamlGroupText(doc.groups[n])])
  <2>1. YamlGroups(doc) \in Seq(Seq(Token))
    BY YamlTextType
  <2>2. FlattenSeq(YamlGroups(doc)) \in Seq(Token)
    BY <2>1, FromStep, FlattenType
  <2> QED BY <2>2 DEF YamlGroups
<1>4. PICK y \in Seq(Token) : y = IF doc.main_last THEN x \o i ELSE i \o x
  BY ConcatProperties
<1>5. PICK z \in Seq(Token) : z = Again(doc, MainSec(doc) \o <<Mark("}")>>)
  <2>1. sec \o close \in Seq(Token)
    BY ConcatProperties
  <2> QED BY <1>1, <1>2, <2>1 DEF Again
<1>6. m \o y \in Seq(Token) /\ (m \o y) \o close \in Seq(Token) /\ ((m \o y) \o close) \o z \in Seq(Token)
  BY ConcatProperties
<1> QED BY <1>1, <1>2, <1>3, <1>4, <1>5, <1>6 DEF AsYaml

\* The types at the start, in either form.
LEMMA TypesStart == Init => LoadTypes
<1> SUFFICES ASSUME Init PROVE LoadTypes
  OBVIOUS
<1>1. /\ doc \in Docs /\ form \in {"ini", "yaml"} /\ ~set_main_sec
      /\ rest = (IF form = "ini" THEN AsIni(doc) ELSE AsYaml(doc)) /\ RuleMap = NoRules /\ ~is_dir_rule
      /\ pTmpRule = NewRule /\ AllowMatchs = <<>> /\ DenyMatchs = <<>> /\ stop_plugin = <<>>
  BY DEF Init
<1>2. rest \in Seq(Token)
  BY <1>1, IniTextIs, YamlTextWhole
<1>3. <<>> \in Seq(Word) /\ Len(<<>>) = 0
  OBVIOUS
<1>4. MapType(RuleMap, stop_plugin)
  BY <1>1 DEF MapType, NoRules
<1>5. pTmpRule \in Rule /\ pTmpRule.pPlugin <= Len(stop_plugin)
  BY <1>1, <1>3, NewRuleType
<1> QED BY <1>1, <1>2, <1>3, <1>4, <1>5 DEF LoadTypes, Init

LEMMA LoadStarts == Init => LoadInv
<1> SUFFICES ASSUME Init, Sound PROVE LoadTypes /\ Outcome /\ IF form = "ini" THEN IniLoading ELSE YamlLoading
  BY DEF LoadInv
<1>1. /\ doc \in Docs /\ form \in {"ini", "yaml"} /\ at = "top" /\ ~set_main_sec /\ members = NoMembers
      /\ rest = (IF form = "ini" THEN AsIni(doc) ELSE AsYaml(doc)) /\ RuleMap = NoRules /\ ~is_dir_rule
      /\ pTmpRule = NewRule /\ AllowMatchs = <<>> /\ DenyMatchs = <<>> /\ stop_plugin = <<>> /\ freed = {}
      /\ ~Config /\ result = "loading"
  BY DEF Init
<1>4. LoadTypes
  BY TypesStart
<1>5. Outcome
  BY <1>1 DEF Outcome, Frees
<1>6. MainSoFar(0)
  <2>1. Prefix(doc.main, 0) = <<>>
    BY <1>1, DocType, PrefixEnds
  <2>2. members = MeantMembers(Prefix(doc.main, 0))
    BY <1>1, <2>1, MembersStart
  <2> QED BY <2>2 DEF MainSoFar
<1>7. Ruled({})
  <2>1. Named(RuleMap, stop_plugin) = NoRules /\ WithoutMatching(NoRules) = NoRules
    BY <1>1 DEF Named, NoRules, WithoutMatching
  <2> QED BY <2>1, NoRule DEF Ruled
<1>8. CASE form = "ini"
  <2>1. RuledTo(<<0, 0>>) /\ <<0, 0>> \in Spots(doc)
    <3>1. PlacesTo(doc, 0, 0) = {}
      BY DEF PlacesTo, Places
    <3> QED BY <1>7, <3>1 DEF RuledTo, Spots
  <2>2. CASE doc.main_last
    <3>1. rest = IniLeft(doc, <<0, 0>>) \o IniTail
      BY <1>1, <1>8, <2>2, IniTextIs DEF IniTail
    <3>2. IniAtTop
      BY <1>1, <1>6, <2>1, <3>1 DEF IniAtTop
    <3> QED BY <1>4, <1>5, <1>8, <3>2 DEF IniLoading
  <2>3. CASE ~doc.main_last
    <3>1. rest = MainSec(doc) \o (IniLeft(doc, <<0, 0>>) \o Again(doc, MainSec(doc)))
      BY <1>1, <1>8, <2>3, IniTextIs
    <3>2. IniAtStart
      BY <1>1, <1>6, <2>1, <2>3, <3>1 DEF IniAtStart
    <3> QED BY <1>4, <1>5, <1>8, <3>2 DEF IniLoading
  <2> QED BY <2>2, <2>3
<1>9. CASE form = "yaml"
  <2>1. Stripped
    BY <1>1 DEF Stripped, WithoutMatching, NoRules
  <2>2. YamlAtStart
    BY <1>1, <1>6, <1>7, <1>9, <2>1 DEF YamlAtStart
  <2> QED BY <1>4, <1>5, <1>9, <2>2 DEF YamlLoading
<1> QED BY <1>1, <1>8, <1>9

LEMMA LoadStep == LoadInv /\ [Next]_vars => LoadInv'
<1> SUFFICES ASSUME LoadInv, [Next]_vars, Sound'
             PROVE  LoadTypes' /\ Outcome' /\ (IF form = "ini" THEN IniLoading ELSE YamlLoading)'
  BY DEF LoadInv
<1>1. doc' = doc /\ form' = form
  BY DEF Next, LoadIni, LoadYaml, vars, inputVars, IniMain, IniSecondMain, IniMainKey, IniMainRefused, IniMainEnd, IniRule,
         IniRuleKey, IniRuleAcl, IniRuleEnd, IniEnd, YamlMain, YamlMainKey, YamlMainRefused, YamlMainEnd, YamlRules,
         YamlRule, YamlRuleKey, YamlRuleAcl, YamlAclRefused, YamlRuleEnd, YamlRulesEnd, YamlEnd, MainKey, RuleKey,
         Fail, Load
<1>2. Sound /\ LoadTypes /\ Outcome /\ IF form = "ini" THEN IniLoading ELSE YamlLoading
  BY <1>1 DEF Sound, LoadInv
<1>3. LoadTypes'
  BY <1>2, TypesStep
<1>4. CASE LoadIni
  <2>1. form = "ini"
    BY <1>4 DEF LoadIni
  <2> QED BY <1>1, <1>2, <1>3, <1>4, <2>1, LoadIniStep
<1>5. CASE LoadYaml
  <2>1. form = "yaml" /\ Plain(doc)
    BY <1>2, <1>5 DEF LoadYaml, Sound
  <2> QED BY <1>1, <1>2, <1>3, <1>5, <2>1, LoadYamlStep
<1>6. CASE UNCHANGED vars
  <2>1. /\ doc' = doc /\ form' = form /\ rest' = rest /\ at' = at /\ set_main_sec' = set_main_sec /\ members' = members
        /\ RuleMap' = RuleMap /\ is_dir_rule' = is_dir_rule /\ pTmpRule' = pTmpRule /\ AllowMatchs' = AllowMatchs
        /\ DenyMatchs' = DenyMatchs /\ stop_plugin' = stop_plugin /\ freed' = freed /\ Config' = Config /\ result' = result
    BY <1>6 DEF vars, inputVars, sectionVars, keptVars
  <2>2. Outcome'
    BY <1>2, <2>1, ZenonT(60) DEF Outcome, AsMeant, Frees, Loaded
  <2>3. (\A P : Ruled(P)' <=> Ruled(P)) /\ (\A s : RuledTo(s)' <=> RuledTo(s)) /\ (Stripped' <=> Stripped)
    BY <2>1 DEF RuledTo, Ruled, Stripped, Listed
  <2>4. \A k : MainSoFar(k)' <=> MainSoFar(k)
    BY <2>1 DEF MainSoFar
  <2>5. \A n, r, k, tail : InRule(n, r, k, tail)' <=> InRule(n, r, k, tail)
    <3>1. \A items : RuleSoFar(items)' <=> RuleSoFar(items)
      BY <2>1 DEF RuleSoFar
    <3> QED BY <2>1, <2>3, <3>1 DEF InRule
  <2>6. CASE form = "ini"
    <3>1. IniLoading
      BY <1>2, <2>6
    <3>2. IniTail' = IniTail
      BY <2>1 DEF IniTail
    <3>3. (IniAtStart' <=> IniAtStart) /\ (IniAtTop' <=> IniAtTop) /\ (IniAtMain' <=> IniAtMain)
      BY <2>1, <2>3, <2>4, <3>2 DEF IniAtStart, IniAtTop, IniAtMain
    <3>4. IniAtRule' <=> IniAtRule
      BY <2>1, <2>4, <2>5, <3>2 DEF IniAtRule
    <3> QED BY <1>3, <2>1, <2>2, <2>6, <3>1, <3>3, <3>4 DEF IniLoading
  <2>7. CASE form # "ini"
    <3>1. YamlLoading
      BY <1>2, <2>7
    <3>2. (\A n : YamlLeft(n)' = YamlLeft(n)) /\ \A n, r : InGroup(n, r)' = InGroup(n, r)
      BY <2>1 DEF InGroup, YamlLeft, YamlTail
    <3>3. (\A n : AtArrays(n)' <=> AtArrays(n)) /\ \A k : AtItems(k, rest)' <=> AtItems(k, rest)
      BY <2>1, <2>3, <2>4, <3>2 DEF AtArrays, AtItems
    <3>4. (YamlAtStart' <=> YamlAtStart) /\ (YamlAtMain' <=> YamlAtMain) /\ (YamlAtEnd' <=> YamlAtEnd)
      BY <2>1, <2>3, <2>4, <3>3 DEF YamlAtStart, YamlAtMain, YamlAtEnd
    <3>5. (YamlAtGroup' <=> YamlAtGroup) /\ (YamlAtRule' <=> YamlAtRule)
      BY <2>1, <2>3, <2>4, <2>5, <3>2 DEF YamlAtGroup, YamlAtRule
    <3> QED BY <1>3, <2>1, <2>2, <2>7, <3>1, <3>4, <3>5 DEF YamlLoading
  <2> QED BY <2>6, <2>7
<1> QED BY <1>4, <1>5, <1>6 DEF Next

\* What holds of the loaders at every step of the load.
THEOREM LoadInvariant == Spec => []LoadInv
BY LoadStarts, LoadStep, PTL DEF Spec

\* Whatever a configuration says, and in whatever order, LoadIni loads the
\* members and the rules it means, or refuses it and leaves no rule behind
\* (k2hftinfo.cc, K2hFtInfo::LoadIni); LoadYaml does the same for those it reads
\* as LoadIni does.
THEOREM WhatIsLoadedIsMeant == Spec => []LoadMatchesReference
<1>1. LoadInv => LoadMatchesReference
  BY DEF LoadInv, Outcome, LoadMatchesReference, Sound
<1> QED BY <1>1, LoadInvariant, PTL

-----------------------------------------------------------------------------
(* The plugins of the rules.                                               *)

\* No two rules have the same plugin, and none has a deleted one.
OwnPlugins(map, gone) ==
  /\ \A t \in DOMAIN map : map[t].pPlugin \notin gone
  /\ \A t, u \in DOMAIN map : map[t].pPlugin = map[u].pPlugin => t = u \/ map[t].pPlugin = NoPlugin

\* Nor has the rule that is read.
Apart(r, map, gone) ==
  /\ r.pPlugin \notin gone
  /\ \A t \in DOMAIN map : map[t].pPlugin = r.pPlugin => r.pPlugin = NoPlugin

PluginsInv ==
  /\ LoadTypes
  /\ OwnPlugins(RuleMap, freed)
  /\ freed \subseteq 1 .. Len(stop_plugin)
  /\ at = "rule" => Apart(pTmpRule, RuleMap, freed)

\* A rule that is put into the map has a plugin of its own.
LEMMA OwnPut ==
  ASSUME NEW map, NEW gone, NEW r, OwnPlugins(map, gone), Apart(r, map, gone)
  PROVE  OwnPlugins(PutRule(map, r), gone)
<1>1. PICK new : new = PutRule(map, r)
  OBVIOUS
<1>2. \A t \in DOMAIN new : (new[t] = r /\ t = r.TargetPath) \/ (t \in DOMAIN map /\ new[t] = map[t])
  BY <1>1 DEF PutRule
<1> QED BY <1>1, <1>2 DEF OwnPlugins, Apart

\* A Clean leaves no rule, and deletes plugins of the list.
LEMMA OwnClean ==
  ASSUME PluginsInv, Clean
  PROVE  OwnPlugins(RuleMap', freed') /\ freed' \subseteq 1 .. Len(stop_plugin')
<1>1. RuleMap' = NoRules /\ stop_plugin' = stop_plugin /\ freed' = freed \cup PluginsOf(RuleMap)
  BY DEF Clean
<1>2. \A t \in DOMAIN RuleMap : RuleMap[t].pPlugin \in Nat /\ RuleMap[t].pPlugin <= Len(stop_plugin)
  BY DEF PluginsInv, LoadTypes, MapType, Rule
<1>3. PluginsOf(RuleMap) \subseteq 1 .. Len(stop_plugin)
  BY <1>2, LenProperties DEF PluginsOf, NoPlugin, PluginsInv, LoadTypes
<1> QED BY <1>1, <1>3 DEF OwnPlugins, NoRules, PluginsInv

\* A key of a rule.
LEMMA OwnKey ==
  ASSUME PluginsInv, at = "rule", Next1("item"), RuleKey
  PROVE  OwnPlugins(RuleMap', freed') /\ freed' \subseteq 1 .. Len(stop_plugin') /\ Apart(pTmpRule', RuleMap', freed')
<1>1. /\ OwnPlugins(RuleMap, freed) /\ freed \subseteq 1 .. Len(stop_plugin) /\ Apart(pTmpRule, RuleMap, freed)
      /\ stop_plugin \in Seq(Word) /\ Len(stop_plugin) \in Nat /\ pTmpRule \in Rule /\ pTmpRule.pPlugin <= Len(stop_plugin)
      /\ \A t \in DOMAIN RuleMap : RuleMap[t].pPlugin \in Nat /\ RuleMap[t].pPlugin <= Len(stop_plugin)
      /\ Value \in Word /\ RuleMap' = RuleMap
  BY LenProperties, HeadType DEF PluginsInv, LoadTypes, MapType, Rule, Next1, RuleKey
<1>2. CASE Key = "PLUGIN"
  <2>1. PluginKey(Value)
    BY <1>2 DEF RuleKey
  <2>2. freed' = freed \cup ({pTmpRule.pPlugin} \ {NoPlugin})
    BY <2>1 DEF PluginKey
  <2>3. OwnPlugins(RuleMap, freed')
    BY <1>1, <2>2 DEF OwnPlugins, Apart
  <2>4. freed' \subseteq 1 .. Len(stop_plugin)
    <3>1. pTmpRule.pPlugin \in Nat
      BY <1>1 DEF Rule
    <3>2. pTmpRule.pPlugin # NoPlugin => pTmpRule.pPlugin \in 1 .. Len(stop_plugin)
      BY <1>1, <3>1 DEF NoPlugin
    <3> QED BY <1>1, <2>2, <3>2
  <2>5. CASE Value = ""
    <3>1. pTmpRule'.pPlugin = 0 /\ stop_plugin' = stop_plugin
      BY <1>1, <2>1, <2>5 DEF PluginKey, NoPlugin, Rule
    <3>2. Apart(pTmpRule', RuleMap, freed')
      BY <2>4, <3>1 DEF Apart, NoPlugin
    <3> QED BY <1>1, <2>3, <2>4, <3>1, <3>2
  <2>6. CASE Value # ""
    <3>1. pTmpRule'.pPlugin = Len(stop_plugin) + 1 /\ stop_plugin' = Append(stop_plugin, Value)
      BY <1>1, <2>1, <2>6 DEF PluginKey, Rule
    <3>2. Len(stop_plugin') = Len(stop_plugin) + 1
      BY <1>1, <3>1, AppendProperties
    <3>3. Apart(pTmpRule', RuleMap, freed')
      BY <1>1, <2>4, <3>1 DEF Apart
    <3> QED BY <1>1, <2>3, <2>4, <3>2, <3>3
  <2> QED BY <2>5, <2>6
<1>3. CASE Key # "PLUGIN"
  <2>1. pTmpRule' = RuleValue(pTmpRule, Key, Value) /\ stop_plugin' = stop_plugin /\ freed' = freed
    BY <1>3 DEF RuleKey
  <2>2. pTmpRule'.pPlugin = pTmpRule.pPlugin
    BY <1>1, <2>1, RuleValueType
  <2> QED BY <1>1, <2>1, <2>2 DEF Apart
<1> QED BY <1>2, <1>3

\* The end of a rule.
LEMMA OwnSetRule ==
  ASSUME PluginsInv, at = "rule", SetRule
  PROVE  OwnPlugins(RuleMap', freed')
<1>1. Finished.pPlugin = pTmpRule.pPlugin
  BY DEF Finished, PluginsInv, LoadTypes, Rule
<1>2. PICK r : r = Finished
  OBVIOUS
<1>3. Apart(r, RuleMap, freed)
  BY <1>1, <1>2 DEF Apart, PluginsInv
<1>4. RuleMap' = PutRule(RuleMap, r) /\ freed' = freed
  BY <1>2 DEF SetRule
<1> QED BY <1>3, <1>4, OwnPut DEF PluginsInv

\* CheckBinaryMode looks at no plugin.
LEMMA OwnBinary ==
  ASSUME PluginsInv, RuleMap' = CheckBinaryMode(RuleMap), UNCHANGED <<stop_plugin, freed>>
  PROVE  OwnPlugins(RuleMap', freed')
<1>1. \A r \in Rule : [r EXCEPT !.MatchingList = <<>>].pPlugin = r.pPlugin
  BY DEF Rule
<1>2. /\ DOMAIN WithoutMatching(RuleMap) = DOMAIN RuleMap
      /\ \A t \in DOMAIN RuleMap : WithoutMatching(RuleMap)[t].pPlugin = RuleMap[t].pPlugin
  BY <1>1 DEF WithoutMatching, PluginsInv, LoadTypes, MapType
<1>3. OwnPlugins(WithoutMatching(RuleMap), freed)
  BY <1>2 DEF OwnPlugins, PluginsInv
<1> QED BY <1>3 DEF CheckBinaryMode, PluginsInv

LEMMA PluginsStep == PluginsInv /\ [Next]_vars => PluginsInv'
<1> SUFFICES ASSUME PluginsInv, [Next]_vars PROVE PluginsInv'
  OBVIOUS
<1>1. LoadTypes'
  BY TypesStep DEF PluginsInv
<1>2. CASE Fail
  <2>1. Clean /\ at' = "end"
    BY <1>2 DEF Fail
  <2> QED BY <1>1, <2>1, OwnClean DEF PluginsInv
<1>3. CASE at = "rule" /\ Next1("item") /\ RuleKey
  <2>1. at' = at
    BY <1>3 DEF RuleKey
  <2> QED BY <1>1, <1>3, OwnKey DEF PluginsInv
<1>4. CASE at = "rule" /\ SetRule /\ at' # "rule"
  <2>1. UNCHANGED <<stop_plugin, freed>>
    BY <1>4 DEF SetRule
  <2> QED BY <1>1, <1>4, <2>1, OwnSetRule DEF PluginsInv
<1>5. CASE RuleMap' = CheckBinaryMode(RuleMap) /\ UNCHANGED <<stop_plugin, freed>> /\ at' # "rule"
  <2>1. OwnPlugins(RuleMap', freed')
    BY <1>5, OwnBinary
  <2> QED BY <1>1, <1>5, <2>1 DEF PluginsInv
<1>6. CASE Clean /\ at' # "rule"
  BY <1>1, <1>6, OwnClean DEF PluginsInv
<1>7. CASE UNCHANGED <<RuleMap, stop_plugin, freed>> /\ (at' # "rule" \/ pTmpRule' = NewRule)
  <2>1. 0 \notin freed
    BY <1>7 DEF PluginsInv
  <2>2. pTmpRule' = NewRule => Apart(pTmpRule', RuleMap, freed)
    BY <2>1, NewRuleType DEF Apart, NoPlugin
  <2> QED BY <1>1, <1>7, <2>2 DEF PluginsInv
<1>8. CASE UNCHANGED <<RuleMap, stop_plugin, freed, at, pTmpRule>>
  BY <1>1, <1>8 DEF PluginsInv
<1>9. CASE LoadIni
  <2>1. IniRuleKey => at = "rule" /\ Next1("item") /\ RuleKey
    BY DEF IniRuleKey
  <2>2. IniRuleEnd => at = "rule" /\ SetRule /\ at' # "rule"
    BY DEF IniRuleEnd
  <2>3. IniEnd => Fail \/ (RuleMap' = CheckBinaryMode(RuleMap) /\ UNCHANGED <<stop_plugin, freed>> /\ at' # "rule")
    BY DEF IniEnd, Load
  <2>4. IniMain \/ IniMainKey \/ IniRule \/ IniRuleAcl =>
          UNCHANGED <<RuleMap, stop_plugin, freed>>
          /\ (at' # "rule" \/ pTmpRule' = NewRule \/ UNCHANGED <<at, pTmpRule>>)
    BY DEF IniMain, IniMainKey, MainKey, IniRule, NewSection, IniRuleAcl, keptVars, sectionVars
  <2>5. IniMainEnd => Fail \/ (UNCHANGED <<RuleMap, stop_plugin, freed>> /\ at' # "rule")
    BY DEF IniMainEnd, keptVars
  <2>6. IniSecondMain \/ IniMainRefused => Fail
    BY DEF IniSecondMain, IniMainRefused
  <2> QED BY <1>2, <1>3, <1>4, <1>5, <1>7, <1>8, <1>9, <2>1, <2>2, <2>3, <2>4, <2>5, <2>6 DEF LoadIni
<1>10. CASE LoadYaml
  <2>1. YamlRuleKey => at = "rule" /\ Next1("item") /\ RuleKey
    BY DEF YamlRuleKey
  <2>2. YamlRuleEnd => at = "rule" /\ SetRule /\ at' # "rule"
    BY DEF YamlRuleEnd
  <2>3. YamlRulesEnd => (Clean \/ (RuleMap' = CheckBinaryMode(RuleMap) /\ UNCHANGED <<stop_plugin, freed>>)) /\ at' # "rule"
    BY DEF YamlRulesEnd
  <2>4. YamlMain \/ YamlMainKey \/ YamlRules \/ YamlRule \/ YamlRuleAcl \/ YamlEnd =>
          UNCHANGED <<RuleMap, stop_plugin, freed>>
          /\ (at' # "rule" \/ pTmpRule' = NewRule \/ UNCHANGED <<at, pTmpRule>>)
    BY DEF YamlMain, YamlMainKey, MainKey, YamlRules, YamlRule, NewSection, YamlRuleAcl, YamlEnd, Load, keptVars, sectionVars
  <2>5. YamlMainEnd => Fail \/ (UNCHANGED <<RuleMap, stop_plugin, freed>> /\ at' # "rule")
    BY DEF YamlMainEnd, keptVars
  <2>6. YamlMainRefused \/ YamlAclRefused => Fail
    BY DEF YamlMainRefused, YamlAclRefused
  <2> QED BY <1>2, <1>3, <1>4, <1>5, <1>6, <1>7, <1>8, <1>10, <2>1, <2>2, <2>3, <2>4, <2>5, <2>6 DEF LoadYaml
<1>11. CASE UNCHANGED vars
  BY <1>8, <1>11 DEF vars, keptVars, sectionVars
<1> QED BY <1>9, <1>10, <1>11 DEF Next

LEMMA PluginsStart == Init => PluginsInv
<1> SUFFICES ASSUME Init PROVE PluginsInv
  OBVIOUS
<1>1. LoadTypes
  BY TypesStart
<1> QED BY <1>1 DEF Init, PluginsInv, OwnPlugins, NoRules

\* Whatever a configuration says, and in either form, no rule that is loaded has
\* a deleted plugin or one of another rule, although a second PLUGIN and the
\* Clean that LoadYaml goes on after delete plugins during the load; and the
\* deleted ones that the plugin manager starts are those a rule has replaced by
\* another (LoadIni, and LoadYaml for those configurations that it reads alike).
THEOREM RulePluginsAreLive == Spec => []PluginsLive
<1>1. Spec => []PluginsInv
  BY PluginsStart, PluginsStep, PTL DEF Spec
<1>2. PluginsInv /\ LoadInv => PluginsLive
  BY DEF PluginsInv, OwnPlugins, LoadInv, Outcome, Frees, PluginsLive, Sound
<1> QED BY <1>1, <1>2, LoadInvariant, PTL

=============================================================================
