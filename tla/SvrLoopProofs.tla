---------------------------- MODULE SvrLoopProofs ----------------------------
(***************************************************************************)
(* Proofs about LineAssembly and SvrLoop, for every set of configurations, *)
(* every size of the buffer and of the blocks, and any number of bytes.    *)
(***************************************************************************)
EXTENDS SvrLoop, SequenceFacts

USE ConfAssumption, SizeAssumption

-----------------------------------------------------------------------------
(* Helpers.                                                                *)

\* A set of places in a sequence has a first one.
LEMMA MinType ==
  ASSUME NEW n \in Nat, NEW I \in SUBSET (1 .. n), I # {}
  PROVE  Min(I) \in I /\ \A i \in I : Min(I) <= i
<1>1. \E x \in I : \A y \in I : x <= y
  BY LeastNumber
<1> QED BY <1>1 DEF Min

LEMMA NextEndType ==
  ASSUME data \in Seq(Bytes)
  PROVE  NextEnd \in 0 .. Len(data)
<1> DEFINE I == {i \in 1 .. Len(data) : data[i] \in {"LF", "CR", "NUL"}}
<1>1. Len(data) \in Nat
  BY LenProperties
<1>2. NextEnd = IF I # {} THEN Min(I) ELSE 0
  BY DEF NextEnd, SelectInSeq
<1>3. I # {} => Min(I) \in I
  BY <1>1, MinType
<1> QED BY <1>1, <1>2, <1>3

LEMMA DropType ==
  ASSUME NEW S, NEW s \in Seq(S), NEW n \in 0 .. Len(s)
  PROVE  Drop(s, n) \in Seq(S) /\ Len(Drop(s, n)) = Len(s) - n
<1>1. Len(s) \in Nat /\ n \in Nat /\ n + 1 \in Nat
  BY LenProperties
<1> QED BY <1>1, SubSeqType DEF Drop

\* The room that AppendStringBuff makes is enough for what it appends.
LEMMA AppendStringBuffEffect ==
  ASSUME AssemblyTypeOK, NEW part \in Seq(Bytes), NEW check, AppendStringBuff(part, check)
  PROVE  /\ cache' \in Seq(Bytes) /\ size' \in Nat
         /\ Len(cache') = Len(cache) + Len(part) \/ (check /\ Len(cache') = Len(cache) + Len(part) + 1)
         /\ Len(cache) <= size => Len(cache') <= size'
<1> DEFINE whole == cache \o part
<1>1. cache \in Seq(Bytes) /\ size \in Nat
  BY DEF AssemblyTypeOK
<1>2. whole \in Seq(Bytes) /\ Len(whole) = Len(cache) + Len(part) /\ Len(cache) \in Nat /\ Len(part) \in Nat
  BY <1>1, ConcatProperties, LenProperties
<1>3. "NUL" \in Bytes
  BY DEF Bytes
<1>4. Append(whole, "NUL") \in Seq(Bytes) /\ Len(Append(whole, "NUL")) = Len(whole) + 1
  BY <1>2, <1>3, AppendProperties
<1>5. cache' = whole \/ (check /\ cache' = Append(whole, "NUL"))
  BY DEF AppendStringBuff
<1>6. size' = Grow(Len(part))
  BY DEF AppendStringBuff
<1>7. size' \in Nat /\ size <= size' /\ (Len(cache) <= size => Len(cache) + Len(part) + 1 <= size')
  BY <1>1, <1>2, <1>6 DEF Grow, Larger
<1> HIDE DEF whole
<1>8. CASE cache' = whole
  BY <1>1, <1>2, <1>7, <1>8
<1>9. CASE check /\ cache' = Append(whole, "NUL")
  <2>1. cache' \in Seq(Bytes) /\ Len(cache') = Len(cache) + Len(part) + 1
    BY <1>2, <1>4, <1>9
  <2> QED BY <1>2, <1>7, <1>9, <2>1
<1> QED BY <1>5, <1>8, <1>9

-----------------------------------------------------------------------------
(* The assembly of lines.                                                  *)

\* The bytes that are not in a line yet, and the line they may be part of.
Waiting == Len(data) + IF cache = <<>> THEN 0 ELSE 1

\* There are no more lines than bytes.
Counts ==
  /\ Len(taken) + Waiting <= Len(written)
  /\ Len(written) <= MaxBytes
  /\ Len(stack) <= Len(taken)

\* A block that is not being taken has room for another byte.
BlockOpen == conf.binmode /\ call # "line" => Len(cache) < BinaryBuffLimit

AssemblyInv == AssemblyTypeOK /\ BufferHolds /\ Counts /\ BlockOpen

LEMMA Lengths ==
  ASSUME AssemblyTypeOK
  PROVE  /\ Len(data) \in Nat /\ Len(cache) \in Nat /\ Len(stack) \in Nat /\ Len(written) \in Nat /\ Len(taken) \in Nat
         /\ Len(data) = 0 <=> data = <<>>
         /\ Len(cache) = 0 <=> cache = <<>>
<1>1. /\ data \in Seq(Bytes) /\ cache \in Seq(Bytes) /\ stack \in Seq(Line) /\ taken \in Seq(Line)
      /\ written \in Seq([byte : Bytes, first : BOOLEAN])
  BY DEF AssemblyTypeOK
<1> QED BY <1>1, LenProperties, EmptySeq

LEMMA InitAssembly == AssemblyInit => AssemblyInv
<1> SUFFICES ASSUME AssemblyInit PROVE AssemblyInv
  OBVIOUS
<1>1. Len(<<>>) = 0 /\ \A S : <<>> \in Seq(S)
  BY EmptySeq
<1>2. AssemblyTypeOK
  BY <1>1 DEF AssemblyInit, AssemblyTypeOK
<1>3. BufferHolds /\ Counts /\ BlockOpen
  BY <1>1 DEF AssemblyInit, BufferHolds, Counts, Waiting, BlockOpen
<1> QED BY <1>2, <1>3 DEF AssemblyInv

LEMMA WriteAssembles ==
  ASSUME AssemblyInv, NEW bytes \in BoundedSeq(Bytes, MaxBytes) \ {<<>>}, Write(bytes)
  PROVE  AssemblyInv'
<1> USE DEF AssemblyInv
<1>1. bytes \in Seq(Bytes) /\ Len(bytes) \in Nat
  BY DEF BoundedSeq, SeqOf
<1> DEFINE news == [i \in DOMAIN bytes |-> [byte |-> bytes[i], first |-> i = 1]]
<1>2. news \in Seq([byte : Bytes, first : BOOLEAN]) /\ Len(news) = Len(bytes)
  <2>1. DOMAIN bytes = 1 .. Len(bytes) /\ \A i \in 1 .. Len(bytes) : bytes[i] \in Bytes
    BY <1>1, LenProperties, ElementOfSeq
  <2>2. news \in [1 .. Len(bytes) -> [byte : Bytes, first : BOOLEAN]]
    BY <2>1
  <2> HIDE DEF news
  <2> QED BY <1>1, <2>2, SeqOfFunction
<1>3. written' = written \o news /\ data = <<>> /\ data' = bytes /\ call = "none" /\ call' = "push"
  BY DEF Write, AssemblyTypeOK
<1>4. /\ written' \in Seq([byte : Bytes, first : BOOLEAN])
      /\ Len(written') = Len(written) + Len(bytes) /\ Len(written') <= MaxBytes
  <2>1. written \in Seq([byte : Bytes, first : BOOLEAN])
    BY DEF AssemblyTypeOK
  <2>2. written' \in Seq([byte : Bytes, first : BOOLEAN]) /\ Len(written') = Len(written) + Len(news)
    BY <1>2, <1>3, <2>1, ConcatProperties
  <2> QED BY <1>2, <2>2 DEF Write
<1>5. AssemblyTypeOK'
  BY <1>1, <1>3, <1>4, Lengths DEF Write, AssemblyTypeOK
<1>6. Counts'
  BY <1>1, <1>3, <1>4, Lengths DEF Write, Counts, Waiting
<1>7. BufferHolds' /\ BlockOpen'
  BY <1>3 DEF Write, BufferHolds, BlockOpen
<1> QED BY <1>5, <1>6, <1>7

LEMMA ForcePushAssembles ==
  ASSUME AssemblyInv, ForcePush
  PROVE  AssemblyInv'
<1> USE DEF AssemblyInv
<1>1. /\ call = "none" /\ cache # <<>> /\ call' = "line" /\ forced' = forced \cup {Len(written)}
      /\ UNCHANGED <<conf, data, stack, written, taken>>
  BY DEF ForcePush
<1>2. cache' \in Seq(Bytes) /\ size' \in Nat /\ Len(cache') > 0 /\ BufferHolds'
  <2>1. CASE conf.binmode
    BY <2>1, <1>1, Lengths DEF ForcePush, AssemblyTypeOK, BufferHolds
  <2>2. CASE ~conf.binmode
    <3>1. AppendStringBuff(<<>>, TRUE)
      BY <2>2 DEF ForcePush
    <3>2. <<>> \in Seq(Bytes) /\ Len(<<>>) = 0
      BY EmptySeq
    <3>3. /\ cache' \in Seq(Bytes) /\ size' \in Nat
          /\ Len(cache') = Len(cache) + 0 \/ Len(cache') = Len(cache) + 0 + 1
          /\ Len(cache) <= size => Len(cache') <= size'
      BY <3>1, <3>2, AppendStringBuffEffect
    <3> QED BY <1>1, <3>3, Lengths DEF BufferHolds
  <2> QED BY <2>1, <2>2
<1>3. cache' # <<>>
  BY <1>2, EmptySeq
<1>4. Len(written) \in 1 .. Len(written)
  BY <1>1, Lengths DEF Counts, Waiting
<1>5. AssemblyTypeOK'
  BY <1>1, <1>2, <1>3, <1>4 DEF AssemblyTypeOK
<1>6. Counts' /\ BlockOpen'
  BY <1>1, <1>3 DEF Counts, Waiting, BlockOpen
<1> QED BY <1>2, <1>5, <1>6

LEMMA EndLineAssembles ==
  ASSUME AssemblyInv, EndLine
  PROVE  AssemblyInv'
<1> USE DEF AssemblyInv
<1> DEFINE part == SubSeq(data, 1, NextEnd)
           skip == NextEnd + AddCr(NextEnd)
<1>1. /\ call = "push" /\ ~conf.binmode /\ NextEnd # 0 /\ AppendStringBuff(part, TRUE)
      /\ data' = Drop(data, skip) /\ call' = "line" /\ UNCHANGED <<conf, stack, historyVars>>
  BY DEF EndLine
<1>2. data \in Seq(Bytes) /\ NextEnd \in 1 .. Len(data)
  BY <1>1, NextEndType, Lengths DEF AssemblyTypeOK
<1>3. skip \in 1 .. Len(data)
  BY <1>2, Lengths DEF AddCr
<1>4. part \in Seq(Bytes) /\ Len(part) = NextEnd
  BY <1>2, Lengths, SubSeqType
<1>5. data' \in Seq(Bytes) /\ Len(data') = Len(data) - skip
  BY ONLY <1>1, <1>2, <1>3, Lengths, DropType, SMTT(40)
<1>6. /\ cache' \in Seq(Bytes) /\ size' \in Nat /\ Len(cache') > 0
      /\ Len(cache) <= size => Len(cache') <= size'
  <2>1. /\ cache' \in Seq(Bytes) /\ size' \in Nat
        /\ Len(cache') = Len(cache) + Len(part) \/ Len(cache') = Len(cache) + Len(part) + 1
        /\ Len(cache) <= size => Len(cache') <= size'
    BY <1>1, <1>4, AppendStringBuffEffect
  <2> QED BY <1>2, <1>4, <2>1, Lengths
<1>7. cache' # <<>>
  BY <1>6, EmptySeq
<1> HIDE DEF part, skip
<1>8. AssemblyTypeOK'
  BY <1>1, <1>5, <1>6, <1>7 DEF AssemblyTypeOK, historyVars
<1>9. Counts'
  <2>1. Waiting' <= Waiting
    BY <1>3, <1>5, <1>7, Lengths DEF Waiting
  <2>2. Waiting \in Nat /\ Waiting' \in Nat
    BY <1>3, <1>5, Lengths DEF Waiting
  <2> QED BY <1>1, <2>1, <2>2, Lengths DEF Counts, historyVars
<1>10. BufferHolds' /\ BlockOpen'
  BY <1>1, <1>6 DEF BufferHolds, BlockOpen
<1> QED BY <1>8, <1>9, <1>10

LEMMA KeepRestAssembles ==
  ASSUME AssemblyInv, KeepRest
  PROVE  AssemblyInv'
<1> USE DEF AssemblyInv
<1>1. /\ ~conf.binmode /\ AppendStringBuff(data, FALSE) /\ data' = <<>> /\ call' = "none"
      /\ UNCHANGED <<conf, stack, historyVars>>
  BY DEF KeepRest
<1>2. data \in Seq(Bytes) /\ <<>> \in Seq(Bytes) /\ Len(<<>>) = 0
  BY EmptySeq DEF AssemblyTypeOK
<1>3. /\ cache' \in Seq(Bytes) /\ size' \in Nat /\ Len(cache') = Len(cache) + Len(data)
      /\ Len(cache) <= size => Len(cache') <= size'
  BY <1>1, <1>2, AppendStringBuffEffect
<1>4. AssemblyTypeOK'
  BY <1>1, <1>2, <1>3 DEF AssemblyTypeOK, historyVars
<1>5. Counts'
  <2>1. cache' = <<>> <=> Len(cache') = 0
    BY <1>3, EmptySeq
  <2>2. Waiting' <= Waiting /\ Waiting \in Nat /\ Waiting' \in Nat
    BY <1>1, <1>2, <1>3, <2>1, Lengths DEF Waiting
  <2> QED BY <1>1, <2>2, Lengths DEF Counts, historyVars
<1>6. BufferHolds' /\ BlockOpen'
  BY <1>1, <1>3 DEF BufferHolds, BlockOpen
<1> QED BY <1>4, <1>5, <1>6

LEMMA FillBlockAssembles ==
  ASSUME AssemblyInv, FillBlock
  PROVE  AssemblyInv'
<1> USE DEF AssemblyInv
<1>1. PICK n : n = IF BinaryBuffLimit - Len(cache) < Len(data) THEN BinaryBuffLimit - Len(cache) ELSE Len(data)
  OBVIOUS
<1> DEFINE part == SubSeq(data, 1, n)
<1>2. /\ call = "push" /\ conf.binmode /\ AppendStringBuff(part, FALSE)
      /\ data' = Drop(data, n) /\ UNCHANGED <<conf, stack, historyVars>>
      /\ call' = IF BinaryBuffLimit <= Len(cache) + n THEN "line" ELSE AfterPiece(data')
  BY <1>1 DEF FillBlock
<1>3. data \in Seq(Bytes) /\ n \in 0 .. Len(data) /\ n <= BinaryBuffLimit - Len(cache)
  BY <1>1, <1>2, Lengths DEF AssemblyTypeOK, BlockOpen
<1>4. part \in Seq(Bytes) /\ Len(part) = n
  BY <1>3, Lengths, SubSeqType
<1>5. data' \in Seq(Bytes) /\ Len(data') = Len(data) - n
  BY <1>2, <1>3, Lengths, DropType
<1>6. /\ cache' \in Seq(Bytes) /\ size' \in Nat /\ Len(cache') = Len(cache) + n
      /\ Len(cache) <= size => Len(cache') <= size'
  BY <1>2, <1>4, AppendStringBuffEffect
<1>7. cache' = <<>> <=> Len(cache') = 0
  BY <1>6, EmptySeq
<1> HIDE DEF part
<1>8. /\ call' \in {"none", "push", "line"}
      /\ call' = "none" => data' = <<>>
      /\ call' = "line" => BinaryBuffLimit <= Len(cache')
      /\ call' # "line" => Len(cache') < BinaryBuffLimit
  BY <1>2, <1>3, <1>6, Lengths DEF AfterPiece
<1>9. call' = "line" => cache' # <<>>
  BY <1>3, <1>6, <1>7, <1>8, Lengths
<1>10. AssemblyTypeOK'
  BY <1>2, <1>5, <1>6, <1>8, <1>9 DEF AssemblyTypeOK, historyVars
<1>11. Counts'
  <2>1. Waiting' <= Waiting /\ Waiting \in Nat /\ Waiting' \in Nat
    BY ONLY <1>3, <1>5, <1>6, <1>7, Lengths, SMTT(40) DEF Waiting
  <2> QED BY <1>2, <2>1, Lengths DEF Counts, historyVars
<1>12. BufferHolds' /\ BlockOpen'
  BY <1>2, <1>6, <1>8 DEF BufferHolds, BlockOpen
<1> QED BY <1>10, <1>11, <1>12

LEMMA TakeLineAssembles ==
  ASSUME AssemblyInv, TakeLine
  PROVE  AssemblyInv'
<1> USE DEF AssemblyInv
<1>1. /\ call = "line" /\ StackPush(cache) /\ cache' = <<>> /\ size' = 0 /\ call' = AfterPiece(data)
      /\ UNCHANGED <<conf, data, written, forced>>
  BY DEF TakeLine
<1>2. cache \in Line /\ cache # <<>> /\ stack \in Seq(Line) /\ taken \in Seq(Line)
  BY <1>1 DEF AssemblyTypeOK, Line
<1>3. \/ UNCHANGED <<stack, taken>>
      \/ stack' = Append(stack, cache) /\ taken' = Append(taken, cache)
  BY <1>1 DEF StackPush
<1>4. /\ stack' \in Seq(Line) /\ taken' \in Seq(Line)
      /\ \/ Len(stack') = Len(stack) /\ Len(taken') = Len(taken)
         \/ Len(stack') = Len(stack) + 1 /\ Len(taken') = Len(taken) + 1
  <2>1. Append(stack, cache) \in Seq(Line) /\ Len(Append(stack, cache)) = Len(stack) + 1
    BY <1>2, AppendProperties
  <2>2. Append(taken, cache) \in Seq(Line) /\ Len(Append(taken, cache)) = Len(taken) + 1
    BY <1>2, AppendProperties
  <2> QED BY <1>2, <1>3, <2>1, <2>2
<1>5. <<>> \in Seq(Bytes) /\ Len(<<>>) = 0
  BY EmptySeq
<1>6. call' \in {"none", "push"} /\ (call' = "none" => data = <<>>)
  BY <1>1 DEF AfterPiece
<1>7. AssemblyTypeOK'
  BY <1>1, <1>4, <1>5, <1>6 DEF AssemblyTypeOK
<1>8. Counts'
  <2>1. Waiting' + 1 = Waiting /\ Waiting' \in Nat
    BY <1>1, <1>2, Lengths DEF Waiting
  <2> QED BY <1>1, <1>4, <2>1, Lengths, SMTT(40) DEF Counts
<1>9. BufferHolds' /\ BlockOpen'
  BY <1>1, <1>5 DEF BufferHolds, BlockOpen
<1> QED BY <1>7, <1>8, <1>9

LEMMA AssemblyKeeps ==
  ASSUME AssemblyInv, AssemblyNext
  PROVE  AssemblyInv' /\ conf' = conf
<1>1. AssemblyInv'
  BY WriteAssembles, ForcePushAssembles, EndLineAssembles, KeepRestAssembles, FillBlockAssembles, TakeLineAssembles
     DEF AssemblyNext
<1> QED BY <1>1 DEF AssemblyNext, Write, ForcePush, EndLine, KeepRest, FillBlock, TakeLine

-----------------------------------------------------------------------------
(* Types.                                                                  *)

\* A message has no more lines than there are names for.
Fit ==
  /\ \A k \in DOMAIN msgs : Len(msgs[k]) <= MaxBytes
  /\ \A k \in DOMAIN got : Len(got[k]) <= MaxBytes
  /\ step \in {"lines", "trans"} => got # <<>>

TypeInv == AssemblyInv /\ TypeOK /\ Fit

LEMMA InitTypes == Init => TypeInv
<1> SUFFICES ASSUME Init PROVE TypeInv
  OBVIOUS
<1>1. AssemblyInv
  BY InitAssembly DEF Init
<1>2. Len(<<>>) = 0 /\ DOMAIN <<>> = {} /\ \A S : <<>> \in Seq(S)
  BY EmptySeq
<1>3. TypeOK
  BY <1>1, <1>2 DEF Init, TypeOK, AssemblyInv
<1>4. Fit
  BY <1>2 DEF Init, Fit
<1> QED BY <1>1, <1>3, <1>4 DEF TypeInv

LEMMA AppendFits ==
  ASSUME NEW ms \in Seq(Seq(Line)), NEW m \in Seq(Line), Len(m) <= MaxBytes,
         \A k \in DOMAIN ms : Len(ms[k]) <= MaxBytes
  PROVE  /\ Append(ms, m) \in Seq(Seq(Line))
         /\ \A k \in DOMAIN Append(ms, m) : Len(Append(ms, m)[k]) <= MaxBytes
<1>1. /\ Append(ms, m) \in Seq(Seq(Line)) /\ Len(Append(ms, m)) = Len(ms) + 1
      /\ \A i \in 1 .. Len(ms) : Append(ms, m)[i] = ms[i]
      /\ Append(ms, m)[Len(ms) + 1] = m
  BY AppendProperties
<1>2. Len(ms) \in Nat /\ DOMAIN ms = 1 .. Len(ms) /\ DOMAIN Append(ms, m) = 1 .. Len(ms) + 1
  BY <1>1, LenProperties
<1> QED BY <1>1, <1>2

LEMMA SendTypes ==
  ASSUME TypeInv, Send
  PROVE  TypeInv'
<1> USE DEF TypeInv
<1>1. stack \in Seq(Line) /\ Len(stack) <= MaxBytes
  BY Lengths DEF AssemblyInv, AssemblyTypeOK, Counts, Waiting
<1>2. <<>> \in Seq(Line) /\ Len(<<>>) = 0
  BY EmptySeq
<1>3. AssemblyInv'
  <2>1. AssemblyTypeOK'
    BY <1>2 DEF Send, AssemblyInv, AssemblyTypeOK, historyVars
  <2>2. Counts'
    BY <1>2, Lengths DEF Send, AssemblyInv, Counts, Waiting, historyVars
  <2>3. BufferHolds' /\ BlockOpen'
    BY DEF Send, AssemblyInv, BufferHolds, BlockOpen
  <2> QED BY <2>1, <2>2, <2>3 DEF AssemblyInv
<1>4. msgs' \in Seq(Seq(Line)) /\ \A k \in DOMAIN msgs' : Len(msgs'[k]) <= MaxBytes
  BY <1>1, AppendFits DEF Send, TypeOK, Fit
<1>5. TypeOK'
  BY <1>3, <1>4 DEF Send, TypeOK, AssemblyInv, serverVars, outVars, Names, Message
<1>6. Fit'
  BY <1>4 DEF Send, Fit, serverVars
<1> QED BY <1>3, <1>5, <1>6

LEMMA ReceiveTypes ==
  ASSUME TypeInv, Receive
  PROVE  TypeInv'
<1> USE DEF TypeInv
<1>1. AssemblyInv'
  BY DEF Receive, AssemblyInv, AssemblyTypeOK, BufferHolds, Counts, Waiting, BlockOpen, assemblyVars, historyVars
<1>2. msgs \in Seq(Seq(Line)) /\ msgs # <<>> /\ got \in Seq(Seq(Line)) /\ Len(msgs) \in Nat \ {0} /\ DOMAIN msgs = 1 .. Len(msgs)
  BY LenProperties, EmptySeq DEF Receive, TypeOK
<1>3. /\ Head(msgs) \in Seq(Line) /\ Tail(msgs) \in Seq(Seq(Line)) /\ Len(Tail(msgs)) = Len(msgs) - 1
      /\ \A i \in 1 .. Len(Tail(msgs)) : Tail(msgs)[i] = msgs[i + 1]
  BY <1>2, HeadTailProperties
<1>4. Len(Head(msgs)) <= MaxBytes /\ \A k \in DOMAIN Tail(msgs) : Len(Tail(msgs)[k]) <= MaxBytes
  <2>1. Head(msgs) = msgs[1]
    BY <1>2
  <2>2. DOMAIN Tail(msgs) = 1 .. Len(msgs) - 1
    BY <1>3, LenProperties
  <2> QED BY <1>2, <1>3, <2>1, <2>2, SMTT(40) DEF Fit
<1>5. got' \in Seq(Seq(Line)) /\ \A k \in DOMAIN got' : Len(got'[k]) <= MaxBytes
  BY <1>2, <1>3, <1>4, AppendFits DEF Receive, Fit
<1>6. got' # <<>> /\ DOMAIN got \subseteq DOMAIN got' /\ Message' = Head(msgs)
  <2>1. Len(got') = Len(got) + 1 /\ got'[Len(got) + 1] = Head(msgs)
    BY <1>2, <1>3, AppendProperties DEF Receive
  <2>2. Len(got) \in Nat /\ DOMAIN got = 1 .. Len(got) /\ DOMAIN got' = 1 .. Len(got')
    BY <1>2, <1>5, LenProperties
  <2>3. Len(<<>>) = 0
    OBVIOUS
  <2> QED BY <2>1, <2>2, <2>3 DEF Message, Last
<1>7. Names \subseteq Names'
  BY <1>6 DEF Names
<1>8. collected' \in Seq(Names') /\ put' \in Seq(Names') /\ refused' \subseteq Names'
  <2>1. collected \in Seq(Names') /\ put \in Seq(Names')
    BY <1>7, SeqMonotonic DEF TypeOK
  <2> QED BY <1>7, <2>1 DEF Receive, outVars, TypeOK
<1>9. Len(Message') \in Nat
  BY <1>3, <1>6, LenProperties
<1>10. TypeOK'
  BY <1>1, <1>3, <1>5, <1>8, <1>9 DEF Receive, TypeOK, AssemblyInv, outVars
<1>11. Fit'
  BY <1>3, <1>4, <1>5, <1>6 DEF Receive, Fit
<1> QED BY <1>1, <1>10, <1>11

\* Where the walk over a message is while it has lines left.
LEMMA WalkTypes ==
  ASSUME TypeInv, step = "lines"
  PROVE  /\ got \in Seq(Seq(Line)) /\ Len(got) \in Nat \ {0} /\ DOMAIN got = 1 .. Len(got)
         /\ Message = got[Len(got)] /\ Message \in Seq(Line) /\ Len(Message) \in Nat /\ Len(Message) <= MaxBytes
         /\ cnt < Len(Message) => pLines \in 1 .. Len(Message) /\ Current \in Names
<1>1. got \in Seq(Seq(Line)) /\ got # <<>>
  BY DEF TypeInv, TypeOK, Fit
<1>2. Len(got) \in Nat \ {0} /\ DOMAIN got = 1 .. Len(got)
  BY <1>1, LenProperties, EmptySeq
<1>3. Message = got[Len(got)]
  BY DEF Message, Last
<1>4. Message \in Seq(Line) /\ Len(Message) <= MaxBytes
  <2>1. \A k \in DOMAIN got : Len(got[k]) <= MaxBytes
    BY DEF TypeInv, Fit
  <2>2. got[Len(got)] \in Seq(Line)
    BY <1>1, <1>2, ElementOfSeq
  <2> QED BY <1>2, <1>3, <2>1, <2>2
<1>5. Len(Message) \in Nat
  BY <1>4, LenProperties
<1>6. cnt < Len(Message) => pLines \in 1 .. Len(Message)
  BY <1>5 DEF TypeInv, TypeOK
<1>7. pLines \in 1 .. Len(Message) => Current \in Names
  BY <1>2, <1>4, <1>5 DEF Current, Names
<1> QED BY <1>1, <1>2, <1>3, <1>4, <1>5, <1>6, <1>7

LEMMA WalkNames ==
  ASSUME TypeInv, InLoop(TRUE)
  PROVE  put \in Seq(Names) /\ collected \in Seq(Names) /\ Current \in Names
BY WalkTypes DEF InLoop, TypeInv, TypeOK

\* A step that only walks over the message or puts lines of it out.
LEMMA WalkKeeps ==
  ASSUME TypeInv, UNCHANGED <<assemblyVars, msgs, got, is_doing_loop>>,
         step' \in {"receive", "lines", "trans", "ended", "undefined"},
         step' \in {"lines", "trans"} => step \in {"lines", "trans"},
         cnt' \in Nat, pLines' \in Nat \ {0},
         step' = "lines" => cnt' <= Len(Message) /\ pLines' <= cnt' + 1,
         pFileOutput' \in {"null", "held", "freed"},
         collected' \in Seq(Names), put' \in Seq(Names), refused' \subseteq Names, transferred' \in Seq(Seq(Line))
  PROVE  TypeInv'
<1> USE DEF TypeInv
<1>1. AssemblyInv'
  BY DEF AssemblyInv, AssemblyTypeOK, BufferHolds, Counts, Waiting, BlockOpen, assemblyVars, historyVars
<1>2. Names' = Names /\ Message' = Message
  BY DEF Names, Message
<1>3. TypeOK'
  BY <1>1, <1>2 DEF TypeOK, AssemblyInv
<1>4. Fit'
  BY DEF Fit
<1> QED BY <1>1, <1>3, <1>4

LEMMA AppendNames ==
  ASSUME NEW S, NEW names \in Seq(S), NEW name \in S
  PROVE  Append(names, name) \in Seq(S)
BY AppendProperties

LEMMA OtherTypes ==
  ASSUME TypeInv, Sighup \/ LeaveLoop \/ SkipLine \/ Transfer
  PROVE  TypeInv'
<1> USE DEF TypeInv, TypeOK
<1>1. CASE Sighup
  <2>1. AssemblyInv'
    BY <1>1 DEF Sighup, AssemblyInv, AssemblyTypeOK, BufferHolds, Counts, Waiting, BlockOpen, assemblyVars, historyVars
  <2>2. UNCHANGED <<msgs, got, step, cnt, pLines, pFileOutput, collected, put, refused, transferred>> /\ is_doing_loop' \in BOOLEAN
    BY <1>1 DEF Sighup, outVars
  <2>3. Names' = Names /\ Message' = Message
    BY <2>2 DEF Names, Message
  <2>4. TypeOK' /\ Fit'
    BY <2>1, <2>2, <2>3 DEF AssemblyInv, Fit
  <2> QED BY <2>1, <2>4
<1>2. CASE LeaveLoop
  BY <1>2, WalkKeeps DEF LeaveLoop, outVars
<1>3. CASE SkipLine
  <2>1. Len(Message) \in Nat /\ step = "lines" /\ cnt < Len(Message)
    BY <1>3, WalkTypes DEF SkipLine, InLoop
  <2> QED BY <1>3, <2>1, WalkKeeps DEF SkipLine, outVars
<1>4. CASE Transfer
  <2>1. got # <<>> /\ got \in Seq(Seq(Line))
    BY <1>4 DEF Transfer, Fit
  <2>2. Message \in Seq(Line)
    BY <2>1, LenProperties, EmptySeq, ElementOfSeq DEF Message, Last
  <2>3. transferred' \in Seq(Seq(Line))
    BY <1>4, <2>2, AppendNames DEF Transfer
  <2> QED BY <1>4, <2>3, WalkKeeps DEF Transfer
<1> QED BY <1>1, <1>2, <1>3, <1>4

LEMMA PutTypes ==
  ASSUME TypeInv, PutPlugin \/ Collect \/ WriteFile
  PROVE  TypeInv'
<1> USE DEF TypeInv, TypeOK
<1>1. step = "lines"
  BY DEF PutPlugin, Collect, WriteFile, InLoop
<1>2. Len(Message) \in Nat
  BY <1>1, WalkTypes
<1>3. CASE PutPlugin
  <2>1. cnt < Len(Message) /\ Current \in Names
    BY <1>1, <1>3, WalkTypes DEF PutPlugin, InLoop
  <2>2. put' \in Seq(Names) /\ refused' \subseteq Names
    BY <1>3, <2>1, AppendNames DEF PutPlugin
  <2> QED BY <1>1, <1>2, <1>3, <2>1, <2>2, WalkKeeps DEF PutPlugin, NextLine
<1>4. CASE Collect
  <2>1. cnt < Len(Message) /\ Current \in Names
    BY <1>1, <1>4, WalkTypes DEF Collect, InLoop
  <2>2. Collected \in Seq(Names)
    BY <2>1, AppendNames DEF Collected
  <2>3. collected' \in Seq(Names) /\ step' \in {"lines", "undefined"} /\ pFileOutput' \in {"null", "held", "freed"}
    BY <1>1, <1>4, <2>2 DEF Collect
  <2> QED BY <1>1, <1>2, <1>4, <2>1, <2>3, WalkKeeps DEF Collect, NextLine, outVars
<1>5. CASE WriteFile
  <2>1. put \o collected \in Seq(Names)
    BY ConcatProperties
  <2>2. ToSet(collected) \subseteq Names
    BY LenProperties, ElementOfSeq DEF ToSet
  <2>3. <<>> \in Seq(Names)
    BY EmptySeq
  <2>4. collected' \in Seq(Names) /\ put' \in Seq(Names) /\ refused' \subseteq Names /\ pFileOutput' \in {"null", "held", "freed"}
    BY <1>5, <2>1, <2>2, <2>3 DEF WriteFile
  <2>5. step' \in {"receive", "trans", "undefined"}
    BY <1>5 DEF WriteFile, AfterLines
  <2> QED BY <1>1, <1>5, <2>4, <2>5, WalkKeeps DEF WriteFile
<1> QED BY <1>3, <1>4, <1>5

LEMMA TypesKeep ==
  ASSUME TypeInv, [Next]_vars
  PROVE  TypeInv'
<1>1. CASE AssemblyNext /\ UNCHANGED <<msgs, serverVars>>
  <2>1. AssemblyInv'
    BY <1>1, AssemblyKeeps DEF TypeInv
  <2>2. TypeOK' /\ Fit'
    BY <1>1, <2>1 DEF TypeInv, TypeOK, AssemblyInv, Fit, serverVars, outVars, Names, Message
  <2> QED BY <2>1, <2>2 DEF TypeInv
<1>2. CASE Send
  BY <1>2, SendTypes
<1>3. CASE Sighup \/ LeaveLoop \/ ServerNext
  BY <1>3, OtherTypes, ReceiveTypes, PutTypes DEF ServerNext
<1>4. CASE UNCHANGED vars
  <2>1. AssemblyInv'
    BY <1>4 DEF vars, TypeInv, AssemblyInv, AssemblyTypeOK, BufferHolds, Counts, Waiting, BlockOpen, assemblyVars, historyVars
  <2>2. TypeOK' /\ Fit'
    BY <1>4, <2>1 DEF vars, TypeInv, TypeOK, AssemblyInv, Fit, serverVars, outVars, Names, Message
  <2> QED BY <2>1, <2>2 DEF TypeInv
<1> QED BY <1>1, <1>2, <1>3, <1>4 DEF Next

\* Every variable keeps its type, and the walk over a message (Processing,
\* k2hftfusesvr.cc) never leaves the message.
THEOREM TypeCorrect == Spec => []TypeOK
<1>1. Init => TypeInv
  BY InitTypes
<1>2. TypeInv /\ [Next]_vars => TypeInv'
  BY TypesKeep
<1>3. TypeInv => TypeOK
  BY DEF TypeInv
<1> QED BY <1>1, <1>2, <1>3, PTL DEF Spec

\* AppendStringBuff (k2hftwbuf.cc) always makes the buffer large enough for what
\* it appends and the zero byte that ends it, for buffers of any size.
THEOREM BufferIsLargeEnough == Spec => []BufferHolds
<1>1. Init => TypeInv
  BY InitTypes
<1>2. TypeInv /\ [Next]_vars => TypeInv'
  BY TypesKeep
<1>3. TypeInv => BufferHolds
  BY DEF TypeInv, AssemblyInv
<1> QED BY <1>1, <1>2, <1>3, PTL DEF Spec

-----------------------------------------------------------------------------
(* The lines are the lines of the bytes.                                   *)

\* The last byte that has been looked at.
Pos == Len(written) - Len(data)

\* What Push still looks at is the end of what was written, in one write.
Remaining ==
  /\ \A k \in 1 .. Len(data) : data[k] = written[Pos + k].byte
  /\ \A k \in 2 .. Len(data) : ~written[Pos + k].first
  /\ ~conf.binmode /\ data # <<>> => ~Skipped(Pos + 1)
  /\ forced \subseteq 1 .. Pos

\* Lines end at e, or it is 0, and nowhere between e and n.
Ends(e, n) ==
  /\ e = 0 \/ IsEnd(e)
  /\ \A i \in e + 1 .. n : ~IsEnd(i)

\* A whole number of blocks since the last release.
Aligned(e) ==
  \E f \in forced \cup {0} :
    /\ \A g \in forced : g <= f
    /\ f <= e
    /\ (e - f) % BinaryBuffLimit = 0

\* Between two lines: the cache holds what came after the last one.
Collecting ==
  \E e \in 0 .. Pos :
    /\ Ends(e, Pos)
    /\ cache = IF e = Pos THEN <<>> ELSE Piece(e, Pos)
    /\ ~conf.binmode => \A i \in 1 .. Len(cache) : cache[i] \notin {"LF", "CR", "NUL"}
    /\ conf.binmode => Aligned(e)
    /\ StackedUpTo(e)

\* A line in text mode: a zero byte at its end and nowhere else.
Terminated(l) == \A i \in 1 .. Len(l) : l[i] = "NUL" <=> i = Len(l)

\* A line is complete and not yet on the stack.
Completed ==
  \E e \in 1 .. Pos :
    /\ IsEnd(e)
    /\ e = Pos \/ (e = Pos - 1 /\ ~conf.binmode /\ Skipped(Pos) /\ Pos \notin forced)
    /\ cache = LineAt(e)
    /\ ~conf.binmode => Terminated(cache)
    /\ conf.binmode => Aligned(e)
    /\ StackedUpTo(e - 1)

LinesInv ==
  /\ Remaining
  /\ call # "line" => Collecting
  /\ call = "line" => Completed

LEMMA BlocksAdd ==
  ASSUME NEW a \in Nat, NEW n \in Nat \ {0}, a % n = 0
  PROVE  (a + n) % n = 0 /\ \A r \in 1 .. n - 1 : (a + r) % n # 0
<1>1. PICK q \in Nat : a = q * n
  OBVIOUS
<1>2. \A p \in Nat : \A r \in 0 .. n - 1 : (p * n + r) % n = r
  OBVIOUS
<1>3. (q + 1) * n + 0 = a + n /\ q + 1 \in Nat
  BY <1>1
<1>4. ((q + 1) * n + 0) % n = 0
  BY <1>2, <1>3
<1>5. \A r \in 1 .. n - 1 : (q * n + r) % n = r
  BY <1>2
<1> QED BY <1>1, <1>3, <1>4, <1>5

\* The greatest of some numbers is the one that none exceeds.
LEMMA Greatest ==
  ASSUME NEW E \in SUBSET Int, NEW e \in E, \A i \in E : i <= e
  PROVE  (CHOOSE x \in E : \A i \in E : i <= x) = e
<1>1. \A x \in E : (\A i \in E : i <= x) => x = e
  OBVIOUS
<1> QED BY <1>1

LEMMA ForcedType ==
  ASSUME AssemblyInv
  PROVE  \A f \in forced \cup {0} : f \in 0 .. Len(written)
<1>1. Len(written) \in Nat /\ forced \subseteq 1 .. Len(written)
  BY Lengths DEF AssemblyInv, AssemblyTypeOK
<1> QED BY <1>1

LEMMA LastForcedIs ==
  ASSUME AssemblyInv, NEW f \in forced \cup {0}, NEW i \in Nat, f < i,
         \A g \in forced : g < i => g <= f
  PROVE  LastForced(i) = f
<1> DEFINE F == {g \in forced \cup {0} : g < i}
<1>1. F \in SUBSET Int /\ f \in F /\ \A g \in F : g <= f
  BY ForcedType
<1> HIDE DEF F
<1>2. (CHOOSE x \in F : \A g \in F : g <= x) = f
  BY <1>1, Greatest
<1> QED BY <1>2 DEF LastForced, F

LEMMA LastEndIs ==
  ASSUME NEW n \in Nat, NEW e \in 0 .. n, Ends(e, n)
  PROVE  LastEnd(n) = e
<1> DEFINE E == {i \in 1 .. n : IsEnd(i)} \cup {0}
<1>1. E \in SUBSET Int /\ e \in E
  BY DEF Ends
<1>2. \A i \in E : i <= e
  BY DEF Ends
<1> HIDE DEF E
<1>3. (CHOOSE x \in E : \A g \in E : g <= x) = e
  BY <1>1, <1>2, Greatest
<1> QED BY <1>3 DEF LastEnd, E

\* After a whole number of blocks there is no end before the next block is full.
LEMMA BlockEnds ==
  ASSUME AssemblyInv, conf.binmode, NEW e \in Nat, Aligned(e)
  PROVE  /\ \A i \in e + 1 .. e + BinaryBuffLimit - 1 : ~IsEnd(i)
         /\ IsEnd(e + BinaryBuffLimit)
         /\ Aligned(e + BinaryBuffLimit)
<1>1. PICK f \in forced \cup {0} : /\ \A g \in forced : g <= f
                                   /\ f <= e
                                   /\ (e - f) % BinaryBuffLimit = 0
  BY DEF Aligned
<1>2. f \in Nat /\ e - f \in Nat
  BY <1>1, Lengths, ForcedType DEF AssemblyInv
<1>3. \A g \in forced : g \in Nat
  BY Lengths, ForcedType DEF AssemblyInv
<1>4. /\ (e - f + BinaryBuffLimit) % BinaryBuffLimit = 0
      /\ \A r \in 1 .. BinaryBuffLimit - 1 : (e - f + r) % BinaryBuffLimit # 0
  BY <1>1, <1>2, BlocksAdd
<1>5. ASSUME NEW i \in e + 1 .. e + BinaryBuffLimit PROVE i \notin forced /\ LastForced(i) = f
  <2>1. i \in Nat /\ f < i
    BY <1>1, <1>2
  <2>2. LastForced(i) = f
    BY <1>1, <2>1, LastForcedIs
  <2>3. i \notin forced
    BY <1>1, <1>2, <1>3, <2>1
  <2> QED BY <2>2, <2>3
<1>6. ASSUME NEW i \in e + 1 .. e + BinaryBuffLimit - 1 PROVE ~IsEnd(i)
  <2>1. i \notin forced /\ LastForced(i) = f
    BY <1>5
  <2>2. PICK r \in 1 .. BinaryBuffLimit - 1 : i - f = e - f + r
    <3>1. i - e \in 1 .. BinaryBuffLimit - 1 /\ i - f = e - f + (i - e)
      BY <1>2
    <3> QED BY <3>1
  <2>3. (i - f) % BinaryBuffLimit # 0
    BY <1>4, <2>2
  <2> QED BY <2>1, <2>3 DEF IsEnd
<1> DEFINE m == e + BinaryBuffLimit
<1>7. m \in e + 1 .. e + BinaryBuffLimit /\ m - f = e - f + BinaryBuffLimit /\ f <= m
  BY <1>1, <1>2
<1>8. (m - f) % BinaryBuffLimit = 0
  BY <1>4, <1>7
<1> HIDE DEF m
<1>9. IsEnd(m)
  BY <1>5, <1>7, <1>8 DEF IsEnd
<1>10. Aligned(m)
  BY <1>1, <1>7, <1>8 DEF Aligned
<1> QED BY <1>6, <1>9, <1>10 DEF m


LEMMA LastEndType ==
  ASSUME NEW n \in Nat
  PROVE  LastEnd(n) \in 0 .. n /\ Ends(LastEnd(n), n)
<1> DEFINE E == {i \in 1 .. n : IsEnd(i)} \cup {0}
           I == {d \in 0 .. n : n - d \in E}
<1>1. I \in SUBSET Nat /\ n \in I
  OBVIOUS
<1> HIDE DEF I
<1>2. PICK d \in I : \A c \in I : d <= c
  BY <1>1, LeastNumber
<1> DEFINE e == n - d
<1>3. d \in 0 .. n /\ e \in E /\ e \in 0 .. n
  BY <1>2 DEF I
<1>4. ASSUME NEW i \in E PROVE i <= e
  <2>1. i \in 0 .. n /\ n - (n - i) = i
    OBVIOUS
  <2>2. n - i \in I
    BY <2>1 DEF I
  <2> QED BY <1>2, <1>3, <2>1, <2>2
<1>5. ASSUME NEW i \in e + 1 .. n PROVE ~IsEnd(i)
  <2>1. i \in 1 .. n /\ ~(i <= e)
    BY <1>3
  <2> QED BY <1>4, <2>1
<1>6. Ends(e, n)
  BY <1>3, <1>5 DEF Ends
<1> HIDE DEF E, e
<1>7. LastEnd(n) = e
  BY <1>3, <1>6, LastEndIs
<1> QED BY <1>3, <1>6, <1>7

\* What is written or forced later changes no line that has ended.
LEMMA OldEnds ==
  ASSUME conf' = conf, NEW n \in Nat, \A i \in 1 .. n : written'[i] = written[i],
         \A f \in forced \cup forced' : f \in Nat,
         \A f \in 0 .. n - 1 : f \in forced' <=> f \in forced
  PROVE  /\ \A i \in 1 .. n : Skipped(i)' <=> Skipped(i)
         /\ \A i \in 1 .. n : (i \in forced' <=> i \in forced) => (IsEnd(i)' <=> IsEnd(i))
         /\ \A b \in 0 .. n - 1, e \in 0 .. n : Piece(b, e)' = Piece(b, e)
         /\ \A e \in 1 .. n : LineAt(e)' = LineAt(e)
<1>1. ASSUME NEW i \in 1 .. n PROVE Skipped(i)' <=> Skipped(i)
  <2>1. i > 1 => i - 1 \in 1 .. n
    OBVIOUS
  <2> QED BY <2>1 DEF Skipped
<1>2. ASSUME NEW i \in 1 .. n PROVE LastForced(i)' = LastForced(i)
  <2>1. {f \in forced' \cup {0} : f < i} = {f \in forced \cup {0} : f < i}
    OBVIOUS
  <2> QED BY <2>1 DEF LastForced
<1>3. ASSUME NEW i \in 1 .. n, i \in forced' <=> i \in forced PROVE IsEnd(i)' <=> IsEnd(i)
  BY <1>1, <1>2, <1>3 DEF IsEnd
<1>4. ASSUME NEW b \in 0 .. n - 1, NEW e \in 0 .. n PROVE Piece(b, e)' = Piece(b, e)
  <2>1. PICK first \in Nat \ {0} : first = First(b)
    BY DEF First
  <2>2. Skipped(b + 1)' <=> Skipped(b + 1)
    BY <1>1
  <2>3. First(b)' = first
    BY <2>1, <2>2 DEF First
  <2>4. \A i \in 1 .. (e - first + 1) : first + i - 1 \in 1 .. n
    BY <2>1
  <2>5. [i \in 1 .. (e - first + 1) |-> written'[first + i - 1].byte]
          = [i \in 1 .. (e - first + 1) |-> written[first + i - 1].byte]
    BY <2>4
  <2> QED BY <2>1, <2>3, <2>5 DEF Piece
<1>5. ASSUME NEW e \in 1 .. n PROVE LineAt(e)' = LineAt(e)
  <2>1. PICK b \in 0 .. e - 1 : b = LastEnd(e - 1)
    BY LastEndType
  <2>2. LastEnd(e - 1)' = b
    <3>1. {i \in 1 .. e - 1 : IsEnd(i)'} = {i \in 1 .. e - 1 : IsEnd(i)}
      BY <1>3
    <3> QED BY <2>1, <3>1 DEF LastEnd
  <2>3. LineBetween(b, e)' = LineBetween(b, e)
    BY <1>4 DEF LineBetween
  <2>4. LineAt(e)' = LineBetween(b, e)'
    BY <2>2 DEF LineAt
  <2> QED BY <2>1, <2>3, <2>4 DEF LineAt
<1> QED BY <1>1, <1>3, <1>4, <1>5

LEMMA StackedStays ==
  ASSUME conf' = conf, taken' = taken, NEW n \in Nat,
         \A e \in 1 .. n : (IsEnd(e)' <=> IsEnd(e)) /\ LineAt(e)' = LineAt(e),
         StackedUpTo(n)
  PROVE  StackedUpTo(n)'
<1>1. \A l : MayPass(l)' <=> MayPass(l)
  BY DEF MayPass
<1>2. \A e \in 1 .. n : MayPass(LineAt(e))' <=> MayPass(LineAt(e))
  BY <1>1 DEF MayPass
<1>3. Passing(n)' = Passing(n)
  BY <1>2 DEF Passing
<1>4. Passing(n) \subseteq 1 .. n
  BY DEF Passing
<1>5. PICK at \in [DOMAIN taken -> Passing(n)] :
        /\ \A k, m \in DOMAIN taken : k < m => at[k] < at[m]
        /\ \A e \in Passing(n) : \E k \in DOMAIN taken : at[k] = e
        /\ \A k \in DOMAIN taken : taken[k] = LineAt(at[k])
  BY DEF StackedUpTo
<1>6. \A k \in DOMAIN taken : at[k] \in 1 .. n
  BY <1>4, <1>5
<1>7. \A k \in DOMAIN taken' : taken'[k] = LineAt(at[k])'
  BY <1>5, <1>6
<1> QED BY <1>3, <1>5, <1>7 DEF StackedUpTo

LEMMA StackedExtends ==
  ASSUME NEW m \in Nat, NEW n \in Nat, m <= n, StackedUpTo(m),
         \A e \in m + 1 .. n : ~IsEnd(e) \/ ~MayPass(LineAt(e))
  PROVE  StackedUpTo(n)
<1>1. Passing(n) = Passing(m)
  BY DEF Passing
<1> QED BY <1>1 DEF StackedUpTo

\* The line that ends next comes to those already stacked.
LEMMA StackedJoins ==
  ASSUME NEW e \in Nat \ {0}, IsEnd(e), MayPass(LineAt(e)), StackedUpTo(e - 1),
         UNCHANGED <<conf, written, forced>>, \A f \in forced : f \in Nat,
         taken \in Seq(Line), LineAt(e) \in Line, taken' = Append(taken, LineAt(e))
  PROVE  StackedUpTo(e)'
<1>1. \A i \in 1 .. e : (IsEnd(i)' <=> IsEnd(i)) /\ LineAt(i)' = LineAt(i)
  BY OldEnds
<1>2. Passing(e)' = Passing(e - 1) \cup {e}
  <2>1. Passing(e)' = {i \in 1 .. e : IsEnd(i) /\ MayPass(LineAt(i))}
    BY <1>1 DEF Passing, MayPass
  <2>2. 1 .. e = 1 .. e - 1 \cup {e}
    OBVIOUS
  <2> QED BY <2>1, <2>2 DEF Passing
<1>3. Passing(e - 1) \subseteq 1 .. e - 1
  BY DEF Passing
<1>4. PICK at \in [DOMAIN taken -> Passing(e - 1)] :
        /\ \A k, m \in DOMAIN taken : k < m => at[k] < at[m]
        /\ \A i \in Passing(e - 1) : \E k \in DOMAIN taken : at[k] = i
        /\ \A k \in DOMAIN taken : taken[k] = LineAt(at[k])
  BY DEF StackedUpTo
<1> DEFINE n == Len(taken)
<1>5. /\ n \in Nat /\ DOMAIN taken = 1 .. n /\ DOMAIN taken' = 1 .. n + 1
      /\ \A k \in 1 .. n : taken'[k] = taken[k]
      /\ taken'[n + 1] = LineAt(e)
  BY LenProperties, AppendProperties
<1> HIDE DEF n
<1>6. PICK to : to = [k \in 1 .. n + 1 |-> IF k = n + 1 THEN e ELSE at[k]]
  OBVIOUS
<1>7. /\ \A k \in 1 .. n : to[k] = at[k] /\ to[k] \in Passing(e - 1) /\ to[k] \in 1 .. e - 1
      /\ to[n + 1] = e
  BY <1>3, <1>4, <1>5, <1>6
<1>8. to \in [DOMAIN taken' -> Passing(e)']
  <2>1. \A k \in 1 .. n + 1 : to[k] \in Passing(e)'
    BY <1>2, <1>5, <1>7
  <2> QED BY <1>5, <1>6, <2>1
<1>9. ASSUME NEW k \in DOMAIN taken', NEW m \in DOMAIN taken', k < m PROVE to[k] < to[m]
  <2>1. k \in 1 .. n /\ m \in 1 .. n + 1
    BY <1>5, <1>9
  <2>2. CASE m = n + 1
    BY <1>7, <2>1, <2>2
  <2>3. CASE m \in 1 .. n
    BY <1>4, <1>5, <1>7, <1>9, <2>1, <2>3
  <2> QED BY <1>5, <2>1, <2>2, <2>3
<1>10. ASSUME NEW i \in Passing(e)' PROVE \E k \in DOMAIN taken' : to[k] = i
  <2>1. CASE i = e
    BY ONLY <1>5, <1>7, <2>1
  <2>2. CASE i \in Passing(e - 1)
    <3>1. PICK k \in DOMAIN taken : at[k] = i
      BY <1>4, <2>2
    <3>2. k \in DOMAIN taken' /\ to[k] = i
      BY <1>5, <1>7, <3>1
    <3> QED BY <3>2
  <2> QED BY <1>2, <2>1, <2>2
<1>11. ASSUME NEW k \in DOMAIN taken' PROVE taken'[k] = LineAt(to[k])'
  <2>1. CASE k = n + 1
    BY <1>1, <1>5, <1>7, <2>1
  <2>2. CASE k \in 1 .. n
    <3>1. taken'[k] = taken[k] /\ k \in DOMAIN taken /\ to[k] = at[k] /\ at[k] \in 1 .. e - 1
      BY <1>5, <1>7, <2>2
    <3>2. taken[k] = LineAt(at[k])
      BY <1>4, <3>1
    <3>3. LineAt(at[k])' = LineAt(at[k])
      BY <1>1, <3>1
    <3> QED BY <3>1, <3>2, <3>3
  <2> QED BY <1>5, <2>1, <2>2
<1> QED BY <1>8, <1>9, <1>10, <1>11 DEF StackedUpTo

\* A step that neither writes nor forces changes nothing about the ends.
LEMMA SameEnds ==
  ASSUME UNCHANGED <<conf, written, forced>>
  PROVE  /\ \A i : Skipped(i)' <=> Skipped(i)
         /\ \A i : IsEnd(i)' <=> IsEnd(i)
         /\ \A e : Aligned(e)' <=> Aligned(e)
         /\ \A e, n : Piece(e, n)' = Piece(e, n)
         /\ \A e : LineAt(e)' = LineAt(e)
<1>1. \A i : Skipped(i)' <=> Skipped(i)
  BY DEF Skipped
<1>2. \A i : LastForced(i)' = LastForced(i)
  BY DEF LastForced
<1>3. \A i : IsEnd(i)' <=> IsEnd(i)
  BY <1>1, <1>2 DEF IsEnd
<1>4. \A e : Aligned(e)' <=> Aligned(e)
  BY DEF Aligned
<1>5. \A e : First(e)' = First(e)
  BY <1>1 DEF First
<1>6. ASSUME NEW e, NEW n PROVE Piece(e, n)' = Piece(e, n)
  <2>1. PICK first : first = First(e)
    OBVIOUS
  <2>2. First(e)' = first
    BY <1>5, <2>1
  <2>3. [i \in 1 .. (n - first + 1) |-> written'[first + i - 1].byte]
          = [i \in 1 .. (n - first + 1) |-> written[first + i - 1].byte]
    OBVIOUS
  <2> QED BY <2>1, <2>2, <2>3 DEF Piece
<1>7. \A b, e : LineBetween(b, e)' = LineBetween(b, e)
  BY <1>6 DEF LineBetween
<1>8. ASSUME NEW n PROVE LastEnd(n)' = LastEnd(n)
  <2>1. {i \in 1 .. n : IsEnd(i)'} = {i \in 1 .. n : IsEnd(i)}
    BY <1>3
  <2> QED BY <2>1 DEF LastEnd
<1>9. ASSUME NEW e PROVE LineAt(e)' = LineAt(e)
  <2>1. PICK b : b = LastEnd(e - 1)
    OBVIOUS
  <2>2. LineAt(e)' = LineBetween(b, e)'
    BY <1>8, <2>1 DEF LineAt
  <2> QED BY <1>7, <2>1, <2>2 DEF LineAt
<1> QED BY <1>1, <1>3, <1>4, <1>6, <1>9

LEMMA PosType ==
  ASSUME AssemblyInv
  PROVE  Pos \in Nat /\ Pos + Len(data) = Len(written) /\ Len(data) \in Nat /\ Len(written) \in Nat
BY Lengths DEF AssemblyInv, Counts, Waiting, Pos

LEMMA InitLines == AssemblyInit => LinesInv
<1> SUFFICES ASSUME AssemblyInit PROVE LinesInv
  OBVIOUS
<1>1. Len(<<>>) = 0 /\ DOMAIN <<>> = {}
  BY EmptySeq
<1>2. Pos = 0 /\ call = "none" /\ cache = <<>> /\ taken = <<>> /\ forced = {} /\ Len(data) = 0 /\ data = <<>>
  BY <1>1 DEF AssemblyInit, Pos
<1>3. Remaining
  BY <1>2 DEF Remaining
<1>4. Ends(0, 0)
  BY DEF Ends
<1>5. Aligned(0)
  BY <1>2, BlocksAdd DEF Aligned
<1>6. StackedUpTo(0)
  <2>1. Passing(0) = {}
    BY DEF Passing
  <2>2. <<>> \in [DOMAIN taken -> Passing(0)]
    BY <1>1, <1>2, <2>1
  <2> QED BY <1>1, <1>2, <2>1, <2>2 DEF StackedUpTo
<1>7. Collecting
  BY <1>1, <1>2, <1>4, <1>5, <1>6 DEF Collecting
<1> QED BY <1>2, <1>3, <1>7 DEF LinesInv

\* Whatever leaves the assembly alone keeps this.
LEMMA LinesStay ==
  ASSUME LinesInv, AssemblyInv, UNCHANGED <<conf, data, call, cache, written, forced, taken>>
  PROVE  LinesInv'
<1>1. Pos' = Pos
  BY DEF Pos
<1>2. /\ \A i : Skipped(i)' <=> Skipped(i)
      /\ \A i : IsEnd(i)' <=> IsEnd(i)
      /\ \A e : Aligned(e)' <=> Aligned(e)
      /\ \A e, n : Piece(e, n)' = Piece(e, n)
      /\ \A e : LineAt(e)' = LineAt(e)
  BY SameEnds
<1>3. Remaining'
  BY <1>1, <1>2 DEF Remaining, LinesInv
<1>4. ASSUME NEW n \in Nat, StackedUpTo(n) PROVE StackedUpTo(n)'
  BY <1>2, <1>4, StackedStays
<1>5. CASE call # "line"
  <2>1. PICK e \in 0 .. Pos :
          /\ Ends(e, Pos)
          /\ cache = IF e = Pos THEN <<>> ELSE Piece(e, Pos)
          /\ ~conf.binmode => \A i \in 1 .. Len(cache) : cache[i] \notin {"LF", "CR", "NUL"}
          /\ conf.binmode => Aligned(e)
          /\ StackedUpTo(e)
    BY <1>5 DEF LinesInv, Collecting
  <2>2. Ends(e, Pos)' /\ StackedUpTo(e)'
    BY <1>1, <1>2, <1>4, <2>1, PosType DEF Ends
  <2>3. Collecting'
    BY <1>1, <1>2, <2>1, <2>2 DEF Collecting
  <2> QED BY <1>3, <1>5, <2>3 DEF LinesInv
<1>6. CASE call = "line"
  <2>1. PICK e \in 1 .. Pos :
          /\ IsEnd(e)
          /\ e = Pos \/ (e = Pos - 1 /\ ~conf.binmode /\ Skipped(Pos) /\ Pos \notin forced)
          /\ cache = LineAt(e)
          /\ ~conf.binmode => Terminated(cache)
          /\ conf.binmode => Aligned(e)
          /\ StackedUpTo(e - 1)
    BY <1>6 DEF LinesInv, Completed
  <2>2. StackedUpTo(e - 1)'
    BY <1>4, <2>1, PosType
  <2>3. Skipped(Pos)' <=> Skipped(Pos)
    BY <1>1, <1>2 DEF Skipped
  <2>4. Completed'
    BY <1>1, <1>2, <2>1, <2>2, <2>3 DEF Completed
  <2> QED BY <1>3, <1>6, <2>4 DEF LinesInv
<1> QED BY <1>5, <1>6

LEMMA WriteLines ==
  ASSUME AssemblyInv, LinesInv, NEW bytes \in BoundedSeq(Bytes, MaxBytes) \ {<<>>}, Write(bytes)
  PROVE  LinesInv'
<1>1. bytes \in Seq(Bytes) /\ Len(bytes) \in Nat \ {0}
  BY LenProperties, EmptySeq DEF BoundedSeq, SeqOf
<1>2. PICK news : news = [i \in DOMAIN bytes |-> [byte |-> bytes[i], first |-> i = 1]]
  OBVIOUS
<1>3. news \in Seq([byte : Bytes, first : BOOLEAN]) /\ Len(news) = Len(bytes)
  <2>1. DOMAIN bytes = 1 .. Len(bytes) /\ \A i \in 1 .. Len(bytes) : bytes[i] \in Bytes
    BY <1>1, LenProperties, ElementOfSeq
  <2>2. news \in [1 .. Len(bytes) -> [byte : Bytes, first : BOOLEAN]]
    BY <1>2, <2>1
  <2> QED BY <1>1, <2>2, SeqOfFunction
<1>4. /\ call = "none" /\ call' = "push" /\ data = <<>> /\ data' = bytes /\ written' = written \o news
      /\ UNCHANGED <<conf, cache, forced, taken>>
  BY <1>2 DEF Write, AssemblyInv, AssemblyTypeOK
<1>5. Pos = Len(written) /\ Pos \in Nat
  BY <1>4, PosType, EmptySeq DEF Pos
<1>6. /\ Len(written') = Pos + Len(bytes)
      /\ \A i \in 1 .. Pos : written'[i] = written[i]
      /\ \A k \in 1 .. Len(bytes) : written'[Pos + k] = news[k]
  <2>1. written \in Seq([byte : Bytes, first : BOOLEAN])
    BY DEF AssemblyInv, AssemblyTypeOK
  <2>2. /\ Len(written') = Len(written) + Len(news)
        /\ \A i \in 1 .. Len(written) + Len(news) :
             written'[i] = IF i <= Len(written) THEN written[i] ELSE news[i - Len(written)]
    BY ONLY <1>3, <1>4, <2>1, ConcatProperties
  <2>3. ASSUME NEW k \in 1 .. Len(bytes) PROVE written'[Pos + k] = news[k]
    BY <1>1, <1>3, <1>5, <2>2
  <2> QED BY <1>1, <1>3, <1>5, <2>2, <2>3
<1>7. Pos' = Pos
  BY <1>1, <1>4, <1>5, <1>6 DEF Pos
<1>8. \A k \in 1 .. Len(bytes) : news[k].byte = bytes[k] /\ news[k].first = (k = 1)
  BY <1>1, <1>2
<1>9. Remaining'
  <2>1. \A k \in 1 .. Len(bytes) : bytes[k] = written'[Pos + k].byte /\ written'[Pos + k].first = (k = 1)
    BY <1>6, <1>8
  <2>2. ~Skipped(Pos + 1)'
    <3>1. 1 \in 1 .. Len(bytes)
      BY <1>1
    <3>2. written'[Pos + 1].first
      BY <2>1, <3>1
    <3> QED BY <1>5, <1>7, <3>2 DEF Skipped
  <2>3. \A k \in 2 .. Len(bytes) : ~written'[Pos + k].first
    <3>1. \A k \in 2 .. Len(bytes) : k \in 1 .. Len(bytes) /\ k # 1
      BY <1>1
    <3> QED BY <2>1, <3>1
  <2>4. forced' \subseteq 1 .. Pos
    BY <1>4 DEF LinesInv, Remaining
  <2> QED BY <1>4, <1>5, <1>7, <2>1, <2>2, <2>3, <2>4 DEF Remaining
<1>10. /\ \A i \in 1 .. Pos : IsEnd(i)' <=> IsEnd(i)
       /\ \A b \in 0 .. Pos - 1, e \in 0 .. Pos : Piece(b, e)' = Piece(b, e)
       /\ \A e \in 1 .. Pos : LineAt(e)' = LineAt(e)
  <2>1. \A f \in forced \cup forced' : f \in Nat
    BY <1>4, <1>5, ForcedType
  <2>2. PICK p \in Nat : p = Pos
    BY <1>5
  <2>3. /\ \A i \in 1 .. p : (i \in forced' <=> i \in forced) => (IsEnd(i)' <=> IsEnd(i))
        /\ \A b \in 0 .. p - 1, e \in 0 .. p : Piece(b, e)' = Piece(b, e)
        /\ \A e \in 1 .. p : LineAt(e)' = LineAt(e)
    BY <1>4, <1>6, <2>1, <2>2, OldEnds
  <2> QED BY <1>4, <2>2, <2>3
<1>11. PICK e \in 0 .. Pos :
         /\ Ends(e, Pos)
         /\ cache = IF e = Pos THEN <<>> ELSE Piece(e, Pos)
         /\ ~conf.binmode => \A i \in 1 .. Len(cache) : cache[i] \notin {"LF", "CR", "NUL"}
         /\ conf.binmode => Aligned(e)
         /\ StackedUpTo(e)
  BY <1>4 DEF LinesInv, Collecting
<1>12. Ends(e, Pos)'
  BY <1>5, <1>7, <1>10, <1>11 DEF Ends
<1>13. cache' = IF e = Pos THEN <<>> ELSE Piece(e, Pos)'
  <2>1. PICK p \in Nat : p = Pos
    BY <1>5
  <2>2. e # p => Piece(e, p)' = Piece(e, p)
    BY <1>10, <2>1
  <2>3. Piece(e, Pos)' = Piece(e, p)'
    BY <1>7, <2>1
  <2> QED BY <1>4, <1>11, <2>1, <2>2, <2>3
<1>14. conf'.binmode => Aligned(e)'
  BY <1>4, <1>11 DEF Aligned
<1>15. StackedUpTo(e)'
  BY <1>4, <1>5, <1>10, <1>11, StackedStays
<1>16. Collecting'
  BY <1>4, <1>7, <1>11, <1>12, <1>13, <1>14, <1>15 DEF Collecting
<1> QED BY <1>4, <1>9, <1>16 DEF LinesInv

LEMMA PieceType ==
  ASSUME AssemblyInv, NEW e \in 0 .. Len(written), NEW n \in 0 .. Len(written), First(e) <= n + 1
  PROVE  Piece(e, n) \in Seq(Bytes) /\ Len(Piece(e, n)) = n - First(e) + 1 /\ First(e) \in {e + 1, e + 2}
<1>1. PICK first \in {e + 1, e + 2} : first = First(e)
  BY DEF First
<1>2. written \in Seq([byte : Bytes, first : BOOLEAN]) /\ Len(written) \in Nat
  BY Lengths DEF AssemblyInv, AssemblyTypeOK
<1>3. \A i \in 1 .. Len(written) : written[i].byte \in Bytes
  <2>1. \A i \in 1 .. Len(written) : written[i] \in [byte : Bytes, first : BOOLEAN]
    BY <1>2, ElementOfSeq
  <2> QED BY <2>1
<1>4. \A i \in 1 .. (n - first + 1) : first + i - 1 \in 1 .. Len(written)
  <2>1. PICK w \in Nat : w = Len(written) /\ e \in 0 .. w /\ n \in 0 .. w
    BY <1>2
  <2>2. \A i \in 1 .. (n - first + 1) : first + i - 1 \in 1 .. w
    BY ONLY <1>1, <2>1, SMTT(40)
  <2> QED BY <2>1, <2>2
<1>5. Piece(e, n) \in [1 .. (n - first + 1) -> Bytes]
  BY <1>1, <1>3, <1>4 DEF Piece
<1>6. n - first + 1 \in Nat
  BY <1>1, <1>2
<1> QED BY <1>1, <1>5, <1>6, SeqOfFunction

\* What is appended to the cache follows the bytes of the line so far.
LEMMA PieceGrows ==
  ASSUME AssemblyInv, Remaining, NEW e \in 0 .. Pos, NEW part \in Seq(Bytes),
         cache = IF e = Pos THEN <<>> ELSE Piece(e, Pos),
         Len(part) <= Len(data), \A k \in 1 .. Len(part) : part[k] = data[k]
  PROVE  cache \o part = IF e = Pos + Len(part) THEN <<>> ELSE Piece(e, Pos + Len(part))
<1>1. /\ Pos \in Nat /\ Pos + Len(data) = Len(written) /\ Len(data) \in Nat /\ Len(part) \in Nat
      /\ cache \in Seq(Bytes) /\ Len(cache) \in Nat
  BY PosType, LenProperties DEF AssemblyInv, AssemblyTypeOK
<1>2. CASE Len(part) = 0
  <2>1. part = <<>>
    BY <1>2, EmptySeq
  <2>2. cache \o part = cache
    BY <1>1, <2>1, ConcatEmptySeq
  <2> QED BY <1>1, <1>2, <2>2
<1>3. CASE Len(part) # 0
  <2>1. data # <<>>
    BY <1>1, <1>3, EmptySeq
  <2>2. PICK first \in {e + 1, e + 2} : first = First(e)
    BY DEF First
  <2>3. first <= Pos + 1
    <3>1. CASE e = Pos
      BY <2>1, <2>2, <3>1 DEF Remaining, First
    <3>2. CASE e # Pos
      BY <1>1, <2>2, <3>2
    <3> QED BY <3>1, <3>2
  <2>4. cache = Piece(e, Pos)
    <3>1. Len(Piece(e, Pos)) = Pos - first + 1 /\ Piece(e, Pos) \in Seq(Bytes)
      BY <1>1, <2>2, <2>3, PieceType
    <3>2. e = Pos => Len(Piece(e, Pos)) = 0
      BY <1>1, <2>2, <2>3, <3>1
    <3> QED BY <3>1, <3>2, EmptySeq
  <2>5. Len(cache) = Pos - first + 1 /\ \A i \in 1 .. Len(cache) : cache[i] = written[first + i - 1].byte
    <3>1. Len(cache) = Pos - first + 1
      <4>1. Pos \in 0 .. Len(written) /\ e \in 0 .. Len(written)
        BY <1>1
      <4>2. Len(Piece(e, Pos)) = Pos - first + 1
        BY <2>2, <2>3, <4>1, PieceType
      <4> QED BY <2>4, <4>2
    <3> QED BY <2>2, <2>4, <3>1 DEF Piece
  <2> DEFINE n == Pos + Len(part)
  <2>6. n \in 0 .. Len(written) /\ first <= n + 1 /\ e # n
    BY <1>1, <1>3, <2>2, <2>3
  <2>7. Piece(e, n) \in Seq(Bytes) /\ Len(Piece(e, n)) = n - first + 1
    BY <1>1, <2>2, <2>6, PieceType
  <2>8. \A i \in 1 .. (n - first + 1) : Piece(e, n)[i] = written[first + i - 1].byte
    BY <2>2 DEF Piece
  <2>9. /\ cache \o part \in Seq(Bytes) /\ Len(cache \o part) = n - first + 1
        /\ \A i \in 1 .. (n - first + 1) : (cache \o part)[i] = IF i <= Len(cache) THEN cache[i] ELSE part[i - Len(cache)]
    <3>1. /\ cache \o part \in Seq(Bytes) /\ Len(cache \o part) = Len(cache) + Len(part)
          /\ \A i \in 1 .. Len(cache) + Len(part) :
               (cache \o part)[i] = IF i <= Len(cache) THEN cache[i] ELSE part[i - Len(cache)]
      BY <1>1, ConcatProperties
    <3>2. Len(cache) + Len(part) = n - first + 1
      BY ONLY <1>1, <2>2, <2>5
    <3> QED BY <3>1, <3>2
  <2>10. ASSUME NEW i \in 1 .. (n - first + 1) PROVE (cache \o part)[i] = Piece(e, n)[i]
    <3>1. CASE i <= Len(cache)
      BY <1>1, <2>5, <2>8, <2>9, <3>1
    <3>2. CASE ~(i <= Len(cache))
      <4>1. PICK k \in 1 .. Len(part) : k = i - Len(cache) /\ Pos + k = first + i - 1
        <5>1. Len(cache) = Pos - first + 1 /\ first \in Nat
          BY <1>1, <2>2, <2>5, SMTT(40)
        <5>2. PICK c \in Nat, p \in Nat, m \in Nat : c = Len(cache) /\ p = Pos /\ m = Len(part)
          BY <1>1
        <5>3. c = p - first + 1 /\ i \in 1 .. (p + m - first + 1) /\ ~(i <= c)
          BY <3>2, <5>1, <5>2
        <5>4. i - c \in 1 .. m /\ p + (i - c) = first + i - 1
          BY <5>1, <5>3
        <5> QED BY <5>2, <5>4
      <4>2. part[k] = written[Pos + k].byte
        <5>1. k \in 1 .. Len(data)
          BY <1>1, <4>1
        <5> QED BY <5>1 DEF Remaining
      <4> QED BY <2>8, <2>9, <3>2, <4>1, <4>2
    <3> QED BY <3>1, <3>2
  <2> HIDE DEF n
  <2>11. cache \o part = Piece(e, n)
    BY ONLY <2>7, <2>9, <2>10, SeqEqual
  <2> QED BY <2>6, <2>11 DEF n
<1> QED BY <1>2, <1>3

LEMMA NextEndIs ==
  ASSUME data \in Seq(Bytes)
  PROVE  /\ NextEnd = 0 => \A k \in 1 .. Len(data) : data[k] \notin {"LF", "CR", "NUL"}
         /\ NextEnd # 0 => /\ data[NextEnd] \in {"LF", "CR", "NUL"}
                           /\ \A k \in 1 .. NextEnd - 1 : data[k] \notin {"LF", "CR", "NUL"}
<1> DEFINE I == {i \in 1 .. Len(data) : data[i] \in {"LF", "CR", "NUL"}}
<1>1. Len(data) \in Nat
  BY LenProperties
<1>2. NextEnd = IF I # {} THEN Min(I) ELSE 0
  BY DEF NextEnd, SelectInSeq
<1>3. I # {} => Min(I) \in I /\ \A i \in I : Min(I) <= i
  BY <1>1, MinType
<1>4. CASE I = {}
  BY <1>1, <1>2, <1>4
<1>5. CASE I # {}
  <2>1. NextEnd \in I /\ \A i \in I : NextEnd <= i
    BY <1>2, <1>3, <1>5
  <2>2. \A k \in 1 .. NextEnd - 1 : k \in 1 .. Len(data) /\ k < NextEnd
    BY <1>1, <2>1
  <2> QED BY <1>1, <2>1, <2>2
<1> QED BY <1>4, <1>5

LEMMA KeepRestLines ==
  ASSUME AssemblyInv, LinesInv, KeepRest
  PROVE  LinesInv'
<1>1. /\ ~conf.binmode /\ call = "push" /\ call' = "none" /\ NextEnd = 0 /\ data' = <<>> /\ cache' = cache \o data
      /\ UNCHANGED <<conf, written, forced, taken>>
  BY DEF KeepRest, AppendStringBuff, historyVars
<1>2. /\ data \in Seq(Bytes) /\ cache \in Seq(Bytes) /\ Len(cache) \in Nat
      /\ Pos \in Nat /\ Pos + Len(data) = Len(written) /\ Len(data) \in Nat /\ Len(written) \in Nat
  BY PosType, LenProperties DEF AssemblyInv, AssemblyTypeOK
<1>3. PICK n \in Nat : n = Pos + Len(data)
  BY <1>2
<1>4. Pos' = n /\ n = Len(written)
  BY <1>1, <1>2, <1>3, EmptySeq DEF Pos
<1>5. Remaining
  BY DEF LinesInv
<1>6. \A k \in 1 .. Len(data) : data[k] \notin {"LF", "CR", "NUL"}
  BY <1>1, <1>2, NextEndIs
<1>7. PICK e \in 0 .. Pos :
        /\ Ends(e, Pos)
        /\ cache = IF e = Pos THEN <<>> ELSE Piece(e, Pos)
        /\ ~conf.binmode => \A i \in 1 .. Len(cache) : cache[i] \notin {"LF", "CR", "NUL"}
        /\ conf.binmode => Aligned(e)
        /\ StackedUpTo(e)
  BY <1>1 DEF LinesInv, Collecting
<1>8. cache' = IF e = n THEN <<>> ELSE Piece(e, n)
  BY <1>1, <1>2, <1>3, <1>5, <1>7, PieceGrows, SMTT(40)
<1>9. Ends(e, n)
  <2>1. ASSUME NEW i \in e + 1 .. n PROVE ~IsEnd(i)
    <3>1. CASE i \in e + 1 .. Pos
      BY <1>7, <3>1 DEF Ends
    <3>2. CASE i \notin e + 1 .. Pos
      <4>1. PICK k \in 1 .. Len(data) : i = Pos + k
        <5>1. i - Pos \in 1 .. Len(data)
          BY <1>2, <1>3, <3>2
        <5> QED BY <1>2, <5>1
      <4>2. written[i].byte \notin {"LF", "CR", "NUL"}
        BY <1>5, <1>6, <4>1 DEF Remaining
      <4>3. i \notin forced
        BY <1>2, <1>5, <4>1 DEF Remaining
      <4> QED BY <1>1, <4>2, <4>3 DEF IsEnd
    <3> QED BY <3>1, <3>2
  <2> QED BY <1>7, <2>1 DEF Ends
<1>10. \A i \in 1 .. Len(cache') : cache'[i] \notin {"LF", "CR", "NUL"}
  <2>1. /\ Len(cache') = Len(cache) + Len(data)
        /\ \A i \in 1 .. Len(cache) + Len(data) : cache'[i] = IF i <= Len(cache) THEN cache[i] ELSE data[i - Len(cache)]
    BY <1>1, <1>2, ConcatProperties
  <2>2. ASSUME NEW i \in 1 .. Len(cache') PROVE cache'[i] \notin {"LF", "CR", "NUL"}
    <3>1. CASE i <= Len(cache)
      BY <1>1, <1>2, <1>7, <2>1, <3>1
    <3>2. CASE ~(i <= Len(cache))
      <4>1. i - Len(cache) \in 1 .. Len(data)
        BY <1>2, <2>1, <3>2
      <4> QED BY <1>2, <1>6, <2>1, <3>2, <4>1
    <3> QED BY <3>1, <3>2
  <2> QED BY <2>2
<1>11. /\ \A i : IsEnd(i)' <=> IsEnd(i)
       /\ \A b, m : Piece(b, m)' = Piece(b, m)
       /\ \A i : LineAt(i)' = LineAt(i)
  BY <1>1, SameEnds
<1>12. StackedUpTo(e)'
  BY <1>1, <1>2, <1>7, <1>11, StackedStays, SMTT(40)
<1>13. Ends(e, Pos)'
  BY <1>4, <1>9, <1>11 DEF Ends
<1>14. Remaining'
  <2>1. forced' \subseteq 1 .. n
    BY <1>1, <1>2, <1>3, <1>5 DEF Remaining
  <2>2. Len(data') = 0
    BY <1>1, EmptySeq
  <2> QED BY <1>1, <1>4, <2>1, <2>2 DEF Remaining
<1>15. Collecting'
  <2>1. e \in 0 .. n /\ Piece(e, Pos)' = Piece(e, n)
    BY <1>2, <1>3, <1>4, <1>11
  <2> QED BY <1>1, <1>4, <1>8, <1>10, <1>12, <1>13, <2>1 DEF Collecting
<1> QED BY <1>1, <1>14, <1>15 DEF LinesInv

\* What Push goes on with is still the end of what was written.
LEMMA RemainingDrops ==
  ASSUME AssemblyInv, Remaining, NEW n \in 0 .. Len(data), data' = Drop(data, n),
         UNCHANGED <<conf, written, forced>>,
         ~conf.binmode /\ n < Len(data) => \A i : i = Pos + n + 1 => ~Skipped(i)
  PROVE  Pos' = Pos + n /\ Remaining'
<1>1. /\ data \in Seq(Bytes) /\ Len(data) \in Nat /\ Pos \in Nat /\ Pos + Len(data) = Len(written)
      /\ Len(written) \in Nat
  BY PosType DEF AssemblyInv, AssemblyTypeOK
<1>2. data' \in Seq(Bytes) /\ Len(data') = Len(data) - n
  BY <1>1, DropType
<1>3. ASSUME NEW k \in 1 .. Len(data') PROVE data'[k] = data[n + k]
  <2>1. n \in Nat /\ n + 1 \in Nat /\ k \in 1 .. (Len(data) - (n + 1) + 1)
    BY <1>1, <1>2
  <2>2. \A i \in n + 1 .. Len(data) : data[i] \in Bytes
    BY <1>1, ElementOfSeq
  <2>3. SubSeq(data, n + 1, Len(data))[k] = data[n + 1 + k - 1]
    BY <1>1, <2>1, <2>2, SubSeqProperties, SMTT(40)
  <2> QED BY <2>1, <2>3 DEF Drop
<1>4. Pos' = Pos + n
  BY <1>1, <1>2 DEF Pos
<1>5. ASSUME NEW k \in 1 .. Len(data')
      PROVE  data'[k] = written'[Pos + n + k].byte /\ (k \in 2 .. Len(data') => ~written'[Pos + n + k].first)
  <2>1. n + k \in 1 .. Len(data) /\ (k \in 2 .. Len(data') => n + k \in 2 .. Len(data)) /\ Pos + n + k = Pos + (n + k)
    BY <1>1, <1>2
  <2> QED BY <1>3, <2>1 DEF Remaining
<1>6. \A k \in 2 .. Len(data') : k \in 1 .. Len(data')
  BY <1>1, <1>2
<1>7. ~conf'.binmode /\ data' # <<>> => ~Skipped(Pos + 1)'
  <2>1. data' # <<>> => n < Len(data)
    BY <1>1, <1>2, EmptySeq
  <2>2. PICK i : i = Pos + n + 1
    OBVIOUS
  <2>3. Skipped(i)' <=> Skipped(i)
    BY SameEnds
  <2>4. Pos' + 1 = i
    BY <1>1, <1>4, <2>2
  <2>5. Skipped(Pos + 1)' <=> Skipped(i)'
    BY <2>4 DEF Skipped
  <2> QED BY <2>1, <2>2, <2>3, <2>5
<1>8. forced' \subseteq 1 .. Pos + n
  BY <1>1 DEF Remaining
<1> QED BY <1>4, <1>5, <1>6, <1>7, <1>8 DEF Remaining

\* How an end of line is appended and skipped over.
LEMMA EndLineEffect ==
  ASSUME AssemblyInv, EndLine
  PROVE  \E m \in 1 .. Len(data), a \in {0, 1}, part \in Seq(Bytes) :
           /\ m = NextEnd /\ a = AddCr(m) /\ m + a \in 1 .. Len(data)
           /\ Len(part) = m /\ \A k \in 1 .. m : part[k] = data[k]
           /\ AppendStringBuff(part, TRUE) /\ data' = Drop(data, m + a)
<1>1. /\ call = "push" /\ NextEnd # 0 /\ AppendStringBuff(SubSeq(data, 1, NextEnd), TRUE)
      /\ data' = Drop(data, NextEnd + AddCr(NextEnd))
  BY DEF EndLine
<1>2. data \in Seq(Bytes) /\ Len(data) \in Nat /\ NextEnd \in 0 .. Len(data)
  BY NextEndType, LenProperties DEF AssemblyInv, AssemblyTypeOK
<1>3. PICK m \in 1 .. Len(data) : m = NextEnd
  BY <1>1, <1>2
<1>4. PICK a \in {0, 1} : a = AddCr(m) /\ m + a \in 1 .. Len(data)
  BY <1>2, <1>3 DEF AddCr
<1>5. PICK part : part = SubSeq(data, 1, m)
  OBVIOUS
<1>6. part \in Seq(Bytes) /\ Len(part) = m
  BY <1>2, <1>3, <1>5, SubSeqType
<1>7. \A k \in 1 .. m : part[k] = data[k]
  <2>1. \A i \in 1 .. m : data[i] \in Bytes
    BY <1>2, ElementOfSeq
  <2>2. \A k \in 1 .. m : part[k] = data[1 + k - 1]
    BY <1>2, <1>3, <1>5, <2>1, SubSeqProperties
  <2> QED BY <2>2
<1> QED BY <1>1, <1>3, <1>4, <1>5, <1>6, <1>7

LEMMA EndLineLines ==
  ASSUME AssemblyInv, LinesInv, EndLine
  PROVE  LinesInv'
<1>1. /\ ~conf.binmode /\ call = "push" /\ call' = "line"
      /\ UNCHANGED <<conf, written, forced, taken>>
  BY DEF EndLine, historyVars
<1>2. /\ data \in Seq(Bytes) /\ cache \in Seq(Bytes) /\ Len(cache) \in Nat
      /\ Pos \in Nat /\ Pos + Len(data) = Len(written) /\ Len(data) \in Nat /\ Len(written) \in Nat
  BY PosType, LenProperties DEF AssemblyInv, AssemblyTypeOK
<1>3. Remaining
  BY DEF LinesInv
<1>4. PICK m \in 1 .. Len(data), a \in {0, 1}, part \in Seq(Bytes) :
           /\ m = NextEnd /\ a = AddCr(m) /\ m + a \in 1 .. Len(data)
           /\ Len(part) = m /\ \A k \in 1 .. m : part[k] = data[k]
           /\ AppendStringBuff(part, TRUE) /\ data' = Drop(data, m + a)
  BY EndLineEffect
<1>5. data[m] \in {"LF", "CR", "NUL"} /\ \A k \in 1 .. m - 1 : data[k] \notin {"LF", "CR", "NUL"}
  BY <1>2, <1>4, NextEndIs
<1>6. PICK n \in Nat \ {0}, p \in Nat : n = Pos + m /\ p = n + a
  BY <1>2
<1>7. PICK e \in 0 .. Pos :
        /\ Ends(e, Pos)
        /\ cache = IF e = Pos THEN <<>> ELSE Piece(e, Pos)
        /\ \A i \in 1 .. Len(cache) : cache[i] \notin {"LF", "CR", "NUL"}
        /\ StackedUpTo(e)
  BY <1>1 DEF LinesInv, Collecting
<1>8. \A k \in 1 .. m : written[Pos + k].byte = data[k] /\ Pos + k \notin forced
  BY <1>2, <1>3 DEF Remaining
<1>9. \A i \in e + 1 .. n - 1 : ~IsEnd(i)
  <2>1. ASSUME NEW i \in e + 1 .. n - 1 PROVE ~IsEnd(i)
    <3>1. CASE i \in e + 1 .. Pos
      BY <1>7, <3>1 DEF Ends
    <3>2. CASE i \notin e + 1 .. Pos
      <4>1. PICK k \in 1 .. m - 1 : i = Pos + k
        <5>1. i - Pos \in 1 .. m - 1
          BY <1>2, <1>6, <3>2
        <5> QED BY <1>2, <5>1
      <4>2. written[i].byte \notin {"LF", "CR", "NUL"} /\ i \notin forced
        BY <1>5, <1>8, <4>1
      <4> QED BY <1>1, <4>2 DEF IsEnd
    <3> QED BY <3>1, <3>2
  <2> QED BY <2>1
<1>10. LastEnd(n - 1) = e
  <2>1. e \in 0 .. n - 1 /\ n - 1 \in Nat
    BY <1>2, <1>6
  <2>2. Ends(e, n - 1)
    BY <1>7, <1>9 DEF Ends
  <2> QED BY <2>1, <2>2, LastEndIs
<1>11. IsEnd(n)
  <2>1. written[n].byte \in {"LF", "CR", "NUL"}
    BY <1>5, <1>6, <1>8, SMTT(40)
  <2>2. CASE m = 1
    <3>1. data # <<>>
      BY <1>2, EmptySeq
    <3> QED BY <1>1, <1>3, <1>6, <2>1, <2>2, <3>1 DEF IsEnd, Remaining
  <2>3. CASE m # 1
    <3>1. m - 1 \in 1 .. m - 1 /\ m - 1 \in 1 .. m /\ n - 1 = Pos + (m - 1)
      BY <1>2, <1>6, <2>3
    <3>2. written[n - 1].byte # "CR"
      BY <1>5, <1>8, <3>1
    <3> QED BY <1>1, <2>1, <3>2 DEF IsEnd, Skipped
  <2> QED BY <2>2, <2>3
<1>12. a = 1 => Skipped(p) /\ p = n + 1
  <2>1. SUFFICES ASSUME a = 1 PROVE Skipped(p) /\ p = n + 1
    OBVIOUS
  <2>2. PICK k \in 2 .. Len(data) : k = m + 1
    BY <1>2, <1>4, <2>1
  <2>3. data[m] = "CR" /\ data[k] = "LF"
    BY <1>4, <2>1, <2>2 DEF AddCr
  <2>4. written[Pos + k].byte = "LF" /\ ~written[Pos + k].first
    BY <1>2, <1>3, <2>2, <2>3 DEF Remaining
  <2>5. written[Pos + m].byte = "CR"
    BY <1>8, <2>3
  <2>6. p = Pos + k /\ p = n + 1 /\ p - 1 = Pos + m /\ p > 1
    BY <1>2, <1>6, <2>1, <2>2
  <2> QED BY <2>4, <2>5, <2>6 DEF Skipped
<1>13. ASSUME m + a < Len(data), NEW i, i = Pos + (m + a) + 1 PROVE ~Skipped(i)
  <2>1. PICK k \in 1 .. Len(data) : k = m + 1
    BY <1>2, <1>4, <1>13, SMTT(40)
  <2>2. written[Pos + k].byte = data[k]
    BY <1>3 DEF Remaining
  <2>3. CASE a = 1
    <3>1. data[k] = "LF"
      BY <1>4, <2>1, <2>3 DEF AddCr
    <3>2. i - 1 = Pos + k
      BY <1>2, <1>13, <2>1, <2>3
    <3> QED BY <2>2, <3>1, <3>2 DEF Skipped
  <2>4. CASE a = 0
    <3>1. data[m] # "CR" \/ data[k] # "LF"
      BY <1>2, <1>4, <1>13, <2>1, <2>4 DEF AddCr
    <3>2. i = Pos + k /\ i - 1 = Pos + m
      BY <1>2, <1>13, <2>1, <2>4
    <3> QED BY <1>8, <2>2, <3>1, <3>2 DEF Skipped
  <2> QED BY <2>3, <2>4
<1>14. Pos' = Pos + (m + a) /\ Remaining'
  BY <1>1, <1>2, <1>3, <1>4, <1>13, RemainingDrops
<1> DEFINE whole == cache \o part
<1>15. whole = Piece(e, n)
  <2>1. \A k \in 1 .. Len(part) : part[k] = data[k]
    BY <1>4
  <2>2. Len(part) <= Len(data) /\ e # Pos + Len(part)
    BY <1>2, <1>4
  <2> QED BY <1>3, <1>4, <1>6, <1>7, <2>1, <2>2, PieceGrows
<1>16. cache' = LineAt(n)
  <2>1. cache' = IF Last(whole) # "NUL" THEN Append(whole, "NUL") ELSE whole
    BY <1>4 DEF AppendStringBuff
  <2>2. LineAt(n) = LineBetween(e, n)
    BY <1>10 DEF LineAt
  <2> HIDE DEF whole
  <2> QED BY <1>1, <1>15, <2>1, <2>2 DEF LineBetween
<1>17. Terminated(cache')
  <2>1. /\ whole \in Seq(Bytes) /\ Len(whole) = Len(cache) + m
        /\ \A i \in 1 .. Len(cache) + m : whole[i] = IF i <= Len(cache) THEN cache[i] ELSE part[i - Len(cache)]
    <3>1. Len(part) = m /\ part \in Seq(Bytes)
      BY <1>4
    <3> QED BY <1>2, <3>1, ConcatProperties
  <2>2. ASSUME NEW i \in 1 .. Len(whole) - 1 PROVE whole[i] # "NUL"
    <3>1. CASE i <= Len(cache)
      BY <1>2, <1>7, <2>1, <3>1
    <3>2. CASE ~(i <= Len(cache))
      <4>1. i - Len(cache) \in 1 .. m - 1
        BY <1>2, <2>1, <3>2
      <4> QED BY <1>2, <1>4, <1>5, <2>1, <3>2, <4>1, SMTT(40)
    <3> QED BY <3>1, <3>2
  <2>3. cache' = IF whole[Len(whole)] # "NUL" THEN Append(whole, "NUL") ELSE whole
    BY <1>4 DEF AppendStringBuff, Last
  <2> HIDE DEF whole
  <2>4. Len(whole) \in Nat \ {0}
    BY <1>2, <2>1
  <2>5. CASE whole[Len(whole)] = "NUL"
    BY <2>2, <2>3, <2>4, <2>5 DEF Terminated
  <2>6. CASE whole[Len(whole)] # "NUL"
    <3>1. /\ Len(cache') = Len(whole) + 1
          /\ \A i \in 1 .. Len(whole) : cache'[i] = whole[i]
          /\ cache'[Len(whole) + 1] = "NUL"
      <4>1. "NUL" \in Bytes
        BY DEF Bytes
      <4>2. /\ Len(Append(whole, "NUL")) = Len(whole) + 1
            /\ \A i \in 1 .. Len(whole) : Append(whole, "NUL")[i] = whole[i]
            /\ Append(whole, "NUL")[Len(whole) + 1] = "NUL"
        <5>1. whole \in Seq(Bytes)
          BY <2>1
        <5> QED BY <4>1, <5>1, AppendProperties
      <4>3. cache' = Append(whole, "NUL")
        BY <2>3, <2>6
      <4> QED BY <4>2, <4>3
    <3> QED BY <2>2, <2>4, <2>6, <3>1 DEF Terminated
  <2> QED BY <2>5, <2>6
<1>18. StackedUpTo(n - 1)
  BY <1>2, <1>6, <1>7, <1>9, StackedExtends
<1>19. /\ \A i : IsEnd(i)' <=> IsEnd(i)
       /\ \A i : Skipped(i)' <=> Skipped(i)
       /\ \A i : LineAt(i)' = LineAt(i)
  BY <1>1, SameEnds
<1>20. StackedUpTo(n - 1)'
  BY <1>1, <1>18, <1>19, StackedStays
<1>21. Completed'
  <2>1. p = Pos' /\ n \in 1 .. p
    BY <1>2, <1>6, <1>14
  <2>2. Skipped(Pos)' <=> Skipped(p)'
    BY <2>1 DEF Skipped
  <2>3. a = 0 => n = Pos'
    BY <1>6, <2>1
  <2>4. n = Pos' \/ (n = Pos' - 1 /\ ~conf'.binmode /\ Skipped(Pos)' /\ Pos' \notin forced')
    <3>1. CASE a = 0
      BY <2>3, <3>1
    <3>2. CASE a = 1
      <4>1. Skipped(p)' /\ n = p - 1
        BY <1>12, <1>19, <3>2
      <4>2. p \notin forced
        BY <1>2, <1>3, <1>6 DEF Remaining
      <4> QED BY <1>1, <2>1, <2>2, <4>1, <4>2
    <3> QED BY <3>1, <3>2
  <2> QED BY <1>1, <1>11, <1>16, <1>17, <1>19, <1>20, <2>1, <2>4 DEF Completed
<1> QED BY <1>1, <1>14, <1>21 DEF LinesInv

LEMMA FillBlockEffect ==
  ASSUME AssemblyInv, FillBlock
  PROVE  \E m \in 0 .. Len(data), part \in Seq(Bytes) :
           /\ Len(part) = m /\ \A k \in 1 .. m : part[k] = data[k]
           /\ cache' = cache \o part /\ data' = Drop(data, m)
           /\ data = <<>> \/ m > 0
           /\ \/ Len(cache) + m = BinaryBuffLimit /\ call' = "line"
              \/ Len(cache) + m < BinaryBuffLimit /\ call' # "line"
<1>1. PICK m : m = IF BinaryBuffLimit - Len(cache) < Len(data) THEN BinaryBuffLimit - Len(cache) ELSE Len(data)
  OBVIOUS
<1>2. /\ call = "push" /\ conf.binmode /\ AppendStringBuff(SubSeq(data, 1, m), FALSE)
      /\ data' = Drop(data, m)
      /\ call' = IF BinaryBuffLimit <= Len(cache) + m THEN "line" ELSE AfterPiece(data')
  BY <1>1 DEF FillBlock
<1>3. /\ data \in Seq(Bytes) /\ Len(data) \in Nat /\ Len(cache) \in Nat /\ Len(cache) < BinaryBuffLimit
      /\ Len(data) = 0 => data = <<>>
  BY <1>2, Lengths DEF AssemblyInv, AssemblyTypeOK, BlockOpen
<1>4. m \in 0 .. Len(data) /\ Len(cache) + m <= BinaryBuffLimit /\ (Len(data) # 0 => m > 0)
  BY <1>1, <1>3
<1>5. PICK part : part = SubSeq(data, 1, m)
  OBVIOUS
<1>6. part \in Seq(Bytes) /\ Len(part) = m
  BY <1>3, <1>4, <1>5, SubSeqType
<1>7. \A k \in 1 .. m : part[k] = data[k]
  <2>1. \A i \in 1 .. m : data[i] \in Bytes
    BY <1>3, <1>4, ElementOfSeq
  <2>2. \A k \in 1 .. m : part[k] = data[1 + k - 1]
    BY <1>3, <1>4, <1>5, <2>1, SubSeqProperties
  <2> QED BY <2>2
<1>8. cache' = cache \o part
  BY <1>2, <1>5 DEF AppendStringBuff
<1>9. \/ Len(cache) + m = BinaryBuffLimit /\ call' = "line"
      \/ Len(cache) + m < BinaryBuffLimit /\ call' # "line"
  BY <1>2, <1>3, <1>4 DEF AfterPiece
<1> QED BY <1>2, <1>3, <1>4, <1>6, <1>7, <1>8, <1>9

LEMMA FillBlockLines ==
  ASSUME AssemblyInv, LinesInv, FillBlock
  PROVE  LinesInv'
<1>1. conf.binmode /\ call = "push" /\ UNCHANGED <<conf, written, forced, taken>>
  BY DEF FillBlock, historyVars
<1>2. /\ data \in Seq(Bytes) /\ cache \in Seq(Bytes) /\ Len(cache) \in Nat
      /\ Pos \in Nat /\ Pos + Len(data) = Len(written) /\ Len(data) \in Nat /\ Len(written) \in Nat
  BY PosType, LenProperties DEF AssemblyInv, AssemblyTypeOK
<1>3. PICK m \in 0 .. Len(data), part \in Seq(Bytes) :
           /\ Len(part) = m /\ \A k \in 1 .. m : part[k] = data[k]
           /\ cache' = cache \o part /\ data' = Drop(data, m)
           /\ data = <<>> \/ m > 0
           /\ \/ Len(cache) + m = BinaryBuffLimit /\ call' = "line"
              \/ Len(cache) + m < BinaryBuffLimit /\ call' # "line"
  BY FillBlockEffect
<1>4. PICK n \in Nat : n = Pos + m
  BY <1>2
<1>5. PICK e \in 0 .. Pos :
        /\ Ends(e, Pos)
        /\ cache = IF e = Pos THEN <<>> ELSE Piece(e, Pos)
        /\ Aligned(e)
        /\ StackedUpTo(e)
  BY <1>1 DEF LinesInv, Collecting
<1>6. Remaining /\ Remaining' /\ Pos' = n
  <2>1. Remaining
    BY DEF LinesInv
  <2> QED BY <1>1, <1>2, <1>3, <1>4, <2>1, RemainingDrops
<1>7. cache' = IF e = n THEN <<>> ELSE Piece(e, n)
  <2>1. Len(part) <= Len(data) /\ \A k \in 1 .. Len(part) : part[k] = data[k]
    BY <1>2, <1>3
  <2>2. cache \o part = IF e = Pos + Len(part) THEN <<>> ELSE Piece(e, Pos + Len(part))
    BY <1>5, <1>6, <2>1, PieceGrows
  <2>3. Len(part) = m
    BY <1>3
  <2> QED BY <1>3, <1>4, <2>2, <2>3
<1>8. First(e) = e + 1
  BY <1>1 DEF First
<1>9. Len(cache) + m = n - e
  <2>1. CASE e = Pos
    BY <1>2, <1>4, <1>5, <2>1, EmptySeq
  <2>2. CASE e # Pos
    <3>1. Len(Piece(e, Pos)) = Pos - (e + 1) + 1
      <4>1. e \in 0 .. Len(written) /\ Pos \in 0 .. Len(written) /\ First(e) <= Pos + 1
        BY <1>2, <1>8, <2>2
      <4> QED BY <1>8, <4>1, PieceType
    <3> QED BY <1>2, <1>4, <1>5, <2>2, <3>1
  <2> QED BY <2>1, <2>2
<1>10. /\ \A i \in e + 1 .. e + BinaryBuffLimit - 1 : ~IsEnd(i)
       /\ IsEnd(e + BinaryBuffLimit)
       /\ Aligned(e + BinaryBuffLimit)
  BY <1>1, <1>2, <1>5, BlockEnds
<1>11. /\ \A i : IsEnd(i)' <=> IsEnd(i)
       /\ \A i : Aligned(i)' <=> Aligned(i)
       /\ \A b, i : Piece(b, i)' = Piece(b, i)
       /\ \A i : LineAt(i)' = LineAt(i)
  BY <1>1, SameEnds
<1>12. CASE Len(cache) + m < BinaryBuffLimit /\ call' # "line"
  <2>1. \A i \in e + 1 .. n : i \in e + 1 .. e + BinaryBuffLimit - 1
    BY <1>2, <1>9, <1>12
  <2>2. Ends(e, n)
    BY <1>5, <1>10, <2>1 DEF Ends
  <2>3. Ends(e, Pos)'
    BY <1>6, <1>11, <2>2 DEF Ends
  <2>4. StackedUpTo(e)'
    BY <1>1, <1>2, <1>5, <1>11, StackedStays
  <2>5. cache' = IF e = Pos' THEN <<>> ELSE Piece(e, Pos)'
    BY <1>6, <1>7, <1>11
  <2>6. e \in 0 .. Pos'
    BY <1>2, <1>4, <1>6
  <2>7. Collecting'
    BY <1>1, <1>5, <1>11, <2>3, <2>4, <2>5, <2>6 DEF Collecting
  <2> QED BY <1>6, <1>12, <2>7 DEF LinesInv
<1>13. CASE Len(cache) + m = BinaryBuffLimit /\ call' = "line"
  <2>1. n = e + BinaryBuffLimit /\ n \in 1 .. n /\ n - 1 \in Nat /\ e \in 0 .. n - 1 /\ e # n
    BY <1>2, <1>9, <1>13
  <2>2. \A i \in e + 1 .. n - 1 : ~IsEnd(i)
    BY <1>10, <2>1
  <2>3. LastEnd(n - 1) = e
    <3>1. Ends(e, n - 1)
      BY <1>5, <2>2 DEF Ends
    <3> QED BY <2>1, <3>1, LastEndIs
  <2>4. cache' = LineAt(n)
    BY <1>1, <1>7, <2>1, <2>3 DEF LineAt, LineBetween
  <2>5. StackedUpTo(n - 1)'
    <3>1. StackedUpTo(n - 1)
      BY <1>2, <1>5, <2>1, <2>2, StackedExtends
    <3> QED BY <1>1, <1>11, <2>1, <3>1, StackedStays
  <2>6. IsEnd(n)' /\ Aligned(n)' /\ cache' = LineAt(n)'
    BY <1>10, <1>11, <2>1, <2>4
  <2>7. Completed'
    BY <1>1, <1>6, <2>1, <2>5, <2>6 DEF Completed
  <2> QED BY <1>6, <1>13, <2>7 DEF LinesInv
<1> QED BY <1>3, <1>12, <1>13

LEMMA ForcePushLines ==
  ASSUME AssemblyInv, LinesInv, ForcePush
  PROVE  LinesInv'
<1>1. /\ call = "none" /\ call' = "line" /\ cache # <<>> /\ data = <<>> /\ forced' = forced \cup {Len(written)}
      /\ UNCHANGED <<conf, data, written, taken>>
  BY DEF ForcePush, AssemblyInv, AssemblyTypeOK
<1>2. cache \in Seq(Bytes) /\ Len(cache) \in Nat \ {0} /\ Pos \in Nat /\ Pos = Len(written) /\ Len(data) = 0
  BY <1>1, PosType, LenProperties, EmptySeq DEF AssemblyInv, AssemblyTypeOK, Pos
<1>3. PICK e \in 0 .. Pos :
        /\ Ends(e, Pos)
        /\ cache = IF e = Pos THEN <<>> ELSE Piece(e, Pos)
        /\ ~conf.binmode => \A i \in 1 .. Len(cache) : cache[i] \notin {"LF", "CR", "NUL"}
        /\ conf.binmode => Aligned(e)
        /\ StackedUpTo(e)
  BY <1>1 DEF LinesInv, Collecting
<1>4. PICK n \in Nat \ {0} : n = Pos /\ e \in 0 .. n - 1 /\ cache = Piece(e, n)
  BY <1>1, <1>2, <1>3
<1>5. Pos' = n
  BY <1>1, <1>4 DEF Pos
<1>6. /\ \A i \in 1 .. n - 1 : IsEnd(i)' <=> IsEnd(i)
      /\ \A i \in 1 .. n : LineAt(i)' = LineAt(i)
  <2>1. /\ \A f \in forced \cup forced' : f \in Nat
        /\ \A f \in 0 .. n - 1 : f \in forced' <=> f \in forced
    BY <1>1, <1>2, <1>4, ForcedType
  <2>2. /\ \A i \in 1 .. n : (i \in forced' <=> i \in forced) => (IsEnd(i)' <=> IsEnd(i))
        /\ \A i \in 1 .. n : LineAt(i)' = LineAt(i)
    BY <1>1, <2>1, OldEnds
  <2>3. \A i \in 1 .. n - 1 : i \in 1 .. n /\ (i \in forced' <=> i \in forced)
    BY <2>1
  <2> QED BY <2>2, <2>3
<1>7. IsEnd(n)'
  BY <1>1, <1>2, <1>4 DEF IsEnd
<1>8. \A i \in e + 1 .. n - 1 : ~IsEnd(i)
  BY <1>3, <1>4 DEF Ends
<1>9. LineAt(n)' = LineBetween(e, n)
  <2>1. Ends(e, n - 1) /\ n - 1 \in Nat
    BY <1>3, <1>4, <1>8 DEF Ends
  <2>2. LastEnd(n - 1) = e
    BY <1>4, <2>1, LastEndIs
  <2>3. LineAt(n) = LineBetween(e, n)
    BY <2>2 DEF LineAt
  <2> QED BY <1>6, <2>3
<1>10. /\ cache' = LineBetween(e, n)
       /\ ~conf.binmode => Terminated(cache')
  <2>1. CASE conf.binmode
    BY <1>4, <2>1 DEF ForcePush, LineBetween
  <2>2. CASE ~conf.binmode
    <3>1. AppendStringBuff(<<>>, TRUE) /\ cache \o <<>> = cache
      BY <1>2, <2>2, ConcatEmptySeq DEF ForcePush
    <3>2. Last(cache) # "NUL"
      BY <1>2, <1>3, <2>2 DEF Last
    <3>3. cache' = Append(cache, "NUL")
      BY <3>1, <3>2 DEF AppendStringBuff
    <3>4. LineBetween(e, n) = Append(cache, "NUL")
      BY <1>4, <2>2, <3>2 DEF LineBetween
    <3>5. /\ Len(cache') = Len(cache) + 1
          /\ \A i \in 1 .. Len(cache) : cache'[i] = cache[i]
          /\ cache'[Len(cache) + 1] = "NUL"
      <4>1. "NUL" \in Bytes
        BY DEF Bytes
      <4> QED BY <1>2, <3>3, <4>1, AppendProperties
    <3>6. \A i \in 1 .. Len(cache') : i \in 1 .. Len(cache) \/ i = Len(cache) + 1
      BY <1>2, <3>5
    <3> QED BY <1>2, <1>3, <2>2, <3>3, <3>4, <3>5, <3>6 DEF Terminated
  <2> QED BY <2>1, <2>2
<1>11. conf'.binmode => Aligned(n)'
  <2>1. forced' \subseteq 0 .. n
    BY <1>1, <1>2, <1>4, ForcedType
  <2>2. (n - n) % BinaryBuffLimit = 0
    BY BlocksAdd
  <2>3. n \in forced' \cup {0} /\ \A g \in forced' : g <= n
    BY <1>1, <1>2, <1>4, <2>1
  <2> QED BY <2>2, <2>3 DEF Aligned
<1>12. StackedUpTo(n - 1)'
  <2>1. StackedUpTo(n - 1)
    BY <1>3, <1>4, <1>8, StackedExtends
  <2>2. \A i \in 1 .. n - 1 : (IsEnd(i)' <=> IsEnd(i)) /\ LineAt(i)' = LineAt(i)
    BY <1>6
  <2> QED BY <1>1, <2>1, <2>2, StackedStays
<1>13. Remaining'
  <2>1. forced' \subseteq 1 .. n
    <3>1. forced \subseteq 1 .. Pos
      BY DEF LinesInv, Remaining
    <3>2. n \in 1 .. n /\ n = Pos /\ n = Len(written)
      BY <1>2, <1>4
    <3> QED BY <1>1, <3>1, <3>2
  <2> QED BY <1>1, <1>2, <1>5, <2>1 DEF Remaining
<1>14. Completed'
  <2>1. n \in 1 .. Pos' /\ n = Pos'
    BY <1>5
  <2> QED BY <1>1, <1>7, <1>9, <1>10, <1>11, <1>12, <2>1 DEF Completed
<1> QED BY <1>1, <1>13, <1>14 DEF LinesInv

\* What the rule looks at ends before the terminator, and so says the same of
\* the whole line.
LEMMA DeniedIs ==
  ASSUME AssemblyTypeOK, ~conf.binmode, NEW l \in Seq(Bytes), Len(l) # 0, Terminated(l)
  PROVE  Denied(l) <=> \E b \in conf.deny : Contains(l, b)
<1>1. PICK n \in Nat \ {0} : n = Len(l) /\ DOMAIN l = 1 .. n
  BY LenProperties
<1>2. conf.deny \subseteq {"x", "LF", "CR"}
  BY DEF AssemblyTypeOK, Conf
<1>3. \A i \in 1 .. n : i = n \/ i \in 1 .. n - 1
  OBVIOUS
<1>4. l[n] = "NUL" /\ \A i \in 1 .. n - 1 : l[i] # "NUL"
  BY <1>1 DEF Terminated
<1>5. SelectInSeq(l, LAMBDA b : b = "NUL") = n
  <2> DEFINE I == {i \in 1 .. n : l[i] = "NUL"}
  <2>1. I = {n}
    BY <1>3, <1>4
  <2>2. SelectInSeq(l, LAMBDA b : b = "NUL") = IF I # {} THEN Min(I) ELSE 0
    BY <1>1 DEF SelectInSeq
  <2> HIDE DEF I
  <2>3. I \in SUBSET (1 .. n) /\ I # {} /\ n \in Nat
    BY <2>1
  <2>4. Min(I) \in I
    BY <2>3, MinType
  <2> QED BY <2>1, <2>2, <2>4
<1>6. \A b : Contains(l, b) <=> \E i \in 1 .. n : l[i] = b
  BY <1>1 DEF Contains
<1>7. CString(l) = SubSeq(l, 1, n - 1)
  <2>1. n \in 1 .. n
    OBVIOUS
  <2>2. Contains(l, "NUL")
    BY <1>4, <1>6, <2>1
  <2> QED BY <1>5, <2>2 DEF CString
<1>8. PICK text : text = CString(l)
  OBVIOUS
<1>9. Len(text) = n - 1 /\ \A i \in 1 .. n - 1 : text[i] = l[i]
  <2>1. \A i \in 1 .. n - 1 : l[i] \in Bytes
    BY <1>1, ElementOfSeq
  <2>2. Len(SubSeq(l, 1, n - 1)) = n - 1
    BY <1>1, SubSeqType
  <2>3. \A i \in 1 .. n - 1 : SubSeq(l, 1, n - 1)[i] = l[1 + i - 1]
    BY <1>1, <2>1, SubSeqProperties
  <2> QED BY <1>7, <1>8, <2>2, <2>3
<1>10. \A b : Contains(text, b) <=> \E i \in 1 .. n - 1 : l[i] = b
  BY <1>9 DEF Contains
<1>11. \A b \in conf.deny : b # "NUL"
  BY <1>2
<1>12. \A b \in conf.deny : Contains(text, b) <=> Contains(l, b)
  BY <1>3, <1>4, <1>6, <1>10, <1>11
<1> QED BY <1>8, <1>12 DEF Denied

LEMMA TakeLineLines ==
  ASSUME AssemblyInv, LinesInv, TakeLine
  PROVE  LinesInv'
<1>1. /\ call = "line" /\ StackPush(cache) /\ cache' = <<>> /\ call' # "line"
      /\ UNCHANGED <<conf, data, written, forced>>
  BY DEF TakeLine, AfterPiece
<1>2. /\ cache \in Seq(Bytes) /\ cache # <<>> /\ Len(cache) \in Nat \ {0} /\ cache \in Line
      /\ Pos \in Nat /\ Pos + Len(data) = Len(written) /\ Len(data) \in Nat /\ Len(written) \in Nat
  BY <1>1, PosType, LenProperties, EmptySeq DEF AssemblyInv, AssemblyTypeOK, Line
<1>3. PICK e \in 1 .. Pos :
        /\ IsEnd(e)
        /\ e = Pos \/ (e = Pos - 1 /\ ~conf.binmode /\ Skipped(Pos) /\ Pos \notin forced)
        /\ cache = LineAt(e)
        /\ ~conf.binmode => Terminated(cache)
        /\ conf.binmode => Aligned(e)
        /\ StackedUpTo(e - 1)
  BY <1>1 DEF LinesInv, Completed
<1>4. e \in Nat \ {0} /\ e - 1 \in Nat
  BY <1>2, <1>3
<1>5. MayPass(cache) <=> ~(Denied(cache) \/ TooLong(cache))
  <2>1. conf.limit \in Nat
    BY DEF AssemblyInv, AssemblyTypeOK, Conf
  <2>2. (conf.limit # 0 => Len(cache) <= conf.limit) <=> ~TooLong(cache)
    BY <1>2, <2>1 DEF TooLong
  <2>3. (conf.binmode \/ \A b \in conf.deny : ~Contains(cache, b)) <=> ~Denied(cache)
    <3>1. CASE conf.binmode
      BY <3>1 DEF Denied
    <3>2. CASE ~conf.binmode
      <4>1. Denied(cache) <=> \E b \in conf.deny : Contains(cache, b)
        BY <1>2, <1>3, <3>2, DeniedIs DEF AssemblyInv
      <4> QED BY <3>2, <4>1
    <3> QED BY <3>1, <3>2
  <2> QED BY <2>2, <2>3 DEF MayPass
<1>6. /\ \A i : IsEnd(i)' <=> IsEnd(i)
      /\ \A i : Skipped(i)' <=> Skipped(i)
      /\ \A i : Aligned(i)' <=> Aligned(i)
      /\ \A b, i : Piece(b, i)' = Piece(b, i)
      /\ \A i : LineAt(i)' = LineAt(i)
  BY <1>1, SameEnds
<1>7. StackedUpTo(e)'
  <2>1. CASE MayPass(cache)
    <3>1. taken' = Append(taken, LineAt(e)) /\ taken \in Seq(Line) /\ LineAt(e) \in Line
      BY <1>1, <1>2, <1>3, <1>5, <2>1 DEF StackPush, AssemblyInv, AssemblyTypeOK
    <3>2. \A f \in forced : f \in Nat
      BY <1>2, ForcedType
    <3> QED BY <1>1, <1>3, <1>4, <2>1, <3>1, <3>2, StackedJoins
  <2>2. CASE ~MayPass(cache)
    <3>1. taken' = taken
      BY <1>1, <1>5, <2>2 DEF StackPush
    <3>2. \A i \in e - 1 + 1 .. e : ~IsEnd(i) \/ ~MayPass(LineAt(i))
      <4>1. \A i \in e - 1 + 1 .. e : i = e
        BY <1>4
      <4> QED BY <1>3, <2>2, <4>1
    <3>3. StackedUpTo(e)
      BY <1>3, <1>4, <3>2, StackedExtends
    <3> QED BY <1>1, <1>4, <1>6, <3>1, <3>3, StackedStays
  <2> QED BY <2>1, <2>2
<1>8. PICK p \in Nat : p = Pos /\ p = Pos'
  BY <1>1, <1>2, Zenon DEF Pos
<1>9. Remaining /\ Remaining'
  <2>1. Remaining
    BY DEF LinesInv
  <2>2. Skipped(Pos + 1)' <=> Skipped(Pos + 1)
    <3>1. PICK i : i = Pos + 1 /\ i = Pos' + 1
      BY <1>8
    <3> QED BY <1>6, <3>1 DEF Skipped
  <2> QED BY <1>1, <1>8, <2>1, <2>2 DEF Remaining
<1>10. \A i \in e + 1 .. p : ~IsEnd(i)
  <2>1. CASE e = p
    BY <1>4, <2>1
  <2>2. CASE e # p
    <3>1. Skipped(p) /\ ~conf.binmode /\ e = p - 1
      BY <1>3, <1>8, <2>2
    <3>2. \A i \in e + 1 .. p : i = p
      <4>1. e + 1 = p
        BY <3>1
      <4> QED BY <4>1
    <3>3. p \notin forced
      BY <1>3, <1>8, <2>2
    <3>4. ~IsEnd(p)
      BY <3>1, <3>3 DEF IsEnd
    <3> QED BY <3>2, <3>4
  <2> QED BY <2>1, <2>2
<1>11. Ends(e, Pos)'
  <2>1. e = 0 \/ IsEnd(e)'
    BY <1>3, <1>6
  <2>2. \A i \in e + 1 .. Pos' : ~IsEnd(i)'
    BY <1>6, <1>8, <1>10
  <2> QED BY <2>1, <2>2 DEF Ends
<1>12. cache' = IF e = p THEN <<>> ELSE Piece(e, p)
  <2>1. CASE e = p
    BY <1>1, <2>1
  <2>2. CASE e # p
    <3>1. Skipped(e + 1) /\ ~conf.binmode /\ e = p - 1
      <4>1. PICK i : i = e + 1
        OBVIOUS
      <4>2. e = p - 1 /\ Skipped(Pos) /\ ~conf.binmode
        BY <1>3, <1>8, <2>2
      <4>3. i = Pos
        <5>1. e = p - 1
          BY <1>8, <4>2
        <5>2. e + 1 = p
          BY <5>1
        <5> QED BY <1>8, <4>1, <5>2
      <4> QED BY <4>1, <4>2, <4>3
    <3>2. First(e) = e + 2
      BY <3>1 DEF First
    <3>3. e \in 0 .. Len(written) /\ p \in 0 .. Len(written) /\ e + 2 <= p + 1 /\ p - (e + 2) + 1 = 0
      <4>1. e \in Nat /\ e = p - 1 /\ p = Pos
        BY <1>4, <1>8, <3>1
      <4>2. e + 1 = p
        BY <4>1
      <4>3. p <= Len(written) /\ Len(written) \in Nat
        BY <1>2, <4>1
      <4> QED BY <4>1, <4>2, <4>3
    <3>4. Piece(e, p) \in Seq(Bytes) /\ Len(Piece(e, p)) = 0
      BY <3>2, <3>3, PieceType
    <3> QED BY <1>1, <2>2, <3>4, EmptySeq
  <2> QED BY <2>1, <2>2
<1>13. Collecting'
  <2>1. e \in 0 .. Pos' /\ Piece(e, Pos)' = Piece(e, p)
    BY <1>3, <1>4, <1>6, <1>8
  <2>2. Len(cache') = 0
    BY <1>1, EmptySeq
  <2> QED BY <1>1, <1>3, <1>6, <1>7, <1>8, <1>11, <1>12, <2>1, <2>2 DEF Collecting
<1> QED BY <1>1, <1>9, <1>13 DEF LinesInv

LEMMA LinesKeep ==
  ASSUME TypeInv, LinesInv, [Next]_vars
  PROVE  LinesInv'
<1> USE DEF TypeInv
<1>1. CASE AssemblyNext
  BY <1>1, WriteLines, ForcePushLines, EndLineLines, KeepRestLines, FillBlockLines, TakeLineLines DEF AssemblyNext
<1>2. CASE Send
  BY <1>2, LinesStay DEF Send, historyVars
<1>3. CASE UNCHANGED assemblyVars
  BY <1>3, LinesStay DEF assemblyVars, historyVars
<1>4. Sighup \/ ServerNext \/ LeaveLoop => UNCHANGED assemblyVars
  BY DEF Sighup, LeaveLoop, ServerNext, Receive, SkipLine, PutPlugin, Collect, WriteFile, Transfer
<1>5. UNCHANGED vars => UNCHANGED assemblyVars
  BY DEF vars
<1> QED BY <1>1, <1>2, <1>3, <1>4, <1>5 DEF Next

LEMMA LinesFollow ==
  ASSUME AssemblyInv, LinesInv
  PROVE  LinesMatchReference
<1> SUFFICES ASSUME call = "none" PROVE StackedUpTo(Len(written))
  BY DEF LinesMatchReference
<1>1. Len(data) = 0 /\ Pos = Len(written) /\ Pos \in Nat
  BY PosType, EmptySeq DEF AssemblyInv, AssemblyTypeOK
<1>2. PICK e \in 0 .. Pos : Ends(e, Pos) /\ StackedUpTo(e)
  BY DEF LinesInv, Collecting
<1>3. e \in Nat /\ e <= Pos /\ \A i \in e + 1 .. Pos : ~IsEnd(i)
  BY <1>1, <1>2 DEF Ends
<1> QED BY <1>1, <1>2, <1>3, StackedExtends

\* Between two calls of Push exactly the lines of the written bytes have been
\* stacked, each once and in order, except those the rule denies and those
\* longer than BYTELIMIT: however the bytes are cut into writes, wherever a
\* release falls, for any size of a block.
THEOREM LinesAreTheBytes == Spec => []LinesMatchReference
<1>1. Init => TypeInv /\ LinesInv
  BY InitTypes, InitLines DEF Init
<1>2. TypeInv /\ LinesInv /\ [Next]_vars => (TypeInv /\ LinesInv)'
  BY TypesKeep, LinesKeep
<1>3. TypeInv /\ LinesInv => LinesMatchReference
  BY LinesFollow DEF TypeInv
<1> QED BY <1>1, <1>2, <1>3, PTL DEF Spec

-----------------------------------------------------------------------------
(* The order of the lines that are put out.                                *)

\* The lines that were put out, and after them those collected for the file.
Outgoing == put \o collected

\* The lines of what was received that Processing is through with.
Passed(name) == name[1] < Len(got) \/ (name[1] = Len(got) /\ (step = "lines" => name[2] < pLines))

Sorted(names) == \A i, j \in DOMAIN names : i < j => Before(names[i], names[j])

OrderInv ==
  /\ Sorted(Outgoing)
  /\ \A i \in DOMAIN Outgoing : Passed(Outgoing[i])
  /\ step \notin {"lines", "undefined"} => collected = <<>>
  /\ conf.plugin => collected = <<>>

LEMMA OutgoingType ==
  ASSUME TypeInv
  PROVE  /\ put \in Seq(Nat \X Nat) /\ collected \in Seq(Nat \X Nat) /\ Outgoing \in Seq(Nat \X Nat)
         /\ Len(got) \in Nat /\ pLines \in Nat /\ Current \in Nat \X Nat
<1>1. Len(got) \in Nat /\ DOMAIN got = 1 .. Len(got)
  BY LenProperties DEF TypeInv, TypeOK
<1>2. Names \subseteq Nat \X Nat
  BY <1>1 DEF Names
<1>3. put \in Seq(Nat \X Nat) /\ collected \in Seq(Nat \X Nat)
  BY <1>2, SeqMonotonic DEF TypeInv, TypeOK
<1>4. Outgoing \in Seq(Nat \X Nat)
  BY <1>3, ConcatProperties DEF Outgoing
<1>5. pLines \in Nat
  BY DEF TypeInv, TypeOK
<1> QED BY <1>1, <1>3, <1>4, <1>5 DEF Current

LEMMA OutgoingGrows ==
  ASSUME NEW S, NEW s \in Seq(S), NEW t \in Seq(S), NEW name \in S
  PROVE  s \o Append(t, name) = Append(s \o t, name)
<1>1. /\ s \o t \in Seq(S) /\ Len(s \o t) = Len(s) + Len(t)
      /\ \A i \in 1 .. Len(s) + Len(t) : (s \o t)[i] = IF i <= Len(s) THEN s[i] ELSE t[i - Len(s)]
  BY ConcatProperties
<1>2. /\ Append(t, name) \in Seq(S) /\ Len(Append(t, name)) = Len(t) + 1
      /\ \A i \in 1 .. Len(t) : Append(t, name)[i] = t[i]
      /\ Append(t, name)[Len(t) + 1] = name
  BY AppendProperties
<1>3. /\ s \o Append(t, name) \in Seq(S) /\ Len(s \o Append(t, name)) = Len(s) + Len(t) + 1
      /\ \A i \in 1 .. Len(s) + Len(t) + 1 :
           (s \o Append(t, name))[i] = IF i <= Len(s) THEN s[i] ELSE Append(t, name)[i - Len(s)]
  <2>1. Len(s) \in Nat /\ Len(t) \in Nat
    BY LenProperties
  <2> QED BY <1>2, <2>1, ConcatProperties
<1>4. /\ Append(s \o t, name) \in Seq(S) /\ Len(Append(s \o t, name)) = Len(s) + Len(t) + 1
      /\ \A i \in 1 .. Len(s) + Len(t) : Append(s \o t, name)[i] = (s \o t)[i]
      /\ Append(s \o t, name)[Len(s) + Len(t) + 1] = name
  BY <1>1, AppendProperties
<1>5. ASSUME NEW i \in 1 .. Len(s) + Len(t) + 1
      PROVE  (s \o Append(t, name))[i] = Append(s \o t, name)[i]
  <2>1. Len(s) \in Nat /\ Len(t) \in Nat
    BY LenProperties
  <2>2. CASE i <= Len(s)
    BY <1>1, <1>3, <1>4, <2>1, <2>2
  <2>3. CASE i > Len(s) /\ i <= Len(s) + Len(t)
    <3>1. i - Len(s) \in 1 .. Len(t)
      BY <2>1, <2>3
    <3> QED BY <1>1, <1>2, <1>3, <1>4, <2>1, <2>3, <3>1
  <2>4. CASE i = Len(s) + Len(t) + 1
    BY <1>2, <1>3, <1>4, <2>1, <2>4
  <2> QED BY <2>1, <2>2, <2>3, <2>4
<1> QED BY <1>3, <1>4, <1>5, SeqEqual

\* A line that Processing comes to goes behind all it has been through with.
LEMMA PassedBefore ==
  ASSUME TypeInv, step = "lines", NEW name \in Nat \X Nat, Passed(name)
  PROVE  Before(name, Current)
BY OutgoingType DEF Passed, Before, Current

LEMMA CurrentLast ==
  ASSUME TypeInv, OrderInv, step = "lines"
  PROVE  Sorted(Append(Outgoing, Current))
<1>1. /\ Append(Outgoing, Current) \in Seq(Nat \X Nat) /\ Len(Append(Outgoing, Current)) = Len(Outgoing) + 1
      /\ \A i \in 1 .. Len(Outgoing) : Append(Outgoing, Current)[i] = Outgoing[i]
      /\ Append(Outgoing, Current)[Len(Outgoing) + 1] = Current
  BY OutgoingType, AppendProperties
<1>2. /\ Len(Outgoing) \in Nat /\ DOMAIN Outgoing = 1 .. Len(Outgoing)
      /\ DOMAIN Append(Outgoing, Current) = 1 .. Len(Outgoing) + 1
  BY <1>1, OutgoingType, LenProperties
<1>3. \A i \in 1 .. Len(Outgoing) : Before(Outgoing[i], Current)
  BY <1>2, OutgoingType, ElementOfSeq, PassedBefore DEF OrderInv
<1>4. \A i, j \in 1 .. Len(Outgoing) : i < j => Before(Outgoing[i], Outgoing[j])
  BY <1>2 DEF OrderInv, Sorted
<1> SUFFICES ASSUME NEW i \in 1 .. Len(Outgoing) + 1, NEW j \in 1 .. Len(Outgoing) + 1, i < j
             PROVE  Before(Append(Outgoing, Current)[i], Append(Outgoing, Current)[j])
  BY <1>2 DEF Sorted
<1>5. i \in 1 .. Len(Outgoing) /\ Append(Outgoing, Current)[i] = Outgoing[i]
  BY <1>1, <1>2
<1>6. CASE j \in 1 .. Len(Outgoing)
  <2>1. Append(Outgoing, Current)[j] = Outgoing[j]
    BY <1>1, <1>6
  <2> QED BY <1>4, <1>5, <1>6, <2>1
<1>7. CASE j = Len(Outgoing) + 1
  BY <1>1, <1>3, <1>5, <1>7
<1> QED BY <1>2, <1>6, <1>7

\* A step that puts nothing more on its way and goes on in the message, or
\* leaves it, or begins the next one.
LEMMA OrderStays ==
  ASSUME TypeInv, OrderInv, Outgoing' = Outgoing,
         \/ got' = got /\ (step' = "lines" => step = "lines" /\ pLines' >= pLines) /\ pLines' \in Nat
         \/ Len(got') = Len(got) + 1,
         step' \notin {"lines", "undefined"} => collected' = <<>>,
         conf'.plugin => collected' = <<>>
  PROVE  OrderInv'
<1>1. Len(got) \in Nat /\ Len(Outgoing) \in Nat /\ DOMAIN Outgoing = 1 .. Len(Outgoing) /\ pLines \in Nat
  BY OutgoingType, LenProperties
<1>2. ASSUME NEW i \in DOMAIN Outgoing PROVE Passed(Outgoing[i])'
  <2>1. Outgoing[i] \in Nat \X Nat /\ Passed(Outgoing[i])
    BY <1>1, OutgoingType, ElementOfSeq DEF OrderInv
  <2> QED BY <1>1, <2>1 DEF Passed
<1>3. Sorted(Outgoing)'
  BY DEF OrderInv, Sorted, Before
<1> QED BY <1>2, <1>3 DEF OrderInv

LEMMA InitOrder == Init => OrderInv
<1> SUFFICES ASSUME Init PROVE OrderInv
  OBVIOUS
<1>1. Outgoing = <<>> /\ collected = <<>> /\ DOMAIN <<>> = {}
  <2>1. <<>> \in Seq(Nat \X Nat)
    BY EmptySeq
  <2> QED BY <2>1, ConcatEmptySeq DEF Init, Outgoing
<1> QED BY <1>1 DEF OrderInv, Sorted

LEMMA OthersOrder ==
  ASSUME TypeInv, OrderInv,
         \/ UNCHANGED <<conf, serverVars>>
         \/ Sighup
         \/ LeaveLoop
         \/ Receive
         \/ SkipLine
         \/ Transfer
  PROVE  OrderInv'
<1>1. pLines \in Nat
  BY OutgoingType
<1>2. CASE UNCHANGED <<conf, serverVars>> \/ Sighup \/ LeaveLoop \/ SkipLine \/ Transfer
  <2>1. UNCHANGED <<conf, put, collected, got, pLines>>
    BY <1>2 DEF serverVars, outVars, Sighup, LeaveLoop, SkipLine, Transfer, assemblyVars
  <2>2. Outgoing' = Outgoing
    BY <2>1 DEF Outgoing
  <2>3. /\ step' = "lines" => step = "lines"
        /\ step' \notin {"lines", "undefined"} => step \notin {"lines", "undefined"}
    BY <1>2 DEF serverVars, Sighup, LeaveLoop, SkipLine, Transfer
  <2> QED BY <1>1, <2>1, <2>2, <2>3, OrderStays DEF OrderInv
<1>3. CASE Receive
  <2>1. UNCHANGED <<conf, put, collected>> /\ collected = <<>>
    BY <1>3 DEF Receive, assemblyVars, outVars, OrderInv
  <2>2. Outgoing' = Outgoing
    BY <2>1 DEF Outgoing
  <2>3. Len(got') = Len(got) + 1
    <3>1. msgs \in Seq(Seq(Line)) /\ msgs # <<>> /\ got \in Seq(Seq(Line))
      BY <1>3 DEF Receive, TypeInv, TypeOK
    <3>2. Head(msgs) \in Seq(Line)
      BY <3>1, HeadTailProperties
    <3> QED BY <1>3, <3>1, <3>2, AppendProperties DEF Receive
  <2> QED BY <2>1, <2>2, <2>3, OrderStays
<1> QED BY <1>2, <1>3

\* A line of the message joins what goes out, and the walk goes on behind it.
LEMMA OrderJoins ==
  ASSUME TypeInv, OrderInv, step = "lines", Outgoing' = Append(Outgoing, Current),
         got' = got, step' = "lines", pLines' = pLines + 1, conf'.plugin => collected' = <<>>
  PROVE  OrderInv'
<1>1. /\ Append(Outgoing, Current) \in Seq(Nat \X Nat) /\ Len(Append(Outgoing, Current)) = Len(Outgoing) + 1
      /\ \A i \in 1 .. Len(Outgoing) : Append(Outgoing, Current)[i] = Outgoing[i]
      /\ Append(Outgoing, Current)[Len(Outgoing) + 1] = Current
  BY OutgoingType, AppendProperties
<1>2. /\ Len(Outgoing) \in Nat /\ DOMAIN Outgoing = 1 .. Len(Outgoing)
      /\ DOMAIN Outgoing' = 1 .. Len(Outgoing) + 1
  BY <1>1, OutgoingType, LenProperties
<1>3. ASSUME NEW i \in 1 .. Len(Outgoing) + 1 PROVE Passed(Outgoing[i])'
  <2>1. CASE i \in 1 .. Len(Outgoing)
    <3>1. Outgoing'[i] = Outgoing[i] /\ Outgoing[i] \in Nat \X Nat /\ Passed(Outgoing[i])
      BY <1>1, <1>2, <2>1, OutgoingType, ElementOfSeq DEF OrderInv
    <3>2. Outgoing[i][2] \in Nat /\ pLines \in Nat
      BY <3>1, OutgoingType
    <3> QED BY <3>1, <3>2, SMTT(40) DEF Passed
  <2>2. CASE i = Len(Outgoing) + 1
    BY <1>1, <2>2, OutgoingType DEF Passed, Current
  <2> QED BY <1>2, <2>1, <2>2
<1>4. Sorted(Outgoing)'
  BY CurrentLast DEF Sorted, Before
<1> QED BY <1>2, <1>3, <1>4 DEF OrderInv

LEMMA PutOrder ==
  ASSUME TypeInv, OrderInv, PutPlugin
  PROVE  OrderInv'
<1>1. /\ step = "lines" /\ conf.plugin /\ conf' = conf /\ got' = got /\ step' = step /\ pLines' = pLines + 1
      /\ collected' = collected
      /\ put' = put \/ put' = Append(put, Current)
  BY DEF PutPlugin, InLoop, NextLine, assemblyVars
<1>2. collected = <<>> /\ Outgoing = put
  BY <1>1, OutgoingType, ConcatEmptySeq DEF OrderInv, Outgoing
<1>3. CASE put' = put
  <2>1. Outgoing' = Outgoing
    BY <1>1, <1>3 DEF Outgoing
  <2>2. pLines \in Nat
    BY OutgoingType
  <2> QED BY <1>1, <1>2, <2>1, <2>2, OrderStays
<1>4. CASE put' = Append(put, Current)
  <2>1. put' \in Seq(Nat \X Nat)
    BY <1>4, OutgoingType, AppendNames
  <2>2. Outgoing' = Append(Outgoing, Current)
    BY <1>1, <1>2, <1>4, <2>1, ConcatEmptySeq DEF Outgoing
  <2> QED BY <1>1, <1>2, <2>2, OrderJoins
<1> QED BY <1>1, <1>3, <1>4

LEMMA CollectOrder ==
  ASSUME TypeInv, OrderInv, Collect
  PROVE  OrderInv'
<1>1. /\ step = "lines" /\ ~conf.plugin /\ conf' = conf /\ got' = got /\ pLines' = pLines + 1 /\ put' = put
      /\ \/ collected' = collected /\ step' \in {"lines", "undefined"}
         \/ collected' = Append(collected, Current) /\ step' = "lines"
  BY DEF Collect, InLoop, NextLine, Collected, assemblyVars, outVars
<1>2. CASE collected' = collected /\ step' \in {"lines", "undefined"}
  <2>1. Outgoing' = Outgoing
    BY <1>1, <1>2 DEF Outgoing
  <2>2. pLines \in Nat
    BY OutgoingType
  <2> QED BY <1>1, <1>2, <2>1, <2>2, OrderStays
<1>3. CASE collected' = Append(collected, Current) /\ step' = "lines"
  <2>1. Outgoing' = Append(Outgoing, Current)
    <3>1. put \o Append(collected, Current) = Append(put \o collected, Current)
      BY WalkNames, OutgoingGrows DEF Collect
    <3> QED BY <1>1, <1>3, <3>1 DEF Outgoing
  <2> QED BY <1>1, <1>3, <2>1, OrderJoins
<1> QED BY <1>1, <1>2, <1>3

LEMMA WriteFileOrder ==
  ASSUME TypeInv, OrderInv, WriteFile
  PROVE  OrderInv'
<1>1. step = "lines" /\ conf' = conf /\ got' = got /\ pLines' = pLines /\ pLines \in Nat /\ step' # "lines"
  BY OutgoingType DEF WriteFile, AfterLines, assemblyVars
<1>2. CASE pFileOutput = "freed"
  <2>1. UNCHANGED <<put, collected>> /\ step' = "undefined"
    BY <1>2 DEF WriteFile
  <2>2. Outgoing' = Outgoing
    BY <2>1 DEF Outgoing
  <2> QED BY <1>1, <2>1, <2>2, OrderStays DEF OrderInv
<1>3. CASE pFileOutput # "freed" /\ put' = put \o collected
  <2>1. put' \in Seq(Nat \X Nat) /\ collected' = <<>>
    BY <1>3, OutgoingType DEF WriteFile, Outgoing
  <2>2. Outgoing' = Outgoing
    BY <1>3, <2>1, ConcatEmptySeq DEF Outgoing
  <2> QED BY <1>1, <2>1, <2>2, OrderStays
<1>4. CASE pFileOutput # "freed" /\ put' = put
  <2>1. collected' = <<>>
    BY <1>4 DEF WriteFile
  <2>2. Outgoing' = put
    BY <1>4, <2>1, OutgoingType, ConcatEmptySeq DEF Outgoing
  <2>3. /\ Len(put) \in Nat /\ DOMAIN put = 1 .. Len(put) /\ DOMAIN put \subseteq DOMAIN Outgoing
        /\ \A i \in DOMAIN put : Outgoing[i] = put[i] /\ put[i] \in Nat \X Nat
    <3>1. /\ Len(Outgoing) = Len(put) + Len(collected)
          /\ \A i \in 1 .. Len(put) + Len(collected) : Outgoing[i] = IF i <= Len(put) THEN put[i] ELSE collected[i - Len(put)]
      BY OutgoingType, ConcatProperties DEF Outgoing
    <3>2. Len(put) \in Nat /\ Len(collected) \in Nat /\ DOMAIN put = 1 .. Len(put) /\ DOMAIN Outgoing = 1 .. Len(Outgoing)
      BY OutgoingType, LenProperties
    <3>3. \A i \in 1 .. Len(put) : put[i] \in Nat \X Nat
      BY OutgoingType, ElementOfSeq
    <3> QED BY <3>1, <3>2, <3>3
  <2>4. Sorted(put)
    BY <2>3 DEF OrderInv, Sorted
  <2>5. ASSUME NEW i \in DOMAIN put PROVE Passed(put[i])'
    <3>1. Passed(put[i]) /\ Len(got) \in Nat
      BY <2>3, OutgoingType DEF OrderInv
    <3> QED BY <1>1, <1>4, <3>1 DEF Passed
  <2>6. Sorted(Outgoing)'
    BY <1>4, <2>2, <2>4 DEF Sorted, Before
  <2> QED BY <1>4, <2>1, <2>2, <2>5, <2>6 DEF OrderInv
<1> QED BY <1>2, <1>3, <1>4 DEF WriteFile

LEMMA OrderKeeps ==
  ASSUME TypeInv, OrderInv, [Next]_vars
  PROVE  OrderInv'
<1>1. CASE AssemblyNext /\ UNCHANGED <<msgs, serverVars>>
  <2>1. conf' = conf
    BY <1>1, AssemblyKeeps DEF TypeInv
  <2> QED BY <1>1, <2>1, OthersOrder
<1>2. CASE Send \/ UNCHANGED vars
  <2>1. UNCHANGED <<conf, serverVars>>
    BY <1>2 DEF Send, vars, assemblyVars
  <2> QED BY <2>1, OthersOrder
<1>3. CASE Sighup \/ LeaveLoop \/ ServerNext
  BY <1>3, OthersOrder, PutOrder, CollectOrder, WriteFileOrder DEF ServerNext
<1> QED BY <1>1, <1>2, <1>3 DEF Next

\* Processing (k2hftfusesvr.cc) puts no line out twice, and none before one that
\* was written earlier, whether lines go out one by one or are collected first.
THEOREM LinesKeepOrder == Spec => []PutOnceInOrder
<1>1. Init => TypeInv /\ OrderInv
  BY InitTypes, InitOrder
<1>2. TypeInv /\ OrderInv /\ [Next]_vars => (TypeInv /\ OrderInv)'
  BY TypesKeep, OrderKeeps
<1>3. TypeInv /\ OrderInv => PutOnceInOrder
  <2> SUFFICES ASSUME TypeInv, OrderInv, NEW i \in DOMAIN put, NEW j \in DOMAIN put, i < j
               PROVE  Before(put[i], put[j])
    BY DEF PutOnceInOrder
  <2>1. /\ Len(Outgoing) = Len(put) + Len(collected)
        /\ \A n \in 1 .. Len(put) + Len(collected) : Outgoing[n] = IF n <= Len(put) THEN put[n] ELSE collected[n - Len(put)]
    BY OutgoingType, ConcatProperties DEF Outgoing
  <2>2. Len(put) \in Nat /\ Len(collected) \in Nat /\ DOMAIN put = 1 .. Len(put) /\ DOMAIN Outgoing = 1 .. Len(Outgoing)
    BY OutgoingType, LenProperties
  <2>3. i \in DOMAIN Outgoing /\ j \in DOMAIN Outgoing /\ Outgoing[i] = put[i] /\ Outgoing[j] = put[j]
    BY <2>1, <2>2
  <2> QED BY <2>3 DEF OrderInv, Sorted
<1> QED BY <1>1, <1>2, <1>3, PTL DEF Spec

-----------------------------------------------------------------------------
(* No line that converts is left out.                                      *)

\* The lines that were put out, are collected, or were refused.
Handled == ToSet(put) \cup ToSet(collected) \cup refused

\* Each line of a message that comes before every line that does not convert.
MessageDone(k) ==
  \A i \in DOMAIN got[k] : (\A j \in 1 .. i : Converts(got[k][j])) => <<k, i>> \in Handled

\* Until a line does not convert the counter and pLines go together; from then
\* on pLines stays at that line.
WalkDone ==
  step = "lines" /\ pFileOutput # "freed" =>
    /\ \A j \in 1 .. (pLines - 1) : <<Len(got), j>> \in Handled
    /\ pLines = cnt + 1 \/ ~Converts(Message[pLines])

DoneInv ==
  conf.file /\ step # "undefined" =>
    /\ \A k \in DOMAIN got : k < Len(got) \/ step # "lines" => MessageDone(k)
    /\ WalkDone

LEMMA ToSetAppend ==
  ASSUME NEW S, NEW s \in Seq(S), NEW e \in S
  PROVE  ToSet(Append(s, e)) = ToSet(s) \cup {e}
<1>1. /\ Append(s, e) \in Seq(S) /\ Len(Append(s, e)) = Len(s) + 1
      /\ \A i \in 1 .. Len(s) : Append(s, e)[i] = s[i]
      /\ Append(s, e)[Len(s) + 1] = e
  BY AppendProperties
<1>2. Len(s) \in Nat /\ DOMAIN s = 1 .. Len(s) /\ DOMAIN Append(s, e) = 1 .. Len(s) + 1
  BY <1>1, LenProperties
<1>3. ASSUME NEW x \in ToSet(Append(s, e)) PROVE x \in ToSet(s) \cup {e}
  BY <1>1, <1>2 DEF ToSet
<1>4. ASSUME NEW x \in ToSet(s) PROVE x \in ToSet(Append(s, e))
  <2>1. PICK i \in 1 .. Len(s) : x = s[i]
    BY <1>2 DEF ToSet
  <2>2. i \in DOMAIN Append(s, e) /\ x = Append(s, e)[i]
    BY <1>1, <1>2, <2>1
  <2> QED BY <2>2 DEF ToSet
<1>5. e \in ToSet(Append(s, e))
  <2>1. Len(s) + 1 \in DOMAIN Append(s, e)
    BY <1>2
  <2> QED BY <1>1, <2>1 DEF ToSet
<1> QED BY <1>3, <1>4, <1>5

LEMMA ToSetConcat ==
  ASSUME NEW S, NEW s \in Seq(S), NEW t \in Seq(S)
  PROVE  ToSet(s) \cup ToSet(t) \subseteq ToSet(s \o t)
<1>1. /\ s \o t \in Seq(S) /\ Len(s \o t) = Len(s) + Len(t)
      /\ \A i \in 1 .. Len(s) + Len(t) : (s \o t)[i] = IF i <= Len(s) THEN s[i] ELSE t[i - Len(s)]
  BY ConcatProperties
<1>2. /\ Len(s) \in Nat /\ Len(t) \in Nat /\ DOMAIN s = 1 .. Len(s) /\ DOMAIN t = 1 .. Len(t)
      /\ DOMAIN (s \o t) = 1 .. Len(s) + Len(t)
  BY <1>1, LenProperties
<1>3. ASSUME NEW x \in ToSet(s) PROVE x \in ToSet(s \o t)
  <2>1. PICK i \in 1 .. Len(s) : x = s[i]
    BY <1>2 DEF ToSet
  <2>2. i \in DOMAIN (s \o t) /\ x = (s \o t)[i]
    BY <1>1, <1>2, <2>1
  <2> QED BY <2>2 DEF ToSet
<1>4. ASSUME NEW x \in ToSet(t) PROVE x \in ToSet(s \o t)
  <2>1. PICK i \in 1 .. Len(t) : x = t[i]
    BY <1>2 DEF ToSet
  <2>2. Len(s) + i \in DOMAIN (s \o t) /\ x = (s \o t)[Len(s) + i]
    BY <1>1, <1>2, <2>1
  <2> QED BY <2>2 DEF ToSet
<1> QED BY <1>3, <1>4

LEMMA InitDone == Init => DoneInv
<1> SUFFICES ASSUME Init PROVE DoneInv
  OBVIOUS
<1>1. got = <<>> /\ DOMAIN <<>> = {} /\ step = "receive"
  BY DEF Init
<1> QED BY <1>1 DEF DoneInv, WalkDone

\* Whether a line converts depends on the configuration alone, and a message
\* that is done stays done while no line that was handled is lost.
LEMMA DoneStays ==
  ASSUME UNCHANGED conf, NEW k, got'[k] = got[k], MessageDone(k), Handled \subseteq Handled'
  PROVE  MessageDone(k)'
<1> SUFFICES ASSUME NEW i \in DOMAIN got[k], \A j \in 1 .. i : Converts(got[k][j])'
             PROVE  <<k, i>> \in Handled'
  BY DEF MessageDone
<1>1. \A j \in 1 .. i : Converts(got[k][j])
  BY DEF Converts, ConvertOutput
<1>2. <<k, i>> \in Handled
  BY <1>1 DEF MessageDone
<1> QED BY <1>2

LEMMA MessagesStay ==
  ASSUME DoneInv, conf.file, step # "undefined", UNCHANGED <<conf, got>>, Handled \subseteq Handled',
         NEW k \in DOMAIN got, k < Len(got) \/ step # "lines"
  PROVE  MessageDone(k)'
BY DoneStays DEF DoneInv

LEMMA OthersDone ==
  ASSUME TypeInv, DoneInv, UNCHANGED <<conf, got, put, collected, refused>>,
         \/ UNCHANGED <<step, cnt, pLines, pFileOutput>>
         \/ LeaveLoop
         \/ Transfer
         \/ SkipLine
  PROVE  DoneInv'
<1> SUFFICES ASSUME conf.file, step' # "undefined" PROVE DoneInv'
  BY DEF DoneInv
<1>1. Handled' = Handled /\ Message' = Message
  BY DEF Handled, Message
<1>2. step # "undefined" /\ (step = "lines" <=> step' = "lines")
  BY DEF LeaveLoop, Transfer, SkipLine, InLoop
<1>3. ASSUME NEW k \in DOMAIN got, k < Len(got) \/ step' # "lines" PROVE MessageDone(k)'
  BY <1>1, <1>2, <1>3, MessagesStay
<1>4. WalkDone'
  <2>1. CASE step' # "lines"
    BY <2>1 DEF WalkDone
  <2>2. CASE step' = "lines" /\ UNCHANGED <<step, cnt, pLines, pFileOutput>>
    BY <1>1, <1>2, <2>2 DEF WalkDone, DoneInv, Converts, ConvertOutput
  <2>3. CASE SkipLine
    <3>1. pLines' = pLines /\ pFileOutput' = pFileOutput /\ ~Converts(Message[pLines])
      BY <2>3 DEF SkipLine, InLoop
    <3>2. (~Converts(Message[pLines]))'
      BY <1>1, <3>1 DEF Converts, ConvertOutput
    <3> QED BY <1>1, <1>2, <3>1, <3>2 DEF WalkDone, DoneInv
  <2> QED BY <1>2, <2>1, <2>2, <2>3 DEF LeaveLoop, Transfer
<1> QED BY <1>3, <1>4 DEF DoneInv

LEMMA ReceiveDone ==
  ASSUME TypeInv, DoneInv, Receive
  PROVE  DoneInv'
<1> SUFFICES ASSUME conf.file PROVE DoneInv'
  BY DEF DoneInv, Receive, assemblyVars
<1>1. /\ step = "receive" /\ step' = "lines" /\ pLines' = 1 /\ cnt' = 0 /\ conf' = conf /\ got' = Append(got, Head(msgs))
      /\ UNCHANGED <<put, collected, refused>>
  BY DEF Receive, assemblyVars, outVars
<1>2. Handled' = Handled
  BY <1>1 DEF Handled
<1>3. /\ Len(got') = Len(got) + 1 /\ Len(got) \in Nat /\ DOMAIN got = 1 .. Len(got) /\ DOMAIN got' = 1 .. Len(got')
      /\ \A k \in DOMAIN got : got'[k] = got[k]
  <2>1. msgs \in Seq(Seq(Line)) /\ msgs # <<>> /\ got \in Seq(Seq(Line))
    BY DEF Receive, TypeInv, TypeOK
  <2>2. Head(msgs) \in Seq(Line)
    BY <2>1, HeadTailProperties
  <2>3. /\ got' \in Seq(Seq(Line)) /\ Len(got') = Len(got) + 1
        /\ \A i \in 1 .. Len(got) : got'[i] = got[i]
    BY <1>1, <2>1, <2>2, AppendProperties
  <2> QED BY <2>1, <2>3, LenProperties
<1>4. ASSUME NEW k \in DOMAIN got', k < Len(got') PROVE MessageDone(k)'
  <2>1. k \in DOMAIN got /\ got'[k] = got[k]
    BY <1>3, <1>4
  <2>2. MessageDone(k)
    BY <1>1, <2>1 DEF DoneInv
  <2> QED BY <1>1, <1>2, <2>1, <2>2, DoneStays
<1>5. WalkDone'
  BY <1>1 DEF WalkDone
<1> QED BY <1>1, <1>4, <1>5 DEF DoneInv

\* A line that converts is handled, and the walk goes on behind it.
LEMMA WalkGoesOn ==
  ASSUME TypeInv, DoneInv, InLoop(TRUE), NextLine, UNCHANGED <<conf, got>>,
         Handled \subseteq Handled', pFileOutput' # "freed" => pFileOutput # "freed" /\ Current \in Handled',
         step' = "lines"
  PROVE  DoneInv'
<1> SUFFICES ASSUME conf.file PROVE DoneInv'
  BY DEF DoneInv
<1>1. step = "lines" /\ cnt < Len(Message) /\ Converts(Message[pLines]) /\ pLines' = pLines + 1 /\ cnt' = cnt + 1
  BY DEF InLoop, NextLine, Converts
<1>2. ASSUME NEW k \in DOMAIN got, k < Len(got) PROVE MessageDone(k)'
  BY <1>1, <1>2, MessagesStay
<1>3. WalkDone'
  <2> SUFFICES ASSUME pFileOutput' # "freed" PROVE WalkDone'
    BY DEF WalkDone
  <2>1. pLines = cnt + 1 /\ \A j \in 1 .. (pLines - 1) : <<Len(got), j>> \in Handled
    BY <1>1 DEF DoneInv, WalkDone
  <2>2. pLines \in Nat /\ Len(got) \in Nat
    BY OutgoingType
  <2>3. \A j \in 1 .. (pLines' - 1) : <<Len(got), j>> \in Handled'
    BY <1>1, <2>1, <2>2, SMTT(40) DEF Current
  <2>4. pLines' = cnt' + 1
    BY <1>1, <2>1
  <2> QED BY <2>3, <2>4 DEF WalkDone
<1> QED BY <1>2, <1>3 DEF DoneInv

LEMMA PutDone ==
  ASSUME TypeInv, DoneInv, PutPlugin
  PROVE  DoneInv'
<1>1. /\ InLoop(TRUE) /\ NextLine /\ UNCHANGED <<conf, got, step, pFileOutput, collected>> /\ step = "lines"
      /\ \/ put' = Append(put, Current) /\ refused' = refused
         \/ put' = put /\ refused' = refused \cup {Current}
  BY DEF PutPlugin, InLoop, assemblyVars
<1>2. ToSet(Append(put, Current)) = ToSet(put) \cup {Current}
  BY WalkNames, ToSetAppend DEF PutPlugin
<1>3. Handled' = Handled \cup {Current}
  <2>1. CASE put' = Append(put, Current) /\ refused' = refused
    BY <1>1, <1>2, <2>1 DEF Handled
  <2>2. CASE put' = put /\ refused' = refused \cup {Current}
    BY <1>1, <2>2 DEF Handled
  <2> QED BY <1>1, <2>1, <2>2
<1> QED BY <1>1, <1>3, WalkGoesOn

LEMMA CollectDone ==
  ASSUME TypeInv, DoneInv, Collect
  PROVE  DoneInv'
<1>1. /\ InLoop(TRUE) /\ NextLine /\ UNCHANGED <<conf, got, put, refused>>
      /\ \/ step' = "undefined"
         \/ pFileOutput' = "freed" /\ collected' = collected /\ step' = step
         \/ pFileOutput # "freed" /\ pFileOutput' = "held" /\ collected' = Append(collected, Current) /\ step' = step
  BY DEF Collect, Collected, assemblyVars, outVars
<1>2. step = "lines"
  BY <1>1 DEF InLoop
<1>3. CASE step' = "undefined"
  BY <1>3 DEF DoneInv
<1>4. CASE pFileOutput' = "freed" /\ collected' = collected /\ step' = step
  <2>1. Handled' = Handled
    BY <1>1, <1>4 DEF Handled
  <2> QED BY <1>1, <1>2, <1>4, <2>1, WalkGoesOn
<1>5. CASE pFileOutput # "freed" /\ pFileOutput' = "held" /\ collected' = Append(collected, Current) /\ step' = step
  <2>1. ToSet(Append(collected, Current)) = ToSet(collected) \cup {Current}
    BY WalkNames, ToSetAppend DEF Collect
  <2>2. Handled' = Handled \cup {Current}
    BY <1>1, <1>5, <2>1 DEF Handled
  <2> QED BY <1>1, <1>2, <1>5, <2>2, WalkGoesOn
<1> QED BY <1>1, <1>3, <1>4, <1>5

LEMMA WriteFileDone ==
  ASSUME TypeInv, DoneInv, WriteFile
  PROVE  DoneInv'
<1> SUFFICES ASSUME conf.file, step' # "undefined" PROVE DoneInv'
  BY DEF DoneInv, WriteFile, assemblyVars
<1>1. /\ step = "lines" /\ cnt = Len(Message) /\ pFileOutput # "freed" /\ UNCHANGED <<conf, got>> /\ step' # "lines"
      /\ \/ put' = put \o collected /\ refused' = refused
         \/ put' = put /\ refused' = refused \cup ToSet(collected)
  BY DEF WriteFile, AfterLines, assemblyVars
<1>2. Handled \subseteq Handled'
  BY <1>1, OutgoingType, ToSetConcat DEF Handled
<1>3. /\ Len(got) \in Nat \ {0} /\ DOMAIN got = 1 .. Len(got) /\ Message = got[Len(got)]
      /\ Message \in Seq(Line) /\ Len(Message) \in Nat /\ DOMAIN Message = 1 .. Len(Message)
  BY <1>1, WalkTypes, LenProperties
<1>4. /\ \A j \in 1 .. (pLines - 1) : <<Len(got), j>> \in Handled
      /\ pLines = Len(Message) + 1 \/ ~Converts(Message[pLines])
  BY <1>1 DEF DoneInv, WalkDone
<1>5. MessageDone(Len(got))
  <2> SUFFICES ASSUME NEW i \in 1 .. Len(Message), \A j \in 1 .. i : Converts(Message[j])
               PROVE  <<Len(got), i>> \in Handled
    BY <1>3 DEF MessageDone
  <2>1. pLines \in Nat \ {0}
    BY DEF TypeInv, TypeOK
  <2>2. i < pLines
    BY <1>3, <1>4, <2>1
  <2> QED BY <1>3, <1>4, <2>1, <2>2
<1>6. ASSUME NEW k \in DOMAIN got PROVE MessageDone(k)'
  <2>1. MessageDone(k)
    <3>1. CASE k < Len(got)
      BY <1>1, <3>1 DEF DoneInv
    <3>2. CASE k = Len(got)
      BY <1>5, <3>2
    <3> QED BY <1>3, <3>1, <3>2
  <2> QED BY <1>1, <1>2, <2>1, DoneStays
<1> QED BY <1>1, <1>6 DEF DoneInv, WalkDone

LEMMA DoneKeeps ==
  ASSUME TypeInv, DoneInv, [Next]_vars
  PROVE  DoneInv'
<1>1. CASE AssemblyNext /\ UNCHANGED <<msgs, serverVars>>
  <2>1. conf' = conf
    BY <1>1, AssemblyKeeps DEF TypeInv
  <2> QED BY <1>1, <2>1, OthersDone DEF serverVars, outVars
<1>2. CASE Send \/ Sighup \/ UNCHANGED vars
  BY <1>2, OthersDone DEF Send, Sighup, vars, assemblyVars, serverVars, outVars
<1>3. CASE LeaveLoop \/ SkipLine \/ Transfer
  BY <1>3, OthersDone DEF LeaveLoop, SkipLine, Transfer, assemblyVars, outVars
<1>4. CASE Receive \/ PutPlugin \/ Collect \/ WriteFile
  BY <1>4, ReceiveDone, PutDone, CollectDone, WriteFileDone
<1> QED BY <1>1, <1>2, <1>3, <1>4 DEF Next, ServerNext

\* When Processing (k2hftfusesvr.cc) is through with a message, each line of it
\* that converts and comes before every line that does not was put out, or the
\* plugin or the file has refused it.
THEOREM LinesArrive == Spec => []GoodLinesArrive
<1>1. Init => TypeInv /\ DoneInv
  BY InitTypes, InitDone
<1>2. TypeInv /\ DoneInv /\ [Next]_vars => (TypeInv /\ DoneInv)'
  BY TypesKeep, DoneKeeps
<1>3. TypeInv /\ OrderInv /\ DoneInv => GoodLinesArrive
  BY DEF OrderInv, DoneInv, MessageDone, Handled, GoodLinesArrive, Between, ToSet
<1>4. Init => OrderInv
  BY InitOrder
<1>5. TypeInv /\ OrderInv /\ [Next]_vars => OrderInv'
  BY OrderKeeps
<1> QED BY <1>1, <1>2, <1>3, <1>4, <1>5, PTL DEF Spec

-----------------------------------------------------------------------------
(* The bytes that arrive are the bytes that were written.                  *)

\* Between two ends of lines in text mode there is nothing that ends a line.
LEMMA InsideLine ==
  ASSUME ~conf.binmode, NEW b \in Nat, NEW e \in Nat, \A i \in b + 1 .. e - 1 : ~IsEnd(i)
  PROVE  \A i \in First(b) .. e : /\ ~Skipped(i)
                                  /\ i < e => written[i].byte \notin {"LF", "CR", "NUL"}
<1>1. PICK first \in {b + 1, b + 2} : first = First(b)
  BY DEF First
<1>2. first = b + 1 => ~Skipped(b + 1)
  BY <1>1 DEF First
<1>3. first = b + 2 => Skipped(b + 1)
  BY <1>1 DEF First
<1>4. ASSUME NEW i \in first .. e PROVE ~Skipped(i)
  <2>1. SUFFICES ASSUME Skipped(i) PROVE FALSE
    OBVIOUS
  <2>2. written[i - 1].byte = "CR"
    BY <2>1 DEF Skipped
  <2>3. CASE i = b + 1
    BY <1>1, <1>2, <2>1, <2>3
  <2>4. CASE i = b + 2 /\ first = b + 2
    <3>1. i - 1 = b + 1
      BY <2>4
    <3> QED BY <1>3, <2>2, <2>4, <3>1 DEF Skipped
  <2>5. CASE i - 1 \in b + 1 .. e - 1 /\ i # b + 1
    <3>1. Skipped(i - 1)
      BY <2>2, <2>5 DEF IsEnd
    <3> QED BY <2>2, <3>1 DEF Skipped
  <2> QED BY <1>1, <2>3, <2>4, <2>5
<1>5. ASSUME NEW i \in first .. e, i < e PROVE written[i].byte \notin {"LF", "CR", "NUL"}
  <2>1. i \in b + 1 .. e - 1 /\ ~Skipped(i)
    BY <1>1, <1>4, <1>5
  <2> QED BY <2>1 DEF IsEnd
<1> QED BY <1>1, <1>4, <1>5

\* What goes out of a line is what should arrive of its bytes.
LEMMA OutputKeeps ==
  ASSUME AssemblyInv, conf.format = "none", conf.svrbin = conf.binmode,
         NEW b \in Nat, NEW e \in 1 .. Len(written), b < e, \A i \in b + 1 .. e - 1 : ~IsEnd(i),
         NEW l \in Line, l = LineBetween(b, e)
  PROVE  /\ Output(l) \in Seq(Bytes)
         /\ \A i \in b + 1 .. e : i \in Kept(e) <=> i \in First(b) .. First(b) + Len(Output(l)) - 1
         /\ First(b) > b /\ First(b) + Len(Output(l)) - 1 <= e
         /\ \A k \in 1 .. Len(Output(l)) : Output(l)[k] = written[First(b) + k - 1].byte
<1>1. PICK first \in {b + 1, b + 2} : first = First(b)
  BY DEF First
<1>2. Len(written) \in Nat /\ b \in 0 .. Len(written) /\ e \in 0 .. Len(written) /\ first <= e + 1
  BY <1>1, Lengths DEF AssemblyInv
<1>3. PICK p \in Nat : p = e - first + 1
  BY <1>1, <1>2
<1>4. e \in Nat /\ first = First(b) /\ first + p = e + 1 /\ b < first
  BY <1>1, <1>2, <1>3
<1>5. PICK piece \in Seq(Bytes) : piece = Piece(b, e) /\ Len(piece) = p
  BY <1>1, <1>2, <1>3, PieceType
<1>6. \A k \in 1 .. p : piece[k] = written[first + k - 1].byte
  BY <1>1, <1>3, <1>5 DEF Piece
<1>7. l \in Seq(Bytes) /\ l # <<>>
  BY DEF Line
<1>8. CASE conf.binmode
  <2>1. l = piece /\ Output(l) = piece
    BY <1>5, <1>8 DEF LineBetween, Output
  <2>2. first = b + 1
    BY <1>1, <1>8 DEF First
  <2>3. first + Len(Output(l)) - 1 = e
    <3>1. Len(Output(l)) = p
      BY <1>5, <2>1
    <3> QED BY ONLY <1>1, <1>4, <3>1
  <2>4. \A i \in b + 1 .. e : i \in Kept(e)
    BY <1>8 DEF Kept
  <2> QED BY <1>1, <1>2, <1>5, <1>6, <2>1, <2>2, <2>3, <2>4
<1>9. CASE ~conf.binmode
  <2>1. \A i \in first .. e : /\ ~Skipped(i)
                              /\ i < e => written[i].byte \notin {"LF", "CR", "NUL"}
    BY <1>9, <1>4, InsideLine
  <2>2. \A i \in b + 1 .. e : i < first => i \notin Kept(e)
    <3>1. CASE first = b + 1
      BY <3>1
    <3>2. CASE first = b + 2
      <4>1. Skipped(b + 1)
        BY <1>1, <3>2 DEF First
      <4>2. \A i \in b + 1 .. e : i < first => i = b + 1
        BY <3>2
      <4> QED BY <1>9, <4>1, <4>2 DEF Kept
    <3> QED BY <3>1, <3>2
  <2>3. \A i \in first .. e - 1 : i \in Kept(e)
    <3>1. \A i \in first .. e - 1 : i \in first .. e /\ i < e /\ i \in 1 .. e
      BY <1>1, <1>2
    <3> QED BY <2>1, <3>1 DEF Kept
  <2>4. CASE Last(piece) = "NUL"
    <3>1. l = piece
      BY <1>5, <1>9, <2>4 DEF LineBetween
    <3>2. p # 0
      BY <1>5, <1>7, <3>1, EmptySeq
    <3>3. Output(l) = SubSeq(piece, 1, p - 1)
      BY <1>5, <1>9, <2>4, <3>1 DEF Output, Front
    <3>4. Output(l) \in Seq(Bytes) /\ Len(Output(l)) = p - 1
      BY <1>5, <3>2, <3>3, SubSeqType
    <3>5. \A k \in 1 .. p - 1 : Output(l)[k] = piece[k]
      <4>1. \A i \in 1 .. p - 1 : piece[i] \in Bytes
        BY <1>5, ElementOfSeq
      <4>2. \A k \in 1 .. p - 1 : Output(l)[k] = piece[1 + k - 1]
        BY <1>5, <3>2, <3>3, <4>1, SubSeqProperties
      <4> QED BY <4>2
    <3>6. written[e].byte = "NUL"
      <4>1. p \in 1 .. p /\ first + p - 1 = e
        BY ONLY <1>1, <1>4, <3>2
      <4> QED BY <1>5, <1>6, <2>4, <4>1 DEF Last
    <3>7. e \notin Kept(e)
      BY <1>9, <3>6 DEF Kept
    <3>8. first + Len(Output(l)) - 1 = e - 1
      <4>1. PICK n \in Int : n = Len(Output(l)) /\ n = p - 1
        BY <3>4
      <4>2. first + n - 1 = e - 1
        BY ONLY <1>1, <1>4, <4>1
      <4> QED BY <4>1, <4>2
    <3>9. \A i \in b + 1 .. e : i < first \/ i \in first .. e - 1 \/ i = e
      BY <1>1
    <3>10. \A k \in 1 .. Len(Output(l)) : Output(l)[k] = written[first + k - 1].byte
      BY <1>6, <3>4, <3>5, SMTT(40)
    <3>11. \A i \in b + 1 .. e : i \in Kept(e) <=> i \in first .. e - 1
      BY <1>1, <2>2, <2>3, <3>7, <3>9
    <3>12. first + Len(Output(l)) - 1 <= e
      BY ONLY <1>4, <3>8
    <3> QED BY <1>4, <3>4, <3>8, <3>10, <3>11, <3>12, SMTT(40)
  <2>5. CASE Last(piece) # "NUL"
    <3>1. l = Append(piece, "NUL")
      BY <1>5, <1>9, <2>5 DEF LineBetween
    <3>2. /\ Len(l) = p + 1
          /\ \A k \in 1 .. p : l[k] = piece[k]
          /\ l[p + 1] = "NUL"
      <4>1. "NUL" \in Bytes
        BY DEF Bytes
      <4> QED BY <1>5, <3>1, <4>1, AppendProperties
    <3>3. Output(l) = SubSeq(l, 1, p)
      BY <1>9, <3>2 DEF Output, Front, Last
    <3>4. Output(l) \in Seq(Bytes) /\ Len(Output(l)) = p
      BY <1>7, <3>2, <3>3, SubSeqType
    <3>5. \A k \in 1 .. p : Output(l)[k] = piece[k]
      <4>1. \A i \in 1 .. p : l[i] \in Bytes
        BY <1>7, <3>2, ElementOfSeq
      <4>2. \A k \in 1 .. p : Output(l)[k] = l[1 + k - 1]
        BY <1>7, <3>2, <3>3, <4>1, SubSeqProperties
      <4> QED BY <3>2, <4>2
    <3>6. first <= e => e \in Kept(e)
      <4>1. first <= e => p \in 1 .. p /\ first + p - 1 = e /\ e \in first .. e
        BY ONLY <1>1, <1>4
      <4>2. first <= e => written[e].byte # "NUL"
        BY <1>5, <1>6, <2>5, <4>1 DEF Last
      <4> QED BY <2>1, <4>1, <4>2 DEF Kept
    <3>7. first + Len(Output(l)) - 1 = e
      BY ONLY <1>1, <1>4, <3>4
    <3>8. \A i \in b + 1 .. e : i < first \/ i \in first .. e - 1 \/ (i = e /\ first <= e)
      BY <1>1
    <3>9. \A k \in 1 .. Len(Output(l)) : Output(l)[k] = written[first + k - 1].byte
      BY <1>6, <3>4, <3>5
    <3>10. \A i \in b + 1 .. e : i \in Kept(e) <=> i \in first .. e
      BY <1>1, <2>2, <2>3, <3>6, <3>8
    <3> QED BY <1>1, <1>2, <3>4, <3>7, <3>9, <3>10, SMTT(40)
  <2> QED BY <2>4, <2>5
<1> QED BY <1>8, <1>9

\* What goes out of the next line joins what should arrive of the bytes before.
LEMMA KeptJoins ==
  ASSUME AssemblyInv, conf.format = "none", conf.svrbin = conf.binmode,
         NEW b \in Nat, NEW e \in 1 .. Len(written), b < e, \A i \in b + 1 .. e - 1 : ~IsEnd(i),
         NEW l \in Line, l = LineBetween(b, e), NEW s \in Seq(Bytes), AreKept(s, b)
  PROVE  /\ Output(l) \in Seq(Bytes) /\ s \o Output(l) \in Seq(Bytes)
         /\ AreKept(s \o Output(l), e)
<1>1. PICK first \in Nat : first = First(b)
  BY DEF First
<1>2. PICK out : out = Output(l)
  OBVIOUS
<1>3. /\ out \in Seq(Bytes)
      /\ \A i \in b + 1 .. e : i \in Kept(e) <=> i \in first .. first + Len(out) - 1
      /\ first > b /\ first + Len(out) - 1 <= e
      /\ \A k \in 1 .. Len(out) : out[k] = written[first + k - 1].byte
  BY <1>1, <1>2, OutputKeeps, SMTT(40)
<1>4. PICK p \in Nat, q \in Nat : p = Len(s) /\ q = Len(out) /\ DOMAIN s = 1 .. p
  BY <1>3, LenProperties
<1>5. PICK whole : whole = s \o out
  OBVIOUS
<1>6. /\ whole \in Seq(Bytes) /\ DOMAIN whole = 1 .. p + q
      /\ \A k \in 1 .. p + q : whole[k] = IF k <= p THEN s[k] ELSE out[k - p]
  <2>1. /\ whole \in Seq(Bytes) /\ Len(whole) = p + q
        /\ \A k \in 1 .. p + q : whole[k] = IF k <= p THEN s[k] ELSE out[k - p]
    BY <1>3, <1>4, <1>5, ConcatProperties
  <2> QED BY <2>1, LenProperties
<1>7. PICK at \in [1 .. p -> Kept(b)] :
        /\ \A k, m \in 1 .. p : k < m => at[k] < at[m]
        /\ \A i \in Kept(b) : \E k \in 1 .. p : at[k] = i
        /\ \A k \in 1 .. p : s[k] = written[at[k]].byte
  <2>1. PICK dom : dom = DOMAIN s
    OBVIOUS
  <2>2. \E at \in [dom -> Kept(b)] :
          /\ \A k, m \in dom : k < m => at[k] < at[m]
          /\ \A i \in Kept(b) : \E k \in dom : at[k] = i
          /\ \A k \in dom : s[k] = written[at[k]].byte
    BY <2>1, Zenon DEF AreKept
  <2>3. dom = 1 .. p
    BY <1>4, <2>1
  <2> QED BY ONLY <2>2, <2>3, Zenon
<1>8. PICK to : to = [k \in 1 .. p + q |-> IF k <= p THEN at[k] ELSE first + k - p - 1]
  OBVIOUS
<1>9. e \in Nat /\ Kept(b) = {i \in Kept(e) : i <= b} /\ Kept(e) \subseteq 1 .. e
  <2>1. e \in Nat
    BY Lengths DEF AssemblyInv
  <2> QED BY <2>1 DEF Kept
<1>10. \A k \in 1 .. p : to[k] = at[k] /\ to[k] \in Kept(e) /\ to[k] \in 1 .. b
  BY <1>4, <1>7, <1>8, <1>9
<1>11. \A k \in p + 1 .. p + q : to[k] = first + k - p - 1 /\ to[k] \in Kept(e) /\ to[k] \in b + 1 .. e
  <2>1. SUFFICES ASSUME NEW k \in p + 1 .. p + q
                 PROVE  to[k] = first + k - p - 1 /\ to[k] \in Kept(e) /\ to[k] \in b + 1 .. e
    OBVIOUS
  <2>2. to[k] = first + k - p - 1
    BY <1>4, <1>8
  <2>3. to[k] \in first .. first + q - 1 /\ to[k] \in b + 1 .. e
    BY <1>1, <1>3, <1>4, <1>9, <2>2, SMTT(40)
  <2> QED BY <1>3, <1>4, <2>2, <2>3
<1>12. to \in [1 .. p + q -> Kept(e)]
  <2>1. \A k \in 1 .. p + q : k \in 1 .. p \/ k \in p + 1 .. p + q
    BY <1>4
  <2>2. \A k \in 1 .. p + q : to[k] \in Kept(e)
    BY <1>10, <1>11, <2>1
  <2> QED BY <1>8, <2>2
<1>13. ASSUME NEW k \in 1 .. p + q, NEW m \in 1 .. p + q, k < m PROVE to[k] < to[m]
  <2>1. CASE m <= p
    <3>1. k \in 1 .. p /\ m \in 1 .. p
      BY <1>4, <1>13, <2>1
    <3> QED BY <1>7, <1>10, <1>13, <3>1
  <2>2. CASE k <= p /\ m > p
    <3>1. k \in 1 .. p /\ m \in p + 1 .. p + q
      BY <1>4, <2>2
    <3>2. to[k] \in 1 .. b /\ to[m] \in b + 1 .. e
      BY <1>10, <1>11, <3>1
    <3> QED BY <1>9, <3>2
  <2>3. CASE k > p
    <3>1. k \in p + 1 .. p + q /\ m \in p + 1 .. p + q
      BY <1>4, <1>13, <2>3
    <3>2. to[k] = first + k - p - 1 /\ to[m] = first + m - p - 1
      BY <1>11, <3>1
    <3> QED BY <1>1, <1>4, <1>13, <3>2
  <2> QED BY <1>4, <2>1, <2>2, <2>3
<1>14. ASSUME NEW i \in Kept(e) PROVE \E k \in 1 .. p + q : to[k] = i
  <2>1. i \in 1 .. e
    BY <1>9
  <2>2. CASE i <= b
    <3>1. i \in Kept(b)
      BY <1>9, <2>2
    <3>2. PICK k \in 1 .. p : at[k] = i
      BY <1>7, <3>1
    <3>3. k \in 1 .. p + q /\ to[k] = i
      BY <1>4, <1>10, <3>2
    <3> QED BY <3>3
  <2>3. CASE i > b
    <3>1. i \in first .. first + q - 1
      BY <1>3, <1>4, <2>1, <2>3
    <3>2. PICK k \in p + 1 .. p + q : k = i - first + p + 1
      BY ONLY <3>1
    <3>3. to[k] = first + k - p - 1
      BY <1>11
    <3>4. k \in 1 .. p + q /\ first + k - p - 1 = i
      BY ONLY <2>1, <3>1, <3>2
    <3> QED BY <3>3, <3>4
  <2> QED BY <2>1, <2>2, <2>3
<1>15. ASSUME NEW k \in 1 .. p + q PROVE whole[k] = written[to[k]].byte
  <2>1. CASE k <= p
    <3>1. k \in 1 .. p
      BY <1>4, <2>1
    <3> QED BY <1>6, <1>7, <1>10, <2>1, <3>1
  <2>2. CASE k > p
    <3>1. k \in p + 1 .. p + q
      BY <1>4, <2>2
    <3>2. PICK j \in 1 .. q : j = k - p
      BY <1>4, <3>1
    <3>3. out[j] = written[first + j - 1].byte
      BY <1>3, <1>4
    <3>4. whole[k] = out[j]
      <4>1. ~(k <= p)
        BY ONLY <2>2, <3>1
      <4>2. whole[k] = out[k - p]
        BY ONLY <1>6, <4>1
      <4> QED BY <3>2, <4>2
    <3>5. to[k] = first + k - p - 1
      BY <1>11, <3>1
    <3>6. first + k - p - 1 = first + j - 1
      BY ONLY <3>1, <3>2
    <3> QED BY <3>3, <3>4, <3>5, <3>6
  <2> QED BY <1>4, <2>1, <2>2
<1>16. AreKept(whole, e)
  <2>1. PICK dom : dom = DOMAIN whole
    OBVIOUS
  <2>2. dom = 1 .. p + q
    BY <1>6, <2>1
  <2>3. /\ to \in [dom -> Kept(e)]
        /\ \A k, m \in dom : k < m => to[k] < to[m]
        /\ \A i \in Kept(e) : \E k \in dom : to[k] = i
        /\ \A k \in dom : whole[k] = written[to[k]].byte
    BY <1>12, <1>13, <1>14, <1>15, <2>2, Zenon
  <2> QED BY <2>1, <2>3, Zenon DEF AreKept
<1> QED BY <1>2, <1>3, <1>5, <1>6, <1>16

\* What goes out of the first n lines.
Outs(n) == [k \in 1 .. n |-> Output(taken[k])]

LEMMA OutsGrow ==
  ASSUME NEW k \in Nat, NEW j \in Nat, j = k + 1,
         FlattenSeq(Outs(k)) \in Seq(Bytes), Output(taken[j]) \in Seq(Bytes)
  PROVE  FlattenSeq(Outs(j)) = FlattenSeq(Outs(k)) \o Output(taken[j])
<1>1. PICK ss, tt : ss = Outs(k) /\ tt = Outs(j)
  OBVIOUS
<1>2. ss = [i \in 1 .. k |-> Output(taken[i])] /\ tt = [i \in 1 .. j |-> Output(taken[i])]
  BY <1>1 DEF Outs
<1>3. j \in 1 .. j /\ 1 .. k \subseteq 1 .. j
  OBVIOUS
<1>4. Len(ss) = k /\ Len(tt) = j
  BY <1>2
<1>5. \A i \in 1 .. Len(ss) : tt[i] = ss[i]
  BY <1>2, <1>3, <1>4
<1>6. tt[Len(tt)] = Output(taken[j])
  BY <1>2, <1>3, <1>4
<1>7. Len(ss) \in Nat /\ Len(tt) = Len(ss) + 1 /\ (Len(ss) = 0 => ss = <<>>)
  BY <1>2, <1>4
<1>8. FlattenSeq(ss) \in Seq(Bytes) /\ tt[Len(tt)] \in Seq(Bytes)
  BY <1>1, <1>6
<1>9. FlattenSeq(tt) = FlattenSeq(ss) \o tt[Len(tt)]
  BY <1>5, <1>7, <1>8, FlattenJoins
<1> QED BY <1>1, <1>6, <1>9

\* What goes out of the first lines is what should arrive of the bytes up to the
\* end of the last of them.
LEMMA TakenBytes ==
  ASSUME AssemblyInv, conf.format = "none", conf.svrbin = conf.binmode, conf.limit = 0, conf.deny = {},
         NEW m \in 0 .. Len(written), StackedUpTo(m), NEW n \in 0 .. Len(taken)
  PROVE  \E e \in 0 .. m : /\ e = 0 \/ IsEnd(e)
                           /\ AreKept(FlattenSeq(Outs(n)), e)
                           /\ n = Len(taken) => Ends(e, m)
<1>1. PICK t \in Nat, w \in Nat : t = Len(taken) /\ w = Len(written) /\ DOMAIN taken = 1 .. t /\ m \in 0 .. w /\ n \in 0 .. t
  <2>1. taken \in Seq(Line)
    BY DEF AssemblyInv, AssemblyTypeOK
  <2> QED BY <2>1, Lengths, LenProperties DEF AssemblyInv
<1>2. Passing(m) = {e \in 1 .. m : IsEnd(e)}
  BY DEF Passing, MayPass
<1>3. PICK at \in [1 .. t -> Passing(m)] :
        /\ \A k, j \in 1 .. t : k < j => at[k] < at[j]
        /\ \A e \in Passing(m) : \E k \in 1 .. t : at[k] = e
        /\ \A k \in 1 .. t : taken[k] = LineAt(at[k])
  <2>1. PICK dom : dom = DOMAIN taken
    OBVIOUS
  <2>2. \E at \in [dom -> Passing(m)] :
          /\ \A k, j \in dom : k < j => at[k] < at[j]
          /\ \A e \in Passing(m) : \E k \in dom : at[k] = e
          /\ \A k \in dom : taken[k] = LineAt(at[k])
    BY <2>1, Zenon DEF StackedUpTo
  <2>3. dom = 1 .. t
    BY <1>1, <2>1
  <2> QED BY <2>2, <2>3
<1>4. PICK end : end = [k \in 0 .. t |-> IF k = 0 THEN 0 ELSE at[k]]
  OBVIOUS
<1>5. /\ end[0] = 0
      /\ \A k \in 1 .. t : end[k] = at[k] /\ end[k] \in 1 .. m /\ IsEnd(end[k])
      /\ \A k \in 0 .. t : end[k] \in 0 .. m
  <2>1. \A k \in 1 .. t : at[k] \in 1 .. m /\ IsEnd(at[k])
    BY <1>2, <1>3
  <2>2. \A k \in 1 .. t : end[k] = at[k]
    BY <1>1, <1>4
  <2>3. end[0] = 0
    BY <1>1, <1>4
  <2>4. \A k \in 0 .. t : k = 0 \/ k \in 1 .. t
    BY <1>1
  <2> QED BY <1>1, <2>1, <2>2, <2>3, <2>4
<1>6. ASSUME NEW k \in 0 .. t, NEW i \in end[k] + 1 .. m, IsEnd(i), k < t => i < end[k + 1] PROVE FALSE
  <2>1. end[k] \in 0 .. m /\ i \in 1 .. m
    BY <1>1, <1>5
  <2>2. PICK j \in 1 .. t : at[j] = i
    BY <1>2, <1>3, <1>6, <2>1
  <2>3. k = 0 \/ (k \in 1 .. t /\ end[k] = at[k])
    BY <1>1, <1>5
  <2>4. k < t => k + 1 \in 1 .. t /\ end[k + 1] = at[k + 1]
    BY <1>1, <1>5
  <2>5. CASE j <= k
    <3>1. k \in 1 .. t /\ (j = k \/ at[j] < at[k]) /\ end[k] = at[k]
      BY <1>1, <1>3, <2>3, <2>5
    <3> QED BY <2>1, <2>2, <3>1
  <2>6. CASE j > k
    <3>1. k < t /\ (j = k + 1 \/ at[k + 1] < at[j])
      BY <1>1, <1>3, <2>4, <2>6
    <3>2. i < at[k + 1] /\ at[k + 1] \in 1 .. m
      BY <1>5, <1>6, <2>4, <3>1
    <3> QED BY <2>1, <2>2, <3>1, <3>2
  <2> QED BY <1>1, <2>5, <2>6
<1> DEFINE Right(k) == FlattenSeq(Outs(k)) \in Seq(Bytes) /\ AreKept(FlattenSeq(Outs(k)), end[k])
<1>7. Right(0)
  <2>1. Outs(0) = <<>> /\ Len(<<>>) = 0 /\ <<>> \in Seq(Bytes)
    BY EmptySeq DEF Outs
  <2>2. FlattenSeq(Outs(0)) = <<>>
    BY <2>1, FlattenNothing
  <2>3. Kept(0) = {}
    BY DEF Kept
  <2>4. AreKept(<<>>, 0)
    <3>1. DOMAIN <<>> = {} /\ [i \in {} |-> i] \in [{} -> {}]
      OBVIOUS
    <3> QED BY <2>3, <3>1, Zenon DEF AreKept
  <2> QED BY <1>5, <2>1, <2>2, <2>4
<1>8. ASSUME NEW k \in 0 .. t, k < t, Right(k) PROVE Right(k + 1)
  <2>1. PICK j \in 1 .. t : j = k + 1
    BY <1>1, <1>8
  <2>2. PICK b \in Nat, e \in Nat : b = end[k] /\ e = end[j] /\ b \in 0 .. m /\ e \in 1 .. m /\ IsEnd(e)
    BY <1>1, <1>5
  <2>3. b < e
    <3>1. CASE k = 0
      BY <1>5, <2>2, <3>1
    <3>2. CASE k # 0
      <4>1. k \in 1 .. t /\ k < j
        BY <1>1, <2>1, <3>2
      <4> QED BY <1>3, <1>5, <2>2, <4>1
    <3> QED BY <3>1, <3>2
  <2>4. \A i \in b + 1 .. e - 1 : ~IsEnd(i)
    BY <1>1, <1>6, <1>8, <2>1, <2>2, SMTT(40)
  <2>5. LineAt(e) = LineBetween(b, e)
    <3>1. e - 1 \in Nat /\ b \in 0 .. e - 1
      BY ONLY <2>3
    <3>2. b = 0 \/ IsEnd(b)
      BY <1>1, <1>5, <2>2
    <3>3. Ends(b, e - 1)
      BY <2>4, <3>2 DEF Ends
    <3>4. LastEnd(e - 1) = b
      BY <3>1, <3>3, LastEndIs
    <3> QED BY <3>4 DEF LineAt
  <2>6. PICK l \in Line : l = taken[j]
    <3>1. taken \in Seq(Line)
      BY DEF AssemblyInv, AssemblyTypeOK
    <3> QED BY <1>1, <3>1, ElementOfSeq
  <2>7. l = LineBetween(b, e)
    BY <1>3, <1>5, <2>2, <2>5, <2>6
  <2>8. PICK s \in Seq(Bytes) : s = FlattenSeq(Outs(k)) /\ AreKept(s, b)
    BY <1>8, <2>2
  <2>9. e \in 1 .. Len(written)
    BY <1>1, <2>2
  <2>10. Output(l) \in Seq(Bytes) /\ s \o Output(l) \in Seq(Bytes) /\ AreKept(s \o Output(l), e)
    BY <2>3, <2>4, <2>7, <2>8, <2>9, KeptJoins
  <2>11. FlattenSeq(Outs(j)) = s \o Output(l)
    <3>1. k \in Nat /\ j \in Nat /\ j = k + 1
      BY <1>1, <2>1
    <3>2. FlattenSeq(Outs(k)) \in Seq(Bytes) /\ Output(taken[j]) \in Seq(Bytes)
      BY <2>6, <2>8, <2>10
    <3>3. FlattenSeq(Outs(j)) = FlattenSeq(Outs(k)) \o Output(taken[j])
      BY <3>1, <3>2, OutsGrow
    <3> QED BY <2>6, <2>8, <3>3
  <2> QED BY <2>1, <2>2, <2>10, <2>11
<1> HIDE DEF Right
<1>9. Right(n)
  <2> DEFINE I == {k \in 0 .. t : ~Right(k)}
  <2> SUFFICES ASSUME I # {} PROVE FALSE
    BY <1>1
  <2>1. I \in SUBSET Nat
    BY <1>1
  <2> HIDE DEF I
  <2>2. PICK k \in I : \A j \in I : k <= j
    BY <2>1, LeastNumber
  <2>3. k \in 0 .. t /\ ~Right(k) /\ k # 0
    BY <1>7, <2>2 DEF I
  <2>4. PICK j \in 0 .. t : j + 1 = k /\ j < t /\ ~(k <= j)
    BY <1>1, <2>3
  <2>5. Right(j)
    BY <2>2, <2>4 DEF I
  <2> QED BY <1>8, <2>3, <2>4, <2>5
<1>10. PICK e : e = end[n]
  OBVIOUS
<1>11. e \in 0 .. m /\ (e = 0 \/ IsEnd(e)) /\ AreKept(FlattenSeq(Outs(n)), e)
  <2>1. n = 0 \/ n \in 1 .. t
    BY <1>1
  <2> QED BY <1>1, <1>5, <1>9, <1>10, <2>1 DEF Right
<1>12. n = t => \A i \in e + 1 .. m : ~IsEnd(i)
  BY <1>1, <1>6, <1>10
<1> QED BY <1>1, <1>11, <1>12 DEF Ends

\* The messages that were sent, those on their way at the end.
Sent == got \o msgs

\* The lines ever stacked are those of the messages, one after the other, and
\* those on the stack: off gives the number of lines before each message.
Placed(off) ==
  /\ off \in [1 .. Len(Sent) + 1 -> 0 .. Len(taken)]
  /\ off[1] = 0
  /\ \A k \in 1 .. Len(Sent) : /\ off[k + 1] = off[k] + Len(Sent[k])
                               /\ \A i \in 1 .. Len(Sent[k]) : taken[off[k] + i] = Sent[k][i]
  /\ Len(taken) = off[Len(Sent) + 1] + Len(stack)
  /\ \A i \in 1 .. Len(stack) : taken[off[Len(Sent) + 1] + i] = stack[i]

\* Every line converts and is taken.
Straight == conf.format = "none" /\ conf.file /\ ~conf.fails

\* What goes out are the lines of the messages without a gap ...
Gapless(off) ==
  \A n \in 1 .. Len(Outgoing) :
    \E k \in 1 .. Len(got) : \E i \in 1 .. Len(got[k]) : Outgoing[n] = <<k, i>> /\ n = off[k] + i

\* ... up to where Processing is.
Reached(off) ==
  step # "undefined" /\ pFileOutput # "freed" =>
    Len(Outgoing) = IF step = "lines" THEN off[Len(got)] + cnt ELSE off[Len(got) + 1]

Walked(off) ==
  Straight =>
    /\ Gapless(off)
    /\ Reached(off)
    /\ step = "lines" => pLines = cnt + 1
    /\ step \notin {"lines", "undefined"} \/ conf.plugin => pFileOutput # "freed"

FlowInv == \E off : Placed(off) /\ Walked(off)

LEMMA SentType ==
  ASSUME TypeInv
  PROVE  /\ got \in Seq(Seq(Line)) /\ msgs \in Seq(Seq(Line)) /\ Sent \in Seq(Seq(Line))
         /\ Len(got) \in Nat /\ Len(msgs) \in Nat /\ Len(Sent) = Len(got) + Len(msgs)
         /\ \A k \in 1 .. Len(Sent) : /\ Sent[k] = IF k <= Len(got) THEN got[k] ELSE msgs[k - Len(got)]
                                      /\ Sent[k] \in Seq(Line) /\ Len(Sent[k]) \in Nat
<1>1. got \in Seq(Seq(Line)) /\ msgs \in Seq(Seq(Line))
  BY DEF TypeInv, TypeOK
<1>2. /\ Sent \in Seq(Seq(Line)) /\ Len(Sent) = Len(got) + Len(msgs)
      /\ \A k \in 1 .. Len(got) + Len(msgs) : Sent[k] = IF k <= Len(got) THEN got[k] ELSE msgs[k - Len(got)]
  BY <1>1, ConcatProperties DEF Sent
<1>3. \A k \in 1 .. Len(Sent) : Sent[k] \in Seq(Line)
  BY <1>2, ElementOfSeq
<1>4. \A k \in 1 .. Len(Sent) : Len(Sent[k]) \in Nat
  BY <1>3, LenProperties
<1> QED BY <1>1, <1>2, <1>3, <1>4, LenProperties

LEMMA InitFlow == Init => FlowInv
<1> SUFFICES ASSUME Init PROVE FlowInv
  OBVIOUS
<1>1. /\ got = <<>> /\ msgs = <<>> /\ stack = <<>> /\ taken = <<>> /\ put = <<>> /\ collected = <<>>
      /\ step = "receive" /\ pFileOutput = "null"
  BY DEF Init, AssemblyInit
<1>2. Len(<<>>) = 0 /\ \A S : <<>> \in Seq(S)
  BY EmptySeq
<1>3. Sent = <<>> /\ Outgoing = <<>>
  BY <1>1, <1>2, ConcatEmptySeq DEF Sent, Outgoing
<1>4. PICK off : off = [k \in 1 .. 1 |-> 0]
  OBVIOUS
<1>5. off \in [1 .. 1 -> 0 .. 0] /\ off[1] = 0
  BY <1>4
<1>6. Placed(off)
  BY <1>1, <1>2, <1>3, <1>5 DEF Placed
<1>7. Walked(off)
  BY <1>1, <1>2, <1>3, <1>5 DEF Walked, Gapless, Reached
<1> QED BY <1>6, <1>7 DEF FlowInv

LEMMA PlacedStays ==
  ASSUME NEW off, Placed(off), Sent' = Sent, UNCHANGED <<stack, taken>>
  PROVE  Placed(off)'
BY DEF Placed

\* A line comes onto the stack.
LEMMA PlacedGrows ==
  ASSUME TypeInv, NEW off, Placed(off), Sent' = Sent,
         NEW l \in Line, stack' = Append(stack, l), taken' = Append(taken, l)
  PROVE  Placed(off)'
<1>1. stack \in Seq(Line) /\ taken \in Seq(Line)
  BY DEF TypeInv, AssemblyInv, AssemblyTypeOK
<1>2. PICK t \in Nat, s \in Nat, c \in Nat : t = Len(taken) /\ s = Len(stack) /\ c = Len(Sent)
  BY <1>1, SentType, LenProperties
<1>3. /\ Len(taken') = t + 1 /\ taken'[t + 1] = l /\ \A i \in 1 .. t : taken'[i] = taken[i]
      /\ Len(stack') = s + 1 /\ stack'[s + 1] = l /\ \A i \in 1 .. s : stack'[i] = stack[i]
  BY <1>1, <1>2, AppendProperties
<1>4. /\ off \in [1 .. c + 1 -> 0 .. t]
      /\ off[1] = 0
      /\ \A k \in 1 .. c : off[k + 1] = off[k] + Len(Sent[k])
      /\ \A k \in 1 .. c : \A i \in 1 .. Len(Sent[k]) : taken[off[k] + i] = Sent[k][i]
      /\ t = off[c + 1] + s
      /\ \A i \in 1 .. s : taken[off[c + 1] + i] = stack[i]
  BY <1>2 DEF Placed
<1>5. ASSUME NEW k \in 1 .. c, NEW i \in 1 .. Len(Sent[k]) PROVE taken'[off[k] + i] = Sent[k][i]
  <2>1. PICK a \in Nat, n \in Nat : a = off[k] /\ n = Len(Sent[k]) /\ i \in 1 .. n
    <3>1. k \in 1 .. c + 1
      BY <1>2
    <3>2. off[k] \in Nat
      BY <1>4, <3>1
    <3>3. Len(Sent[k]) \in Nat
      BY <1>2, SentType
    <3> QED BY <3>2, <3>3
  <2>2. off[k + 1] = a + n /\ off[k + 1] \in 0 .. t
    <3>1. k + 1 \in 1 .. c + 1
      BY <1>2
    <3> QED BY <1>4, <2>1, <3>1
  <2>3. a + i \in 1 .. t
    BY ONLY <1>2, <2>1, <2>2, SMTT(40)
  <2> QED BY <1>3, <1>4, <2>1, <2>3
<1>6. ASSUME NEW i \in 1 .. s + 1 PROVE taken'[off[c + 1] + i] = stack'[i]
  <2>1. PICK a \in Nat : a = off[c + 1] /\ t = a + s
    <3>1. c + 1 \in 1 .. c + 1
      OBVIOUS
    <3>2. off[c + 1] \in 0 .. t
      BY <1>4, <3>1
    <3> QED BY <1>4, <3>2
  <2>2. CASE i = s + 1
    <3>1. a + i = t + 1
      BY ONLY <2>1, <2>2
    <3> QED BY <1>3, <2>1, <2>2, <3>1
  <2>3. CASE i \in 1 .. s
    <3>1. a + i \in 1 .. t
      BY ONLY <2>1, <2>3
    <3> QED BY <1>3, <1>4, <2>1, <2>3, <3>1
  <2>4. i = s + 1 \/ i \in 1 .. s
    OBVIOUS
  <2> QED BY <2>2, <2>3, <2>4
<1>7. off \in [1 .. c + 1 -> 0 .. t + 1]
  <2>1. 0 .. t \subseteq 0 .. t + 1
    OBVIOUS
  <2> QED BY <1>4, <2>1
<1>8. t + 1 = off[c + 1] + (s + 1)
  <2>1. c + 1 \in 1 .. c + 1
    OBVIOUS
  <2>2. off[c + 1] \in 0 .. t
    BY <1>4, <2>1
  <2> QED BY <1>4, <2>2
<1>9. Len(Sent') = c /\ \A k \in 1 .. c : Sent'[k] = Sent[k]
  BY <1>2
<1>10. off \in [1 .. Len(Sent') + 1 -> 0 .. Len(taken')]
  BY ONLY <1>3, <1>7, <1>9
<1>11. ASSUME NEW k \in 1 .. Len(Sent')
       PROVE  /\ off[k + 1] = off[k] + Len(Sent'[k])
              /\ \A i \in 1 .. Len(Sent'[k]) : taken'[off[k] + i] = Sent'[k][i]
  <2>1. k \in 1 .. c /\ Sent'[k] = Sent[k]
    BY <1>9
  <2> QED BY ONLY <1>4, <1>5, <2>1
<1>12. /\ Len(taken') = off[Len(Sent') + 1] + Len(stack')
       /\ \A i \in 1 .. Len(stack') : taken'[off[Len(Sent') + 1] + i] = stack'[i]
  BY ONLY <1>3, <1>6, <1>8, <1>9
<1> QED BY <1>4, <1>10, <1>11, <1>12 DEF Placed

\* The stack becomes a message.
LEMMA PlacedSend ==
  ASSUME TypeInv, Send, NEW off, Placed(off)
  PROVE  \E to : Placed(to)' /\ \A k \in 1 .. Len(Sent) + 1 : to[k] = off[k]
<1>1. /\ stack \in Seq(Line) /\ taken \in Seq(Line) /\ stack' = <<>> /\ taken' = taken
      /\ msgs' = Append(msgs, stack) /\ got' = got
  BY DEF TypeInv, AssemblyInv, AssemblyTypeOK, Send, historyVars, serverVars
<1>2. PICK t \in Nat, s \in Nat, c \in Nat : t = Len(taken) /\ s = Len(stack) /\ c = Len(Sent)
  BY <1>1, SentType, LenProperties
<1>3. Sent' = Append(Sent, stack)
  <2>1. got \o Append(msgs, stack) = Append(got \o msgs, stack)
    <3>1. PICK S : S = Seq(Line)
      OBVIOUS
    <3>2. got \in Seq(S) /\ msgs \in Seq(S) /\ stack \in S
      BY <1>1, <3>1, SentType
    <3> QED BY <3>2, OutgoingGrows
  <2> QED BY <1>1, <2>1 DEF Sent
<1>4. Len(Sent') = c + 1 /\ Sent'[c + 1] = stack /\ \A k \in 1 .. c : Sent'[k] = Sent[k]
  BY <1>1, <1>2, <1>3, SentType, AppendProperties
<1>5. /\ off \in [1 .. c + 1 -> 0 .. t]
      /\ off[1] = 0
      /\ \A k \in 1 .. c : off[k + 1] = off[k] + Len(Sent[k])
      /\ \A k \in 1 .. c : \A i \in 1 .. Len(Sent[k]) : taken[off[k] + i] = Sent[k][i]
      /\ t = off[c + 1] + s
      /\ \A i \in 1 .. s : taken[off[c + 1] + i] = stack[i]
  BY <1>2 DEF Placed
<1>6. PICK to : to = [k \in 1 .. c + 2 |-> IF k = c + 2 THEN t ELSE off[k]]
  OBVIOUS
<1>7. to[c + 2] = t /\ \A k \in 1 .. c + 1 : to[k] = off[k]
  BY <1>2, <1>6
<1>8. to \in [1 .. c + 2 -> 0 .. t]
  <2>1. \A k \in 1 .. c + 2 : k = c + 2 \/ k \in 1 .. c + 1
    OBVIOUS
  <2>2. \A k \in 1 .. c + 1 : off[k] \in 0 .. t
    BY <1>5
  <2>3. t \in 0 .. t
    OBVIOUS
  <2>4. \A k \in 1 .. c + 2 : to[k] \in 0 .. t
    BY <1>7, <2>1, <2>2, <2>3
  <2> QED BY <1>6, <2>4
<1>9. ASSUME NEW k \in 1 .. c + 1
      PROVE  /\ to[k + 1] = to[k] + Len(Sent'[k])
             /\ \A i \in 1 .. Len(Sent'[k]) : taken[to[k] + i] = Sent'[k][i]
  <2>1. CASE k \in 1 .. c
    <3>1. k \in 1 .. c + 1 /\ k + 1 \in 1 .. c + 1
      BY <1>2, <2>1
    <3>2. to[k] = off[k] /\ to[k + 1] = off[k + 1] /\ Sent'[k] = Sent[k]
      BY <1>4, <1>7, <2>1, <3>1
    <3> QED BY ONLY <1>5, <2>1, <3>2
  <2>2. CASE k = c + 1
    <3>1. k + 1 = c + 2 /\ k \in 1 .. c + 1
      BY <1>2, <2>2
    <3>2. to[k] = off[c + 1] /\ to[k + 1] = t /\ Sent'[k] = stack
      BY <1>4, <1>7, <2>2, <3>1
    <3> QED BY <1>2, <1>5, <3>2
  <2> QED BY ONLY <1>2, <2>1, <2>2
<1>10. to[1] = 0
  <2>1. 1 \in 1 .. c + 1
    BY <1>2
  <2> QED BY <1>5, <1>7, <2>1
<1>11. Placed(to)'
  <2>1. Len(stack') = 0 /\ Len(Sent') + 1 = c + 2
    BY <1>1, <1>2, <1>4, EmptySeq
  <2>2. Len(taken') = to[c + 2] + 0
    BY <1>1, <1>2, <1>7
  <2> QED BY <1>1, <1>2, <1>4, <1>8, <1>9, <1>10, <2>1, <2>2 DEF Placed
<1> QED BY <1>2, <1>7, <1>11

\* Nothing goes out, and no line is walked over.
LEMMA WalkedStays ==
  ASSUME TypeInv, NEW off, NEW to, Walked(off), UNCHANGED <<conf, got, put, collected, pFileOutput>>,
         \A k \in 1 .. Len(got) + 1 : to[k] = off[k],
         \/ UNCHANGED <<step, cnt, pLines>>
         \/ step \in {"receive", "trans"} /\ step' \in {"receive", "ended"}
  PROVE  Walked(to)'
<1> SUFFICES ASSUME Straight PROVE Walked(to)'
  BY DEF Walked, Straight
<1>1. PICK g \in Nat : g = Len(got)
  BY SentType
<1>2. Outgoing' = Outgoing
  BY DEF Outgoing
<1>3. PICK out : out = Outgoing
  OBVIOUS
<1>4. \A n \in 1 .. Len(out) : \E k \in 1 .. g : \E i \in 1 .. Len(got[k]) : out[n] = <<k, i>> /\ n = off[k] + i
  <2>1. Gapless(off)
    BY DEF Walked
  <2> QED BY <1>1, <1>3, <2>1, SMTT(90) DEF Gapless
<1>5. \A n \in 1 .. Len(out) : \E k \in 1 .. g : \E i \in 1 .. Len(got[k]) : out[n] = <<k, i>> /\ n = to[k] + i
  <2>1. \A k \in 1 .. g : to[k] = off[k]
    BY <1>1
  <2>2. TAKE n \in 1 .. Len(out)
  <2>3. PICK k \in 1 .. g : \E i \in 1 .. Len(got[k]) : out[n] = <<k, i>> /\ n = off[k] + i
    BY <1>4
  <2> QED BY <2>1, <2>3
<1>6. to[g + 1] = off[g + 1] /\ (g # 0 => to[g] = off[g])
  BY <1>1
<1>7. step = "lines" => g # 0
  BY <1>1, WalkTypes
<1>8. /\ step' = "lines" => pLines' = cnt' + 1
      /\ step' \notin {"lines", "undefined"} \/ conf'.plugin => pFileOutput' # "freed"
  BY DEF Walked
<1>9. step' # "undefined" /\ pFileOutput' # "freed" =>
        Len(out) = IF step' = "lines" THEN to[g] + cnt' ELSE to[g + 1]
  BY <1>1, <1>3, <1>6, <1>7 DEF Walked, Reached
<1>10. Gapless(to)'
  BY <1>1, <1>2, <1>3, <1>5 DEF Gapless
<1>11. Reached(to)'
  BY <1>1, <1>2, <1>3, <1>9 DEF Reached
<1> QED BY <1>8, <1>10, <1>11 DEF Walked

\* A line goes out, and the walk goes on behind it.
LEMMA WalkedJoins ==
  ASSUME TypeInv, NEW off, Placed(off), Walked(off), UNCHANGED <<conf, got, step>>,
         step = "lines", cnt < Len(Message), Outgoing' = Append(Outgoing, Current),
         cnt' = cnt + 1, pLines' = pLines + 1, pFileOutput # "freed", pFileOutput' # "freed"
  PROVE  Walked(off)'
<1> SUFFICES ASSUME Straight PROVE Walked(off)'
  BY SMTT(40) DEF Walked, Straight
<1>1. PICK g \in Nat, p \in Nat : g = Len(got) /\ g # 0 /\ p = pLines /\ p \in 1 .. Len(got[g])
  BY WalkTypes, OutgoingType
<1>2. p = cnt + 1 /\ cnt \in Nat /\ Current = <<g, p>>
  BY <1>1 DEF Walked, TypeInv, TypeOK, Current
<1>3. PICK n \in Nat : n = Len(Outgoing)
  BY OutgoingType, LenProperties
<1>4. /\ Len(Outgoing') = n + 1 /\ Outgoing'[n + 1] = <<g, p>>
      /\ \A i \in 1 .. n : Outgoing'[i] = Outgoing[i]
  BY <1>2, <1>3, OutgoingType, AppendProperties, SMTT(40)
<1>5. n = off[g] + cnt
  BY <1>1, <1>3 DEF Walked, Reached
<1>6. off[g] \in Nat
  <2>1. PICK c \in Nat, t \in Nat : c = Len(Sent) /\ t = Len(taken) /\ g \in 1 .. c + 1
    <3>1. Len(taken) \in Nat
      BY Lengths DEF TypeInv, AssemblyInv
    <3>2. Len(got) \in Nat /\ Len(msgs) \in Nat /\ Len(Sent) = Len(got) + Len(msgs)
      BY SentType
    <3> QED BY <1>1, <3>1, <3>2
  <2>2. off \in [1 .. c + 1 -> 0 .. t]
    BY <2>1 DEF Placed
  <2> QED BY <2>1, <2>2
<1>7. n + 1 = off[g] + p
  BY ONLY <1>1, <1>2, <1>5, <1>6
<1>8. ASSUME NEW m \in 1 .. n + 1
      PROVE  \E k \in 1 .. g : \E i \in 1 .. Len(got[k]) : Outgoing'[m] = <<k, i>> /\ m = off[k] + i
  <2>1. CASE m \in 1 .. n
    <3>1. PICK k \in 1 .. g : \E i \in 1 .. Len(got[k]) : Outgoing[m] = <<k, i>> /\ m = off[k] + i
      BY <1>1, <1>3, <2>1 DEF Walked, Gapless
    <3> QED BY <1>4, <2>1, <3>1
  <2>2. CASE m = n + 1
    <3>1. g \in 1 .. g
      BY <1>1
    <3> QED BY <1>1, <1>4, <1>7, <2>2, <3>1
  <2>3. m \in 1 .. n \/ m = n + 1
    OBVIOUS
  <2> QED BY <2>1, <2>2, <2>3
<1>9. n + 1 = off[g] + cnt'
  BY <1>1, <1>2, <1>7
<1>10. pLines' = cnt' + 1
  BY <1>1, <1>2
<1>11. Gapless(off)'
  <2> SUFFICES ASSUME NEW m \in 1 .. Len(Outgoing')
               PROVE  \E k \in 1 .. Len(got') : \E i \in 1 .. Len(got'[k]) : Outgoing'[m] = <<k, i>> /\ m = off[k] + i
    BY DEF Gapless
  <2>1. m \in 1 .. n + 1
    BY <1>4
  <2>2. PICK k \in 1 .. g : \E i \in 1 .. Len(got[k]) : Outgoing'[m] = <<k, i>> /\ m = off[k] + i
    BY <1>8, <2>1
  <2> QED BY <1>1, <2>2
<1>12. Reached(off)'
  BY <1>1, <1>4, <1>9 DEF Reached
<1> QED BY <1>10, <1>11, <1>12 DEF Walked

LEMMA ReceiveFlow ==
  ASSUME TypeInv, FlowInv, Receive
  PROVE  FlowInv'
<1>1. PICK off : Placed(off) /\ Walked(off)
  BY DEF FlowInv
<1>2. /\ msgs \in Seq(Seq(Line)) /\ msgs # <<>> /\ got \in Seq(Seq(Line))
      /\ got' = Append(got, Head(msgs)) /\ msgs' = Tail(msgs)
      /\ step = "receive" /\ step' = (IF conf.file THEN "lines" ELSE "trans") /\ cnt' = 0 /\ pLines' = 1
      /\ UNCHANGED <<conf, stack, taken, put, collected, pFileOutput>>
  BY SentType DEF Receive, assemblyVars, historyVars, outVars
<1>3. PICK g \in Nat, q \in Nat : g = Len(got) /\ q = Len(msgs) /\ q # 0
  BY <1>2, LenProperties, EmptySeq
<1>4. /\ Head(msgs) = msgs[1] /\ Head(msgs) \in Seq(Line) /\ Tail(msgs) \in Seq(Seq(Line)) /\ Len(Tail(msgs)) = q - 1
      /\ \A i \in 1 .. q - 1 : Tail(msgs)[i] = msgs[i + 1]
  BY <1>2, <1>3, HeadTailProperties
<1>5. /\ got' \in Seq(Seq(Line)) /\ Len(got') = g + 1 /\ got'[g + 1] = msgs[1]
      /\ \A k \in 1 .. g : got'[k] = got[k]
  BY <1>2, <1>3, <1>4, AppendProperties
<1>6. Sent' = Sent
  <2>1. /\ Sent \in Seq(Seq(Line)) /\ Len(Sent) = g + q
        /\ \A k \in 1 .. g + q : Sent[k] = IF k <= g THEN got[k] ELSE msgs[k - g]
    BY <1>3, SentType
  <2>2. /\ Sent' \in Seq(Seq(Line)) /\ Len(Sent') = (g + 1) + (q - 1)
        /\ \A k \in 1 .. (g + 1) + (q - 1) : Sent'[k] = IF k <= g + 1 THEN got'[k] ELSE Tail(msgs)[k - (g + 1)]
    <3>1. Sent' = got' \o Tail(msgs)
      BY <1>2 DEF Sent
    <3>2. PICK s \in Seq(Seq(Line)), t \in Seq(Seq(Line)) : s = got' /\ t = Tail(msgs) /\ Len(s) = g + 1 /\ Len(t) = q - 1
      BY <1>4, <1>5
    <3>3. /\ s \o t \in Seq(Seq(Line)) /\ Len(s \o t) = (g + 1) + (q - 1)
          /\ \A k \in 1 .. (g + 1) + (q - 1) : (s \o t)[k] = IF k <= g + 1 THEN s[k] ELSE t[k - (g + 1)]
      <4>1. /\ s \o t \in Seq(Seq(Line)) /\ Len(s \o t) = Len(s) + Len(t)
            /\ \A k \in 1 .. Len(s) + Len(t) : (s \o t)[k] = IF k <= Len(s) THEN s[k] ELSE t[k - Len(s)]
        BY ConcatProperties
      <4> QED BY <3>2, <4>1
    <3> QED BY <3>1, <3>2, <3>3
  <2>3. ASSUME NEW k \in 1 .. g + q PROVE Sent'[k] = Sent[k]
    <3>1. CASE k <= g
      <4>1. k \in 1 .. g /\ k \in 1 .. (g + 1) + (q - 1) /\ k <= g + 1
        BY <1>3, <3>1
      <4> QED BY <1>5, <2>1, <2>2, <3>1, <4>1
    <3>2. CASE k = g + 1
      <4>1. k \in 1 .. (g + 1) + (q - 1) /\ k <= g + 1 /\ ~(k <= g) /\ k - g = 1
        BY ONLY <1>3, <3>2
      <4>2. Sent'[k] = got'[g + 1]
        BY ONLY <2>2, <3>2, <4>1
      <4>3. Sent[k] = msgs[1]
        BY ONLY <2>1, <4>1
      <4> QED BY <1>5, <4>2, <4>3
    <3>3. CASE k > g + 1
      <4>1. k - (g + 1) \in 1 .. q - 1 /\ (k - (g + 1)) + 1 = k - g
        BY <3>3
      <4>2. Tail(msgs)[k - (g + 1)] = msgs[k - g]
        BY <1>4, <4>1
      <4>3. k \in 1 .. (g + 1) + (q - 1) /\ ~(k <= g + 1) /\ ~(k <= g)
        BY <1>3, <3>3
      <4>4. Sent[k] = msgs[k - g] /\ Sent'[k] = Tail(msgs)[k - (g + 1)]
        BY <2>1, <2>2, <4>3
      <4> QED BY <4>2, <4>4
    <3> QED BY <3>1, <3>2, <3>3
  <2>4. Len(Sent') = g + q /\ Len(Sent) = g + q
    BY <2>1, <2>2
  <2> QED BY <2>1, <2>2, <2>3, <2>4, SeqEqual
<1>7. Placed(off)'
  BY <1>1, <1>2, <1>6, PlacedStays
<1>8. Walked(off)'
  <2> SUFFICES ASSUME Straight PROVE Walked(off)'
    BY <1>2 DEF Walked, Straight
  <2>1. PICK n \in Nat : n = Len(Outgoing) /\ Outgoing' = Outgoing
    BY <1>2, OutgoingType, LenProperties DEF Outgoing
  <2>2. step' = "lines" /\ pFileOutput # "freed"
    BY <1>1, <1>2 DEF Walked, Straight
  <2>3. n = off[g + 1]
    BY <1>1, <1>2, <1>3, <2>1, <2>2 DEF Walked, Reached
  <2>4. off[g + 1] \in Nat
    BY <2>1, <2>3
  <2>5. n = off[g + 1] + cnt'
    BY <1>2, <2>3, <2>4
  <2>6. ASSUME NEW m \in 1 .. n
        PROVE  \E k \in 1 .. g + 1 : \E i \in 1 .. Len(got'[k]) : Outgoing[m] = <<k, i>> /\ m = off[k] + i
    <3>1. PICK k \in 1 .. g : \E i \in 1 .. Len(got[k]) : Outgoing[m] = <<k, i>> /\ m = off[k] + i
      BY <1>1, <1>3, <2>1 DEF Walked, Gapless
    <3>2. k \in 1 .. g + 1 /\ got'[k] = got[k]
      BY <1>5
    <3> QED BY <3>1, <3>2
  <2>7. pLines' = cnt' + 1
    BY <1>2
  <2>8. Gapless(off)'
    BY <1>5, <2>1, <2>6, SMTT(40) DEF Gapless
  <2>9. Reached(off)'
    BY <1>5, <2>1, <2>2, <2>5 DEF Reached
  <2> QED BY <1>2, <2>2, <2>7, <2>8, <2>9 DEF Walked
<1> QED BY <1>7, <1>8 DEF FlowInv

LEMMA AssemblyFlow ==
  ASSUME TypeInv, FlowInv, AssemblyNext, UNCHANGED <<msgs, serverVars>>
  PROVE  FlowInv'
<1>1. PICK off : Placed(off) /\ Walked(off)
  BY DEF FlowInv
<1>2. conf' = conf
  BY AssemblyKeeps DEF TypeInv
<1>3. UNCHANGED <<got, put, collected, pFileOutput, step, cnt, pLines>>
  BY DEF serverVars, outVars
<1>4. Walked(off)'
  BY <1>1, <1>2, <1>3, WalkedStays
<1>5. Sent' = Sent
  BY <1>3 DEF Sent
<1>6. CASE UNCHANGED <<stack, taken>>
  BY <1>1, <1>4, <1>5, <1>6, PlacedStays DEF FlowInv
<1>7. CASE TakeLine
  <2>1. cache \in Line
    BY <1>7, EmptySeq DEF TakeLine, TypeInv, AssemblyInv, AssemblyTypeOK, Line
  <2>2. \/ UNCHANGED <<stack, taken>>
        \/ stack' = Append(stack, cache) /\ taken' = Append(taken, cache)
    BY <1>7 DEF TakeLine, StackPush
  <2>3. Placed(off)'
    BY <1>1, <1>5, <2>1, <2>2, PlacedStays, PlacedGrows
  <2> QED BY <1>4, <2>3 DEF FlowInv
<1> QED BY <1>6, <1>7 DEF AssemblyNext, Write, ForcePush, EndLine, KeepRest, FillBlock, historyVars

LEMMA SendFlow ==
  ASSUME TypeInv, FlowInv, Send
  PROVE  FlowInv'
<1>1. PICK off : Placed(off) /\ Walked(off)
  BY DEF FlowInv
<1>2. PICK to : Placed(to)' /\ \A k \in 1 .. Len(Sent) + 1 : to[k] = off[k]
  BY <1>1, PlacedSend
<1>3. UNCHANGED <<conf, got, put, collected, pFileOutput, step, cnt, pLines>>
  BY DEF Send, serverVars, outVars
<1>4. \A k \in 1 .. Len(got) + 1 : to[k] = off[k]
  <2>1. Len(got) \in Nat /\ Len(msgs) \in Nat /\ Len(Sent) = Len(got) + Len(msgs)
    BY SentType
  <2> QED BY <1>2, <2>1
<1>5. Walked(to)'
  BY <1>1, <1>3, <1>4, WalkedStays
<1> QED BY <1>2, <1>5 DEF FlowInv

LEMMA OthersFlow ==
  ASSUME TypeInv, FlowInv, Sighup \/ LeaveLoop \/ Transfer \/ SkipLine \/ UNCHANGED vars
  PROVE  FlowInv'
<1>1. PICK off : Placed(off) /\ Walked(off)
  BY DEF FlowInv
<1>2. UNCHANGED <<conf, stack, taken, msgs, got, put, collected, pFileOutput>>
  BY DEF Sighup, LeaveLoop, Transfer, SkipLine, vars, assemblyVars, historyVars, serverVars, outVars
<1>3. Sent' = Sent
  BY <1>2 DEF Sent
<1>4. Placed(off)'
  BY <1>1, <1>2, <1>3, PlacedStays
<1>5. CASE Sighup \/ LeaveLoop \/ Transfer \/ UNCHANGED vars
  <2>1. \/ UNCHANGED <<step, cnt, pLines>>
        \/ step \in {"receive", "trans"} /\ step' \in {"receive", "ended"}
    BY <1>5 DEF Sighup, LeaveLoop, Transfer, vars, serverVars
  <2>2. Walked(off)'
    BY <1>1, <1>2, <2>1, WalkedStays
  <2> QED BY <1>4, <2>2 DEF FlowInv
<1>6. CASE SkipLine
  <2>1. ~Straight
    BY <1>6 DEF SkipLine, InLoop, Converts, Straight
  <2>2. Walked(off)'
    BY <1>2, <2>1 DEF Walked, Straight
  <2> QED BY <1>4, <2>2 DEF FlowInv
<1> QED BY <1>5, <1>6

LEMMA PutFlow ==
  ASSUME TypeInv, OrderInv, FlowInv, PutPlugin
  PROVE  FlowInv'
<1>1. PICK off : Placed(off) /\ Walked(off)
  BY DEF FlowInv
<1>2. /\ step = "lines" /\ conf.plugin /\ cnt < Len(Message) /\ cnt' = cnt + 1 /\ pLines' = pLines + 1
      /\ UNCHANGED <<conf, stack, taken, msgs, got, step, collected, pFileOutput>>
      /\ put' = Append(put, Current) \/ conf.fails
  BY DEF PutPlugin, InLoop, NextLine, assemblyVars, historyVars
<1>3. Sent' = Sent
  BY <1>2 DEF Sent
<1>4. Placed(off)'
  BY <1>1, <1>2, <1>3, PlacedStays
<1>5. Walked(off)'
  <2> SUFFICES ASSUME Straight PROVE Walked(off)'
    BY <1>2 DEF Walked, Straight
  <2>1. put' = Append(put, Current) /\ pFileOutput # "freed"
    BY <1>1, <1>2 DEF Walked, Straight
  <2>2. collected = <<>> /\ Outgoing = put
    BY <1>2, OutgoingType, ConcatEmptySeq DEF OrderInv, Outgoing
  <2>3. put' \in Seq(Nat \X Nat)
    BY <2>1, OutgoingType, AppendNames
  <2>4. Outgoing' = Append(Outgoing, Current)
    BY <1>2, <2>1, <2>2, <2>3, ConcatEmptySeq DEF Outgoing
  <2> QED BY <1>1, <1>2, <2>1, <2>4, WalkedJoins
<1> QED BY <1>4, <1>5 DEF FlowInv

LEMMA CollectFlow ==
  ASSUME TypeInv, FlowInv, Collect
  PROVE  FlowInv'
<1>1. PICK off : Placed(off) /\ Walked(off)
  BY DEF FlowInv
<1>2. /\ step = "lines" /\ ~conf.plugin /\ cnt < Len(Message) /\ cnt' = cnt + 1 /\ pLines' = pLines + 1
      /\ UNCHANGED <<conf, stack, taken, msgs, got, put>>
  BY DEF Collect, InLoop, NextLine, assemblyVars, historyVars, outVars
<1>3. \/ UNCHANGED <<collected, pFileOutput>> /\ step' = "undefined"
      \/ UNCHANGED <<collected, step>> /\ pFileOutput' = "freed"
      \/ /\ collected' = Append(collected, Current) /\ UNCHANGED step
         /\ pFileOutput # "freed" /\ pFileOutput' = "held"
  BY DEF Collect, Collected
<1>4. Sent' = Sent
  BY <1>2 DEF Sent
<1>5. Placed(off)'
  BY <1>1, <1>2, <1>4, PlacedStays
<1>6. Walked(off)'
  <2> SUFFICES ASSUME Straight PROVE Walked(off)'
    BY <1>2 DEF Walked, Straight
  <2>1. CASE collected' = collected
    <3>1. Outgoing' = Outgoing
      BY <1>2, <2>1 DEF Outgoing
    <3>2. Gapless(off)'
      <4>1. Gapless(off)
        BY <1>1 DEF Walked
      <4> QED BY <1>2, <3>1, <4>1, ZenonT(40) DEF Gapless
    <3>3. step' = "undefined" \/ (step' = "lines" /\ pFileOutput' = "freed" /\ pLines' = cnt' + 1)
      <4>1. collected # Append(collected, Current)
        <5>1. collected \in Seq(Nat \X Nat) /\ Current \in Nat \X Nat
          BY OutgoingType
        <5>2. Len(Append(collected, Current)) = Len(collected) + 1 /\ Len(collected) \in Nat
          BY <5>1, AppendProperties, LenProperties
        <5> QED BY <5>2
      <4>2. pLines = cnt + 1 /\ cnt \in Nat
        BY <1>1, <1>2 DEF Walked, TypeInv, TypeOK
      <4> QED BY <1>2, <1>3, <2>1, <4>1, <4>2
    <3>4. Reached(off)'
      BY <3>3 DEF Reached
    <3> QED BY <1>2, <3>2, <3>3, <3>4 DEF Walked
  <2>2. CASE collected' = Append(collected, Current) /\ UNCHANGED step /\ pFileOutput # "freed" /\ pFileOutput' = "held"
    <3>1. put \o Append(collected, Current) = Append(put \o collected, Current)
      BY WalkNames, OutgoingGrows DEF Collect
    <3>2. Outgoing' = Append(Outgoing, Current)
      BY <1>2, <2>2, <3>1 DEF Outgoing
    <3> QED BY <1>1, <1>2, <2>2, <3>2, WalkedJoins
  <2> QED BY <1>3, <2>1, <2>2
<1> QED BY <1>5, <1>6 DEF FlowInv

LEMMA WriteFileFlow ==
  ASSUME TypeInv, FlowInv, WriteFile
  PROVE  FlowInv'
<1>1. PICK off : Placed(off) /\ Walked(off)
  BY DEF FlowInv
<1>2. /\ step = "lines" /\ cnt = Len(Message)
      /\ UNCHANGED <<conf, stack, taken, msgs, got, cnt, pLines>>
      /\ \/ pFileOutput = "freed" /\ step' = "undefined" /\ UNCHANGED <<pFileOutput, collected, put>>
         \/ /\ pFileOutput # "freed" /\ pFileOutput' = "null" /\ step' \in {"trans", "receive"}
            /\ collected' = <<>>
            /\ put' = put \o collected \/ conf.fails
  BY DEF WriteFile, AfterLines, assemblyVars, historyVars
<1>3. Sent' = Sent
  BY <1>2 DEF Sent
<1>4. Placed(off)'
  BY <1>1, <1>2, <1>3, PlacedStays
<1>5. Walked(off)'
  <2> SUFFICES ASSUME Straight PROVE Walked(off)'
    BY <1>2 DEF Walked, Straight
  <2>1. Outgoing' = Outgoing
    <3>1. CASE UNCHANGED <<collected, put>>
      BY <3>1 DEF Outgoing
    <3>2. CASE collected' = <<>> /\ put' = put \o collected
      <4>1. put' = Outgoing /\ Outgoing \in Seq(Nat \X Nat)
        BY <3>2, OutgoingType DEF Outgoing
      <4>2. Outgoing \o <<>> = Outgoing
        BY <4>1, ConcatEmptySeq
      <4> QED BY <3>2, <4>1, <4>2 DEF Outgoing
    <3> QED BY <1>2, <3>1, <3>2 DEF Straight
  <2>2. Gapless(off)'
    BY <1>1, <1>2, <2>1 DEF Walked, Gapless
  <2>3. Reached(off)'
    <3> SUFFICES ASSUME step' # "undefined" PROVE Len(Outgoing) = off[Len(got) + 1]
      BY <1>2, <2>1 DEF Reached
    <3>1. Len(Outgoing) = off[Len(got)] + Len(Message)
      BY <1>1, <1>2 DEF Walked, Reached
    <3>2. PICK g \in Nat : g = Len(got) /\ Message = got[g] /\ g \in 1 .. Len(Sent) /\ Sent[g] = got[g]
      <4>1. Len(got) \in Nat \ {0} /\ Message = got[Len(got)]
        BY <1>2, WalkTypes
      <4>2. Len(msgs) \in Nat /\ Len(Sent) = Len(got) + Len(msgs)
        BY SentType
      <4>3. Len(got) \in 1 .. Len(Sent)
        BY <4>1, <4>2
      <4>4. Sent[Len(got)] = got[Len(got)]
        BY <4>1, <4>3, SentType
      <4> QED BY <4>1, <4>3, <4>4
    <3>3. off[g + 1] = off[g] + Len(Sent[g])
      BY <1>1, <3>2 DEF Placed
    <3> QED BY <3>1, <3>2, <3>3
  <2> QED BY <1>1, <1>2, <2>2, <2>3 DEF Walked
<1> QED BY <1>4, <1>5 DEF FlowInv

LEMMA FlowKeeps ==
  ASSUME TypeInv, OrderInv, FlowInv, [Next]_vars
  PROVE  FlowInv'
BY AssemblyFlow, SendFlow, OthersFlow, ReceiveFlow, PutFlow, CollectFlow, WriteFileFlow DEF Next, ServerNext

\* The nth line that is put out is the nth line that was stacked, and nothing is
\* missing when nothing is under way.
LEMMA PutIsTaken ==
  ASSUME TypeInv, OrderInv, FlowInv, Straight
  PROVE  /\ Len(put) \in 0 .. Len(taken) /\ DOMAIN put = 1 .. Len(put)
         /\ \A n \in 1 .. Len(put) : LineOf(put[n]) = taken[n]
         /\ stack = <<>> /\ msgs = <<>> /\ Between => Len(put) = Len(taken)
<1>1. PICK off : Placed(off) /\ Walked(off)
  BY DEF FlowInv
<1>2. PICK g \in Nat, q \in Nat, c \in Nat : g = Len(got) /\ q = Len(msgs) /\ c = Len(Sent) /\ c = g + q
  BY SentType
<1>3. PICK t \in Nat, p \in Nat, r \in Nat : t = Len(taken) /\ p = Len(put) /\ r = Len(collected)
  <2>1. Len(taken) \in Nat
    BY Lengths DEF TypeInv, AssemblyInv
  <2> QED BY <2>1, OutgoingType, LenProperties
<1>4. /\ Len(Outgoing) = p + r /\ DOMAIN put = 1 .. p
      /\ \A n \in 1 .. p : Outgoing[n] = put[n]
  <2>1. /\ Len(Outgoing) = Len(put) + Len(collected)
        /\ \A n \in 1 .. Len(put) + Len(collected) : Outgoing[n] = IF n <= Len(put) THEN put[n] ELSE collected[n - Len(put)]
    BY OutgoingType, ConcatProperties DEF Outgoing
  <2>2. DOMAIN put = 1 .. Len(put)
    BY OutgoingType, LenProperties
  <2> QED BY <1>3, <2>1, <2>2
<1>5. ASSUME NEW n \in 1 .. p PROVE LineOf(put[n]) = taken[n] /\ n \in 1 .. t
  <2>1. n \in 1 .. Len(Outgoing)
    BY <1>3, <1>4
  <2>2. PICK k \in 1 .. g : \E i \in 1 .. Len(got[k]) : Outgoing[n] = <<k, i>> /\ n = off[k] + i
    BY <1>1, <1>2, <2>1 DEF Walked, Gapless
  <2>3. PICK i \in 1 .. Len(got[k]) : put[n] = <<k, i>> /\ n = off[k] + i
    BY <1>4, <2>2
  <2>4. k \in 1 .. c /\ k + 1 \in 1 .. c + 1
    BY <1>2
  <2>5. Sent[k] = got[k] /\ Len(Sent[k]) \in Nat
    BY <1>2, <2>4, SentType
  <2>6. taken[n] = got[k][i]
    BY <1>1, <1>2, <2>3, <2>4, <2>5, SMTT(40) DEF Placed
  <2>7. off[k + 1] = off[k] + Len(Sent[k])
    BY <1>1, <1>2, <2>4 DEF Placed
  <2>8. off[k] \in 0 .. t /\ off[k + 1] \in 0 .. t
    <3>1. off \in [1 .. c + 1 -> 0 .. t]
      BY <1>1, <1>2, <1>3 DEF Placed
    <3>2. k \in 1 .. c + 1
      BY <2>4
    <3> QED BY <2>4, <3>1, <3>2
  <2>9. PICK a \in Nat, b \in Nat, m \in Nat : a = off[k] /\ b = off[k + 1] /\ b <= t /\ m = Len(Sent[k]) /\ b = a + m /\ i \in 1 .. m /\ n = a + i
    BY <1>3, <2>3, <2>5, <2>7, <2>8, SMTT(40)
  <2>10. n \in 1 .. t
    BY ONLY <2>9, SMTT(40)
  <2> QED BY <2>3, <2>6, <2>10 DEF LineOf
<1>6. p <= t
  <2>1. p # 0 => p \in 1 .. p
    OBVIOUS
  <2> QED BY <1>5, <2>1
<1>7. ASSUME stack = <<>>, msgs = <<>>, Between PROVE p = t
  <2>1. /\ step \in {"receive", "ended"} /\ pFileOutput # "freed" /\ collected = <<>>
    BY <1>1, <1>7 DEF Walked, Between, OrderInv
  <2>2. r = 0 /\ q = 0 /\ Len(stack) = 0
    BY <1>2, <1>3, <1>7, <2>1, EmptySeq
  <2>3. Len(Outgoing) = off[g + 1]
    BY <1>1, <1>2, <2>1 DEF Walked, Reached
  <2>4. t = off[c + 1] + Len(stack)
    BY <1>1, <1>2, <1>3 DEF Placed
  <2>5. c = g
    BY <1>2, <2>2
  <2>6. p = off[g + 1]
    BY <1>3, <1>4, <2>2, <2>3
  <2>7. t = off[g + 1] + 0
    BY <2>2, <2>4, <2>5
  <2> QED BY <2>6, <2>7
<1> QED BY <1>3, <1>4, <1>5, <1>6, <1>7

\* The lines stacked are always those that end in some of the bytes, and all of
\* them between two calls; when then no byte waits in the cache, none is missing.
LEMMA StackedSome ==
  ASSUME TypeInv, LinesInv
  PROVE  /\ \E m \in 0 .. Len(written) : StackedUpTo(m)
         /\ call = "none" /\ cache = <<>> =>
              \E m \in 0 .. Len(written) : /\ m = 0 \/ IsEnd(m)
                                           /\ StackedUpTo(m)
                                           /\ Kept(m) = Kept(Len(written))
<1>1. PICK w \in Nat, p \in Nat : w = Len(written) /\ p = Pos /\ p <= w
  BY PosType DEF TypeInv
<1>2. call = "line" => \E m \in 0 .. w : StackedUpTo(m)
  <2> SUFFICES ASSUME call = "line" PROVE \E m \in 0 .. w : StackedUpTo(m)
    OBVIOUS
  <2>1. PICK e \in 1 .. p : StackedUpTo(e - 1)
    BY <1>1 DEF LinesInv, Completed
  <2>2. e - 1 \in 0 .. w
    BY <1>1
  <2> QED BY <2>1, <2>2
<1>3. call # "line" => \E m \in 0 .. w : StackedUpTo(m)
  <2> SUFFICES ASSUME call # "line" PROVE \E m \in 0 .. w : StackedUpTo(m)
    OBVIOUS
  <2>1. PICK e \in 0 .. p : StackedUpTo(e)
    BY <1>1 DEF LinesInv, Collecting
  <2>2. e \in 0 .. w
    BY <1>1
  <2> QED BY <2>1, <2>2
<1>4. ASSUME call = "none", cache = <<>>
      PROVE  \E m \in 0 .. w : (m = 0 \/ IsEnd(m)) /\ StackedUpTo(m) /\ Kept(m) = Kept(w)
  <2>1. p = w
    BY <1>1, <1>4, PosType, EmptySeq DEF TypeInv, AssemblyInv, AssemblyTypeOK
  <2>2. PICK e \in 0 .. w : /\ Ends(e, w) /\ StackedUpTo(e)
                            /\ cache = IF e = w THEN <<>> ELSE Piece(e, w)
    BY <1>1, <1>4, <2>1 DEF LinesInv, Collecting
  <2>3. CASE e = w
    BY <2>2, <2>3 DEF Ends
  <2>4. CASE e # w
    <3>1. PICK first \in {e + 1, e + 2} : first = First(e)
      BY DEF First
    <3>2. first <= w + 1
      BY <2>4, <3>1
    <3>3. Len(Piece(e, w)) = w - first + 1
      BY <1>1, <3>1, <3>2, PieceType DEF TypeInv
    <3>4. Len(Piece(e, w)) = 0
      BY <1>4, <2>2, <2>4, EmptySeq
    <3>5. first = w + 1 /\ w = e + 1 /\ first = e + 2
      BY <2>4, <3>1, <3>3, <3>4
    <3>6. ~conf.binmode /\ Skipped(e + 1)
      BY <3>1, <3>5 DEF First
    <3>7. w \notin Kept(w)
      BY <3>5, <3>6 DEF Kept
    <3>8. Kept(e) = Kept(w)
      <4>1. \A i : i \in 1 .. w <=> i \in 1 .. e \/ i = w
        BY <3>5
      <4> QED BY <3>7, <4>1 DEF Kept
    <3> QED BY <2>2, <3>8 DEF Ends
  <2> QED BY <2>3, <2>4
<1>5. call \in {"none", "push", "line"}
  BY DEF TypeInv, AssemblyInv, AssemblyTypeOK
<1> QED BY <1>1, <1>2, <1>3, <1>4

LEMMA BytesFollow ==
  ASSUME TypeInv, LinesInv, OrderInv, FlowInv
  PROVE  BytesArrive
<1> SUFFICES ASSUME Plain
             PROVE  /\ \E n \in 0 .. Len(written) : AreKept(OutputBytes(put), n)
                    /\ Idle => AreKept(OutputBytes(put), Len(written))
  BY DEF BytesArrive
<1>1. /\ conf.format = "none" /\ conf.svrbin = conf.binmode /\ conf.limit = 0 /\ conf.deny = {}
      /\ Straight /\ AssemblyInv
  BY DEF Plain, Straight, TypeInv
<1>2. PICK p : /\ p = Len(put) /\ p \in 0 .. Len(taken) /\ DOMAIN put = 1 .. p
               /\ \A n \in 1 .. p : LineOf(put[n]) = taken[n]
               /\ stack = <<>> /\ msgs = <<>> /\ Between => p = Len(taken)
  BY <1>1, PutIsTaken
<1>3. OutputBytes(put) = FlattenSeq(Outs(p))
  <2>1. [n \in DOMAIN put |-> Output(LineOf(put[n]))] = [n \in 1 .. p |-> Output(taken[n])]
    BY <1>2
  <2> QED BY <2>1 DEF OutputBytes, Outs
<1>4. PICK w \in Nat : w = Len(written)
  BY PosType, <1>1
<1>5. \E n \in 0 .. w : AreKept(OutputBytes(put), n)
  <2>1. PICK m \in 0 .. Len(written) : StackedUpTo(m)
    BY StackedSome
  <2>2. PICK e \in 0 .. m : AreKept(FlattenSeq(Outs(p)), e)
    BY <1>1, <1>2, <2>1, TakenBytes
  <2>3. e \in 0 .. w
    BY <1>4, <2>1
  <2> QED BY <1>3, <2>2, <2>3
<1>6. ASSUME Idle PROVE AreKept(OutputBytes(put), w)
  <2>1. p = Len(taken)
    BY <1>2, <1>6 DEF Idle
  <2>2. PICK m \in 0 .. Len(written) : (m = 0 \/ IsEnd(m)) /\ StackedUpTo(m) /\ Kept(m) = Kept(Len(written))
    BY <1>6, StackedSome DEF Idle
  <2>3. PICK e \in 0 .. m : AreKept(FlattenSeq(Outs(p)), e) /\ Ends(e, m)
    BY <1>1, <1>2, <2>1, <2>2, TakenBytes
  <2>4. e = m
    <3>1. m # 0 /\ e # m => m \in e + 1 .. m /\ IsEnd(m)
      BY <2>2
    <3> QED BY <2>3, <3>1 DEF Ends
  <2>5. Kept(e) = Kept(w)
    BY <1>4, <2>2, <2>4
  <2>6. AreKept(FlattenSeq(Outs(p)), w)
    BY <2>3, <2>5 DEF AreKept
  <2> QED BY <1>3, <2>6
<1> QED BY <1>4, <1>5, <1>6

\* With both programs in the same mode and nothing dropped by configuration, the
\* bytes that k2hftfusesvr puts out are those that were written, without zero
\* bytes and the line feeds of a CRLF in one write: always a beginning of them,
\* and all of them when nothing is under way.
THEOREM BytesReachOutput == Spec => []BytesArrive
<1>1. Init => TypeInv /\ LinesInv /\ OrderInv /\ FlowInv
  BY InitTypes, InitLines, InitOrder, InitFlow DEF Init
<1>2. TypeInv /\ LinesInv /\ OrderInv /\ FlowInv /\ [Next]_vars => (TypeInv /\ LinesInv /\ OrderInv /\ FlowInv)'
  BY TypesKeep, LinesKeep, OrderKeeps, FlowKeeps
<1>3. TypeInv /\ LinesInv /\ OrderInv /\ FlowInv => BytesArrive
  BY BytesFollow
<1> QED BY <1>1, <1>2, <1>3, PTL DEF Spec

=============================================================================
