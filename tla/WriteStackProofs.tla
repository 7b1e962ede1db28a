-------------------------- MODULE WriteStackProofs --------------------------
(***************************************************************************)
(* Proofs about WriteStack, for every set of files, processes and open     *)
(* files and every value of the limits.                                    *)
(***************************************************************************)
EXTENDS WriteStack, TLAPS, SequenceTheorems

USE OpensAssumption, LimitAssumption, NameAssumption

-----------------------------------------------------------------------------
(* Typing.  A step needs some of StepOK to keep TypeOK: a request that is  *)
(* served names an open file, so File(p) is a file.                        *)

Typing == TypeOK /\ StepOK

LEMMA FileOfRequest ==
  ASSUME TypeOK, StepOK, NEW p \in Procs, pc[p] # "idle"
  PROVE  File(p) \in Files
BY DEF TypeOK, StepOK, File, Request, NoOpen

LEMMA NextLineType ==
  ASSUME TypeOK, NEW f \in Files, NEW p \in Procs
  PROVE  /\ done[f][p] \in Nat
         /\ NextLine(f, p) \in Line
         /\ NextLine(f, p).file = f
         /\ NextLine(f, p).pid = p
         /\ NextLine(f, p).no = done[f][p] + 1
BY DEF TypeOK, NextLine, Line

LEMMA InitTyping == Init => Typing
<1> SUFFICES ASSUME Init PROVE TypeOK /\ StepOK BY DEF Typing
<1>1. TypeOK
  BY DEF Init, TypeOK, NoReq, Request, NoFile, NoOpen
<1>2. StepOK
  BY DEF Init, StepOK, NoReq, NoFile, NoOpen, Actors
<1> QED BY <1>1, <1>2

LEMMA StackPushType ==
  ASSUME TypeOK, NEW f \in Files, NEW p \in Procs, StackPush(f, p)
  PROVE  /\ done' \in [Files -> [Procs -> Nat]]
         /\ stack' \in [Files -> Seq(Line)]
         /\ dropped' \subseteq Line
<1>1. done' \in [Files -> [Procs -> Nat]]
  BY DEF TypeOK, StackPush
<1>2. NextLine(f, p) \in Line
  BY NextLineType
<1>3. Append(stack[f], NextLine(f, p)) \in Seq(Line)
  BY <1>2, AppendProperties DEF TypeOK
<1>4. dropped' \subseteq Line
  BY <1>2 DEF TypeOK, StackPush
<1>5. CASE stack' = [stack EXCEPT ![f] = Append(@, NextLine(f, p))]
  BY <1>3, <1>4, <1>1, <1>5 DEF TypeOK
<1>6. CASE stack' = stack
  BY <1>4, <1>1, <1>6 DEF TypeOK
<1> QED BY <1>5, <1>6 DEF StackPush

LEMMA PutOutType ==
  ASSUME TypeOK, NEW l \in Line, PutOut(l)
  PROVE  out' \in [Files -> Seq(Line)] /\ lost' \subseteq Line
<1>1. l.file \in Files
  BY DEF Line
<1>2. Append(out[l.file], l) \in Seq(Line)
  BY <1>1, AppendProperties DEF TypeOK
<1>3. lost' \subseteq Line
  BY DEF TypeOK, PutOut
<1>4. CASE out' = [out EXCEPT ![l.file] = Append(@, l)]
  BY <1>1, <1>2, <1>3, <1>4 DEF TypeOK
<1>5. CASE out' = out
  BY <1>3, <1>5 DEF TypeOK
<1> QED BY <1>4, <1>5 DEF PutOut

LEMMA OneLeft ==
  ASSUME NEW S, NEW s \in Seq(S), s # <<>>
  PROVE  Len(s) = 1 <=> Tail(s) = <<>>
<1>1. Tail(s) \in Seq(S) /\ Len(Tail(s)) = Len(s) - 1 /\ Len(s) \in Nat
  BY HeadTailProperties, LenProperties
<1>2. CASE Tail(s) = <<>>
  <2>1. Len(Tail(s)) = 0
    BY <1>2, EmptySeq
  <2>2. Len(s) = 1
    BY <1>1, <2>1, SMTT(40)
  <2> QED BY <1>2, <2>2
<1>3. CASE Tail(s) # <<>>
  <2>1. Len(Tail(s)) # 0
    BY <1>1, <1>3, EmptySeq
  <2> QED BY <1>1, <1>3, <2>1
<1> QED BY <1>2, <1>3

LEMMA ReturnType ==
  ASSUME TypeOK, NEW p \in Procs, Return(p)
  PROVE  /\ pc' = [pc EXCEPT ![p] = "idle"]
         /\ req' \in [Procs -> Request]
         /\ req'[p].open = NoOpen /\ req'[p].op = "none"
         /\ \A q \in Procs \ {p} : req'[q] = req[q]
<1>1. NoReq \in Request /\ NoReq.open = NoOpen /\ NoReq.op = "none"
  BY DEF NoReq, Request, NoOpen
<1> QED BY <1>1 DEF Return, Goto, TypeOK

\* A step that only counts the lines of a request leaves the rest of it.
LEMMA CountType ==
  ASSUME TypeOK, NEW p \in Procs, NEW n \in Nat, req' = [req EXCEPT ![p].left = n]
  PROVE  /\ req' \in [Procs -> Request]
         /\ \A q \in Procs : req'[q].open = req[q].open /\ req'[q].op = req[q].op
<1>1. req[p] \in Request
  BY DEF TypeOK
<1>2. [req[p] EXCEPT !.left = n] \in Request
  BY <1>1 DEF Request
<1>3. /\ [req[p] EXCEPT !.left = n].open = req[p].open
      /\ [req[p] EXCEPT !.left = n].op = req[p].op
  BY <1>1 DEF Request
<1> QED BY <1>1, <1>2, <1>3 DEF TypeOK

LEMMA NextTyping == Typing /\ [Next]_vars => Typing'
<1> SUFFICES ASSUME TypeOK, StepOK, [Next]_vars PROVE TypeOK' /\ StepOK'
  BY DEF Typing
<1> USE DEF clientVars, timerVars, cleanVars, lineVars
<1>1. ASSUME NEW p \in Procs, NEW o \in Opens, NEW n \in 0 .. MaxLines[p], NEW rest \in BOOLEAN,
             Write(p, o, n, rest)
      PROVE  TypeOK' /\ StepOK'
  BY <1>1, SMTT(30) DEF Write, Arrive, TypeOK, StepOK, Request, NoOpen
<1>2. ASSUME NEW p \in Procs, NEW o \in Opens, Flush(p, o)
      PROVE  TypeOK' /\ StepOK'
  BY <1>2 DEF Flush, Arrive, TypeOK, StepOK, Request, NoOpen
<1>3. ASSUME NEW p \in Procs, NEW o \in Opens, Release(p, o)
      PROVE  TypeOK' /\ StepOK'
  BY <1>3 DEF Release, Arrive, TypeOK, StepOK, Request, NoOpen
<1>4. ASSUME NEW p \in Procs, FindForWrite(p)
      PROVE  TypeOK' /\ StepOK'
  BY <1>4, FileOfRequest DEF FindForWrite, Goto, TypeOK, StepOK
<1>5. ASSUME NEW p \in Procs, FindForClose(p)
      PROVE  TypeOK' /\ StepOK'
  <2>1. CASE File(p) \in wbmap
    <3>1. TypeOK'
      BY <1>5, <2>1 DEF FindForClose, Goto, TypeOK
    <3>2. StepOK'
      BY <1>5, <2>1, <3>1 DEF FindForClose, Goto, TypeOK, StepOK
    <3> QED BY <3>1, <3>2
  <2>2. CASE File(p) \notin wbmap
    <3>1. Return(p)
      BY <1>5, <2>2 DEF FindForClose
    <3>2. /\ pc' = [pc EXCEPT ![p] = "idle"]
          /\ req' \in [Procs -> Request]
          /\ req'[p].open = NoOpen /\ req'[p].op = "none"
          /\ \A q \in Procs \ {p} : req'[q] = req[q]
      BY <3>1, ReturnType
    <3> QED BY <1>5, <3>2 DEF FindForClose, TypeOK, StepOK
  <2> QED BY <2>1, <2>2
<1>6. ASSUME NEW p \in Procs, GetBinBuff(p)
      PROVE  TypeOK' /\ StepOK'
  <2>1. LinesToPush(p) \in Nat
    BY DEF LinesToPush, TypeOK, Request
  <2>2. /\ req' \in [Procs -> Request]
        /\ \A q \in Procs : req'[q].open = req[q].open /\ req'[q].op = req[q].op
    BY <1>6, <2>1, CountType DEF GetBinBuff
  <2> QED BY <1>6, <2>2 DEF GetBinBuff, Goto, TypeOK, StepOK
<1>7. ASSUME NEW p \in Procs, PushLine(p)
      PROVE  TypeOK' /\ StepOK'
  <2>1. File(p) \in Files
    BY <1>7, FileOfRequest DEF PushLine
  <2>2. /\ done' \in [Files -> [Procs -> Nat]]
        /\ stack' \in [Files -> Seq(Line)]
        /\ dropped' \subseteq Line
    BY <1>7, <2>1, StackPushType DEF PushLine
  <2>3. req[p].left - 1 \in Nat
    BY <1>7 DEF PushLine, TypeOK, Request
  <2>4. /\ req' \in [Procs -> Request]
        /\ \A q \in Procs : req'[q].open = req[q].open /\ req'[q].op = req[q].op
    BY <1>7, <2>3, CountType DEF PushLine
  <2>5. TypeOK'
    BY <1>7, <2>1, <2>2, <2>4, ZenonT(40) DEF PushLine, TypeOK
  <2>6. StepOK'
    BY <1>7, <2>1, <2>2, <2>4, <2>5 DEF PushLine, TypeOK, StepOK
  <2> QED BY <2>5, <2>6
<1>8. ASSUME NEW p \in Procs, PushTail(p)
      PROVE  TypeOK' /\ StepOK'
  <2>1. File(p) \in Files
    BY <1>8, FileOfRequest DEF PushTail
  <2> QED BY <1>8, <2>1 DEF PushTail, Goto, TypeOK, StepOK
<1>9. ASSUME NEW p \in Procs, CheckLimit(p)
      PROVE  TypeOK' /\ StepOK'
  <2>1. CASE IsStackLimit(File(p))
    <3>1. TypeOK'
      BY <1>9, <2>1, ZenonT(40) DEF CheckLimit, Goto, TypeOK
    <3>2. StepOK'
      BY <1>9, <2>1, <3>1 DEF CheckLimit, Goto, TypeOK, StepOK
    <3> QED BY <3>1, <3>2
  <2>2. CASE ~IsStackLimit(File(p))
    <3>1. Return(p)
      BY <1>9, <2>2 DEF CheckLimit
    <3>2. /\ pc' = [pc EXCEPT ![p] = "idle"]
          /\ req' \in [Procs -> Request]
          /\ req'[p].open = NoOpen /\ req'[p].op = "none"
          /\ \A q \in Procs \ {p} : req'[q] = req[q]
      BY <3>1, ReturnType
    <3> QED BY <1>9, <3>2 DEF CheckLimit, TypeOK, StepOK
  <2> QED BY <2>1, <2>2
<1>10. ASSUME NEW p \in Procs, PopBatch(p)
       PROVE  TypeOK' /\ StepOK'
  <2>1. File(p) \in Files /\ stack[File(p)] \in Seq(Line)
    BY <1>10, FileOfRequest DEF PopBatch, TypeOK
  <2>2. CASE stack[File(p)] = <<>>
    <3>1. Return(p)
      BY <1>10, <2>2 DEF PopBatch
    <3>2. /\ pc' = [pc EXCEPT ![p] = "idle"]
          /\ req' \in [Procs -> Request]
          /\ req'[p].open = NoOpen /\ req'[p].op = "none"
          /\ \A q \in Procs \ {p} : req'[q] = req[q]
      BY <3>1, ReturnType
    <3>3. TypeOK'
      BY <1>10, <2>1, <2>2, <3>2, ZenonT(40) DEF PopBatch, Pop, TypeOK, Actors
    <3>4. StepOK'
      BY <1>10, <2>1, <2>2, <3>2, <3>3 DEF PopBatch, Pop, TypeOK, StepOK, Actors
    <3> QED BY <3>3, <3>4
  <2>3. CASE stack[File(p)] # <<>>
    <3>1. /\ pc' = [pc EXCEPT ![p] = "proc"] /\ req' = req
          /\ hand' = [hand EXCEPT ![p] = stack[File(p)]]
          /\ stack' = [stack EXCEPT ![File(p)] = <<>>]
          /\ aged' \subseteq Files
          /\ UNCHANGED <<wlock, wbmap, tail, opened, stale, timerVars, cleanVars, done, out, lost, dropped>>
      BY <1>10, <2>3 DEF PopBatch, Pop, Goto, TypeOK
    <3>2. hand' \in [Actors -> Seq(Line)] /\ stack' \in [Files -> Seq(Line)]
      BY <2>1, <3>1 DEF TypeOK, Actors
    <3>3. pc' \in [Procs -> {"idle", "find", "bin", "push", "limit", "pop", "proc"}]
      BY <3>1 DEF TypeOK
    <3>4. TypeOK'
      BY <3>1, <3>2, <3>3 DEF TypeOK
    <3>5. /\ pc'[p] = "proc" /\ hand'[p] # <<>>
          /\ \A q \in Actors \ {p} : hand'[q] = hand[q]
          /\ \A q \in Procs \ {p} : pc'[q] = pc[q]
      BY <2>3, <3>1 DEF TypeOK, Actors
    <3>6. pc[p] = "pop" /\ p \notin stale
      BY <1>10 DEF PopBatch
    <3>7. StepOK'
      BY <3>1, <3>5, <3>6 DEF TypeOK, StepOK, Actors
    <3> QED BY <3>4, <3>7
  <2> QED BY <2>2, <2>3
<1>11. ASSUME NEW p \in Procs, ProcessLine(p)
       PROVE  TypeOK' /\ StepOK'
  <2>1. /\ hand[p] \in Seq(Line)
        /\ hand[p] # <<>>
    BY <1>11 DEF ProcessLine, TypeOK, StepOK, Actors
  <2>2. /\ Head(hand[p]) \in Line
        /\ Tail(hand[p]) \in Seq(Line)
        /\ Len(Tail(hand[p])) = Len(hand[p]) - 1
    BY <2>1, HeadTailProperties
  <2>3. out' \in [Files -> Seq(Line)] /\ lost' \subseteq Line
    BY <1>11, <2>2, PutOutType DEF ProcessLine
  <2>4. Len(hand[p]) = 1 <=> Tail(hand[p]) = <<>>
    BY <2>1, OneLeft
  <2>5. CASE Len(hand[p]) = 1
    <3>1. Return(p)
      BY <1>11, <2>5 DEF ProcessLine
    <3>2. /\ pc' = [pc EXCEPT ![p] = "idle"]
          /\ req' \in [Procs -> Request]
          /\ req'[p].open = NoOpen /\ req'[p].op = "none"
          /\ \A q \in Procs \ {p} : req'[q] = req[q]
      BY <3>1, ReturnType
    <3>3. TypeOK'
      BY <1>11, <2>2, <2>3, <2>4, <2>5, <3>2, SMTT(30) DEF ProcessLine, TypeOK, Actors
    <3>4. StepOK'
      BY <1>11, <2>2, <2>3, <2>4, <2>5, <3>2, <3>3, SMTT(30) DEF ProcessLine, TypeOK, StepOK, Actors
    <3> QED BY <3>3, <3>4
  <2>6. CASE Len(hand[p]) # 1
    <3>1. TypeOK'
      BY <1>11, <2>2, <2>3, <2>4, <2>6, ZenonT(40) DEF ProcessLine, TypeOK, Actors
    <3>2. StepOK'
      BY <1>11, <2>2, <2>3, <2>4, <2>6, <3>1, SMTT(30) DEF ProcessLine, TypeOK, StepOK, Actors
    <3> QED BY <3>1, <3>2
  <2> QED BY <2>5, <2>6
<1>12. ASSUME NEW p \in Procs, LoseLine(p)
       PROVE  TypeOK' /\ StepOK'
  <2>1. pc[p] # "idle" /\ File(p) \in Files
    BY <1>12, FileOfRequest DEF LoseLine, StepOK
  <2>2. NextLine(File(p), p) \in Line
    BY <2>1, NextLineType
  <2>3. req[p].left - 1 \in Nat
    BY <1>12 DEF LoseLine, TypeOK, Request
  <2>4. /\ req' \in [Procs -> Request]
        /\ \A q \in Procs : req'[q].open = req[q].open /\ req'[q].op = req[q].op
    BY <1>12, <2>3, CountType DEF LoseLine
  <2> QED BY <1>12, <2>1, <2>2, <2>4 DEF LoseLine, TypeOK, StepOK
<1>13. ASSUME NEW p \in Procs, LeaveFreed(p)
       PROVE  TypeOK' /\ StepOK'
  <2>1. Return(p)
    BY <1>13 DEF LeaveFreed
  <2>2. /\ pc' = [pc EXCEPT ![p] = "idle"]
        /\ req' \in [Procs -> Request]
        /\ req'[p].open = NoOpen /\ req'[p].op = "none"
        /\ \A q \in Procs \ {p} : req'[q] = req[q]
    BY <2>1, ReturnType
  <2> QED BY <1>13, <2>2 DEF LeaveFreed, TypeOK, StepOK
<1>14. CASE TimerSleep
  BY <1>14 DEF TimerSleep, TypeOK, StepOK
<1>15. CASE TimerLock
  BY <1>15 DEF TimerLock, TypeOK, StepOK
<1>16. ASSUME NEW f \in Files, TimerScan(f)
       PROVE  TypeOK' /\ StepOK'
  <2>1. CASE IsStackLimit(f)
    <3>1. /\ stack' = [stack EXCEPT ![f] = <<>>]
          /\ valmap' = [valmap EXCEPT ![f] = stack[f]]
      BY <1>16, <2>1 DEF TimerScan, Pop
    <3>2. /\ stack' \in [Files -> Seq(Line)] /\ aged' \subseteq Files
          /\ valmap' \in [Files -> Seq(Line)]
      BY <1>16, <2>1, <3>1 DEF TimerScan, Pop, TypeOK
    <3>3. /\ f \notin tleft' /\ tleft' \subseteq tleft
          /\ \A g \in Files \ {f} : valmap'[g] = valmap[g]
      BY <1>16, <3>1 DEF TimerScan, TypeOK
    <3>4. TypeOK'
      BY <1>16, <3>2, <3>3 DEF TimerScan, TypeOK
    <3> QED BY <1>16, <3>3, <3>4 DEF TimerScan, StepOK
  <2>2. CASE ~IsStackLimit(f)
    BY <1>16, <2>2 DEF TimerScan, TypeOK, StepOK
  <2> QED BY <2>1, <2>2
<1>17. CASE TimerUnlock
  BY <1>17 DEF TimerUnlock, TypeOK, StepOK
<1>18. ASSUME NEW f \in Files, TimerProcess(f)
       PROVE  TypeOK' /\ StepOK'
  <2>1. /\ Head(valmap[f]) \in Line
        /\ Tail(valmap[f]) \in Seq(Line)
    BY <1>18, HeadTailProperties DEF TimerProcess, TypeOK
  <2>2. out' \in [Files -> Seq(Line)] /\ lost' \subseteq Line
    BY <1>18, <2>1, PutOutType DEF TimerProcess
  <2> QED BY <1>18, <2>1, <2>2 DEF TimerProcess, TypeOK, StepOK
<1>19. CASE TimerDone
  BY <1>19 DEF TimerDone, TypeOK, StepOK
<1>20. CASE CleanStart
  BY <1>20 DEF CleanStart, TypeOK, StepOK
<1>21. CASE CleanJoin
  BY <1>21 DEF CleanJoin, TypeOK, StepOK
<1>22. CASE CloseAllLock
  BY <1>22 DEF CloseAllLock, TypeOK, StepOK
<1>23. ASSUME NEW f \in Files, CloseAllNext(f)
       PROVE  TypeOK' /\ StepOK'
  BY <1>23 DEF CloseAllNext, TypeOK, StepOK, NoFile
<1>24. ASSUME NEW p \in Procs, CloseAllForce(p)
       PROVE  TypeOK' /\ StepOK'
  <2>1. cfile \in Files
    BY <1>24 DEF CloseAllForce, TypeOK, StepOK
  <2>2. /\ done' \in [Files -> [Procs -> Nat]]
        /\ stack' \in [Files -> Seq(Line)]
        /\ dropped' \subseteq Line
    BY <1>24, <2>1, StackPushType DEF CloseAllForce, TypeOK
  <2>3. \A q \in Pushers(cfile) : q \in Procs /\ pc[q] = "push"
    BY DEF Pushers
  <2> QED BY <1>24, <2>1, <2>2, <2>3 DEF CloseAllForce, TypeOK, StepOK
<1>25. CASE CloseAllPop
  <2>1. cfile \in Files
    BY <1>25 DEF CloseAllPop, TypeOK, StepOK
  <2> QED BY <1>25, <2>1 DEF CloseAllPop, Pop, TypeOK, StepOK, Actors
<1>26. CASE CloseAllProcess
  <2>1. hand["cleaner"] \in Seq(Line)
    BY DEF TypeOK, Actors
  <2>2. /\ Head(hand["cleaner"]) \in Line
        /\ Tail(hand["cleaner"]) \in Seq(Line)
    BY <1>26, <2>1, HeadTailProperties DEF CloseAllProcess
  <2>3. out' \in [Files -> Seq(Line)] /\ lost' \subseteq Line
    BY <1>26, <2>2, PutOutType DEF CloseAllProcess
  <2> QED BY <1>26, <2>2, <2>3 DEF CloseAllProcess, TypeOK, StepOK, Actors
<1>27. CASE CloseAllDelete
  <2>1. cfile \in Files
    BY <1>27 DEF CloseAllDelete, TypeOK, StepOK
  <2>2. Elems(stack[cfile]) \subseteq Line
    BY <2>1 DEF Elems, TypeOK
  <2>3. \A q \in Holders(cfile) : q \in Procs /\ pc[q] \in {"bin", "push", "limit", "pop"}
    BY DEF Holders
  <2>4. TypeOK'
    BY <1>27, <2>1, <2>2, <2>3 DEF CloseAllDelete, Pop, TypeOK, NoFile
  <2>5. StepOK'
    BY <1>27, <2>1, <2>2, <2>3, <2>4 DEF CloseAllDelete, Pop, TypeOK, StepOK, NoFile
  <2> QED BY <2>4, <2>5
<1>28. CASE CloseAllUnlock
  BY <1>28 DEF CloseAllUnlock, TypeOK, StepOK
<1>29. ASSUME NEW f \in Files, Age(f)
       PROVE  TypeOK' /\ StepOK'
  BY <1>29 DEF Age, TypeOK, StepOK
<1>30. CASE UNCHANGED vars
  BY <1>30 DEF vars, TypeOK, StepOK
<1> QED
  BY <1>1, <1>2, <1>3, <1>4, <1>5, <1>6, <1>7, <1>8, <1>9, <1>10, <1>11, <1>12,
     <1>13, <1>14, <1>15, <1>16, <1>17, <1>18, <1>19, <1>20, <1>21, <1>22, <1>23,
     <1>24, <1>25, <1>26, <1>27, <1>28, <1>29, <1>30
  DEF Next, Issue, Worker, Timer, Cleaner, Stopped

\* TypeOK (k2hftman.cc, k2hftwbuf.cc: every variable keeps its shape).
THEOREM TypeCorrect == Spec => []TypeOK
<1>1. Typing => TypeOK
  BY DEF Typing
<1> QED BY InitTyping, NextTyping, <1>1, PTL DEF Spec

\* StepOK: in TimeupWorkerProc, CheckPush and CloseAll a batch is in a thread's
\* hand exactly while it is processed, and wstack_lockval has the owner that
\* is scanning or closing.
THEOREM StepsCorrect == Spec => []StepOK
<1>1. Typing => StepOK
  BY DEF Typing
<1> QED BY InitTyping, NextTyping, <1>1, PTL DEF Spec

-----------------------------------------------------------------------------
(* The timeup thread is gone when CloseAll begins.  While the daemon is up *)
(* run_thread is FALSE only if the thread had nothing to do from the start *)
(* (Initialize), so CleanStart joins every thread that runs.               *)

JoinInv ==
  /\ cpc = "up" /\ ~run_thread => tpc = "exit"
  /\ cpc \notin {"up", "join"} => tpc = "exit"

LEMMA InitJoin == Init => JoinInv
BY DEF Init, JoinInv

LEMMA NextJoin ==
  ASSUME JoinInv, [Next]_vars
  PROVE  JoinInv'
<1>1. ASSUME NEW p \in Procs, Issue(p) \/ Worker(p) PROVE JoinInv'
  <2>1. UNCHANGED <<cpc, run_thread, tpc>>
    BY <1>1 DEF Issue, Write, Flush, Release, Arrive, Worker, FindForWrite, FindForClose,
       GetBinBuff, PushLine, PushTail, CheckLimit, PopBatch, ProcessLine, LoseLine,
       LeaveFreed, timerVars, cleanVars
  <2> QED BY <2>1 DEF JoinInv
<1>2. CASE Timer
  <2>1. UNCHANGED <<cpc, run_thread>> /\ tpc # "exit"
    BY <1>2 DEF Timer, TimerSleep, TimerLock, TimerScan, TimerUnlock, TimerProcess,
       TimerDone, cleanVars
  <2> QED BY <2>1 DEF JoinInv
<1>3. CASE CleanStart
  BY <1>3 DEF CleanStart, JoinInv, timerVars
<1>4. CASE CleanJoin
  BY <1>4 DEF CleanJoin, JoinInv, timerVars
<1>5. CASE Cleaner /\ ~CleanJoin
  <2>1. UNCHANGED <<run_thread, tpc>> /\ cpc \notin {"up", "join"} /\ cpc' \notin {"up", "join"}
    BY <1>5 DEF Cleaner, CloseAllLock, CloseAllNext, CloseAllForce, CloseAllPop,
       CloseAllProcess, CloseAllDelete, CloseAllUnlock, timerVars, cleanVars
  <2> QED BY <2>1 DEF JoinInv
<1>6. ASSUME NEW f \in Files, Age(f) PROVE JoinInv'
  BY <1>6 DEF Age, JoinInv, timerVars, cleanVars
<1>7. CASE UNCHANGED vars
  BY <1>7 DEF vars, JoinInv, timerVars, cleanVars
<1> QED BY <1>1, <1>2, <1>3, <1>4, <1>5, <1>6, <1>7 DEF Next, Stopped

\* TimerGoneBeforeCloseAll: K2hFtManage::Clean has joined TimeupWorkerProc, and
\* that thread has put out all it had popped, before CloseAll takes the lock.
THEOREM TimerJoined == Spec => []TimerGoneBeforeCloseAll
<1>1. Typing /\ JoinInv => TimerGoneBeforeCloseAll
  BY DEF Typing, JoinInv, StepOK, TimerGoneBeforeCloseAll
<1>2. Spec => []Typing
  BY InitTyping, NextTyping, PTL DEF Spec
<1>3. Spec => []JoinInv
  BY InitJoin, NextJoin, PTL DEF Spec
<1> QED BY <1>1, <1>2, <1>3, PTL

-----------------------------------------------------------------------------
(* The buffers.  Whatever waits, waits in a buffer of wbstackmap, and a     *)
(* stack over its limit has somebody who is on the way to look at it.      *)

\* A worker that will look at the stack of f before its request ends.
OnTheWay(p, f) == p \notin stale /\ pc[p] \in {"push", "limit", "pop"} /\ File(p) = f

BufferInv ==
  /\ \A f \in Files : tail[f] # {} \/ stack[f] # <<>> => f \in wbmap
  /\ \A p \in Procs \ stale : pc[p] \in {"bin", "push", "limit", "pop"} => File(p) \in wbmap
  /\ cfile # NoFile => cfile \in wbmap /\ cfile \notin cleft
  /\ cleft \subseteq wbmap

BacklogInv ==
  \A f \in Files : Len(stack[f]) > StackLineMax /\ cfile # f => \E p \in Procs : OnTheWay(p, f)

LEMMA InitBuffer == Init => BufferInv /\ BacklogInv
<1> SUFFICES ASSUME Init PROVE BufferInv /\ BacklogInv
  OBVIOUS
<1>1. BufferInv
  BY DEF Init, BufferInv
<1>2. \A f \in Files : Len(stack[f]) = 0
  BY DEF Init
<1> QED BY <1>1, <1>2 DEF BacklogInv

\* Two ways to keep BacklogInv: nobody who was on the way to a stack that is
\* still there turns back ...
LEMMA BacklogKept ==
  ASSUME BacklogInv,
         \A f \in Files : stack'[f] = stack[f] \/ stack'[f] = <<>> \/ cfile' = f,
         \A f \in Files : cfile = f => cfile' = f \/ stack'[f] = <<>>,
         \A f \in Files, p \in Procs :
           OnTheWay(p, f) => OnTheWay(p, f)' \/ stack'[f] = <<>> \/ cfile' = f
                               \/ Len(stack[f]) <= StackLineMax
  PROVE  BacklogInv'
<1> SUFFICES ASSUME NEW f \in Files, Len(stack'[f]) > StackLineMax, cfile' # f
             PROVE  \E p \in Procs : OnTheWay(p, f)'
  BY DEF BacklogInv
<1>1. stack'[f] # <<>>
  BY EmptySeq
<1>2. stack'[f] = stack[f] /\ cfile # f
  BY <1>1
<1>3. PICK p \in Procs : OnTheWay(p, f)
  BY <1>2 DEF BacklogInv
<1>4. ~(Len(stack[f]) <= StackLineMax)
  <2>1. Len(stack[f]) > StackLineMax
    BY <1>2
  <2> QED BY <2>1
<1> QED BY <1>1, <1>3, <1>4

\* ... or the step touches one stack only, by a worker that is on the way.
LEMMA BacklogPushed ==
  ASSUME BacklogInv, UNCHANGED cfile, NEW f \in Files, NEW p \in Procs, OnTheWay(p, f)',
         \A g \in Files : g # f => stack'[g] = stack[g],
         \A g \in Files, q \in Procs : OnTheWay(q, g) => OnTheWay(q, g)'
  PROVE  BacklogInv'
BY DEF BacklogInv

\* A worker that returns, and the step of a worker that goes on.
LEMMA ReturnPlace ==
  ASSUME TypeOK, NEW p \in Procs, Return(p)
  PROVE  /\ pc'[p] = "idle"
         /\ \A q \in Procs \ {p} : pc'[q] = pc[q] /\ req'[q] = req[q] /\ File(q)' = File(q)
BY DEF TypeOK, Return, Goto, File

LEMMA GotoPlace ==
  ASSUME TypeOK, NEW p \in Procs, NEW step, Goto(p, step),
         \A q \in Procs : req'[q].open = req[q].open
  PROVE  /\ pc'[p] = step
         /\ \A q \in Procs \ {p} : pc'[q] = pc[q]
         /\ \A q \in Procs : File(q)' = File(q)
BY DEF TypeOK, Goto, File

\* The stack that StackPush leaves.
LEMMA StackPushStack ==
  ASSUME TypeOK, NEW f \in Files, NEW p \in Procs, StackPush(f, p)
  PROVE  \A g \in Files : g # f => stack'[g] = stack[g]
BY DEF TypeOK, StackPush

LEMMA NextBuffer ==
  ASSUME Typing, BufferInv, [Next]_vars
  PROVE  BufferInv'
<1> USE DEF Typing, clientVars, timerVars, cleanVars, lineVars
<1>1. ASSUME UNCHANGED <<tail, stack, wbmap, cfile, cleft>>,
             \A p \in Procs \ stale' : pc'[p] \in {"bin", "push", "limit", "pop"} =>
               /\ p \notin stale /\ pc[p] \in {"bin", "push", "limit", "pop"}
               /\ File(p)' = File(p)
      PROVE  BufferInv'
  BY <1>1 DEF BufferInv
<1>2. ASSUME NEW p \in Procs, NEW r \in Request, Arrive(p, r) PROVE BufferInv'
  <2>1. /\ pc'[p] = "find"
        /\ \A q \in Procs \ {p} : pc'[q] = pc[q] /\ File(q)' = File(q)
    BY <1>2 DEF Arrive, TypeOK, File
  <2> QED BY <1>1, <1>2, <2>1 DEF Arrive
<1>3. ASSUME NEW p \in Procs, Issue(p) PROVE BufferInv'
  <2>1. ASSUME NEW o \in Opens, NEW n \in 0 .. MaxLines[p], NEW rest \in BOOLEAN,
               Write(p, o, n, rest)
        PROVE  BufferInv'
    <3>1. [op |-> "write", open |-> o, left |-> n, rest |-> rest] \in Request
      BY DEF Request
    <3> QED BY <1>2, <2>1, <3>1 DEF Write
  <2>2. ASSUME NEW o \in Opens, Flush(p, o) \/ Release(p, o) PROVE BufferInv'
    <3>1. \A op \in {"flush", "close"} :
            [op |-> op, open |-> o, left |-> 0, rest |-> FALSE] \in Request
      BY DEF Request
    <3> QED BY <1>2, <2>2, <3>1 DEF Flush, Release
  <2> QED BY <1>3, <2>1, <2>2 DEF Issue
<1>4. ASSUME NEW p \in Procs, FindForWrite(p) PROVE BufferInv'
  <2>1. /\ \A q \in Procs \ {p} : pc'[q] = pc[q]
        /\ \A q \in Procs : File(q)' = File(q)
    BY <1>4, GotoPlace DEF FindForWrite
  <2>2. wbmap' = wbmap \cup {File(p)} /\ UNCHANGED <<tail, stack, cfile, cleft, stale>>
    BY <1>4 DEF FindForWrite
  <2> QED BY <2>1, <2>2 DEF BufferInv
<1>5. ASSUME NEW p \in Procs, FindForClose(p) PROVE BufferInv'
  <2>1. UNCHANGED <<tail, stack, wbmap, cfile, cleft, stale>>
    BY <1>5 DEF FindForClose
  <2>2. CASE File(p) \in wbmap
    <3>1. \A q \in Procs \ {p} : pc'[q] = pc[q]
      BY <1>5, <2>2 DEF FindForClose, Goto, TypeOK
    <3>2. \A q \in Procs : File(q)' = File(q)
      BY <1>5, <2>2 DEF FindForClose, File
    <3> QED BY <2>1, <2>2, <3>1, <3>2 DEF BufferInv
  <2>3. CASE File(p) \notin wbmap
    <3>1. Return(p)
      BY <1>5, <2>3 DEF FindForClose
    <3> QED BY <1>1, <2>1, <3>1, ReturnPlace
  <2> QED BY <2>2, <2>3
<1>6. ASSUME NEW p \in Procs, GetBinBuff(p) PROVE BufferInv'
  <2>1. \A q \in Procs : req'[q].open = req[q].open
    <3>1. LinesToPush(p) \in Nat
      BY DEF LinesToPush, TypeOK, Request
    <3> QED BY <1>6, <3>1, CountType DEF GetBinBuff
  <2>2. /\ \A q \in Procs \ {p} : pc'[q] = pc[q]
        /\ \A q \in Procs : File(q)' = File(q)
    BY <1>6, <2>1, GotoPlace DEF GetBinBuff
  <2>3. UNCHANGED <<tail, stack, wbmap, cfile, cleft, stale>> /\ p \notin stale /\ pc[p] = "bin"
    BY <1>6 DEF GetBinBuff
  <2> QED BY <1>1, <2>2, <2>3
<1>7. ASSUME NEW p \in Procs, PushLine(p) PROVE BufferInv'
  <2>1. req[p].left - 1 \in Nat
    BY <1>7 DEF PushLine, TypeOK, Request
  <2>2. \A q \in Procs : File(q)' = File(q)
    BY <1>7, <2>1, CountType DEF PushLine, File
  <2>3. File(p) \in Files /\ File(p) \in wbmap
    BY <1>7, FileOfRequest DEF PushLine, BufferInv
  <2>4. \A g \in Files : g # File(p) => stack'[g] = stack[g]
    BY <1>7, <2>3, StackPushStack DEF PushLine
  <2>5. \A g \in Files : g # File(p) => tail'[g] = tail[g]
    BY <1>7 DEF PushLine, TypeOK
  <2>6. UNCHANGED <<wbmap, pc, stale, cfile, cleft>>
    BY <1>7 DEF PushLine
  <2> QED BY <2>2, <2>3, <2>4, <2>5, <2>6 DEF BufferInv
<1>8. ASSUME NEW p \in Procs, PushTail(p) PROVE BufferInv'
  <2>1. File(p) \in Files /\ File(p) \in wbmap
    BY <1>8, FileOfRequest DEF PushTail, BufferInv
  <2>2. \A g \in Files : g # File(p) => tail'[g] = tail[g]
    BY <1>8 DEF PushTail, TypeOK
  <2>3. /\ \A q \in Procs \ {p} : pc'[q] = pc[q]
        /\ \A q \in Procs : File(q)' = File(q)
    BY <1>8 DEF PushTail, Goto, TypeOK, File
  <2>4. UNCHANGED <<stack, wbmap, stale, cfile, cleft>>
    BY <1>8 DEF PushTail
  <2> QED BY <2>1, <2>2, <2>3, <2>4 DEF BufferInv
<1>9. ASSUME NEW p \in Procs, CheckLimit(p) PROVE BufferInv'
  <2>1. UNCHANGED <<tail, stack, wbmap, cfile, cleft, stale>> /\ p \notin stale /\ pc[p] = "limit"
    BY <1>9 DEF CheckLimit
  <2>2. CASE Goto(p, "pop") /\ UNCHANGED req
    <3>1. /\ \A q \in Procs \ {p} : pc'[q] = pc[q]
          /\ \A q \in Procs : File(q)' = File(q)
      BY <2>2, GotoPlace
    <3> QED BY <1>1, <2>1, <3>1
  <2>3. CASE Return(p)
    BY <1>1, <2>1, <2>3, ReturnPlace
  <2> QED BY <1>9, <2>2, <2>3 DEF CheckLimit
<1>10. ASSUME NEW p \in Procs, PopBatch(p) PROVE BufferInv'
  <2>1. \A g \in Files : stack'[g] # <<>> => stack[g] # <<>>
    BY <1>10 DEF PopBatch, Pop, TypeOK
  <2>2. UNCHANGED <<tail, wbmap, cfile, cleft, stale>> /\ p \notin stale /\ pc[p] = "pop"
    BY <1>10 DEF PopBatch
  <2>3. CASE Goto(p, "proc") /\ UNCHANGED req
    <3>1. /\ pc'[p] = "proc"
          /\ \A q \in Procs \ {p} : pc'[q] = pc[q]
          /\ \A q \in Procs : File(q)' = File(q)
      BY <2>3, GotoPlace
    <3> QED BY <2>1, <2>2, <3>1 DEF BufferInv
  <2>4. CASE Return(p)
    <3>1. /\ pc'[p] = "idle"
          /\ \A q \in Procs \ {p} : pc'[q] = pc[q] /\ File(q)' = File(q)
      BY <2>4, ReturnPlace
    <3> QED BY <2>1, <2>2, <3>1 DEF BufferInv
  <2> QED BY <1>10, <2>3, <2>4 DEF PopBatch
<1>11. ASSUME NEW p \in Procs, ProcessLine(p) PROVE BufferInv'
  <2>1. UNCHANGED <<tail, stack, wbmap, cfile, cleft, stale>>
    BY <1>11 DEF ProcessLine
  <2>2. CASE UNCHANGED <<pc, req>>
    BY <1>1, <2>1, <2>2 DEF File
  <2>3. CASE Return(p)
    BY <1>1, <2>1, <2>3, ReturnPlace
  <2> QED BY <1>11, <2>2, <2>3 DEF ProcessLine
<1>12. ASSUME NEW p \in Procs, LoseLine(p) PROVE BufferInv'
  <2>1. req[p].left - 1 \in Nat
    BY <1>12 DEF LoseLine, TypeOK, Request
  <2>2. \A q \in Procs : File(q)' = File(q)
    BY <1>12, <2>1, CountType DEF LoseLine, File
  <2> QED BY <1>1, <1>12, <2>2 DEF LoseLine
<1>13. ASSUME NEW p \in Procs, LeaveFreed(p) PROVE BufferInv'
  <2>1. UNCHANGED <<tail, stack, wbmap, cfile, cleft>> /\ stale' = stale \ {p}
    BY <1>13 DEF LeaveFreed
  <2>2. /\ pc'[p] = "idle"
        /\ \A q \in Procs \ {p} : pc'[q] = pc[q] /\ File(q)' = File(q)
    BY <1>13, ReturnPlace DEF LeaveFreed
  <2> QED BY <1>1, <2>1, <2>2
<1>14. ASSUME NEW f \in Files, TimerScan(f) PROVE BufferInv'
  <2>1. \A g \in Files : stack'[g] # <<>> => stack[g] # <<>>
    BY <1>14 DEF TimerScan, Pop, TypeOK
  <2>2. UNCHANGED <<tail, wbmap, cfile, cleft, stale, pc, req>>
    BY <1>14 DEF TimerScan
  <2> QED BY <2>1, <2>2 DEF BufferInv, File
<1>15. ASSUME UNCHANGED <<tail, stack, wbmap, cfile, cleft, stale, pc, req>> PROVE BufferInv'
  BY <1>15 DEF BufferInv, File
<1>16. CASE TimerSleep \/ TimerLock \/ TimerUnlock \/ TimerDone
  BY <1>15, <1>16 DEF TimerSleep, TimerLock, TimerUnlock, TimerDone
<1>17. ASSUME NEW f \in Files, TimerProcess(f) \/ Age(f) PROVE BufferInv'
  BY <1>15, <1>17 DEF TimerProcess, Age
<1>18. CASE CleanStart \/ CleanJoin \/ CloseAllUnlock \/ CloseAllProcess
  BY <1>15, <1>18 DEF CleanStart, CleanJoin, CloseAllUnlock, CloseAllProcess
<1>19. CASE CloseAllLock
  <2>1. cfile = NoFile /\ cleft' = wbmap /\ UNCHANGED <<tail, stack, wbmap, cfile, stale, pc, req>>
    BY <1>19 DEF CloseAllLock, StepOK
  <2> QED BY <2>1 DEF BufferInv, File
<1>20. ASSUME NEW f \in Files, CloseAllNext(f) PROVE BufferInv'
  BY <1>20 DEF CloseAllNext, BufferInv, File
<1>21. ASSUME NEW p \in Procs, CloseAllForce(p) PROVE BufferInv'
  <2>1. cfile \in Files /\ cfile \in wbmap
    BY <1>21 DEF CloseAllForce, TypeOK, StepOK, BufferInv
  <2>2. \A g \in Files : g # cfile => stack'[g] = stack[g]
    BY <1>21, <2>1, StackPushStack DEF CloseAllForce
  <2>3. \A g \in Files : g # cfile => tail'[g] = tail[g]
    BY <1>21 DEF CloseAllForce, TypeOK
  <2>4. UNCHANGED <<wbmap, cfile, cleft, pc, req>> /\ stale \subseteq stale'
    BY <1>21 DEF CloseAllForce
  <2> QED BY <2>1, <2>2, <2>3, <2>4 DEF BufferInv, File
<1>22. CASE CloseAllPop
  <2>1. \A g \in Files : stack'[g] # <<>> => stack[g] # <<>>
    BY <1>22 DEF CloseAllPop, Pop, TypeOK
  <2>2. UNCHANGED <<tail, wbmap, cfile, cleft, stale, pc, req>>
    BY <1>22 DEF CloseAllPop
  <2> QED BY <2>1, <2>2 DEF BufferInv, File
<1>23. CASE CloseAllDelete
  <2>1. cfile \in Files
    BY <1>23 DEF CloseAllDelete, TypeOK, StepOK
  <2>2. \A g \in Files : /\ stack'[g] = IF g = cfile THEN <<>> ELSE stack[g]
                         /\ tail'[g] = IF g = cfile THEN {} ELSE tail[g]
    BY <1>23 DEF CloseAllDelete, Pop, TypeOK
  <2>3. /\ wbmap' = wbmap \ {cfile} /\ cfile' = NoFile
        /\ stale' = stale \cup Holders(cfile)
        /\ UNCHANGED <<pc, req, cleft>>
    BY <1>23 DEF CloseAllDelete
  <2>4. \A p \in Procs \ stale' : pc[p] \in {"bin", "push", "limit", "pop"} => File(p) # cfile
    BY <2>3 DEF Holders
  <2>5. cleft \subseteq wbmap'
    BY <1>23, <2>3 DEF CloseAllDelete, BufferInv, StepOK
  <2>6. \A p \in Procs : File(p)' = File(p)
    BY <2>3 DEF File
  <2> QED BY <2>1, <2>2, <2>3, <2>4, <2>5, <2>6 DEF BufferInv
<1>24. CASE UNCHANGED vars
  BY <1>15, <1>24 DEF vars
<1> HIDE DEF Typing
<1> QED
  BY <1>3, <1>4, <1>5, <1>6, <1>7, <1>8, <1>9, <1>10, <1>11, <1>12, <1>13, <1>14, <1>16,
     <1>17, <1>18, <1>19, <1>20, <1>21, <1>22, <1>23, <1>24
  DEF Next, Worker, Timer, Cleaner, Stopped

\* Whoever pushes a line looks at the limit afterwards, or CloseAll is there.
LEMMA NextBacklog ==
  ASSUME Typing, BacklogInv, [Next]_vars
  PROVE  BacklogInv'
<1> USE DEF Typing, clientVars, timerVars, cleanVars, lineVars
<1> DEFINE Way == {"push", "limit", "pop"}
<1>1. ASSUME \A f \in Files : stack'[f] = stack[f] \/ stack'[f] = <<>>,
             cfile = NoFile \/ UNCHANGED cfile,
             \A p \in Procs : p \notin stale /\ pc[p] \in Way =>
               \/ p \notin stale' /\ pc'[p] \in Way /\ File(p)' = File(p)
               \/ Len(stack[File(p)]) <= StackLineMax
               \/ stack'[File(p)] = <<>>
      PROVE  BacklogInv'
  <2>1. \A f \in Files : cfile = f => cfile' = f
    BY <1>1, NameAssumption DEF NoFile
  <2> QED BY <1>1, <2>1, BacklogKept DEF OnTheWay
<1>2. ASSUME UNCHANGED <<stack, cfile>>,
             \A p \in Procs : p \notin stale /\ pc[p] \in Way =>
               p \notin stale' /\ pc'[p] \in Way /\ File(p)' = File(p)
      PROVE  BacklogInv'
  BY <1>1, <1>2
<1>3. ASSUME NEW p \in Procs, Issue(p) PROVE BacklogInv'
  <2>1. /\ pc[p] = "idle"
        /\ \A q \in Procs \ {p} : pc'[q] = pc[q] /\ File(q)' = File(q)
    <3>1. PICK r : pc[p] = "idle" /\ pc' = [pc EXCEPT ![p] = "find"] /\ req' = [req EXCEPT ![p] = r]
      BY <1>3, SMTT(30) DEF Issue, Write, Flush, Release, Arrive
    <3> QED BY <3>1 DEF TypeOK, File
  <2>2. UNCHANGED <<stack, cfile, stale>>
    BY <1>3 DEF Issue, Write, Flush, Release, Arrive
  <2> QED BY <1>2, <2>1, <2>2
<1>4. ASSUME NEW p \in Procs, FindForWrite(p) \/ FindForClose(p) PROVE BacklogInv'
  <2>1. /\ pc[p] = "find"
        /\ \A q \in Procs \ {p} : pc'[q] = pc[q] /\ File(q)' = File(q)
    BY <1>4 DEF FindForWrite, FindForClose, Goto, Return, TypeOK, File
  <2>2. UNCHANGED <<stack, cfile, stale>>
    BY <1>4 DEF FindForWrite, FindForClose
  <2> QED BY <1>2, <2>1, <2>2
<1>5. ASSUME NEW p \in Procs, GetBinBuff(p) PROVE BacklogInv'
  <2>1. \A q \in Procs \ {p} : pc'[q] = pc[q] /\ File(q)' = File(q)
    BY <1>5 DEF GetBinBuff, Goto, TypeOK, File
  <2> QED BY <1>2, <1>5, <2>1 DEF GetBinBuff
<1>6. ASSUME NEW p \in Procs, PushLine(p) PROVE BacklogInv'
  <2>1. req[p].left - 1 \in Nat
    BY <1>6 DEF PushLine, TypeOK, Request
  <2>2. \A q \in Procs : File(q)' = File(q)
    BY <1>6, <2>1, CountType DEF PushLine, File
  <2>3. File(p) \in Files
    BY <1>6, FileOfRequest DEF PushLine
  <2>4. \A g \in Files : g # File(p) => stack'[g] = stack[g]
    BY <1>6, <2>3, StackPushStack DEF PushLine
  <2>5. UNCHANGED <<pc, stale, cfile>> /\ pc[p] = "push" /\ p \notin stale
    BY <1>6 DEF PushLine
  <2>6. OnTheWay(p, File(p))'
    BY <2>2, <2>5 DEF OnTheWay
  <2>7. \A g \in Files, q \in Procs : OnTheWay(q, g) => OnTheWay(q, g)'
    BY <2>2, <2>5 DEF OnTheWay
  <2>8. PICK f \in Files : f = File(p) /\ OnTheWay(p, f)'
    <3>1. \A f : f = File(p) => (OnTheWay(p, f))'
      BY <2>2, <2>5 DEF OnTheWay
    <3> QED BY <2>3, <3>1
  <2> QED BY <2>4, <2>5, <2>7, <2>8, BacklogPushed
<1>7. ASSUME NEW p \in Procs, PushTail(p) PROVE BacklogInv'
  <2>1. /\ pc'[p] \in {"limit", "pop"} /\ p \notin stale
        /\ \A q \in Procs \ {p} : pc'[q] = pc[q]
        /\ \A q \in Procs : File(q)' = File(q)
    BY <1>7 DEF PushTail, Goto, TypeOK, File
  <2> QED BY <1>2, <1>7, <2>1 DEF PushTail
<1>8. ASSUME NEW p \in Procs, CheckLimit(p) PROVE BacklogInv'
  <2>1. UNCHANGED <<stack, cfile, stale>> /\ p \notin stale
    BY <1>8 DEF CheckLimit
  <2>2. CASE IsStackLimit(File(p))
    <3>1. /\ pc'[p] = "pop"
          /\ \A q \in Procs \ {p} : pc'[q] = pc[q]
          /\ \A q \in Procs : File(q)' = File(q)
      BY <1>8, <2>2 DEF CheckLimit, Goto, TypeOK, File
    <3> QED BY <1>2, <2>1, <3>1
  <2>3. CASE ~IsStackLimit(File(p))
    <3>1. /\ pc'[p] = "idle"
          /\ \A q \in Procs \ {p} : pc'[q] = pc[q] /\ File(q)' = File(q)
      BY <1>8, <2>3, ReturnPlace DEF CheckLimit
    <3>2. Len(stack[File(p)]) <= StackLineMax
      <4>1. File(p) \in Files
        BY <1>8, FileOfRequest DEF CheckLimit
      <4>2. Len(stack[File(p)]) \in Nat
        BY <4>1, LenProperties DEF TypeOK
      <4> QED BY <2>3, <4>2 DEF IsStackLimit
    <3> QED BY <1>1, <2>1, <3>1, <3>2
  <2> QED BY <2>2, <2>3
<1>9. ASSUME NEW p \in Procs, PopBatch(p) PROVE BacklogInv'
  <2>1. File(p) \in Files
    BY <1>9, FileOfRequest DEF PopBatch
  <2>2. \A g \in Files : stack'[g] = IF g = File(p) THEN <<>> ELSE stack[g]
    BY <1>9 DEF PopBatch, Pop, TypeOK
  <2>3. \A q \in Procs \ {p} : pc'[q] = pc[q] /\ File(q)' = File(q)
    BY <1>9 DEF PopBatch, Return, Goto, TypeOK, File
  <2>4. UNCHANGED <<cfile, stale>>
    BY <1>9 DEF PopBatch
  <2> QED BY <1>1, <2>1, <2>2, <2>3, <2>4
<1>10. ASSUME NEW p \in Procs, ProcessLine(p) PROVE BacklogInv'
  <2>1. /\ pc[p] = "proc"
        /\ \A q \in Procs \ {p} : pc'[q] = pc[q] /\ File(q)' = File(q)
    BY <1>10 DEF ProcessLine, Return, Goto, TypeOK, File
  <2> QED BY <1>2, <1>10, <2>1 DEF ProcessLine
<1>11. ASSUME NEW p \in Procs, LoseLine(p) PROVE BacklogInv'
  <2>1. \A q \in Procs \ {p} : File(q)' = File(q)
    BY <1>11 DEF LoseLine, TypeOK, File
  <2> QED BY <1>2, <1>11, <2>1 DEF LoseLine
<1>12. ASSUME NEW p \in Procs, LeaveFreed(p) PROVE BacklogInv'
  <2>1. \A q \in Procs \ {p} : pc'[q] = pc[q] /\ File(q)' = File(q)
    BY <1>12, ReturnPlace DEF LeaveFreed
  <2> QED BY <1>2, <1>12, <2>1 DEF LeaveFreed
<1>13. ASSUME UNCHANGED <<pc, req, stale>>,
              \A f \in Files : stack'[f] = stack[f] \/ stack'[f] = <<>>,
              cfile = NoFile \/ UNCHANGED cfile
       PROVE  BacklogInv'
  BY <1>1, <1>13 DEF File
<1>14. ASSUME NEW f \in Files, TimerScan(f) \/ TimerProcess(f) \/ Age(f) PROVE BacklogInv'
  <2>1. \A g \in Files : stack'[g] = stack[g] \/ stack'[g] = <<>>
    BY <1>14 DEF TimerScan, TimerProcess, Age, Pop, TypeOK
  <2> QED BY <1>13, <1>14, <2>1 DEF TimerScan, TimerProcess, Age
<1>15. CASE TimerSleep \/ TimerLock \/ TimerUnlock \/ TimerDone
  BY <1>13, <1>15 DEF TimerSleep, TimerLock, TimerUnlock, TimerDone
<1>16. CASE CleanStart \/ CleanJoin \/ CloseAllLock \/ CloseAllUnlock \/ CloseAllProcess
  BY <1>13, <1>16 DEF CleanStart, CleanJoin, CloseAllLock, CloseAllUnlock, CloseAllProcess
<1>17. ASSUME NEW f \in Files, CloseAllNext(f) PROVE BacklogInv'
  BY <1>13, <1>17 DEF CloseAllNext, StepOK
<1>18. ASSUME NEW p \in Procs, CloseAllForce(p) PROVE BacklogInv'
  <2>1. cfile \in Files /\ UNCHANGED <<cfile, pc, req>>
    BY <1>18 DEF CloseAllForce, TypeOK, StepOK
  <2>2. \A g \in Files : g # cfile => stack'[g] = stack[g]
    BY <1>18, <2>1, StackPushStack DEF CloseAllForce
  <2>3. \A q \in Procs : q \in stale' => q \in stale \/ File(q) = cfile
    BY <1>18 DEF CloseAllForce, Pushers
  <2>4. \A q \in Procs : File(q)' = File(q)
    BY <2>1 DEF File
  <2> QED BY <2>1, <2>2, <2>3, <2>4, BacklogKept DEF OnTheWay
<1>19. CASE CloseAllPop
  <2>1. \A g \in Files : stack'[g] = stack[g] \/ stack'[g] = <<>>
    BY <1>19 DEF CloseAllPop, Pop, TypeOK
  <2> QED BY <1>13, <1>19, <2>1 DEF CloseAllPop
<1>20. CASE CloseAllDelete
  <2>1. cfile \in Files /\ UNCHANGED <<pc, req>>
    BY <1>20 DEF CloseAllDelete, TypeOK, StepOK
  <2>2. \A g \in Files : stack'[g] = IF g = cfile THEN <<>> ELSE stack[g]
    BY <1>20, <2>1 DEF CloseAllDelete, Pop, TypeOK
  <2>3. \A q \in Procs : q \in stale' => q \in stale \/ File(q) = cfile
    BY <1>20 DEF CloseAllDelete, Holders
  <2>4. \A q \in Procs : File(q)' = File(q)
    BY <2>1 DEF File
  <2> QED BY <2>1, <2>2, <2>3, <2>4, BacklogKept DEF OnTheWay
<1>21. CASE UNCHANGED vars
  BY <1>13, <1>21 DEF vars
<1> HIDE DEF Typing
<1> QED
  BY <1>3, <1>4, <1>5, <1>6, <1>7, <1>8, <1>9, <1>10, <1>11, <1>12, <1>14, <1>15, <1>16,
     <1>17, <1>18, <1>19, <1>20, <1>21
  DEF Next, Worker, Timer, Cleaner, Stopped

\* BacklogBound: every push is followed by CheckPush of the same worker
\* (k2hftman.cc), so a stack over its limit has somebody who comes for it.
THEOREM BacklogBounded == Spec => []BacklogBound
<1>1. ASSUME BacklogInv, Typing PROVE BacklogBound
  <2> SUFFICES ASSUME NEW f \in Files, Holders(f) = {}, cfile # f, Len(stack[f]) > StackLineMax
               PROVE  FALSE
    <3>1. \A f \in Files : Len(stack[f]) \in Nat
      BY <1>1, LenProperties DEF Typing, TypeOK
    <3> QED BY <3>1 DEF BacklogBound
  <2>1. PICK p \in Procs : OnTheWay(p, f)
    BY <1>1 DEF BacklogInv
  <2> QED BY <2>1 DEF OnTheWay, Holders
<1>2. Spec => []Typing
  BY InitTyping, NextTyping, PTL DEF Spec
<1>3. Typing /\ BacklogInv /\ [Next]_vars => BacklogInv'
  BY NextBacklog
<1>4. Spec => []BacklogInv
  BY InitBuffer, <1>2, <1>3, PTL DEF Spec
<1>5. BacklogInv /\ Typing => BacklogBound
  BY <1>1
<1> QED BY <1>2, <1>4, <1>5, PTL

-----------------------------------------------------------------------------
(* The shutdown by unmount.  No request is in progress when Clean begins    *)
(* and none comes afterwards, so the map CloseAll walks over is complete.   *)
(* (After a signal a request may still make and fill a buffer.)             *)

CloseInv ==
  /\ cpc # "up" => \A p \in Procs : pc[p] = "idle"
  /\ cpc \in {"next", "force", "proc"} => wbmap \subseteq cleft \cup {cfile}
  /\ cpc = "done" => wbmap = {}

LEMMA InitClose == Init => CloseInv
BY DEF Init, CloseInv

LEMMA NextClose ==
  ASSUME ~SignalExit, Typing, BufferInv, CloseInv, [Next]_vars
  PROVE  CloseInv'
<1> USE DEF Typing, clientVars, timerVars, cleanVars
<1>1. ASSUME NEW p \in Procs, Issue(p) PROVE CloseInv'
  <2>1. cpc = "up" /\ cpc' = cpc
    BY <1>1 DEF Issue, Write, Flush, Release, Arrive, Serving
  <2> QED BY <2>1 DEF CloseInv
<1>2. ASSUME NEW p \in Procs, Worker(p) PROVE CloseInv'
  <2>1. pc[p] # "idle"
    BY <1>2 DEF Worker, FindForWrite, FindForClose, GetBinBuff, PushLine, PushTail, CheckLimit,
       PopBatch, ProcessLine, LoseLine, LeaveFreed, StepOK
  <2>2. cpc' = cpc
    BY <1>2 DEF Worker, FindForWrite, FindForClose, GetBinBuff, PushLine, PushTail, CheckLimit,
       PopBatch, ProcessLine, LoseLine, LeaveFreed
  <2> QED BY <2>1, <2>2 DEF CloseInv
<1>3. ASSUME UNCHANGED <<pc, wbmap, cpc, cleft, cfile>> PROVE CloseInv'
  BY <1>3 DEF CloseInv
<1>4. CASE Timer
  BY <1>3, <1>4 DEF Timer, TimerSleep, TimerLock, TimerScan, TimerUnlock, TimerProcess, TimerDone
<1>5. CASE CleanStart
  BY <1>5 DEF CleanStart, CloseInv
<1>6. CASE CleanJoin \/ CloseAllLock
  BY <1>6 DEF CleanJoin, CloseAllLock, CloseInv
<1>7. ASSUME NEW f \in Files, CloseAllNext(f) PROVE CloseInv'
  <2>1. cfile = NoFile /\ NoFile \notin wbmap
    BY <1>7, NameAssumption DEF CloseAllNext, StepOK, TypeOK, NoFile
  <2> QED BY <1>7, <2>1 DEF CloseAllNext, CloseInv
<1>8. ASSUME NEW p \in Procs, CloseAllForce(p) PROVE CloseInv'
  BY <1>3, <1>8 DEF CloseAllForce
<1>9. CASE CloseAllPop
  BY <1>9 DEF CloseAllPop, CloseInv
<1>10. CASE CloseAllProcess
  BY <1>3, <1>10 DEF CloseAllProcess
<1>11. CASE CloseAllDelete
  BY <1>11 DEF CloseAllDelete, CloseInv
<1>12. CASE CloseAllUnlock
  <2>1. cfile = NoFile /\ NoFile \notin wbmap
    BY <1>12, NameAssumption DEF CloseAllUnlock, StepOK, TypeOK, NoFile
  <2> QED BY <1>12, <2>1 DEF CloseAllUnlock, CloseInv
<1>13. ASSUME NEW f \in Files, Age(f) PROVE CloseInv'
  BY <1>3, <1>13 DEF Age
<1>14. CASE UNCHANGED vars
  BY <1>3, <1>14 DEF vars
<1> HIDE DEF Typing
<1> QED
  BY <1>1, <1>2, <1>4, <1>5, <1>6, <1>7, <1>8, <1>9, <1>10, <1>11, <1>12, <1>13, <1>14
  DEF Next, Cleaner, Stopped

UnmountInv == Typing /\ JoinInv /\ BufferInv /\ CloseInv

LEMMA UnmountHolds ==
  ASSUME ~SignalExit
  PROVE  Spec => []UnmountInv
<1>1. Init => UnmountInv
  BY InitTyping, InitJoin, InitBuffer, InitClose DEF UnmountInv
<1>2. UnmountInv /\ [Next]_vars => UnmountInv'
  BY NextTyping, NextJoin, NextBuffer, NextClose DEF UnmountInv
<1> QED BY <1>1, <1>2, PTL DEF Spec

\* ShutdownFlushes: after CloseAll (k2hftman.cc, "Force push all stack data")
\* nothing waits and no thread holds a batch, when the shutdown is an unmount.
THEOREM UnmountFlushes ==
  ASSUME ~SignalExit
  PROVE  Spec => []ShutdownFlushes
<1>1. ASSUME UnmountInv, cpc = "done"
      PROVE  /\ \A f \in Files : tail[f] = {} /\ stack[f] = <<>> /\ valmap[f] = <<>>
             /\ \A a \in Actors : hand[a] = <<>>
  <2> USE <1>1 DEF UnmountInv, Typing
  <2>1. \A f \in Files : tail[f] = {} /\ stack[f] = <<>>
    BY DEF CloseInv, BufferInv
  <2>2. \A f \in Files : valmap[f] = <<>>
    BY DEF JoinInv, StepOK
  <2>3. \A p \in Procs : hand[p] = <<>>
    BY DEF CloseInv, StepOK
  <2>4. hand["cleaner"] = <<>>
    BY DEF StepOK
  <2> QED BY <2>1, <2>2, <2>3, <2>4 DEF Actors
<1>2. UnmountInv => ShutdownFlushes
  BY <1>1 DEF ShutdownFlushes
<1> QED BY <1>2, UnmountHolds, PTL

-----------------------------------------------------------------------------
(* What a release flushes.  It pops the whole stack and forces the tail of   *)
(* the pid it comes with out before, whoever wrote through the open file.    *)

\* p can still write to f.
CanWrite(f, p) == \E o \in opened : o \in OpensOf(f, p)

\* The worker q has a release of f before it that will pop the lines of p: a
\* release p gave its pid to, or that of an open file p wrote through.
Flushing(q, f, p) ==
  /\ q \notin stale
  /\ pc[q] \in {"find", "bin", "push", "pop"}
  /\ req[q].op = "close"
  /\ File(q) = f
  /\ q = p \/ p \in Users[req[q].open]

LineCare(f, p) ==
  \/ CanWrite(f, p)
  \/ NoLines(f, p)
  \/ cfile = f
  \/ \E q \in Procs : Flushing(q, f, p)

\* A release with the pid of p that has not come to the tail of p yet.
Forcing(f, p) ==
  /\ p \notin stale
  /\ pc[p] \in {"find", "bin", "push"}
  /\ req[p].op = "close"
  /\ File(p) = f
  /\ pc[p] = "push" => req[p].left > 0

OwnRelease(f, p) == \A o \in OpensOf(f, p) : ReleasePids[o] \subseteq {p}

TailCare(f, p) == OwnRelease(f, p) => CanWrite(f, p) \/ p \notin tail[f] \/ Forcing(f, p)

\* A write or a flush is a request on a file that is open, a release on one
\* that no longer is.
Served(p) ==
  pc[p] # "idle" =>
    \/ req[p].op \in {"write", "flush"} /\ req[p].open \in opened /\ p \in Users[req[p].open]
    \/ req[p].op = "close" /\ req[p].open \notin opened /\ ~req[p].rest

ReleaseInv ==
  /\ \A p \in Procs : Served(p)
  /\ \A f \in Files, p \in Procs : LineCare(f, p) /\ TailCare(f, p)

LEMMA InitRelease == Init => ReleaseInv
<1> SUFFICES ASSUME Init PROVE ReleaseInv
  OBVIOUS
<1>1. \A f \in Files, p \in Procs : NoLines(f, p) /\ p \notin tail[f]
  BY DEF Init, NoLines, Elems
<1> QED BY <1>1 DEF Init, ReleaseInv, Served, LineCare, TailCare

\* A step that leaves the request of p alone, or only counts its lines.
LEMMA ServedKept ==
  ASSUME NEW p \in Procs, Served(p), UNCHANGED opened, pc[p] # "idle",
         req'[p].op = req[p].op, req'[p].open = req[p].open, req'[p].rest = req[p].rest
  PROVE  Served(p)'
BY DEF Served

\* Fewer lines wait than before.
LEMMA NoLinesLess ==
  ASSUME NEW f \in Files, NEW p \in Procs, NoLines(f, p),
         stack'[f] = stack[f] \/ stack'[f] = <<>>
  PROVE  NoLines(f, p)'
BY DEF NoLines, Elems

LEMMA NoLinesEmpty ==
  ASSUME NEW f \in Files, NEW p \in Procs, stack'[f] = <<>>
  PROVE  NoLines(f, p)'
BY DEF NoLines, Elems

\* A push by another process.
LEMMA NoLinesPushed ==
  ASSUME TypeOK, NEW f \in Files, NEW p \in Procs, NoLines(f, p),
         NEW g \in Files, NEW q \in Procs, StackPush(g, q), f # g \/ p # q
  PROVE  NoLines(f, p)'
<1>1. CASE stack'[f] = stack[f]
  BY <1>1, NoLinesLess
<1>2. CASE stack'[f] # stack[f]
  <2>1. f = g /\ stack'[f] = Append(stack[f], NextLine(f, q))
    BY <1>2, SMTT(30) DEF StackPush, TypeOK
  <2>2. NextLine(f, q).pid # p
    BY <2>1, NextLineType
  <2>3. NextLine(f, q) \in Line /\ stack[f] \in Seq(Line)
    BY NextLineType DEF TypeOK
  <2>4. \A l \in Elems(Append(stack[f], NextLine(f, q))) : l \in Elems(stack[f]) \/ l = NextLine(f, q)
    BY <2>3, AppendProperties DEF Elems
  <2> QED BY <2>1, <2>2, <2>4 DEF NoLines
<1> QED BY <1>1, <1>2

LEMMA NextServed ==
  ASSUME Typing, ReleaseInv, [Next]_vars
  PROVE  \A p \in Procs : Served(p)'
<1> USE DEF Typing, clientVars, timerVars, cleanVars, lineVars
<1>0. \A p \in Procs : Served(p)
  BY DEF ReleaseInv
<1>1. ASSUME UNCHANGED <<pc, req, opened>> PROVE \A p \in Procs : Served(p)'
  BY <1>0, <1>1 DEF Served
\* The step of one worker.
<1>2. ASSUME NEW p \in Procs, UNCHANGED opened, Served(p)',
             \A q \in Procs \ {p} : pc'[q] = pc[q] /\ req'[q] = req[q]
      PROVE  \A q \in Procs : Served(q)'
  BY <1>0, <1>2 DEF Served
<1>3. ASSUME NEW p \in Procs, UNCHANGED opened, Return(p)
      PROVE  \A q \in Procs : Served(q)'
  BY <1>2, <1>3, ReturnPlace DEF Served
<1>4. ASSUME NEW p \in Procs, NEW step, UNCHANGED <<opened, req>>, Goto(p, step), pc[p] # "idle"
      PROVE  \A q \in Procs : Served(q)'
  <2>1. \A q \in Procs \ {p} : pc'[q] = pc[q]
    BY <1>4 DEF Goto, TypeOK
  <2>2. Served(p)'
    BY <1>0, <1>4, ServedKept
  <2> QED BY <1>2, <1>4, <2>1, <2>2
<1>5. ASSUME NEW p \in Procs, NEW n \in Nat, UNCHANGED opened, req' = [req EXCEPT ![p].left = n],
             \A q \in Procs \ {p} : pc'[q] = pc[q], pc[p] # "idle"
      PROVE  \A q \in Procs : Served(q)'
  <2>1. req[p] \in Request
    BY DEF TypeOK
  <2>2. req'[p] = [req[p] EXCEPT !.left = n] /\ \A q \in Procs \ {p} : req'[q] = req[q]
    BY <1>5 DEF TypeOK
  <2>3. req'[p].op = req[p].op /\ req'[p].open = req[p].open /\ req'[p].rest = req[p].rest
    BY <2>1, <2>2 DEF Request
  <2>4. Served(p)'
    BY <1>0, <1>5, <2>3, ServedKept
  <2> QED BY <1>2, <1>5, <2>2, <2>4
<1>6. ASSUME NEW p \in Procs, NEW r, r.open \in Opens, Arrive(p, r)
      PROVE  /\ pc'[p] = "find" /\ req'[p] = r /\ r.open \in opened
             /\ \A q \in Procs \ {p} : pc'[q] = pc[q] /\ req'[q] = req[q]
  BY <1>6 DEF Arrive, TypeOK
<1>7. ASSUME NEW p \in Procs, NEW o \in Opens, NEW n \in 0 .. MaxLines[p], NEW rest \in BOOLEAN,
             Write(p, o, n, rest)
      PROVE  \A q \in Procs : Served(q)'
  <2> DEFINE r == [op |-> "write", open |-> o, left |-> n, rest |-> rest]
  <2>1. Arrive(p, r) /\ r.open = o /\ r.op = "write" /\ p \in Users[o] /\ UNCHANGED opened
    BY <1>7 DEF Write
  <2> HIDE DEF r
  <2> QED BY <1>2, <1>6, <2>1 DEF Served
<1>8. ASSUME NEW p \in Procs, NEW o \in Opens, Flush(p, o)
      PROVE  \A q \in Procs : Served(q)'
  <2> DEFINE r == [op |-> "flush", open |-> o, left |-> 0, rest |-> FALSE]
  <2>1. Arrive(p, r) /\ r.open = o /\ r.op = "flush" /\ p \in Users[o] /\ UNCHANGED opened
    BY <1>8 DEF Flush
  <2> HIDE DEF r
  <2> QED BY <1>2, <1>6, <2>1 DEF Served
<1>9. ASSUME NEW p \in Procs, NEW o \in Opens, Release(p, o)
      PROVE  \A q \in Procs : Served(q)'
  <2> DEFINE r == [op |-> "close", open |-> o, left |-> 0, rest |-> FALSE]
  <2>1. /\ Arrive(p, r) /\ r.open = o /\ r.op = "close" /\ ~r.rest /\ opened' = opened \ {o}
        /\ Quiet(o)
    BY <1>9 DEF Release
  <2> HIDE DEF r
  <2>2. Served(p)'
    BY <1>6, <2>1 DEF Served
  <2>3. ASSUME NEW q \in Procs \ {p}, pc[q] # "idle" PROVE Served(q)'
    <3>1. req[q].open # o
      BY <2>1, <2>3 DEF Quiet
    <3> QED BY <1>0, <1>6, <2>1, <2>3, <3>1 DEF Served
  <2> QED BY <1>6, <2>1, <2>2, <2>3 DEF Served
<1>10. ASSUME NEW p \in Procs, Worker(p) PROVE \A q \in Procs : Served(q)'
  <2>1. pc[p] # "idle"
    BY <1>10 DEF Worker, FindForWrite, FindForClose, GetBinBuff, PushLine, PushTail, CheckLimit,
       PopBatch, ProcessLine, LoseLine, LeaveFreed, StepOK
  <2>2. req[p].left \in Nat
    BY DEF TypeOK, Request
  <2>3. CASE GetBinBuff(p)
    <3>1. LinesToPush(p) \in Nat
      BY <2>2 DEF LinesToPush
    <3> QED BY <1>5, <2>1, <2>3, <3>1 DEF GetBinBuff, Goto, TypeOK
  <2>4. CASE PushLine(p) \/ LoseLine(p)
    <3>1. req[p].left - 1 \in Nat
      BY <2>2, <2>4 DEF PushLine, LoseLine
    <3> QED BY <1>5, <2>1, <2>4, <3>1 DEF PushLine, LoseLine
  <2>5. CASE ProcessLine(p)
    <3>1. UNCHANGED opened /\ (Return(p) \/ UNCHANGED <<pc, req>>)
      BY <2>5 DEF ProcessLine
    <3> QED BY <1>1, <1>3, <3>1
  <2>6. CASE FindForWrite(p) \/ FindForClose(p) \/ PushTail(p) \/ CheckLimit(p) \/ PopBatch(p)
    <3>1. UNCHANGED opened /\ (Return(p) \/ \E step : Goto(p, step) /\ UNCHANGED req)
      BY <2>6 DEF FindForWrite, FindForClose, PushTail, CheckLimit, PopBatch
    <3> QED BY <1>3, <1>4, <2>1, <3>1
  <2>7. CASE LeaveFreed(p)
    BY <1>3, <2>7 DEF LeaveFreed
  <2> QED BY <1>10, <2>3, <2>4, <2>5, <2>6, <2>7 DEF Worker
<1>11. CASE Timer
  BY <1>1, <1>11 DEF Timer, TimerSleep, TimerLock, TimerScan, TimerUnlock, TimerProcess, TimerDone
<1>12. CASE CleanStart \/ Cleaner
  BY <1>1, <1>12 DEF CleanStart, Cleaner, CleanJoin, CloseAllLock, CloseAllNext, CloseAllForce,
     CloseAllPop, CloseAllProcess, CloseAllDelete, CloseAllUnlock
<1>13. ASSUME NEW f \in Files, Age(f) PROVE \A q \in Procs : Served(q)'
  BY <1>1, <1>13 DEF Age
<1>14. CASE UNCHANGED vars
  BY <1>1, <1>14 DEF vars
<1> HIDE DEF Typing
<1> QED
  BY <1>7, <1>8, <1>9, <1>10, <1>11, <1>12, <1>13, <1>14 DEF Next, Issue, Stopped

\* A step of one worker: the others' releases stay where they are.
LEMMA WorkerLines ==
  ASSUME ReleaseInv, NEW p \in Procs, UNCHANGED <<opened, cfile>>, stale' \subseteq stale,
         \A q \in Procs \ {p} : pc'[q] = pc[q] /\ req'[q] = req[q],
         NEW f \in Files, NEW q \in Procs,
         NoLines(f, q) => LineCare(f, q)',
         Flushing(p, f, q) => LineCare(f, q)'
  PROVE  LineCare(f, q)'
<1>1. LineCare(f, q)
  BY DEF ReleaseInv
<1>2. CASE CanWrite(f, q) \/ cfile = f
  BY <1>2 DEF LineCare, CanWrite
<1>3. ASSUME NEW r \in Procs \ {p}, Flushing(r, f, q) PROVE LineCare(f, q)'
  <2>1. Flushing(r, f, q)'
    BY <1>3 DEF Flushing, File
  <2> QED BY <2>1 DEF LineCare
<1> QED BY <1>1, <1>2, <1>3 DEF LineCare

LEMMA WorkerTails ==
  ASSUME ReleaseInv, NEW p \in Procs, UNCHANGED opened, stale' \subseteq stale,
         \A q \in Procs \ {p} : pc'[q] = pc[q] /\ req'[q] = req[q],
         \A f \in Files : tail'[f] \subseteq tail[f] \cup {p},
         \A f \in Files : Forcing(f, p) => p \notin tail'[f] \/ Forcing(f, p)',
         \A f \in Files : p \in tail'[f] => p \in tail[f] \/ CanWrite(f, p)
  PROVE  \A f \in Files, q \in Procs : TailCare(f, q)'
<1> SUFFICES ASSUME NEW f \in Files, NEW q \in Procs, OwnRelease(f, q), q \in tail'[f]
             PROVE  (CanWrite(f, q) \/ Forcing(f, q))'
  BY DEF TailCare, OwnRelease, OpensOf
<1>1. TailCare(f, q)
  BY DEF ReleaseInv
<1>2. CASE CanWrite(f, q)
  BY <1>2 DEF CanWrite
<1>3. CASE q # p /\ Forcing(f, q)
  BY <1>3 DEF Forcing, File
<1> QED BY <1>1, <1>2, <1>3 DEF TailCare

\* The request of a worker: whose lines it may leave behind.
LEMMA WorkerCared ==
  ASSUME Typing, BufferInv, ReleaseInv, NEW p \in Procs, Worker(p)
  PROVE  \A f \in Files, q \in Procs : LineCare(f, q)' /\ TailCare(f, q)'
<1> USE DEF Typing, clientVars, timerVars, cleanVars, lineVars
<1>0. Served(p)
  BY DEF ReleaseInv
<1>1. UNCHANGED <<opened, cfile>> /\ stale' \subseteq stale /\ pc[p] # "idle" /\ File(p) \in Files
  <2>1. UNCHANGED <<opened, cfile>> /\ stale' \subseteq stale /\ pc[p] # "idle"
    BY DEF Worker, FindForWrite, FindForClose, GetBinBuff, PushLine, PushTail, CheckLimit,
       PopBatch, ProcessLine, LoseLine, LeaveFreed, StepOK
  <2> QED BY <2>1, FileOfRequest
<1>2. \A q \in Procs \ {p} : pc'[q] = pc[q] /\ req'[q] = req[q]
  BY DEF Worker, FindForWrite, FindForClose, GetBinBuff, PushLine, PushTail, CheckLimit,
     PopBatch, ProcessLine, LoseLine, LeaveFreed, Goto, Return, TypeOK
\* A write or a flush goes through an open file.
<1>3. ASSUME req[p].op # "close" PROVE CanWrite(File(p), p)
  <2>1. req[p].open \in opened /\ p \in Users[req[p].open] /\ opened \subseteq Opens
    BY <1>0, <1>1, <1>3 DEF Served, TypeOK
  <2>2. req[p].open \in OpensOf(File(p), p)
    BY <2>1 DEF OpensOf, File
  <2> QED BY <2>1, <2>2 DEF CanWrite
\* Enough of a step that changes neither the stack nor the tails.
<1>4. ASSUME UNCHANGED <<tail, stack>>,
             \A f \in Files, q \in Procs : Flushing(p, f, q) => LineCare(f, q)',
             \A f \in Files : Forcing(f, p) => p \notin tail[f] \/ Forcing(f, p)'
      PROVE  \A f \in Files, q \in Procs : LineCare(f, q)' /\ TailCare(f, q)'
  <2>1. \A f \in Files, q \in Procs : NoLines(f, q) => LineCare(f, q)'
    BY <1>4, NoLinesLess DEF LineCare
  <2>2. \A f \in Files, q \in Procs : LineCare(f, q)'
    BY <1>1, <1>2, <1>4, <2>1, WorkerLines
  <2>3. \A f \in Files, q \in Procs : TailCare(f, q)'
    BY <1>1, <1>2, <1>4, WorkerTails
  <2> QED BY <2>2, <2>3
\* ... and of one that keeps its release on the way, too.
<1>5. ASSUME UNCHANGED <<tail, stack>>, req'[p].op = req[p].op, req'[p].open = req[p].open,
             req[p].op = "close" => pc'[p] \in {"find", "bin", "push", "pop"},
             \A f \in Files : Forcing(f, p) => p \notin tail[f] \/ Forcing(f, p)'
      PROVE  \A f \in Files, q \in Procs : LineCare(f, q)' /\ TailCare(f, q)'
  <2>1. ASSUME NEW f \in Files, NEW q \in Procs, Flushing(p, f, q) PROVE LineCare(f, q)'
    <3>1. Flushing(p, f, q)'
      BY <1>1, <1>5, <2>1 DEF Flushing, File
    <3> QED BY <3>1 DEF LineCare
  <2> QED BY <1>4, <1>5, <2>1
<1>6. CASE FindForWrite(p)
  BY <1>4, <1>6 DEF FindForWrite, Flushing, Forcing
<1>7. CASE FindForClose(p)
  <2>1. UNCHANGED <<tail, stack>>
    BY <1>7 DEF FindForClose
  <2>2. CASE File(p) \in wbmap
    <3>1. pc'[p] = "bin" /\ req' = req /\ stale' = stale
      BY <1>7, <2>2 DEF FindForClose, Goto, TypeOK
    <3>2. \A f \in Files : Forcing(f, p) => Forcing(f, p)'
      BY <3>1 DEF Forcing, File
    <3> QED BY <1>5, <2>1, <3>1, <3>2
  <2>3. CASE File(p) \notin wbmap
    <3>1. tail[File(p)] = {} /\ stack[File(p)] = <<>>
      BY <1>1, <2>3 DEF BufferInv
    <3>2. \A f \in Files : f = File(p) => tail[f] = {} /\ stack'[f] = <<>>
      BY <2>1, <3>1
    <3>3. \A f \in Files, q \in Procs : Flushing(p, f, q) => LineCare(f, q)'
      BY <3>2, NoLinesEmpty DEF Flushing, LineCare
    <3>4. \A f \in Files : Forcing(f, p) => p \notin tail[f]
      BY <3>2 DEF Forcing
    <3> QED BY <1>4, <2>1, <3>3, <3>4
  <2> QED BY <2>2, <2>3
<1>8. CASE GetBinBuff(p)
  <2>1. /\ req' = [req EXCEPT ![p].left = LinesToPush(p)] /\ pc'[p] = "push"
        /\ UNCHANGED <<tail, stack, stale>>
    BY <1>8 DEF GetBinBuff, Goto, TypeOK
  <2>2. /\ req'[p].op = req[p].op /\ req'[p].open = req[p].open
        /\ req'[p].left = LinesToPush(p)
    BY <2>1 DEF TypeOK, Request
  <2>3. ASSUME NEW f \in Files, Forcing(f, p), p \in tail[f] PROVE Forcing(f, p)'
    <3>1. LinesToPush(p) = 1
      BY <2>3 DEF LinesToPush, Forcing
    <3> QED BY <2>1, <2>2, <2>3, <3>1 DEF Forcing, File
  <2> QED BY <1>5, <2>1, <2>2, <2>3
<1>9. CASE PushLine(p)
  <2>1. /\ StackPush(File(p), p) /\ pc[p] = "push" /\ UNCHANGED <<pc, stale>> /\ p \notin stale
        /\ tail' = [tail EXCEPT ![File(p)] = @ \ {p}]
        /\ req' = [req EXCEPT ![p].left = @ - 1]
    BY <1>9 DEF PushLine
  <2>2. req'[p].op = req[p].op /\ req'[p].open = req[p].open
    BY <2>1 DEF TypeOK, Request
  <2>3. \A f \in Files, q \in Procs : Flushing(p, f, q) => Flushing(p, f, q)'
    BY <2>1, <2>2 DEF Flushing, File
  <2>4. ASSUME NEW f \in Files, NEW q \in Procs, NoLines(f, q) PROVE LineCare(f, q)'
    <3>1. CASE f # File(p) \/ q # p
      BY <1>1, <2>1, <2>4, <3>1, NoLinesPushed DEF LineCare
    <3>2. CASE f = File(p) /\ q = p /\ req[p].op = "close"
      BY <2>1, <2>2, <3>2 DEF LineCare, Flushing, File
    <3>3. CASE f = File(p) /\ q = p /\ req[p].op # "close"
      BY <1>1, <1>3, <3>3 DEF LineCare, CanWrite
    <3> QED BY <3>1, <3>2, <3>3
  <2>5. \A f \in Files, q \in Procs : LineCare(f, q)'
    BY <1>1, <1>2, <2>3, <2>4, WorkerLines DEF LineCare
  <2>6. \A f \in Files : tail'[f] \subseteq tail[f] /\ (f = File(p) => p \notin tail'[f])
    BY <2>1 DEF TypeOK
  <2>7. \A f \in Files, q \in Procs : TailCare(f, q)'
    BY <1>1, <1>2, <2>6, WorkerTails DEF Forcing
  <2> QED BY <2>5, <2>7
<1>10. CASE PushTail(p)
  <2>1. /\ pc[p] = "push" /\ UNCHANGED <<stack, req, stale>> /\ req[p].left = 0
        /\ tail' = [tail EXCEPT ![File(p)] = IF req[p].rest THEN @ \cup {p} ELSE @]
        /\ pc'[p] = IF req[p].op = "write" THEN "limit" ELSE "pop"
    BY <1>10 DEF PushTail, Goto, TypeOK
  <2>2. \A f \in Files : ~Forcing(f, p)
    BY <2>1 DEF Forcing
  <2>3. ASSUME NEW f \in Files, NEW q \in Procs, Flushing(p, f, q) PROVE LineCare(f, q)'
    <3>1. Flushing(p, f, q)'
      BY <2>1, <2>3 DEF Flushing, File
    <3> QED BY <3>1 DEF LineCare
  <2>4. \A f \in Files, q \in Procs : LineCare(f, q)'
    BY <1>1, <1>2, <2>1, <2>3, NoLinesLess, WorkerLines DEF LineCare
  <2>5. \A f \in Files : tail'[f] \subseteq tail[f] \cup {p}
    BY <2>1 DEF TypeOK
  <2>6. ASSUME NEW f \in Files, p \in tail'[f] PROVE p \in tail[f] \/ CanWrite(f, p)
    <3>1. CASE req[p].op = "close"
      BY <1>0, <1>1, <2>1, <2>6, <3>1 DEF Served, TypeOK
    <3>2. CASE req[p].op # "close"
      BY <1>3, <2>1, <2>6, <3>2 DEF TypeOK
    <3> QED BY <3>1, <3>2
  <2>7. \A f \in Files, q \in Procs : TailCare(f, q)'
    BY <1>1, <1>2, <2>2, <2>5, <2>6, WorkerTails
  <2> QED BY <2>4, <2>7
<1>11. CASE CheckLimit(p)
  BY <1>4, <1>11 DEF CheckLimit, Flushing, Forcing
<1>12. CASE PopBatch(p)
  <2>1. /\ pc[p] = "pop" /\ UNCHANGED tail
        /\ stack' = [stack EXCEPT ![File(p)] = <<>>]
    BY <1>12 DEF PopBatch, Pop
  <2>2. \A f \in Files : (stack'[f] = stack[f] \/ stack'[f] = <<>>) /\ (f = File(p) => stack'[f] = <<>>)
    BY <2>1 DEF TypeOK
  <2>3. \A f \in Files, q \in Procs : LineCare(f, q)'
    BY <1>1, <1>2, <2>2, NoLinesLess, NoLinesEmpty, WorkerLines DEF LineCare, Flushing
  <2>4. \A f \in Files, q \in Procs : TailCare(f, q)'
    BY <1>1, <1>2, <2>1, WorkerTails DEF Forcing
  <2> QED BY <2>3, <2>4
<1>13. CASE ProcessLine(p)
  BY <1>4, <1>13 DEF ProcessLine, Flushing, Forcing
<1>14. CASE LoseLine(p) \/ LeaveFreed(p)
  BY <1>4, <1>14 DEF LoseLine, LeaveFreed, Flushing, Forcing
<1> HIDE DEF Typing
<1> QED BY <1>6, <1>7, <1>8, <1>9, <1>10, <1>11, <1>12, <1>13, <1>14 DEF Worker

\* A step of the timeup thread, of CloseAll or of the clock.
LEMMA OtherCared ==
  ASSUME Typing, ReleaseInv, UNCHANGED <<opened, pc, req>>,
         \A f \in Files : tail'[f] \subseteq tail[f],
         \A f \in Files : stack'[f] = stack[f] \/ stack'[f] = <<>> \/ cfile' = f,
         \A f \in Files : cfile = f => cfile' = f \/ stack'[f] = <<>>,
         \A q \in Procs : q \in stale' =>
           \/ q \in stale
           \/ \A f \in Files : File(q) = f => q \notin tail'[f] /\ (cfile' = f \/ stack'[f] = <<>>)
  PROVE  \A f \in Files, q \in Procs : LineCare(f, q)' /\ TailCare(f, q)'
<1> SUFFICES ASSUME NEW f \in Files, NEW q \in Procs PROVE LineCare(f, q)' /\ TailCare(f, q)'
  OBVIOUS
<1>1. LineCare(f, q) /\ TailCare(f, q)
  BY DEF ReleaseInv
<1>2. stack'[f] = <<>> \/ cfile' = f => LineCare(f, q)'
  BY NoLinesEmpty DEF LineCare
<1>3. NoLines(f, q) => LineCare(f, q)'
  BY <1>2, NoLinesLess DEF LineCare
<1>4. ASSUME NEW r \in Procs, Flushing(r, f, q) PROVE LineCare(f, q)'
  <2>1. CASE r \in stale'
    BY <1>2, <1>4, <2>1 DEF Flushing
  <2>2. CASE r \notin stale'
    <3>1. Flushing(r, f, q)'
      BY <1>4, <2>2 DEF Flushing, File
    <3> QED BY <3>1 DEF LineCare
  <2> QED BY <2>1, <2>2
<1>5. CanWrite(f, q) => CanWrite(f, q)'
  BY DEF CanWrite
<1>6. LineCare(f, q)'
  BY <1>1, <1>2, <1>3, <1>4, <1>5 DEF LineCare
<1>7. Forcing(f, q) => q \notin tail'[f] \/ Forcing(f, q)'
  BY DEF Forcing, File
<1>8. TailCare(f, q)'
  BY <1>1, <1>5, <1>7 DEF TailCare, OwnRelease, OpensOf
<1> QED BY <1>6, <1>8

\* A request comes.
LEMMA IssueCared ==
  ASSUME Typing, ReleaseInv, NEW p \in Procs, Issue(p)
  PROVE  \A f \in Files, q \in Procs : LineCare(f, q)' /\ TailCare(f, q)'
<1> USE DEF Typing
<1>1. ASSUME pc[p] = "idle", UNCHANGED <<tail, stack, stale, cfile>>,
             \A q \in Procs \ {p} : pc'[q] = pc[q] /\ req'[q] = req[q],
             \A f \in Files, q \in Procs : CanWrite(f, q) => LineCare(f, q)' /\ TailCare(f, q)'
      PROVE  \A f \in Files, q \in Procs : LineCare(f, q)' /\ TailCare(f, q)'
  <2> SUFFICES ASSUME NEW f \in Files, NEW q \in Procs PROVE LineCare(f, q)' /\ TailCare(f, q)'
    OBVIOUS
  <2>1. LineCare(f, q) /\ TailCare(f, q)
    BY DEF ReleaseInv
  <2>2. NoLines(f, q) => NoLines(f, q)'
    BY <1>1, NoLinesLess
  <2>3. \A r \in Procs : Flushing(r, f, q) => Flushing(r, f, q)'
    BY <1>1 DEF Flushing, File
  <2>4. Forcing(f, q) => Forcing(f, q)'
    BY <1>1 DEF Forcing, File
  <2>5. LineCare(f, q)'
    BY <1>1, <2>1, <2>2, <2>3 DEF LineCare
  <2>6. TailCare(f, q)'
    BY <1>1, <2>1, <2>4 DEF TailCare, OwnRelease, OpensOf
  <2> QED BY <2>5, <2>6
<1>2. ASSUME NEW o \in Opens,
             Flush(p, o) \/ \E n \in 0 .. MaxLines[p], rest \in BOOLEAN : Write(p, o, n, rest)
      PROVE  \A f \in Files, q \in Procs : LineCare(f, q)' /\ TailCare(f, q)'
  <2>1. /\ pc[p] = "idle" /\ UNCHANGED <<opened, tail, stack, stale, cfile>>
        /\ \A q \in Procs \ {p} : pc'[q] = pc[q] /\ req'[q] = req[q]
    BY <1>2 DEF Flush, Write, Arrive, TypeOK, cleanVars, lineVars
  <2> QED BY <1>1, <2>1 DEF LineCare, TailCare, CanWrite
<1>3. ASSUME NEW o \in Opens, Release(p, o)
      PROVE  \A f \in Files, q \in Procs : LineCare(f, q)' /\ TailCare(f, q)'
  <2>1. /\ pc[p] = "idle" /\ UNCHANGED <<tail, stack, stale, cfile>> /\ opened' = opened \ {o}
        /\ pc' = [pc EXCEPT ![p] = "find"] /\ p \in ReleasePids[o]
        /\ req' = [req EXCEPT ![p] = [op |-> "close", open |-> o, left |-> 0, rest |-> FALSE]]
    BY <1>3 DEF Release, Arrive, cleanVars, lineVars
  <2>2. \A q \in Procs \ {p} : pc'[q] = pc[q] /\ req'[q] = req[q]
    BY <2>1 DEF TypeOK
  <2>3. pc'[p] = "find" /\ req'[p].op = "close" /\ req'[p].open = o
    BY <2>1 DEF TypeOK
  <2>4. p \notin stale'
    BY <2>1 DEF StepOK
  <2>5. ASSUME NEW f \in Files, NEW q \in Procs, CanWrite(f, q)
        PROVE  LineCare(f, q)' /\ TailCare(f, q)'
    <3>1. PICK o2 \in opened : o2 \in OpensOf(f, q)
      BY <2>5 DEF CanWrite
    <3>2. CASE o2 # o
      BY <2>1, <3>1, <3>2 DEF LineCare, TailCare, CanWrite
    <3>3. CASE o2 = o
      <4>1. Flushing(p, f, q)'
        BY <2>3, <2>4, <3>1, <3>3 DEF Flushing, File, OpensOf
      <4>2. OwnRelease(f, q) => q = p
        BY <2>1, <3>1, <3>3 DEF OwnRelease
      <4>3. q = p => Forcing(f, q)'
        BY <2>3, <2>4, <3>1, <3>3 DEF Forcing, File, OpensOf
      <4> QED BY <4>1, <4>2, <4>3 DEF LineCare, TailCare, OwnRelease, OpensOf
    <3> QED BY <3>2, <3>3
  <2> QED BY <1>1, <2>1, <2>2, <2>5
<1> HIDE DEF Typing
<1> QED BY <1>2, <1>3 DEF Issue

LEMMA NextCared ==
  ASSUME Typing, BufferInv, ReleaseInv, [Next]_vars
  PROVE  \A f \in Files, p \in Procs : LineCare(f, p)' /\ TailCare(f, p)'
<1> USE DEF Typing, clientVars, timerVars, cleanVars, lineVars
\* Enough of a step that touches no request and no tail, and CloseAll's file
\* only when it has none.
<1>1. ASSUME UNCHANGED <<opened, pc, req, tail, stale>>, cfile = NoFile \/ UNCHANGED cfile,
             \A f \in Files : stack'[f] = stack[f] \/ stack'[f] = <<>>
      PROVE  \A f \in Files, p \in Procs : LineCare(f, p)' /\ TailCare(f, p)'
  <2>1. \A f \in Files : cfile = f => cfile' = f
    BY <1>1, NameAssumption DEF NoFile
  <2> QED BY <1>1, <2>1, OtherCared
<1>2. ASSUME NEW f \in Files, TimerScan(f)
      PROVE  \A g \in Files, q \in Procs : LineCare(g, q)' /\ TailCare(g, q)'
  <2>1. \A g \in Files : stack'[g] = stack[g] \/ stack'[g] = <<>>
    BY <1>2 DEF TimerScan, Pop, TypeOK
  <2> QED BY <1>1, <1>2, <2>1 DEF TimerScan
<1>3. CASE TimerSleep \/ TimerLock \/ TimerUnlock \/ TimerDone \/ \E f \in Files : TimerProcess(f)
  BY <1>1, <1>3 DEF TimerSleep, TimerLock, TimerUnlock, TimerProcess, TimerDone
<1>4. CASE CleanStart \/ CleanJoin \/ CloseAllLock \/ CloseAllProcess \/ CloseAllUnlock
  BY <1>1, <1>4 DEF CleanStart, CleanJoin, CloseAllLock, CloseAllProcess, CloseAllUnlock
<1>5. ASSUME NEW f \in Files, CloseAllNext(f) \/ Age(f)
      PROVE  \A g \in Files, q \in Procs : LineCare(g, q)' /\ TailCare(g, q)'
  BY <1>1, <1>5 DEF CloseAllNext, Age, StepOK
<1>6. ASSUME NEW p \in Procs, CloseAllForce(p)
      PROVE  \A f \in Files, q \in Procs : LineCare(f, q)' /\ TailCare(f, q)'
  <2>1. cfile \in Files /\ UNCHANGED <<opened, pc, req, cfile>>
    BY <1>6 DEF CloseAllForce, TypeOK, StepOK
  <2>2. \A f \in Files : stack'[f] = stack[f] \/ cfile' = f
    BY <1>6, <2>1, StackPushStack DEF CloseAllForce
  <2>3. \A f \in Files : tail'[f] \subseteq tail[f] /\ (cfile = f => p \notin tail'[f])
    BY <1>6 DEF CloseAllForce, TypeOK
  <2>4. \A q \in Procs : q \in stale' => q \in stale \/ (q = p /\ File(q) = cfile)
    BY <1>6 DEF CloseAllForce, Pushers
  <2> QED BY <2>1, <2>2, <2>3, <2>4, OtherCared
<1>7. CASE CloseAllPop
  <2>1. \A g \in Files : stack'[g] = stack[g] \/ stack'[g] = <<>>
    BY <1>7 DEF CloseAllPop, Pop, TypeOK
  <2> QED BY <1>1, <1>7, <2>1 DEF CloseAllPop
<1>8. CASE CloseAllDelete
  <2>1. \A g \in Files : /\ stack'[g] = stack[g] \/ stack'[g] = <<>>
                         /\ cfile = g => stack'[g] = <<>> /\ tail'[g] = {}
                         /\ tail'[g] \subseteq tail[g]
    BY <1>8 DEF CloseAllDelete, Pop, TypeOK
  <2>2. \A q \in Procs : q \in stale' => q \in stale \/ File(q) = cfile
    BY <1>8 DEF CloseAllDelete, Holders
  <2>3. UNCHANGED <<opened, pc, req>>
    BY <1>8 DEF CloseAllDelete
  <2> QED BY <2>1, <2>2, <2>3, OtherCared
<1>9. CASE UNCHANGED vars
  BY <1>1, <1>9 DEF vars
<1> HIDE DEF Typing
<1> QED
  BY WorkerCared, IssueCared, <1>2, <1>3, <1>4, <1>5, <1>6, <1>7, <1>8, <1>9
  DEF Next, Timer, Cleaner, Stopped

\* ReleaseFlushes: h2htpfs_release (k2hftfuse.cc) reaches K2hFtManage::Close,
\* which pops the whole stack.  Whatever pid each release comes with, in both
\* modes and beside a shutdown of either kind, the lines of a process do not
\* outlast its last descriptor in the stack; its tail does not if all the
\* releases carry its own pid.
THEOREM ReleaseFlushesAll == Spec => []ReleaseFlushes
<1> DEFINE I == Typing /\ BufferInv /\ ReleaseInv
<1>1. Init => I
  BY InitTyping, InitBuffer, InitRelease
<1>2. I /\ [Next]_vars => I'
  <2> SUFFICES ASSUME I, [Next]_vars PROVE I'
    OBVIOUS
  <2>1. Typing' /\ BufferInv'
    BY NextTyping, NextBuffer
  <2>2. \A p \in Procs : Served(p)'
    BY NextServed
  <2>3. \A f \in Files, p \in Procs : LineCare(f, p)' /\ TailCare(f, p)'
    BY NextCared
  <2> QED BY <2>1, <2>2, <2>3 DEF ReleaseInv
<1>3. I => ReleaseFlushes
  <2> SUFFICES ASSUME I, NEW f \in Files, NEW p \in Procs, ClosedFor(f, p), cfile # f
               PROVE  NoLines(f, p) /\ (OwnRelease(f, p) => p \notin tail[f])
    BY DEF ReleaseFlushes, OwnRelease
  <2>1. LineCare(f, p) /\ TailCare(f, p)
    BY DEF ReleaseInv
  <2>2. ~CanWrite(f, p)
    BY DEF ClosedFor, CanWrite
  <2>3. ~Forcing(f, p)
    BY DEF ClosedFor, Forcing
  <2>4. ASSUME NEW q \in Procs, Flushing(q, f, p) PROVE FALSE
    <3>1. CASE q = p
      BY <2>4, <3>1 DEF Flushing, ClosedFor
    <3>2. CASE q # p
      <4>1. pc[q] # "idle" /\ FileOf[req[q].open] = f /\ p \in Users[req[q].open]
        BY <2>4, <3>2 DEF Flushing, File
      <4>2. req[q].open \in Opens
        BY <4>1 DEF Typing, TypeOK, StepOK, Request
      <4> QED BY <4>1, <4>2 DEF ClosedFor, OpensOf, Quiet
    <3> QED BY <3>1, <3>2
  <2> QED BY <2>1, <2>2, <2>3, <2>4 DEF LineCare, TailCare
<1> HIDE DEF I
<1>4. Spec => []I
  BY <1>1, <1>2, PTL DEF Spec
<1> QED BY <1>3, <1>4, PTL

=============================================================================
