----------------------------- MODULE WriteStack -----------------------------
(***************************************************************************)
(* The write path of k2hftfuse: K2hFtManage (k2hftman.cc) over one         *)
(* K2hFtWriteBuff (k2hftwbuf.cc) per file handle.                          *)
(*                                                                         *)
(* A FUSE worker thread serves each request of a writing process.  A write *)
(* is cut into lines; a finished line is stacked in the file's buffer, the *)
(* unterminated tail waits in the input buffer of (file, pid).  Whoever    *)
(* finds the stack over its limit pops the WHOLE stack as one batch and    *)
(* processes the batch line by line, outside every lock.  That may be the  *)
(* writing thread, the timeup thread, the thread serving the release, or   *)
(* the thread that shuts the daemon down.                                  *)
(*                                                                         *)
(* Abstractions.  A line is named by file, pid and its number among the    *)
(* lines that pid finished on that file; its bytes are left to             *)
(* LineAssembly.  A critical section without a blocking call inside is one *)
(* step; the timeup scan and CloseAll, which hold wstack_lockval over      *)
(* several effects that others can see, are several.  The age of the first *)
(* stacked line is one flag: the only question the code asks of a          *)
(* timestamp is whether the front line is older than the time limit.       *)
(*                                                                         *)
(* External: the kernel.  A process has one request in progress at a time, *)
(* and the kernel sends one release for an open file description, when no  *)
(* request on it is in progress, with the pid of some process.             *)
(***************************************************************************)
EXTENDS Integers, Sequences, FiniteSets

CONSTANTS
  Files,          \* file handles (PK2HFTRULE pointers)
  Procs,          \* writing processes, each with the worker serving it
  Opens,          \* open file descriptions
  FileOf,         \* [Opens -> Files]
  Users,          \* [Opens -> SUBSET Procs], who writes through it
  ReleasePids,    \* [Opens -> SUBSET Procs], pids its release may carry
  StackLineMax,   \* K2hFtWriteBuff::StackLineMax (TRANSLINECNT)
  StackTimeup,    \* K2hFtWriteBuff::StackTimeup (TRANSTIMEUP)
  Filtered,       \* files whose rule or BYTELIMIT may drop a line
  Failing,        \* files whose output may fail
  BinMode,        \* K2hFtInfo::IsBinMode (BINTRANS)
  SignalExit,     \* TRUE: shutdown by a signal; FALSE: by unmount
  MaxLines        \* [Procs -> Nat], bound: lines a process finishes on one file

ASSUME OpensAssumption ==
  /\ FileOf \in [Opens -> Files]
  /\ Users \in [Opens -> SUBSET Procs]
  /\ ReleasePids \in [Opens -> SUBSET Procs]

ASSUME LimitAssumption ==
  /\ StackLineMax \in Nat
  /\ StackTimeup \in Nat
  /\ MaxLines \in [Procs -> Nat]
  /\ Filtered \subseteq Files
  /\ Failing \subseteq Files
  /\ SignalExit \in BOOLEAN
  /\ BinMode \in BOOLEAN

ASSUME NameAssumption ==
  /\ "cleaner" \notin Procs
  /\ "none" \notin Files \cup Opens

Line == [file : Files, pid : Procs, no : Nat]

\* Who may hold a popped batch.
Actors == Procs \cup {"cleaner"}

VARIABLES
  wlock,      \* owner of wstack_lockval: "free", "timer" or "cleaner"
  wbmap,      \* wbstackmap: the files that have a K2hFtWriteBuff
  tail,       \* [Files -> SUBSET Procs]: pids whose input buffer is not empty
  done,       \* [Files -> [Procs -> Nat]]: lines finished so far
  stack,      \* [Files -> Seq(Line)]: K2hFtWriteBuff::Stack
  aged,       \* the files whose first stacked line is past the time limit
  opened,     \* the open file descriptions not released yet
  pc, req,    \* worker of each process: its step and its request
  stale,      \* the workers that still hold a buffer CloseAll has deleted
  hand,       \* [Actors -> Seq(Line)]: the popped batch being processed
  valmap,     \* [Files -> Seq(Line)]: batches the timeup thread holds
  tpc, tleft, \* timeup thread: its step, files not scanned yet
  run_thread,
  cpc, cleft, cfile,  \* Clean(): its step, files not closed yet, current one
  out,        \* [Files -> Seq(Line)]: lines put out, in order
  lost,       \* lines whose output failed or that went into freed memory
  dropped     \* lines the rule or the byte limit rejected

clientVars == <<opened, pc, req, stale>>
timerVars  == <<valmap, tpc, tleft>>
cleanVars  == <<run_thread, cpc, cleft, cfile>>
lineVars   == <<done, stack, aged, out, lost, dropped>>
vars == <<wlock, wbmap, tail, hand, clientVars, timerVars, cleanVars, lineVars>>

NoFile == "none"
NoOpen == "none"

Request == [op : {"none", "write", "flush", "close"}, open : Opens \cup {NoOpen},
            left : Nat, rest : BOOLEAN]

NoReq == [op |-> "none", open |-> NoOpen, left |-> 0, rest |-> FALSE]

-----------------------------------------------------------------------------
(* What the steps are built from.                                          *)

File(p) == FileOf[req[p].open]

Elems(s) == {s[i] : i \in DOMAIN s}

\* Mutants of IsStackLimit: one line more than the limit; no time limit.
IsStackLimitOffByOne(f) ==
  \/ Len(stack[f]) > StackLineMax + 1
  \/ stack[f] # <<>> /\ f \in aged
\* K2hFtWriteBuff::IsStackLimit.  Its unlocked read of the size is folded in:
\* it can only answer TRUE early, and then the caller pops what is there.
IsStackLimit(f) ==
  \/ Len(stack[f]) > StackLineMax
  \/ stack[f] # <<>> /\ f \in aged

NextLine(f, p) == [file |-> f, pid |-> p, no |-> done[f][p] + 1]

\* Mutant of StackPush: push_front for push_back.
StackPushFront(f, p) ==
  /\ done' = [done EXCEPT ![f][p] = @ + 1]
  /\ stack' = [stack EXCEPT ![f] = <<NextLine(f, p)>> \o @]
  /\ UNCHANGED dropped

\* K2hFtWriteBuff::StackPush: the next line of (f, p) goes to the back of the
\* stack, or is dropped because the rule gives no output or it is too long.
StackPush(f, p) ==
  /\ done' = [done EXCEPT ![f][p] = @ + 1]
  /\ \/ /\ stack' = [stack EXCEPT ![f] = Append(@, NextLine(f, p))]
        /\ UNCHANGED dropped
     \/ /\ f \in Filtered
        /\ dropped' = dropped \cup {NextLine(f, p)}
        /\ UNCHANGED stack

\* Mutant of Pop: the popped lines are not erased from the stack.
PopWithoutErase(f) ==
  /\ UNCHANGED stack
  /\ aged' = aged \ {f}

\* K2hFtWriteBuff::Pop: the whole stack at once.
Pop(f) ==
  /\ stack' = [stack EXCEPT ![f] = <<>>]
  /\ aged' = aged \ {f}

\* One line of K2hFtInfo::Processing: written, or skipped after an error.
PutOut(l) ==
  \/ /\ out' = [out EXCEPT ![l.file] = Append(@, l)]
     /\ UNCHANGED lost
  \/ /\ l.file \in Failing
     /\ lost' = lost \cup {l}
     /\ UNCHANGED out

-----------------------------------------------------------------------------
Init ==
  /\ wlock = "free"
  /\ wbmap = {}
  /\ tail = [f \in Files |-> {}]
  /\ done = [f \in Files |-> [p \in Procs |-> 0]]
  /\ stack = [f \in Files |-> <<>>]
  /\ aged = {}
  /\ opened = Opens
  /\ pc = [p \in Procs |-> "idle"]
  /\ req = [p \in Procs |-> NoReq]
  /\ stale = {}
  /\ hand = [a \in Actors |-> <<>>]
  /\ valmap = [f \in Files |-> <<>>]
  /\ tpc = IF StackTimeup > 0 THEN "sleep" ELSE "exit"
  /\ tleft = {}
  /\ run_thread = (StackLineMax > 0 \/ StackTimeup > 0)
  /\ cpc = "up"
  /\ cleft = {}
  /\ cfile = NoFile
  /\ out = [f \in Files |-> <<>>]
  /\ lost = {}
  /\ dropped = {}

-----------------------------------------------------------------------------
(* Requests from the kernel.  They wait for a worker and the map lock in   *)
(* step "find".                                                            *)

\* Requests come until unmount; a signal does not keep them away.
Serving == SignalExit \/ cpc = "up"

\* No request on open file o is in progress.
Quiet(o) == \A p \in Procs : pc[p] # "idle" => req[p].open # o

Arrive(p, r) ==
  /\ Serving
  /\ pc[p] = "idle"
  /\ r.open \in opened
  /\ pc' = [pc EXCEPT ![p] = "find"]
  /\ req' = [req EXCEPT ![p] = r]
  /\ UNCHANGED <<wlock, wbmap, tail, hand, stale, timerVars, cleanVars, lineVars>>

\* h2htpfs_write: data that ends n lines and, if rest, goes on after them.
Write(p, o, n, rest) ==
  /\ p \in Users[o]
  /\ n > 0 \/ rest
  /\ done[FileOf[o]][p] + n <= MaxLines[p]
  /\ Arrive(p, [op |-> "write", open |-> o, left |-> n, rest |-> rest])
  /\ UNCHANGED opened

\* h2htpfs_flush, at each close(2) by p; it does something in binary mode only.
Flush(p, o) ==
  /\ BinMode
  /\ p \in Users[o]
  /\ Arrive(p, [op |-> "flush", open |-> o, left |-> 0, rest |-> FALSE])
  /\ UNCHANGED opened

\* h2htpfs_release: once, when the last descriptor is closed.
Release(p, o) ==
  /\ p \in ReleasePids[o]
  /\ Quiet(o)
  /\ Arrive(p, [op |-> "close", open |-> o, left |-> 0, rest |-> FALSE])
  /\ opened' = opened \ {o}

-----------------------------------------------------------------------------
(* The worker that serves p.                                               *)

Goto(p, step) == pc' = [pc EXCEPT ![p] = step]

Return(p) ==
  /\ Goto(p, "idle")
  /\ req' = [req EXCEPT ![p] = NoReq]

\* K2hFtManage::Push looks the buffer up under wstack_lockval and makes it
\* when there is none.
FindForWrite(p) ==
  /\ pc[p] = "find"
  /\ req[p].op = "write"
  /\ wlock = "free"
  /\ wbmap' = wbmap \cup {File(p)}
  /\ Goto(p, "bin")
  /\ UNCHANGED <<wlock, tail, hand, req, opened, stale, timerVars, cleanVars, lineVars>>

\* K2hFtManage::Close has nothing to do without a buffer.
FindForClose(p) ==
  /\ pc[p] = "find"
  /\ req[p].op # "write"
  /\ wlock = "free"
  /\ IF File(p) \in wbmap THEN Goto(p, "bin") /\ UNCHANGED req ELSE Return(p)
  /\ UNCHANGED <<wlock, wbmap, tail, hand, opened, stale, timerVars, cleanVars, lineVars>>

\* The lines the request is about to finish.  A close forces the tail of p out
\* as a line, if there is one.
LinesToPush(p) ==
  CASE req[p].op = "write" -> req[p].left
    [] req[p].op # "write" /\ p \in tail[File(p)] -> 1
    [] OTHER -> 0

\* K2hFtWriteBuff::GetBinBuff under inputbuf_lockval, which CloseAll holds
\* while it forces the tails of the file out.
GetBinBuff(p) ==
  /\ pc[p] = "bin"
  /\ p \notin stale
  /\ ~(cpc = "force" /\ cfile = File(p))
  /\ Goto(p, "push")
  /\ req' = [req EXCEPT ![p].left = LinesToPush(p)]
  /\ UNCHANGED <<wlock, wbmap, tail, hand, opened, stale, timerVars, cleanVars, lineVars>>

\* Mutant of PushLine: a line end is seen where there is none.
PushLineAlways(p) ==
  /\ pc[p] = "push"
  /\ p \notin stale
  /\ StackPush(File(p), p)
  /\ tail' = [tail EXCEPT ![File(p)] = @ \ {p}]
  /\ req' = [req EXCEPT ![p].left = @ - 1]
  /\ UNCHANGED <<wlock, wbmap, hand, pc, opened, stale, timerVars, cleanVars, aged, out, lost>>

\* K2hFtWriteBuff::StringPush or BinaryPush at the end of a line: what waits
\* in the input buffer is the front of this line.
PushLine(p) ==
  /\ pc[p] = "push"
  /\ p \notin stale
  /\ req[p].left > 0
  /\ StackPush(File(p), p)
  /\ tail' = [tail EXCEPT ![File(p)] = @ \ {p}]
  /\ req' = [req EXCEPT ![p].left = @ - 1]
  /\ UNCHANGED <<wlock, wbmap, hand, pc, opened, stale, timerVars, cleanVars, aged, out, lost>>

\* Mutant of PushTail: a close checks the limit like a write.
PushTailNoForce(p) ==
  /\ pc[p] = "push"
  /\ p \notin stale
  /\ req[p].left = 0
  /\ tail' = [tail EXCEPT ![File(p)] = IF req[p].rest THEN @ \cup {p} ELSE @]
  /\ Goto(p, "limit")
  /\ UNCHANGED <<wlock, wbmap, hand, req, opened, stale, timerVars, cleanVars, lineVars>>

\* The rest of the data stays in the input buffer.  A write goes on to the
\* limit check, a close pops in any case.
PushTail(p) ==
  /\ pc[p] = "push"
  /\ p \notin stale
  /\ req[p].left = 0
  /\ tail' = [tail EXCEPT ![File(p)] = IF req[p].rest THEN @ \cup {p} ELSE @]
  /\ Goto(p, IF req[p].op = "write" THEN "limit" ELSE "pop")
  /\ UNCHANGED <<wlock, wbmap, hand, req, opened, stale, timerVars, cleanVars, lineVars>>

\* K2hFtManage::CheckPush without force.
CheckLimit(p) ==
  /\ pc[p] = "limit"
  /\ p \notin stale
  /\ IF IsStackLimit(File(p)) THEN Goto(p, "pop") /\ UNCHANGED req ELSE Return(p)
  /\ UNCHANGED <<wlock, wbmap, tail, hand, opened, stale, timerVars, cleanVars, lineVars>>

\* Mutants of PopBatch: only the newest line is taken; a close takes the
\* buffer out of the map, as the comment on K2hFtManage::Close has it.
PopBatchNewest(p) ==
  /\ pc[p] = "pop"
  /\ p \notin stale
  /\ LET s == stack[File(p)]
     IN  IF s = <<>>
           THEN Return(p) /\ UNCHANGED <<stack, hand>>
           ELSE /\ stack' = [stack EXCEPT ![File(p)] = SubSeq(s, 1, Len(s) - 1)]
                /\ hand' = [hand EXCEPT ![p] = <<s[Len(s)]>>]
                /\ Goto(p, "proc")
                /\ UNCHANGED req
  /\ UNCHANGED <<wlock, wbmap, tail, opened, stale, timerVars, cleanVars, done, aged, out, lost, dropped>>
\* K2hFtManage::CheckPush takes the batch; somebody else may have been faster.
PopBatch(p) ==
  /\ pc[p] = "pop"
  /\ p \notin stale
  /\ Pop(File(p))
  /\ hand' = [hand EXCEPT ![p] = stack[File(p)]]
  /\ IF stack[File(p)] = <<>> THEN Return(p) ELSE Goto(p, "proc") /\ UNCHANGED req
  /\ UNCHANGED <<wlock, wbmap, tail, opened, stale, timerVars, cleanVars, done, out, lost, dropped>>

\* K2hFtInfo::Processing, one line of the batch.
ProcessLine(p) ==
  /\ pc[p] = "proc"
  /\ PutOut(Head(hand[p]))
  /\ hand' = [hand EXCEPT ![p] = Tail(@)]
  /\ IF Len(hand[p]) = 1 THEN Return(p) ELSE UNCHANGED <<pc, req>>
  /\ UNCHANGED <<wlock, wbmap, tail, opened, stale, timerVars, cleanVars, done, stack, aged, dropped>>

\* The buffer was deleted under the worker.  What it still writes goes into
\* freed memory (a crash is the worker never taking these steps).
LoseLine(p) ==
  /\ p \in stale
  /\ req[p].left > 0
  /\ req' = [req EXCEPT ![p].left = @ - 1]
  /\ done' = [done EXCEPT ![File(p)][p] = @ + 1]
  /\ lost' = lost \cup {NextLine(File(p), p)}
  /\ UNCHANGED <<wlock, wbmap, tail, hand, opened, pc, stale, timerVars, cleanVars,
                 stack, aged, out, dropped>>

LeaveFreed(p) ==
  /\ p \in stale
  /\ req[p].left = 0
  /\ stale' = stale \ {p}
  /\ Return(p)
  /\ UNCHANGED <<wlock, wbmap, tail, hand, opened, timerVars, cleanVars, lineVars>>

-----------------------------------------------------------------------------
(* K2hFtManage::TimeupWorkerProc.                                          *)

\* Mutants of TimerSleep: the flag is not looked at; it is read the wrong way.
TimerSleepForever ==
  /\ tpc = "sleep"
  /\ tpc' = "lock"
  /\ UNCHANGED <<wlock, wbmap, tail, hand, clientVars, valmap, tleft, cleanVars, lineVars>>
TimerSleepInverted ==
  /\ tpc = "sleep"
  /\ tpc' = IF run_thread THEN "exit" ELSE "lock"
  /\ UNCHANGED <<wlock, wbmap, tail, hand, clientVars, valmap, tleft, cleanVars, lineVars>>

\* The wait for StackTimeup seconds in slices of 100ms, left early when the
\* daemon stops.
TimerSleep ==
  /\ tpc = "sleep"
  /\ tpc' = IF run_thread THEN "lock" ELSE "exit"
  /\ UNCHANGED <<wlock, wbmap, tail, hand, clientVars, valmap, tleft, cleanVars, lineVars>>

TimerLock ==
  /\ tpc = "lock"
  /\ wlock = "free"
  /\ wlock' = "timer"
  /\ tleft' = wbmap
  /\ tpc' = "scan"
  /\ UNCHANGED <<wbmap, tail, hand, clientVars, valmap, cleanVars, lineVars>>

TimerScan(f) ==
  /\ tpc = "scan"
  /\ run_thread
  /\ f \in tleft
  /\ tleft' = tleft \ {f}
  /\ IF IsStackLimit(f)
       THEN Pop(f) /\ valmap' = [valmap EXCEPT ![f] = stack[f]]
       ELSE UNCHANGED <<stack, aged, valmap>>
  /\ UNCHANGED <<wlock, wbmap, tail, hand, clientVars, tpc, cleanVars, done, out, lost, dropped>>

\* Mutant of TimerUnlock: the lock is not given back.
TimerUnlockForgotten ==
  /\ tpc = "scan"
  /\ tleft = {} \/ ~run_thread
  /\ tleft' = {}
  /\ tpc' = "proc"
  /\ UNCHANGED <<wlock, wbmap, tail, hand, clientVars, valmap, cleanVars, lineVars>>

TimerUnlock ==
  /\ tpc = "scan"
  /\ tleft = {} \/ ~run_thread
  /\ wlock' = "free"
  /\ tleft' = {}
  /\ tpc' = "proc"
  /\ UNCHANGED <<wbmap, tail, hand, clientVars, valmap, cleanVars, lineVars>>

\* Mutant of TimerProcess: the processed line stays in valmap.
TimerProcessKeeps(f) ==
  /\ tpc = "proc"
  /\ valmap[f] # <<>>
  /\ PutOut(Head(valmap[f]))
  /\ UNCHANGED <<wlock, wbmap, tail, hand, clientVars, valmap, tpc, tleft, cleanVars, done, stack, aged, dropped>>

\* The batches are processed after the unlock.
TimerProcess(f) ==
  /\ tpc = "proc"
  /\ valmap[f] # <<>>
  /\ PutOut(Head(valmap[f]))
  /\ valmap' = [valmap EXCEPT ![f] = Tail(@)]
  /\ UNCHANGED <<wlock, wbmap, tail, hand, clientVars, tpc, tleft, cleanVars, done, stack, aged, dropped>>

TimerDone ==
  /\ tpc = "proc"
  /\ \A f \in Files : valmap[f] = <<>>
  /\ tpc' = "sleep"
  /\ UNCHANGED <<wlock, wbmap, tail, hand, clientVars, valmap, tleft, cleanVars, lineVars>>

-----------------------------------------------------------------------------
(* K2hFtManage::Clean up to the end of CloseAll.  exit_lockval is taken    *)
(* once and never given back, so there is one cleaner.                     *)

\* Mutant of CleanStart: the timeup thread is not waited for.
CleanStartNoJoin ==
  /\ cpc = "up"
  /\ SignalExit \/ \A p \in Procs : pc[p] = "idle"
  /\ run_thread' = FALSE
  /\ cpc' = "lock"
  /\ UNCHANGED <<wlock, wbmap, tail, hand, clientVars, timerVars, cleft, cfile, lineVars>>

\* From h2htpfs_destroy, when no worker runs any more, or from the signal
\* handler, at any time.
CleanStart ==
  /\ cpc = "up"
  /\ SignalExit \/ \A p \in Procs : pc[p] = "idle"
  /\ run_thread' = FALSE
  /\ cpc' = IF run_thread THEN "join" ELSE "lock"
  /\ UNCHANGED <<wlock, wbmap, tail, hand, clientVars, timerVars, cleft, cfile, lineVars>>

\* pthread_join
CleanJoin ==
  /\ cpc = "join"
  /\ tpc = "exit"
  /\ cpc' = "lock"
  /\ UNCHANGED <<wlock, wbmap, tail, hand, clientVars, timerVars, run_thread, cleft, cfile, lineVars>>

CloseAllLock ==
  /\ cpc = "lock"
  /\ wlock = "free"
  /\ wlock' = "cleaner"
  /\ cleft' = wbmap
  /\ cpc' = "next"
  /\ UNCHANGED <<wbmap, tail, hand, clientVars, timerVars, run_thread, cfile, lineVars>>

CloseAllNext(f) ==
  /\ cpc = "next"
  /\ f \in cleft
  /\ cfile' = f
  /\ cleft' = cleft \ {f}
  /\ cpc' = "force"
  /\ UNCHANGED <<wlock, wbmap, tail, hand, clientVars, timerVars, run_thread, lineVars>>

\* Workers inside K2hFtWriteBuff::StringPush or BinaryPush on file f.
Pushers(f) == {p \in Procs \ stale : pc[p] = "push" /\ File(p) = f}

\* K2hFtWriteBuff::Push with K2HFT_INVALID_PID, one pid: its tail becomes a
\* line and its input buffer is deleted, also under a worker that fills it.
CloseAllForce(p) ==
  /\ cpc = "force"
  /\ p \in tail[cfile] \cup Pushers(cfile)
  /\ IF p \in tail[cfile] THEN StackPush(cfile, p) ELSE UNCHANGED <<done, stack, dropped>>
  /\ tail' = [tail EXCEPT ![cfile] = @ \ {p}]
  /\ stale' = stale \cup ({p} \cap Pushers(cfile))
  /\ UNCHANGED <<wlock, wbmap, hand, opened, pc, req, timerVars, cleanVars, aged, out, lost>>

CloseAllPop ==
  /\ cpc = "force"
  /\ tail[cfile] \cup Pushers(cfile) = {}
  /\ Pop(cfile)
  /\ hand' = [hand EXCEPT !["cleaner"] = stack[cfile]]
  /\ cpc' = "proc"
  /\ UNCHANGED <<wlock, wbmap, tail, clientVars, timerVars, run_thread, cleft, cfile,
                 done, out, lost, dropped>>

CloseAllProcess ==
  /\ cpc = "proc"
  /\ hand["cleaner"] # <<>>
  /\ PutOut(Head(hand["cleaner"]))
  /\ hand' = [hand EXCEPT !["cleaner"] = Tail(@)]
  /\ UNCHANGED <<wlock, wbmap, tail, clientVars, timerVars, cleanVars, done, stack, aged, dropped>>

\* Workers that hold the buffer of file f.
Holders(f) == {p \in Procs : pc[p] \in {"bin", "push", "limit", "pop"} /\ File(p) = f}

\* The buffer is deleted with what was stacked in it since the pop.
CloseAllDelete ==
  /\ cpc = "proc"
  /\ hand["cleaner"] = <<>>
  /\ wbmap' = wbmap \ {cfile}
  /\ stale' = stale \cup Holders(cfile)
  /\ Pop(cfile)
  /\ lost' = lost \cup Elems(stack[cfile])
  /\ tail' = [tail EXCEPT ![cfile] = {}]
  /\ cfile' = NoFile
  /\ cpc' = "next"
  /\ UNCHANGED <<wlock, hand, opened, pc, req, timerVars, run_thread, cleft, done, out, dropped>>

\* Mutant of CloseAllUnlock: the loop ends early.
CloseAllUnlockEarly ==
  /\ cpc = "next"
  /\ wlock' = "free"
  /\ cpc' = "done"
  /\ UNCHANGED <<wbmap, tail, hand, clientVars, timerVars, run_thread, cleft, cfile, lineVars>>

CloseAllUnlock ==
  /\ cpc = "next"
  /\ cleft = {}
  /\ wlock' = "free"
  /\ cpc' = "done"
  /\ UNCHANGED <<wbmap, tail, hand, clientVars, timerVars, run_thread, cleft, cfile, lineVars>>

-----------------------------------------------------------------------------
\* Time passes: the first line of f is now older than StackTimeup.
Age(f) ==
  /\ stack[f] # <<>>
  /\ f \notin aged
  /\ aged' = aged \cup {f}
  /\ UNCHANGED <<wlock, wbmap, tail, hand, clientVars, timerVars, cleanVars,
                 done, stack, out, lost, dropped>>

Issue(p) ==
  \E o \in Opens :
    \/ \E n \in 0 .. MaxLines[p], rest \in BOOLEAN : Write(p, o, n, rest)
    \/ Flush(p, o)
    \/ Release(p, o)

Worker(p) ==
  \/ FindForWrite(p) \/ FindForClose(p) \/ GetBinBuff(p)
  \/ PushLine(p) \/ PushTail(p)
  \/ CheckLimit(p) \/ PopBatch(p) \/ ProcessLine(p)
  \/ LoseLine(p) \/ LeaveFreed(p)

Timer ==
  \/ TimerSleep \/ TimerLock
  \/ \E f \in Files : TimerScan(f)
  \/ TimerUnlock
  \/ \E f \in Files : TimerProcess(f)
  \/ TimerDone

Cleaner ==
  \/ CleanJoin \/ CloseAllLock
  \/ \E f \in Files : CloseAllNext(f)
  \/ \E p \in Procs : CloseAllForce(p)
  \/ CloseAllPop \/ CloseAllProcess \/ CloseAllDelete \/ CloseAllUnlock

\* The daemon has come down and no request is left.
Stopped ==
  /\ cpc = "done"
  /\ \A p \in Procs : pc[p] = "idle"
  /\ UNCHANGED vars

Next ==
  \/ \E p \in Procs : Issue(p) \/ Worker(p)
  \/ Timer
  \/ CleanStart \/ Cleaner
  \/ \E f \in Files : Age(f)
  \/ Stopped

Spec == Init /\ [][Next]_vars

(***************************************************************************)
(* Fairness.  Every thread that can go on does: weak fairness of each      *)
(* worker, of the timeup thread and of the cleaner.  wstack_lockval is a   *)
(* spin lock, so a worker gets it only if it finds it free often enough:   *)
(* the timeup thread holds it for one scan and then sleeps at least 100ms, *)
(* which is what strong fairness of the two Find steps stands for.  Time   *)
(* passes.  Nothing obliges a process to write, to close or to stop the    *)
(* daemon.                                                                 *)
(***************************************************************************)
Fairness ==
  /\ \A p \in Procs : WF_vars(Worker(p)) /\ SF_vars(FindForWrite(p) \/ FindForClose(p))
  /\ WF_vars(Timer)
  /\ WF_vars(Cleaner)
  /\ \A f \in Files : WF_vars(Age(f))

FairSpec == Spec /\ Fairness

-----------------------------------------------------------------------------
\* The types of the variables.
TypeOK ==
  /\ wlock \in {"free", "timer", "cleaner"}
  /\ wbmap \subseteq Files
  /\ tail \in [Files -> SUBSET Procs]
  /\ done \in [Files -> [Procs -> Nat]]
  /\ stack \in [Files -> Seq(Line)]
  /\ aged \subseteq Files
  /\ opened \subseteq Opens
  /\ pc \in [Procs -> {"idle", "find", "bin", "push", "limit", "pop", "proc"}]
  /\ req \in [Procs -> Request]
  /\ stale \subseteq Procs
  /\ hand \in [Actors -> Seq(Line)]
  /\ valmap \in [Files -> Seq(Line)]
  /\ tpc \in {"sleep", "lock", "scan", "proc", "exit"}
  /\ tleft \subseteq Files
  /\ run_thread \in BOOLEAN
  /\ cpc \in {"up", "join", "lock", "next", "force", "proc", "done"}
  /\ cleft \subseteq Files
  /\ cfile \in Files \cup {NoFile}
  /\ out \in [Files -> Seq(Line)]
  /\ lost \subseteq Line
  /\ dropped \subseteq Line

\* Which step goes with which data: a thread has a batch in its hand exactly
\* while it processes it, so no pop overwrites a batch that is not finished,
\* and valmap has no batch of a file the scan is still to come to.
StepOK ==
  /\ \A p \in Procs :
       /\ (pc[p] = "idle") <=> (req[p].open = NoOpen)
       /\ (pc[p] = "idle") <=> (req[p].op = "none")
       /\ (pc[p] = "proc") <=> (hand[p] # <<>>)
       /\ p \in stale => pc[p] \in {"bin", "push", "limit", "pop"}
  /\ cpc # "proc" => hand["cleaner"] = <<>>
  /\ (cpc \in {"force", "proc"}) <=> (cfile # NoFile)
  /\ (cpc \in {"next", "force", "proc"}) <=> (wlock = "cleaner")
  /\ tpc = "scan" <=> wlock = "timer"
  /\ tpc # "scan" => tleft = {}
  /\ \A f \in Files : valmap[f] # <<>> => tpc \in {"scan", "proc"} /\ f \notin tleft

-----------------------------------------------------------------------------
(* Where the lines are.                                                    *)

Finished(l) == l.no \in 1 .. done[l.file][l.pid]

\* The sequences a line can be in: the stack of its file, a batch in the hand
\* of a worker, the cleaner or the timeup thread, the output of its file.
Spots == ({"stack", "valmap", "out"} \X Files) \cup ({"hand"} \X Actors)

SeqAt(x) ==
  CASE x[1] = "stack"  -> stack[x[2]]
    [] x[1] = "valmap" -> valmap[x[2]]
    [] x[1] = "out"    -> out[x[2]]
    [] x[1] = "hand"   -> hand[x[2]]

At(x) == Elems(SeqAt(x))

NoRepeat(s) == \A i, j \in DOMAIN s : s[i] = s[j] => i = j

\* A finished line is nowhere twice: not in two places, not twice in one,
\* and never also counted as lost or dropped.  Two threads pop one stack, and
\* nothing but the swap inside Pop keeps them from taking the same lines.
AtMostOnce ==
  /\ \A x \in Spots : NoRepeat(SeqAt(x))
  /\ \A x, y \in Spots : x # y => At(x) \cap At(y) = {}
  /\ \A x \in Spots : At(x) \cap (lost \cup dropped) = {}
  /\ lost \cap dropped = {}

\* Only finished lines are anywhere, and every finished line is somewhere:
\* stacked, in a batch somebody holds, put out, or given up for a reason the
\* code reports (rejected by the rule or the limit, output failed, freed).
Somewhere ==
  LET all == (UNION {At(x) : x \in Spots}) \cup lost \cup dropped
  IN  /\ \A l \in all : Finished(l)
      /\ \A f \in Files, p \in Procs : \A n \in 1 .. done[f][p] :
           [file |-> f, pid |-> p, no |-> n] \in all

\* Every line a write() has finished is in exactly one place.
ExactlyOnce == AtMostOnce /\ Somewhere

\* Lines of one pid on one file, in the order it finished them.
Ascending(s) ==
  \A i, j \in DOMAIN s : i < j /\ s[i].pid = s[j].pid => s[i].no < s[j].no

\* A batch, and the stack it is made from, keep the order of each writer, also
\* when two writers push and others pop at the same time.
BatchesInOrder ==
  /\ \A f \in Files : Ascending(stack[f]) /\ Ascending(valmap[f])
  /\ \A a \in Actors : Ascending(hand[a])

\* A line that still waits in the stack is newer than every line of its
\* writer that has left it: batches of one file may overtake each other after
\* the unlock, but nothing overtakes the stack itself.
StackIsNewest ==
  \A f \in Files :
    \A i \in DOMAIN stack[f] :
      LET l == stack[f][i]
      IN  \A x \in Spots \ {<<"stack", f>>} :
            \A m \in At(x) : m.file = f /\ m.pid = l.pid => m.no < l.no

\* When no worker is between its push and its limit check on a file, the
\* stack holds no more than StackLineMax lines: whoever pushed last has looked.
BacklogBound ==
  \A f \in Files :
    Holders(f) = {} /\ cfile # f => Len(stack[f]) <= StackLineMax

\* The open file descriptions through which p writes to f.
OpensOf(f, p) == {o \in Opens : FileOf[o] = f /\ p \in Users[o]}

\* No finished line of p waits in the stack of f.
NoLines(f, p) == \A l \in Elems(stack[f]) : l.pid # p

\* All p can write to f through is closed, and no request works on it.
ClosedFor(f, p) ==
  /\ \A o \in OpensOf(f, p) : o \notin opened /\ Quiet(o)
  /\ pc[p] # "idle" => File(p) # f

\* h2htpfs_release pops the whole stack, whatever pid the kernel sends it with
\* (k2hftman.cc, Close).  So once the last descriptor p writes to f through is
\* released, no finished line of p waits for anybody else; its unfinished line
\* is out too if the releases could only come with the pid of p.
ReleaseFlushes ==
  \A f \in Files, p \in Procs :
    ClosedFor(f, p) /\ cfile # f =>
      /\ NoLines(f, p)
      /\ (\A o \in OpensOf(f, p) : ReleasePids[o] \subseteq {p}) => p \notin tail[f]

\* What the comment on h2htpfs_release promises: "This method is called lastest
\* closing file, so we need to flush stack" -- whoever wrote, nothing waits for
\* the shutdown.
LastCloseFlushes ==
  \A f \in Files, p \in Procs :
    ClosedFor(f, p) /\ cfile # f => NoLines(f, p) /\ p \notin tail[f]

\* CloseAll: "Force push all stack data, because this method is called when
\* shutdown".  When it is over, nothing is waiting or in anybody's hand.
ShutdownFlushes ==
  cpc = "done" =>
    /\ \A f \in Files : tail[f] = {} /\ stack[f] = <<>> /\ valmap[f] = <<>>
    /\ \A a \in Actors : hand[a] = <<>>

\* The timeup thread is joined before CloseAll frees the buffers and before
\* Clean goes on to what Processing uses, and has put out all it had popped.
TimerGoneBeforeCloseAll ==
  cpc \in {"next", "force", "proc", "done"} =>
    tpc = "exit" /\ \A f \in Files : valmap[f] = <<>>

\* A request that has reached the daemon gets its answer, whoever holds the
\* spin locks it waits for.
RequestReturns == \A p \in Procs : pc[p] # "idle" ~> pc[p] = "idle"

\* Once begun, Clean comes to the end of CloseAll: the join waits for a thread
\* that may itself be spinning on wstack_lockval or processing its batches.
CleanEnds == cpc # "up" ~> cpc = "done"

-----------------------------------------------------------------------------
(* What the write path promises is LineConduit: a finished line is pending *)
(* while it is in a stack or in a batch somebody holds.                    *)
Pending == UNION {At(x) : x \in Spots \ ({"out"} \X Files)}

Conduit == INSTANCE LineConduit WITH
  accepted <- done,
  pending  <- Pending,
  emitted  <- out,
  given_up <- lost \cup dropped

\* Push, the pops of four kinds of threads, Processing and CloseAll together
\* take each finished line over once and put it out or give it up once.
ImplementsConduit == Conduit!Spec

\* ... and, when the timeup thread runs, in the end.
ImplementsFairConduit == Conduit!FairSpec
====
