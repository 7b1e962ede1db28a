--------------------------- MODULE PluginManProofs ---------------------------
(***************************************************************************)
(* Proofs about PluginMan, for every set of plugins and workers and any    *)
(* number of processes: the lists agree with the processes, and a plugin   *)
(* of the configuration has one process at a time, while the watch thread  *)
(* reaps and restarts, and the workers replace other plugins.              *)
(***************************************************************************)
EXTENDS PluginMan, TLAPS, FiniteSetTheorems, SequenceTheorems

USE PluginAssumption, NameAssumption

-----------------------------------------------------------------------------
(* Which step goes with which data.                                        *)

\* The threads that start plugins from the stop list, with lockval.
Starters == {Main, Watch}

StartSteps == {"fork", "open", "list"}
StopSteps == {"test", "probe", "hup", "wait", "wait9", "stopped", "unkilled"}

\* A thread in one of these works on the plugin in its arg.
PluginSteps == StartSteps \cup StopSteps \cup {"look", "push"}

\* What a thread is in the middle of.
Work(t) ==
  /\ pc[t] \in PluginSteps => arg[t] \in Plugins
  /\ pc[t] \in {"open", "list"} => new[t] \in Pids /\ proc[new[t]].plug = arg[t]

\* RunPlugins holds lockval and is at the plugin it starts.
AtList(t) ==
  /\ pc[t] \in {"next"} \cup StartSteps <=> lockval = t
  /\ pc[t] \in StartSteps => idx \in DOMAIN stop_plugin /\ stop_plugin[idx] = arg[t]

\* A worker is never given a plugin of the configuration whose file stays.
WorkerSteps(w) ==
  /\ pc[w] \in {"idle", "look"} \cup StartSteps \cup StopSteps
  /\ pc[w] # "idle" => arg[w] \notin Plain

MainSteps ==
  /\ phase = "load" => pc[Main] \in {"idle", "next"} \cup StartSteps
  /\ phase = "stop" => pc[Main] \in {"idle", "push"} \cup StopSteps
  /\ phase \notin {"load", "stop"} => pc[Main] = "idle"

WatchSteps ==
  /\ pc[Watch] \in {"idle", "reaped", "clean", "rerun", "next", "exit"} \cup StartSteps
  /\ pc[Watch] \in {"reaped", "clean"} => child \in Pids /\ proc[child].st = "reaped"

\* A process id is used once; the member pid is that of a child.
PidsOK ==
  /\ \A i \in Pids : i > forks => proc[i].plug = NoPlugin /\ proc[i].st = "none" /\ i \notin lost
  /\ \A p \in Plugins : pl[p].pid # NoPid => proc[pl[p].pid].plug = p

StepOK ==
  /\ \A t \in Threads : Work(t)
  /\ \A t \in Starters : AtList(t)
  /\ \A w \in Workers : WorkerSteps(w)
  /\ MainSteps
  /\ WatchSteps
  /\ PidsOK

Typing == TypeOK /\ StepOK

LEMMA PidFacts == NoPid \notin Pids /\ \A i \in Pids : i \in Nat /\ i > 0 /\ i <= MaxForks
BY DEF NoPid, Pids

LEMMA StoppedType == Stopped \in Plugin /\ Stopped.pid = NoPid
BY DEF Stopped, Plugin

LEMMA InitTyping == Init => Typing
<1> SUFFICES ASSUME Init PROVE TypeOK /\ StepOK
  BY DEF Typing
<1>1. stop_plugin \in Seq(Plugins)
  <2> DEFINE S == Plugins \ Late
  <2>1. Cardinality(S) \in Nat
    BY FS_CardinalityType, FS_Subset
  <2>2. stop_plugin \in [1 .. Cardinality(S) -> S]
    BY DEF Init, Orders
  <2> HIDE DEF S
  <2>3. stop_plugin \in Seq(S)
    BY <2>1, <2>2, SeqDef
  <2>4. S \subseteq Plugins
    BY DEF S
  <2> QED BY <2>3, <2>4, SeqMonotonic
<1>2. TypeOK
  <2>1. /\ pl \in [Plugins -> Plugin]
        /\ run_plugin \in [Pids \cup {NoPid} -> Plugins \cup {NoPlugin}]
        /\ proc \in [Pids -> Process]
    BY StoppedType DEF Init, Process
  <2>2. /\ pc \in [Threads -> {"idle", "next", "fork", "open", "list", "reaped", "clean", "rerun", "exit",
                              "look", "test", "probe", "hup", "wait", "wait9", "stopped", "unkilled",
                              "push"}]
        /\ arg \in [Threads -> Plugins \cup {NoPlugin}]
        /\ new \in [Threads -> Pids \cup {NoPid}]
    BY DEF Init
  <2>3. /\ lockval = "free" /\ idx = 1 /\ child = NoPid /\ again = FALSE /\ thread_exit = FALSE
        /\ phase = "load" /\ tmplist = {} /\ is_error = FALSE /\ hup = {} /\ killed = {}
        /\ astray = FALSE /\ known \subseteq Plugins /\ failed = {} /\ lost = {}
        /\ forks = 0 /\ deaths = 0 /\ changes = 0
    BY DEF Init
  <2>4. forks \in 0 .. MaxForks /\ deaths \in 0 .. MaxDeaths /\ changes \in 0 .. MaxChanges
        /\ idx \in Nat \ {0}
    BY <2>3
  <2> QED BY <1>1, <2>1, <2>2, <2>3, <2>4 DEF TypeOK
<1>3. \A t \in Threads : pc[t] = "idle"
  BY DEF Init
<1>4. StepOK
  <2>1. \A t \in Threads : Work(t)
    BY <1>3 DEF Work, PluginSteps, StartSteps, StopSteps
  <2>2. \A t \in Starters : AtList(t)
    BY <1>3 DEF Init, AtList, StartSteps, Starters, Threads, Main, Watch
  <2>3. \A w \in Workers : WorkerSteps(w)
    BY <1>3 DEF WorkerSteps, Threads
  <2>4. MainSteps /\ WatchSteps
    BY <1>3 DEF Init, MainSteps, WatchSteps, Threads
  <2>5. PidsOK
    BY StoppedType DEF Init, PidsOK
  <2> QED BY <2>1, <2>2, <2>3, <2>4, <2>5 DEF StepOK
<1> QED BY <1>2, <1>4

-----------------------------------------------------------------------------
(* What the helpers do to the members of a thread and of a plugin.         *)

AllSteps == {"idle", "next", "fork", "open", "list", "reaped", "clean", "rerun", "exit", "look",
             "test", "probe", "hup", "wait", "wait9", "stopped", "unkilled", "push"}

LEMMA GotoEffect ==
  ASSUME TypeOK, NEW t \in Threads, NEW step \in AllSteps, Goto(t, step)
  PROVE  /\ pc' \in [Threads -> AllSteps]
         /\ pc'[t] = step
         /\ \A u \in Threads \ {t} : pc'[u] = pc[u]
<1>1. pc \in [Threads -> AllSteps]
  BY DEF TypeOK, AllSteps
<1> QED BY <1>1 DEF Goto

LEMMA LeaveEffect ==
  ASSUME TypeOK, NEW t \in Threads, NEW step \in AllSteps, Leave(t, step)
  PROVE  /\ pc' \in [Threads -> AllSteps]
         /\ pc'[t] = step
         /\ \A u \in Threads \ {t} : pc'[u] = pc[u] /\ arg'[u] = arg[u] /\ new'[u] = new[u]
         /\ arg' \in [Threads -> Plugins \cup {NoPlugin}]
         /\ new' \in [Threads -> Pids \cup {NoPid}]
<1>1. Goto(t, step)
  BY DEF Leave
<1>2. arg \in [Threads -> Plugins \cup {NoPlugin}] /\ new \in [Threads -> Pids \cup {NoPid}]
  BY DEF TypeOK
<1> QED BY <1>1, <1>2, GotoEffect DEF Leave

LEMMA ArgEffect ==
  ASSUME TypeOK, NEW t \in Threads, NEW p \in Plugins, arg' = [arg EXCEPT ![t] = p]
  PROVE  /\ arg' \in [Threads -> Plugins \cup {NoPlugin}]
         /\ arg'[t] = p
         /\ \A u \in Threads \ {t} : arg'[u] = arg[u]
BY DEF TypeOK

LEMMA ResetEffect ==
  ASSUME TypeOK, NEW t \in Threads, NEW p \in Plugins, Reset(t, p)
  PROVE  /\ pc' \in [Threads -> AllSteps]
         /\ pc'[t] = "fork"
         /\ \A u \in Threads \ {t} : pc'[u] = pc[u] /\ arg'[u] = arg[u]
         /\ arg' \in [Threads -> Plugins \cup {NoPlugin}]
         /\ arg'[t] = p
         /\ pl' \in [Plugins -> Plugin]
         /\ pl'[p].pid = NoPid
         /\ \A q \in Plugins \ {p} : pl'[q] = pl[q]
<1>1. pl \in [Plugins -> Plugin]
  BY DEF TypeOK
<1>2. pl' \in [Plugins -> Plugin] /\ pl'[p] = Stopped /\ \A q \in Plugins \ {p} : pl'[q] = pl[q]
  BY <1>1, StoppedType DEF Reset
<1>3. "fork" \in AllSteps
  BY DEF AllSteps
<1> QED BY <1>2, <1>3, StoppedType, GotoEffect, ArgEffect, ZenonT(40) DEF Reset

\* One member of one plugin changes.
LEMMA PidEffect ==
  ASSUME TypeOK, NEW p \in Plugins, NEW i \in Pids \cup {NoPid}, pl' = [pl EXCEPT ![p].pid = i]
  PROVE  /\ pl' \in [Plugins -> Plugin]
         /\ pl'[p].pid = i
         /\ \A q \in Plugins \ {p} : pl'[q] = pl[q]
<1>1. pl \in [Plugins -> Plugin] /\ pl[p] \in Plugin
  BY DEF TypeOK
<1>2. [pl[p] EXCEPT !.pid = i] \in Plugin /\ [pl[p] EXCEPT !.pid = i].pid = i
  BY <1>1 DEF Plugin
<1>3. pl' = [pl EXCEPT ![p] = [pl[p] EXCEPT !.pid = i]]
  OBVIOUS
<1> QED BY <1>1, <1>2, <1>3

LEMMA AutoEffect ==
  ASSUME TypeOK, NEW p \in Plugins, pl' = [pl EXCEPT ![p].auto = FALSE]
  PROVE  pl' \in [Plugins -> Plugin] /\ \A q \in Plugins : pl'[q].pid = pl[q].pid
<1>1. pl \in [Plugins -> Plugin] /\ pl[p] \in Plugin
  BY DEF TypeOK
<1>2. [pl[p] EXCEPT !.auto = FALSE] \in Plugin /\ [pl[p] EXCEPT !.auto = FALSE].pid = pl[p].pid
  BY <1>1 DEF Plugin
<1> QED BY <1>1, <1>2

LEMMA PipeEffect ==
  ASSUME TypeOK, NEW p \in Plugins, pl' = [pl EXCEPT ![p].pipe = FALSE]
  PROVE  pl' \in [Plugins -> Plugin] /\ \A q \in Plugins : pl'[q].pid = pl[q].pid
<1>1. pl \in [Plugins -> Plugin] /\ pl[p] \in Plugin
  BY DEF TypeOK
<1>2. [pl[p] EXCEPT !.pipe = FALSE] \in Plugin /\ [pl[p] EXCEPT !.pipe = FALSE].pid = pl[p].pid
  BY <1>1 DEF Plugin
<1> QED BY <1>1, <1>2

LEMMA OpenEffect ==
  ASSUME TypeOK, NEW p \in Plugins, NEW i \in Pids,
         pl' = [pl EXCEPT ![p].pipe = TRUE, ![p].pid = i]
  PROVE  /\ pl' \in [Plugins -> Plugin]
         /\ pl'[p].pid = i
         /\ \A q \in Plugins \ {p} : pl'[q] = pl[q]
<1>1. pl \in [Plugins -> Plugin] /\ pl[p] \in Plugin
  BY DEF TypeOK
<1> DEFINE r == [pl[p] EXCEPT !.pipe = TRUE, !.pid = i]
<1>2. r \in Plugin /\ r.pid = i
  BY <1>1 DEF Plugin
<1>3. pl'[p] = r /\ pl' \in [Plugins -> Plugin] /\ \A q \in Plugins \ {p} : pl'[q] = pl[q]
  <2>1. DOMAIN pl' = Plugins /\ \A q \in Plugins \ {p} : pl'[q] = pl[q]
    BY <1>1
  <2>2. pl'[p] = r
    BY <1>1
  <2>3. pl' = [q \in Plugins |-> pl'[q]]
    BY <1>1
  <2> QED BY <1>1, <1>2, <2>1, <2>2, <2>3
<1> QED BY <1>2, <1>3

\* The state of one process changes.
LEMMA StateEffect ==
  ASSUME TypeOK, NEW i \in Pids, NEW st \in {"reader", "zombie", "reaped"},
         proc' = [proc EXCEPT ![i].st = st]
  PROVE  /\ proc' \in [Pids -> Process]
         /\ proc'[i].st = st
         /\ \A j \in Pids : proc'[j].plug = proc[j].plug
         /\ \A j \in Pids \ {i} : proc'[j] = proc[j]
<1>1. proc \in [Pids -> Process] /\ proc[i] \in Process
  BY DEF TypeOK
<1>2. /\ [proc[i] EXCEPT !.st = st] \in Process
      /\ [proc[i] EXCEPT !.st = st].st = st
      /\ [proc[i] EXCEPT !.st = st].plug = proc[i].plug
  BY <1>1 DEF Process
<1> QED BY <1>1, <1>2

\* A process more.
LEMMA ForkEffect ==
  ASSUME TypeOK, forks < MaxForks, NEW p \in Plugins \cup {NoPlugin},
         proc' = [proc EXCEPT ![forks + 1] = [plug |-> p, st |-> "born"]]
  PROVE  /\ forks + 1 \in Pids /\ forks + 1 \in 0 .. MaxForks
         /\ proc' \in [Pids -> Process]
         /\ proc'[forks + 1].plug = p /\ proc'[forks + 1].st = "born"
         /\ \A j \in Pids \ {forks + 1} : proc'[j] = proc[j]
<1>1. forks + 1 \in Pids /\ forks + 1 \in 0 .. MaxForks
  BY DEF TypeOK, Pids
<1>2. [plug |-> p, st |-> "born"] \in Process
  BY DEF Process
<1> QED BY <1>1, <1>2 DEF TypeOK

\* The process of a plugin is put into the running list.
LEMMA ListEffect ==
  ASSUME TypeOK, NEW p \in Plugins, run_plugin' = [run_plugin EXCEPT ![pl[p].pid] = p]
  PROVE  /\ run_plugin' \in [Pids \cup {NoPid} -> Plugins \cup {NoPlugin}]
         /\ run_plugin'[pl[p].pid] = p
         /\ \A j \in Pids \cup {NoPid} : j # pl[p].pid => run_plugin'[j] = run_plugin[j]
<1>1. pl[p].pid \in Pids \cup {NoPid}
  BY DEF TypeOK, Plugin
<1> QED BY <1>1 DEF TypeOK

\* One plugin is taken out of the stop list.
LEMMA DropEffect ==
  ASSUME NEW S, NEW s \in Seq(S), NEW k \in DOMAIN s
  PROVE  LET r == SubSeq(s, 1, k - 1) \o SubSeq(s, k + 1, Len(s))
         IN  /\ r \in Seq(S)
             /\ Len(r) = Len(s) - 1
             /\ \A j \in DOMAIN r : r[j] = IF j < k THEN s[j] ELSE s[j + 1]
<1>1. Len(s) \in Nat /\ k \in 1 .. Len(s)
  BY LenProperties
<1> DEFINE u == SubSeq(s, 1, k - 1)
           v == SubSeq(s, k + 1, Len(s))
<1>2. /\ u \in Seq(S) /\ Len(u) = k - 1
      /\ \A j \in 1 .. k - 1 : u[j] = s[j]
  BY <1>1, SubSeqProperties
<1>3. /\ v \in Seq(S) /\ Len(v) = Len(s) - k
      /\ \A j \in 1 .. Len(s) - k : v[j] = s[k + j]
  BY <1>1, SubSeqProperties
<1> HIDE DEF u, v
<1>4. /\ u \o v \in Seq(S) /\ Len(u \o v) = Len(s) - 1
      /\ \A j \in 1 .. Len(s) - 1 : (u \o v)[j] = IF j < k THEN s[j] ELSE s[j + 1]
  <2>1. /\ u \o v \in Seq(S) /\ Len(u \o v) = Len(s) - 1
        /\ \A j \in 1 .. Len(s) - 1 : (u \o v)[j] = IF j <= Len(u) THEN u[j] ELSE v[j - Len(u)]
    <3>1. /\ u \o v \in Seq(S) /\ Len(u \o v) = Len(u) + Len(v)
          /\ \A j \in 1 .. Len(u) + Len(v) : (u \o v)[j] = IF j <= Len(u) THEN u[j] ELSE v[j - Len(u)]
      BY <1>2, <1>3, ConcatProperties, ZenonT(40)
    <3>2. Len(u) + Len(v) = Len(s) - 1
      BY <1>1, <1>2, <1>3
    <3> QED BY <3>1, <3>2
  <2>2. ASSUME NEW j \in 1 .. Len(s) - 1 PROVE (u \o v)[j] = IF j < k THEN s[j] ELSE s[j + 1]
    <3>1. CASE j < k
      BY <1>1, <1>2, <2>1, <3>1
    <3>2. CASE ~(j < k)
      <4>1. j - (k - 1) \in 1 .. Len(s) - k /\ k + (j - (k - 1)) = j + 1
        BY <1>1, <3>2
      <4>2. (u \o v)[j] = v[j - (k - 1)]
        BY <1>1, <1>2, <2>1, <3>2
      <4>3. v[j - (k - 1)] = s[k + (j - (k - 1))]
        BY <1>3, <4>1
      <4> QED BY <3>2, <4>1, <4>2, <4>3
    <3> QED BY <3>1, <3>2
  <2> QED BY <2>1, <2>2
<1>5. DOMAIN (u \o v) = 1 .. Len(s) - 1
  BY <1>4, LenProperties
<1> QED BY <1>4, <1>5 DEF u, v

-----------------------------------------------------------------------------
(* Types.                                                                  *)

LEMMA WorkPlugin ==
  ASSUME StepOK, NEW t \in Threads, pc[t] \in PluginSteps
  PROVE  arg[t] \in Plugins /\ (pc[t] \in {"open", "list"} => new[t] \in Pids)
BY DEF StepOK, Work

\* Main and Watch are no workers, and no lock is called like one of them.
LEMMA ThreadFacts ==
  /\ Main \in Threads /\ Watch \in Threads /\ Starters \subseteq Threads /\ Workers \subseteq Threads
  /\ Main # Watch /\ Main \notin Workers /\ Watch \notin Workers
  /\ Main # "free" /\ Watch # "free"
BY DEF Threads, Main, Watch, Starters

LEMMA NextType == TypeOK /\ StepOK /\ Next => TypeOK'
<1> SUFFICES ASSUME TypeOK, StepOK, Next PROVE TypeOK'
  OBVIOUS
<1> USE DEF pluginVars, lockVars, threadVars, watchVars, mainVars, procVars, sigVars, fileVars
<1>1. ASSUME NEW t \in Threads, Fork(t) PROVE TypeOK'
  <2>1. arg[t] \in Plugins
    BY <1>1, WorkPlugin DEF Fork, PluginSteps, StartSteps
  <2>2. /\ forks + 1 \in Pids /\ forks' \in 0 .. MaxForks
        /\ proc' \in [Pids -> Process]
    BY <1>1, <2>1, ForkEffect DEF Fork
  <2>3. pc' \in [Threads -> AllSteps]
    BY <1>1, GotoEffect DEF Fork, AllSteps
  <2>4. new' \in [Threads -> Pids \cup {NoPid}]
    BY <1>1, <2>2 DEF Fork, TypeOK
  <2> QED BY <1>1, <2>2, <2>3, <2>4 DEF Fork, TypeOK, AllSteps
<1>2. ASSUME NEW t \in Threads, FailStart(t) PROVE TypeOK'
  <2>1. arg[t] \in Plugins
    BY <1>2, WorkPlugin DEF FailStart, PluginSteps, StartSteps
  <2>2. Leave(t, "idle") \/ Leave(t, "next")
    BY <1>2 DEF FailStart, GiveUpStart
  <2>3. /\ pc' \in [Threads -> AllSteps]
        /\ arg' \in [Threads -> Plugins \cup {NoPlugin}]
        /\ new' \in [Threads -> Pids \cup {NoPid}]
    BY <2>2, LeaveEffect DEF AllSteps
  <2>4. failed' \subseteq Plugins /\ idx' \in Nat \ {0}
    BY <1>2, <2>1 DEF FailStart, GiveUpStart, TypeOK
  <2> QED BY <1>2, <2>3, <2>4 DEF FailStart, TypeOK, AllSteps
<1>2a. ASSUME NEW t \in Threads, OpenFails(t) PROVE TypeOK'
  <2>1. arg[t] \in Plugins /\ new[t] \in Pids
    BY <1>2a, WorkPlugin DEF OpenFails, PluginSteps, StartSteps
  <2>2. Leave(t, "idle") \/ Leave(t, "next")
    BY <1>2a DEF OpenFails, GiveUpStart
  <2>3. /\ pc' \in [Threads -> AllSteps]
        /\ arg' \in [Threads -> Plugins \cup {NoPlugin}]
        /\ new' \in [Threads -> Pids \cup {NoPid}]
    BY <2>2, LeaveEffect DEF AllSteps
  <2>4. failed' \subseteq Plugins /\ idx' \in Nat \ {0} /\ lost' \subseteq Pids
    BY <1>2a, <2>1 DEF OpenFails, GiveUpStart, TypeOK
  <2>5. pl' \in [Plugins -> Plugin]
    BY <1>2a, <2>1, PidEffect DEF OpenFails
  <2> QED BY <1>2a, <2>3, <2>4, <2>5 DEF OpenFails, TypeOK, AllSteps
<1>3. ASSUME NEW t \in Threads, OpenPipe(t) PROVE TypeOK'
  <2>1. arg[t] \in Plugins /\ new[t] \in Pids
    BY <1>3, WorkPlugin DEF OpenPipe, PluginSteps, StartSteps
  <2>2. pl' \in [Plugins -> Plugin]
    BY <1>3, <2>1, OpenEffect DEF OpenPipe
  <2>3. pc' \in [Threads -> AllSteps]
    BY <1>3, GotoEffect DEF OpenPipe, AllSteps
  <2> QED BY <1>3, <2>2, <2>3 DEF OpenPipe, TypeOK, AllSteps
<1>4. ASSUME NEW t \in Starters, NextStopped(t) PROVE TypeOK'
  <2>1. CASE pl[stop_plugin[idx]].auto
    <3>1. stop_plugin[idx] \in Plugins
      BY <1>4, ElementOfSeq DEF NextStopped, TypeOK
    <3>2. Reset(t, stop_plugin[idx])
      BY <1>4, <2>1 DEF NextStopped
    <3>3. /\ pl' \in [Plugins -> Plugin]
          /\ pc' \in [Threads -> AllSteps]
          /\ arg' \in [Threads -> Plugins \cup {NoPlugin}]
      BY <3>1, <3>2, ThreadFacts, ResetEffect
    <3> QED BY <1>4, <2>1, <3>3 DEF NextStopped, TypeOK, AllSteps
  <2>2. CASE ~pl[stop_plugin[idx]].auto
    BY <1>4, <2>2 DEF NextStopped, TypeOK
  <2> QED BY <2>1, <2>2
<1>5. ASSUME NEW t \in Starters, ListRestarted(t) PROVE TypeOK'
  <2>1. arg[t] \in Plugins /\ t \in Threads
    BY <1>5, ThreadFacts, WorkPlugin DEF ListRestarted, PluginSteps, StartSteps
  <2>2. run_plugin' \in [Pids \cup {NoPid} -> Plugins \cup {NoPlugin}]
    BY <1>5, <2>1, ListEffect DEF ListRestarted
  <2>3. stop_plugin' \in Seq(Plugins)
    <3>1. idx \in DOMAIN stop_plugin
      BY <1>5 DEF ListRestarted, StepOK, AtList, StartSteps
    <3> QED BY <1>5, <3>1, DropEffect DEF ListRestarted, TypeOK
  <2>4. /\ pc' \in [Threads -> AllSteps]
        /\ arg' \in [Threads -> Plugins \cup {NoPlugin}]
        /\ new' \in [Threads -> Pids \cup {NoPid}]
    BY <1>5, <2>1, LeaveEffect DEF ListRestarted, AllSteps
  <2> QED BY <1>5, <2>2, <2>3, <2>4 DEF ListRestarted, TypeOK, AllSteps
<1>6. ASSUME NEW t \in Starters, EndRun(t) PROVE TypeOK'
  <2>1. pc' \in [Threads -> AllSteps]
    BY <1>6, ThreadFacts, GotoEffect DEF EndRun, AllSteps
  <2>2. phase' \in {phase, "up", "failed"}
    BY <1>6 DEF EndRun, AfterRun
  <2> QED BY <1>6, <2>1, <2>2 DEF EndRun, TypeOK, AllSteps
<1>7. ASSUME NEW i \in Pids, Reap(i) PROVE TypeOK'
  <2>1. proc' \in [Pids -> Process]
    BY <1>7, StateEffect DEF Reap
  <2>2. pc' \in [Threads -> AllSteps]
    BY <1>7, ThreadFacts, GotoEffect DEF Reap, AllSteps
  <2> QED BY <1>7, <2>1, <2>2 DEF Reap, TypeOK, AllSteps
<1>8. ASSUME NEW w \in Workers, NEW p \in Plugins, Reset(w, p)
      PROVE  /\ pl' \in [Plugins -> Plugin]
             /\ pc' \in [Threads -> AllSteps]
             /\ arg' \in [Threads -> Plugins \cup {NoPlugin}]
  BY <1>8, ThreadFacts, ResetEffect
<1>9. ASSUME NEW w \in Workers, NEW p \in Plugins, CreatePlugin(w, p) PROVE TypeOK'
  <2>1. Reset(w, p)
    BY <1>9 DEF CreatePlugin
  <2> QED BY <1>8, <1>9, <2>1 DEF CreatePlugin, TypeOK, AllSteps
<1>10. ASSUME NEW w \in Workers, NEW p \in Plugins, WriteChanged(w, p) PROVE TypeOK'
  <2>1. changes' \in 0 .. MaxChanges
    BY <1>10 DEF WriteChanged, TypeOK
  <2>2. CASE Reset(w, p)
    BY <1>8, <1>10, <2>1, <2>2 DEF WriteChanged, TypeOK, AllSteps
  <2>3. CASE ~Reset(w, p)
    <3>1. Goto(w, "look") /\ arg' = [arg EXCEPT ![w] = p] /\ UNCHANGED pl
      BY <1>10, <2>3 DEF WriteChanged
    <3>2. /\ pc' \in [Threads -> AllSteps]
          /\ arg' \in [Threads -> Plugins \cup {NoPlugin}]
      BY <3>1, ThreadFacts, GotoEffect, ArgEffect DEF AllSteps
    <3> QED BY <1>10, <2>1, <3>1, <3>2 DEF WriteChanged, TypeOK, AllSteps
  <2> QED BY <2>2, <2>3
<1>11. ASSUME NEW w \in Workers, LookRunning(w) PROVE TypeOK'
  <2>1. arg[w] \in Plugins
    BY <1>11, ThreadFacts, WorkPlugin DEF LookRunning, PluginSteps
  <2>2. CASE Reset(w, arg[w])
    BY <1>8, <1>11, <2>1, <2>2 DEF LookRunning, TypeOK, AllSteps
  <2>3. CASE ~Reset(w, arg[w])
    <3>1. Goto(w, "test") /\ UNCHANGED <<arg, pl>>
      BY <1>11, <2>3 DEF LookRunning
    <3>2. pc' \in [Threads -> AllSteps]
      BY <3>1, ThreadFacts, GotoEffect DEF AllSteps
    <3> QED BY <1>11, <3>1, <3>2 DEF LookRunning, TypeOK, AllSteps
  <2> QED BY <2>2, <2>3
<1>12. ASSUME NEW w \in Workers, RunKilled(w) PROVE TypeOK'
  <2>1. arg[w] \in Plugins /\ Reset(w, arg[w])
    BY <1>12, ThreadFacts, WorkPlugin DEF RunKilled, PluginSteps, StopSteps
  <2> QED BY <1>8, <1>12, <2>1 DEF RunKilled, TypeOK, AllSteps
<1>13. ASSUME NEW w \in Workers, ListStarted(w) PROVE TypeOK'
  <2>1. arg[w] \in Plugins /\ w \in Threads
    BY <1>13, ThreadFacts, WorkPlugin DEF ListStarted, PluginSteps, StartSteps
  <2>2. run_plugin' \in [Pids \cup {NoPid} -> Plugins \cup {NoPlugin}] /\ known' \subseteq Plugins
    BY <1>13, <2>1, ListEffect, ZenonT(40) DEF ListStarted, TypeOK
  <2>3. /\ pc' \in [Threads -> AllSteps]
        /\ arg' \in [Threads -> Plugins \cup {NoPlugin}]
        /\ new' \in [Threads -> Pids \cup {NoPid}]
    BY <1>13, <2>1, LeaveEffect DEF ListStarted, AllSteps
  <2> QED BY <1>13, <2>2, <2>3 DEF ListStarted, TypeOK, AllSteps
<1>14. ASSUME NEW t \in Threads, Killer(t) PROVE TypeOK'
  <2>1. PICK step \in AllSteps : Goto(t, step)
    BY <1>14 DEF Killer, KillTest, KillProbe, KillHup, KillWaited, KillHard, KillGiveUp, AllSteps
  <2>2. pc' \in [Threads -> AllSteps]
    BY <2>1, GotoEffect
  <2>3. CASE KillProbe(t)
    <3>1. arg[t] \in Plugins
      BY <2>3, WorkPlugin DEF KillProbe, PluginSteps, StopSteps
    <3>2. pl' = pl \/ pl' = [pl EXCEPT ![arg[t]].auto = FALSE]
      BY <2>3 DEF KillProbe
    <3>3. pl' \in [Plugins -> Plugin]
      BY <3>1, <3>2, AutoEffect DEF TypeOK
    <3> QED BY <2>2, <2>3, <3>3 DEF KillProbe, TypeOK, AllSteps
  <2>4. CASE KillHup(t)
    BY <2>2, <2>4 DEF KillHup, TypeOK, AllSteps
  <2>5. CASE KillHard(t)
    BY <2>2, <2>5 DEF KillHard, TypeOK, AllSteps
  <2>6. CASE KillTest(t) \/ KillWaited(t) \/ KillGiveUp(t)
    BY <2>2, <2>6 DEF KillTest, KillWaited, KillGiveUp, TypeOK, AllSteps
  <2> QED BY <1>14, <2>3, <2>4, <2>5, <2>6 DEF Killer
<1>15. ASSUME NEW x \in tmplist, StopNext(x) PROVE TypeOK'
  <2>1. x[2] \in Plugins /\ tmplist' \subseteq tmplist
    BY <1>15 DEF StopNext, TypeOK
  <2>2. /\ pc' \in [Threads -> AllSteps]
        /\ arg' \in [Threads -> Plugins \cup {NoPlugin}]
    BY <1>15, <2>1, ThreadFacts, GotoEffect, ArgEffect DEF StopNext, AllSteps
  <2> QED BY <1>15, <2>1, <2>2 DEF StopNext, TypeOK, AllSteps
<1>16. ASSUME NEW i \in Pids, OpenFifo(i) \/ Exit(i) PROVE TypeOK'
  <2>1. proc' \in [Pids -> Process]
    BY <1>16, StateEffect DEF OpenFifo, Exit
  <2>2. deaths' \in 0 .. MaxDeaths
    BY <1>16 DEF OpenFifo, Exit, TypeOK
  <2>3. hup' \subseteq Pids /\ killed' \subseteq Pids /\ UNCHANGED <<forks, lost, astray>>
    BY <1>16 DEF OpenFifo, Exit, TypeOK
  <2>4. UNCHANGED <<pluginVars, lockVars, threadVars, watchVars, mainVars, fileVars, failed>>
    BY <1>16 DEF OpenFifo, Exit
  <2> QED BY <2>1, <2>2, <2>3, <2>4 DEF TypeOK
<1>17. ASSUME NEW t \in Starters, EnterRun(t),
              UNCHANGED <<arg, new, pluginVars, watchVars, mainVars, procVars, sigVars, fileVars, failed>>
       PROVE  TypeOK'
  <2>1. pc' \in [Threads -> AllSteps]
    BY <1>17, ThreadFacts, GotoEffect DEF EnterRun, AllSteps
  <2>2. lockval' \in {"free", Main, Watch} /\ idx' \in Nat \ {0}
    BY <1>17 DEF EnterRun, Starters
  <2> QED BY <1>17, <2>1, <2>2 DEF TypeOK, AllSteps
<1>18. CASE Load \/ Rerun
  BY <1>17, <1>18, ThreadFacts DEF Load, Rerun, Starters
<1>19. CASE CallCleanup
  BY <1>19, ThreadFacts DEF CallCleanup, Goto, TypeOK
<1>20. CASE CleanupChildExit
  <2>1. pc' \in [Threads -> AllSteps]
    <3>1. Goto(Watch, "idle") \/ Goto(Watch, "rerun")
      BY <1>20 DEF CleanupChildExit
    <3> QED BY <3>1, ThreadFacts, GotoEffect DEF AllSteps
  <2>2. /\ pl' \in [Plugins -> Plugin]
        /\ run_plugin' \in [Pids \cup {NoPid} -> Plugins \cup {NoPlugin}]
        /\ stop_plugin' \in Seq(Plugins)
    <3>1. CASE run_plugin[child] = NoPlugin
      BY <1>20, <3>1 DEF CleanupChildExit, TypeOK
    <3>2. CASE run_plugin[child] # NoPlugin
      <4>1. child \in Pids
        BY <1>20 DEF CleanupChildExit, StepOK, WatchSteps
      <4>2. run_plugin[child] \in Plugins
        BY <3>2, <4>1 DEF TypeOK
      <4>3. /\ pl' = [pl EXCEPT ![run_plugin[child]].pid = NoPid]
            /\ run_plugin' = [run_plugin EXCEPT ![child] = NoPlugin]
            /\ stop_plugin' = Append(stop_plugin, run_plugin[child])
        BY <1>20, <3>2 DEF CleanupChildExit
      <4>4. pl' \in [Plugins -> Plugin]
        BY <4>2, <4>3, PidEffect
      <4>5. stop_plugin' \in Seq(Plugins)
        BY <4>2, <4>3, AppendProperties DEF TypeOK
      <4> QED BY <4>3, <4>4, <4>5 DEF TypeOK
    <3> QED BY <3>1, <3>2
  <2> QED BY <1>20, <2>1, <2>2 DEF CleanupChildExit, TypeOK, AllSteps
<1>21. CASE WatchExit
  BY <1>21, ThreadFacts DEF WatchExit, Goto, TypeOK
<1>22. CASE StopBegin
  <2>1. tmplist' \subseteq (Pids \cup {NoPid}) \X Plugins
    BY <1>22 DEF StopBegin, TypeOK
  <2> QED BY <1>22, <2>1 DEF StopBegin, TypeOK
<1>23. CASE ClosePipe
  <2>1. arg[Main] \in Plugins
    BY <1>23, ThreadFacts, WorkPlugin DEF ClosePipe, PluginSteps, StopSteps
  <2>2. pl' \in [Plugins -> Plugin]
    BY <1>23, <2>1, PipeEffect DEF ClosePipe
  <2>3. /\ pc' \in [Threads -> AllSteps]
        /\ arg' \in [Threads -> Plugins \cup {NoPlugin}]
        /\ new' \in [Threads -> Pids \cup {NoPid}]
    BY <1>23, ThreadFacts, LeaveEffect DEF ClosePipe, AllSteps
  <2> QED BY <1>23, <2>2, <2>3 DEF ClosePipe, TypeOK, AllSteps
<1>24. CASE ForceStop
  <2>1. arg[Main] \in Plugins
    BY <1>24, ThreadFacts, WorkPlugin DEF ForceStop, PluginSteps, StopSteps
  <2>2. pl' \in [Plugins -> Plugin]
    BY <1>24, <2>1, PidEffect DEF ForceStop
  <2>3. pc' \in [Threads -> AllSteps]
    BY <1>24, ThreadFacts, GotoEffect DEF ForceStop, AllSteps
  <2> QED BY <1>24, <2>2, <2>3 DEF ForceStop, TypeOK, AllSteps
<1>25. CASE PushForced
  <2>1. arg[Main] \in Plugins
    BY <1>25, ThreadFacts, WorkPlugin DEF PushForced, PluginSteps
  <2>2. stop_plugin' \in Seq(Plugins)
    BY <1>25, <2>1, AppendProperties DEF PushForced, TypeOK
  <2>3. pc' \in [Threads -> AllSteps]
    BY <1>25, ThreadFacts, GotoEffect DEF PushForced, AllSteps
  <2> QED BY <1>25, <2>2, <2>3 DEF PushForced, TypeOK, AllSteps
<1>26. CASE StopEnd
  <2>1. run_plugin' \in [Pids \cup {NoPid} -> Plugins \cup {NoPlugin}]
    BY <1>26 DEF StopEnd, TypeOK
  <2> QED BY <1>26, <2>1 DEF StopEnd, TypeOK
<1>27. CASE StopWatchThread \/ JoinWatch
  BY <1>27, ZenonT(40) DEF StopWatchThread, JoinWatch, TypeOK
<1> QED
  BY <1>1, <1>2, <1>2a, <1>3, <1>4, <1>5, <1>6, <1>7, <1>9, <1>10, <1>11, <1>12, <1>13, <1>14, <1>15,
     <1>16, <1>18, <1>19, <1>20, <1>21, <1>22, <1>23, <1>24, <1>25, <1>26, <1>27, ThreadFacts
  DEF Next, Watcher, Worker, Request, MainThread, Starter, Runner, Starters

-----------------------------------------------------------------------------
(* Steps.  A step of one thread has to say what it does to the thread, and *)
(* what it leaves to the others.                                           *)

LEMMA StepByThread ==
  ASSUME TypeOK, StepOK, NEW t \in Threads,
         \A u \in Threads \ {t} : pc'[u] = pc[u] /\ arg'[u] = arg[u] /\ new'[u] = new[u],
         \A i \in Pids : i <= forks => proc'[i].plug = proc[i].plug,
         \A i \in Pids : proc[i].st = "reaped" => proc'[i].st = "reaped",
         t # Watch => child' = child,
         t # Main => phase' = phase,
         \A u \in Starters \ {t} : (lockval' = u <=> lockval = u)
                                     /\ (lockval = u => UNCHANGED <<idx, stop_plugin>>),
         Work(t)',
         t \in Starters => AtList(t)',
         t \in Workers => WorkerSteps(t)',
         t = Main => MainSteps',
         t = Watch => WatchSteps',
         PidsOK'
  PROVE  StepOK'
<1>1. ASSUME NEW u \in Threads \ {t} PROVE Work(u)'
  <2>1. Work(u) /\ pc'[u] = pc[u] /\ arg'[u] = arg[u] /\ new'[u] = new[u]
    BY DEF StepOK
  <2>2. ASSUME pc[u] \in {"open", "list"} PROVE proc'[new[u]].plug = proc[new[u]].plug
    <3>1. new[u] \in Pids /\ proc[new[u]].plug \in Plugins
      BY <2>1, <2>2 DEF Work, PluginSteps, StartSteps
    <3>2. new[u] <= forks
      BY <3>1, PidFacts DEF StepOK, PidsOK, TypeOK
    <3> QED BY <3>1, <3>2
  <2> QED BY <2>1, <2>2 DEF Work
<1>2. ASSUME NEW u \in Starters \ {t} PROVE AtList(u)'
  <2>1. AtList(u) /\ pc'[u] = pc[u] /\ arg'[u] = arg[u]
    BY ThreadFacts DEF StepOK
  <2> QED BY <2>1 DEF AtList
<1>3. ASSUME NEW w \in Workers \ {t} PROVE WorkerSteps(w)'
  <2>1. WorkerSteps(w) /\ pc'[w] = pc[w] /\ arg'[w] = arg[w]
    BY ThreadFacts DEF StepOK
  <2> QED BY <2>1 DEF WorkerSteps, Plain
<1>4. ASSUME t # Main PROVE MainSteps'
  BY <1>4, ThreadFacts DEF StepOK, MainSteps
<1>5. ASSUME t # Watch PROVE WatchSteps'
  BY <1>5, ThreadFacts DEF StepOK, WatchSteps
<1> QED BY <1>1, <1>2, <1>3, <1>4, <1>5 DEF StepOK

LEMMA PidsKept ==
  ASSUME PidsOK, UNCHANGED <<forks, lost>>,
         \A i \in Pids : proc'[i].plug = proc[i].plug /\ (proc'[i].st = "none" <=> proc[i].st = "none"),
         \A p \in Plugins : pl'[p].pid = pl[p].pid \/ pl'[p].pid = NoPid,
         \A p \in Plugins : pl[p].pid \in Pids \cup {NoPid}
  PROVE  PidsOK'
BY DEF PidsOK

LEMMA PidType == TypeOK => \A p \in Plugins : pl[p].pid \in Pids \cup {NoPid}
BY DEF TypeOK, Plugin

\* A step that touches neither the processes nor any process id.
LEMMA PidsStill ==
  ASSUME TypeOK, PidsOK, UNCHANGED <<forks, proc, lost>>, \A p \in Plugins : pl'[p].pid = pl[p].pid \/ pl'[p].pid = NoPid
  PROVE  PidsOK'
BY PidsKept, PidType

LEMMA NextStep == TypeOK /\ StepOK /\ Next => StepOK'
<1> SUFFICES ASSUME TypeOK, StepOK, Next PROVE StepOK'
  OBVIOUS
<1> USE DEF pluginVars, lockVars, threadVars, watchVars, mainVars, procVars, sigVars, fileVars
<1> DEFINE Others(t) == \A u \in Threads \ {t} : pc'[u] = pc[u] /\ arg'[u] = arg[u] /\ new'[u] = new[u]
           PidsLess == \A p \in Plugins : pl'[p].pid = pl[p].pid \/ pl'[p].pid = NoPid
<1>0. PidsOK
  BY DEF StepOK
\* The steps that fork, reap and exit are all that change a process.
<1>1. ASSUME NEW t \in Threads, Others(t), UNCHANGED <<proc, forks>>,
             t # Watch => child' = child,
             t # Main => phase' = phase,
             \A u \in Starters \ {t} : (lockval' = u <=> lockval = u)
                                         /\ (lockval = u => UNCHANGED <<idx, stop_plugin>>),
             Work(t)', PidsOK',
             t \in Starters => AtList(t)', t \in Workers => WorkerSteps(t)',
             t = Main => MainSteps', t = Watch => WatchSteps'
      PROVE  StepOK'
  BY <1>1, StepByThread
<1>2. ASSUME NEW w \in Workers, Others(w), UNCHANGED <<proc, forks, lockVars, stop_plugin, child, phase>>,
             Work(w)', WorkerSteps(w)', PidsOK'
      PROVE  StepOK'
  BY <1>1, <1>2, ThreadFacts DEF Starters
\* A plugin is run: by a worker, ...
<1>3. ASSUME NEW w \in Workers, NEW p \in Plugins \ Plain, Reset(w, p),
             UNCHANGED <<new, procVars, lockVars, stop_plugin, child, phase>>
      PROVE  StepOK'
  <2>1. /\ pc'[w] = "fork" /\ arg'[w] = p
        /\ Others(w)
        /\ PidsLess
    BY <1>3, ThreadFacts, ResetEffect
  <2>2. PidsOK'
    BY <1>0, <1>3, <2>1, PidsStill
  <2>3. Work(w)' /\ WorkerSteps(w)'
    BY <2>1 DEF Work, WorkerSteps, StartSteps, Plain
  <2> QED BY <1>2, <1>3, <2>1, <2>2, <2>3
\* ... or by a starter, at its place in the list.
<1>4. ASSUME NEW t \in Starters, NextStopped(t) PROVE StepOK'
  <2>1. CASE pl[stop_plugin[idx]].auto
    <3>1. stop_plugin[idx] \in Plugins /\ idx \in DOMAIN stop_plugin
      BY <1>4, ElementOfSeq, LenProperties DEF NextStopped, TypeOK
    <3>2. Reset(t, stop_plugin[idx]) /\ UNCHANGED <<new, lockVars, stop_plugin, watchVars, mainVars, procVars>>
      BY <1>4, <2>1 DEF NextStopped
    <3>3. /\ pc'[t] = "fork" /\ arg'[t] = stop_plugin[idx]
          /\ Others(t)
          /\ PidsLess
      BY <3>1, <3>2, ThreadFacts, ResetEffect
    <3>4. PidsOK'
      BY <1>0, <3>2, <3>3, PidsStill
    <3>5. Work(t)' /\ AtList(t)'
      BY <1>4, <3>1, <3>2, <3>3 DEF NextStopped, Work, AtList, StartSteps
    <3>6. pc[t] = "next" /\ MainSteps /\ WatchSteps
      BY <1>4 DEF NextStopped, StepOK
    <3>7. (t = Main => MainSteps') /\ (t = Watch => WatchSteps')
      BY <3>2, <3>3, <3>6 DEF MainSteps, WatchSteps, StartSteps, StopSteps
    <3>8. t \in Threads /\ t \notin Workers
      BY ThreadFacts DEF Starters
    <3> QED BY <1>1, <3>2, <3>3, <3>4, <3>5, <3>7, <3>8
  <2>2. CASE ~pl[stop_plugin[idx]].auto
    <3>1. /\ UNCHANGED <<pl, arg, pc, new, lockval, stop_plugin, watchVars, mainVars, procVars>>
          /\ lockval = t /\ pc[t] = "next"
      BY <1>4, <2>2 DEF NextStopped
    <3>2. AtList(t)' /\ Work(t)'
      BY <3>1 DEF AtList, Work, StartSteps, PluginSteps, StopSteps
    <3>3. PidsOK'
      BY <1>0, <3>1, PidsStill
    <3>4. (t = Main => MainSteps') /\ (t = Watch => WatchSteps')
      BY <3>1 DEF StepOK, MainSteps, WatchSteps
    <3>5. t \in Threads /\ t \notin Workers
      BY ThreadFacts DEF Starters
    <3>6. \A u \in Starters \ {t} : (lockval' = u <=> lockval = u) /\ lockval # u
      BY <3>1
    <3> QED BY <1>1, <3>1, <3>2, <3>3, <3>4, <3>5, <3>6
  <2> QED BY <2>1, <2>2
<1>5. ASSUME NEW t \in Threads, Fork(t) PROVE StepOK'
  <2>1. arg[t] \in Plugins /\ pc[t] = "fork"
    BY <1>5, WorkPlugin DEF Fork, PluginSteps, StartSteps
  <2>2. /\ forks + 1 \in Pids /\ forks \in Nat /\ forks' = forks + 1
        /\ proc'[forks + 1].plug = arg[t] /\ proc'[forks + 1].st = "born"
        /\ \A j \in Pids \ {forks + 1} : proc'[j] = proc[j]
    <3>1. forks \in Nat
      BY DEF TypeOK
    <3> QED BY <1>5, <2>1, <3>1, ForkEffect DEF Fork
  <2>3. pc'[t] = "open" /\ arg' = arg /\ new'[t] = forks + 1 /\ Others(t)
    BY <1>5, GotoEffect DEF Fork, AllSteps, TypeOK
  <2>4. proc[forks + 1].plug = NoPlugin /\ proc[forks + 1].st = "none"
    BY <1>0, <2>2 DEF PidsOK
  <2>5. PidsOK'
    <3>1. \A i \in Pids : i > forks + 1 => proc'[i] = proc[i] /\ i > forks
      BY <2>2, PidFacts
    <3>2. \A p \in Plugins : pl[p].pid # NoPid => pl[p].pid \in Pids /\ pl[p].pid # forks + 1
      BY <1>0, <2>4, PidType DEF PidsOK
    <3>3. \A p \in Plugins : pl[p].pid # NoPid => proc'[pl[p].pid].plug = p
      BY <1>0, <2>2, <3>2 DEF PidsOK
    <3>4. pl' = pl /\ lost' = lost
      BY <1>5 DEF Fork
    <3> QED BY <1>0, <2>2, <3>1, <3>3, <3>4 DEF PidsOK
  <2>6. Work(t)'
    BY <2>1, <2>2, <2>3 DEF Work
  <2>7. UNCHANGED <<lockVars, stop_plugin, child, phase>>
    BY <1>5 DEF Fork
  <2>8. t \in Starters => AtList(t)'
    BY <2>1, <2>3, <2>7 DEF StepOK, AtList, StartSteps
  <2>9. t \in Workers => WorkerSteps(t)'
    BY <2>1, <2>3 DEF StepOK, WorkerSteps, StartSteps, Plain
  <2>10. (t = Main => MainSteps') /\ (t = Watch => WatchSteps')
    <3>1. pc[t] = "fork" /\ MainSteps /\ WatchSteps
      BY <2>1 DEF StepOK
    <3> QED BY <2>3, <2>7, <3>1 DEF MainSteps, WatchSteps, StartSteps, StopSteps
  <2>11. /\ \A i \in Pids : i <= forks => proc'[i].plug = proc[i].plug
         /\ \A i \in Pids : proc[i].st = "reaped" => proc'[i].st = "reaped"
    BY <2>2, <2>4, PidFacts
  <2> QED BY <2>3, <2>5, <2>6, <2>7, <2>8, <2>9, <2>10, <2>11, StepByThread
\* A start is given up: before the fork or after it.
<1>6. ASSUME NEW t \in Threads, FailStart(t) \/ OpenFails(t) PROVE StepOK'
  <2>1. /\ pc[t] \in {"fork", "open"}
        /\ UNCHANGED <<lockval, run_plugin, stop_plugin, watchVars, mainVars, proc, forks>>
        /\ IF t \in Workers THEN Leave(t, "idle") /\ UNCHANGED idx ELSE Leave(t, "next")
    BY <1>6 DEF FailStart, OpenFails, GiveUpStart
  <2>2. Others(t) /\ pc'[t] = IF t \in Workers THEN "idle" ELSE "next"
    BY <2>1, LeaveEffect DEF AllSteps
  <2>3. PidsOK'
    <3>1. CASE FailStart(t)
      BY <1>0, <3>1, PidsStill DEF FailStart
    <3>2. CASE OpenFails(t)
      <4>1. arg[t] \in Plugins /\ new[t] \in Pids /\ proc[new[t]].plug = arg[t]
        BY <3>2, WorkPlugin DEF OpenFails, PluginSteps, StartSteps, StepOK, Work
      <4>2. pl'[arg[t]].pid = NoPid /\ \A q \in Plugins \ {arg[t]} : pl'[q] = pl[q]
        BY <3>2, <4>1, PidEffect DEF OpenFails
      <4>3. \A i \in Pids : i > forks => i # new[t]
        BY <1>0, <4>1 DEF PidsOK
      <4>4. \A i \in Pids : i > forks => i \notin lost'
        BY <1>0, <3>2, <4>3 DEF OpenFails, PidsOK
      <4> QED BY <1>0, <2>1, <4>2, <4>4 DEF PidsOK
    <3> QED BY <1>6, <3>1, <3>2
  <2>4. Work(t)'
    BY <2>2 DEF Work, PluginSteps, StartSteps, StopSteps
  <2>5. CASE t \in Workers
    <3>1. WorkerSteps(t)'
      BY <2>2, <2>5 DEF WorkerSteps
    <3> QED BY <1>2, <2>1, <2>2, <2>3, <2>4, <2>5, <3>1
  <2>6. CASE t \notin Workers
    <3>1. t \in Starters
      BY <2>6 DEF Threads, Starters
    <3>2. AtList(t)' /\ lockval = t
      BY <2>1, <2>2, <2>6, <3>1 DEF StepOK, AtList, StartSteps
    <3>3. (t = Main => MainSteps') /\ (t = Watch => WatchSteps')
      <4>1. MainSteps /\ WatchSteps
        BY DEF StepOK
      <4> QED BY <2>1, <2>2, <2>6, <4>1 DEF MainSteps, WatchSteps, StartSteps, StopSteps
    <3>4. \A u \in Starters \ {t} : (lockval' = u <=> lockval = u) /\ lockval # u
      BY <2>1, <3>2
    <3> QED BY <1>1, <2>1, <2>2, <2>3, <2>4, <2>6, <3>2, <3>3, <3>4
  <2> QED BY <2>5, <2>6
<1>7. ASSUME NEW t \in Threads, OpenPipe(t) PROVE StepOK'
  <2>1. arg[t] \in Plugins /\ new[t] \in Pids /\ pc[t] = "open" /\ proc[new[t]].plug = arg[t]
    BY <1>7, WorkPlugin DEF OpenPipe, PluginSteps, StartSteps, StepOK, Work
  <2>2. /\ pl'[arg[t]].pid = new[t]
        /\ \A q \in Plugins \ {arg[t]} : pl'[q] = pl[q]
    BY <1>7, <2>1, OpenEffect, ZenonT(40) DEF OpenPipe
  <2>3. pc'[t] = "list" /\ UNCHANGED <<arg, new>> /\ Others(t)
    BY <1>7, GotoEffect DEF OpenPipe, AllSteps
  <2>4. UNCHANGED <<lockVars, stop_plugin, watchVars, mainVars, procVars>>
    BY <1>7 DEF OpenPipe
  <2>5. PidsOK'
    BY <1>0, <2>1, <2>2, <2>4 DEF PidsOK
  <2>6. Work(t)'
    BY <2>1, <2>3, <2>4 DEF Work
  <2>7. t \in Starters => AtList(t)'
    BY <2>1, <2>3, <2>4 DEF StepOK, AtList, StartSteps
  <2>8. t \in Workers => WorkerSteps(t)'
    BY <2>1, <2>3 DEF StepOK, WorkerSteps, StartSteps, Plain
  <2>9. (t = Main => MainSteps') /\ (t = Watch => WatchSteps')
    <3>1. MainSteps /\ WatchSteps
      BY DEF StepOK
    <3> QED BY <2>1, <2>3, <2>4, <3>1 DEF MainSteps, WatchSteps, StartSteps, StopSteps
  <2> QED BY <1>1, <2>3, <2>4, <2>5, <2>6, <2>7, <2>8, <2>9
<1>8. ASSUME NEW t \in Starters, ListRestarted(t) PROVE StepOK'
  <2>1. pc[t] = "list" /\ lockval = t /\ UNCHANGED <<lockVars, pl, watchVars, mainVars, procVars>>
    BY <1>8 DEF ListRestarted
  <2>2. pc'[t] = "next" /\ Others(t) /\ t \in Threads /\ t \notin Workers
    BY <1>8, ThreadFacts, LeaveEffect DEF ListRestarted, AllSteps, Starters
  <2>3. PidsOK'
    BY <1>0, <2>1, PidsStill
  <2>4. Work(t)' /\ AtList(t)'
    BY <2>1, <2>2 DEF Work, AtList, PluginSteps, StartSteps, StopSteps
  <2>5. (t = Main => MainSteps') /\ (t = Watch => WatchSteps')
    <3>1. MainSteps /\ WatchSteps
      BY DEF StepOK
    <3> QED BY <2>1, <2>2, <3>1 DEF MainSteps, WatchSteps, StartSteps, StopSteps
  <2>6. \A u \in Starters \ {t} : (lockval' = u <=> lockval = u) /\ lockval # u
    BY <2>1
  <2> QED BY <1>1, <2>1, <2>2, <2>3, <2>4, <2>5, <2>6
<1>9. ASSUME NEW t \in Starters, EndRun(t) PROVE StepOK'
  <2>1. /\ pc[t] = "next" /\ lockval = t /\ lockval' = "free" /\ AfterRun(t)
        /\ UNCHANGED <<arg, new, pluginVars, watchVars, procVars>>
    BY <1>9 DEF EndRun
  <2>2. pc'[t] = "idle" /\ Others(t) /\ t \in Threads /\ t \notin Workers /\ t # "free"
    BY <1>9, ThreadFacts, GotoEffect DEF EndRun, AllSteps, Starters
  <2>3. PidsOK'
    BY <1>0, <2>1, PidsStill
  <2>4. Work(t)' /\ AtList(t)'
    BY <2>1, <2>2 DEF Work, AtList, PluginSteps, StartSteps, StopSteps
  <2>5. (t = Main => MainSteps') /\ (t = Watch => WatchSteps') /\ (t # Main => phase' = phase)
    <3>1. WatchSteps
      BY DEF StepOK
    <3> QED BY <2>1, <2>2, <3>1 DEF AfterRun, MainSteps, WatchSteps, StartSteps, StopSteps
  <2>6. \A u \in Starters \ {t} : (lockval' = u <=> lockval = u) /\ lockval # u
    BY <2>1, ThreadFacts DEF Starters
  <2> QED BY <1>1, <2>1, <2>2, <2>3, <2>4, <2>5, <2>6
<1>10. ASSUME NEW t \in Starters, EnterRun(t), pc[t] = IF t = Main THEN "idle" ELSE "rerun",
              t = Main => phase = "load",
              UNCHANGED <<arg, new, pluginVars, watchVars, mainVars, procVars>>
       PROVE  StepOK'
  <2>1. lockval = "free" /\ lockval' = t
    BY <1>10 DEF EnterRun
  <2>2. pc'[t] = "next" /\ Others(t) /\ t \in Threads /\ t \notin Workers
    BY <1>10, ThreadFacts, GotoEffect DEF EnterRun, AllSteps, Starters
  <2>3. PidsOK'
    BY <1>0, <1>10, PidsStill
  <2>4. Work(t)' /\ AtList(t)'
    BY <2>1, <2>2 DEF Work, AtList, PluginSteps, StartSteps, StopSteps
  <2>5. (t = Main => MainSteps') /\ (t = Watch => WatchSteps')
    <3>1. MainSteps /\ WatchSteps
      BY DEF StepOK
    <3> QED BY <1>10, <2>2, <3>1 DEF MainSteps, WatchSteps, StartSteps, StopSteps
  <2>6. \A u \in Starters \ {t} : (lockval' = u <=> lockval = u) /\ lockval # u
    BY <2>1, ThreadFacts DEF Starters
  <2> QED BY <1>1, <1>10, <2>2, <2>3, <2>4, <2>5, <2>6
<1>11. CASE Load \/ Rerun
  <2>1. CASE Load
    BY <1>10, <2>1 DEF Load, Starters
  <2>2. CASE Rerun
    BY <1>10, <2>2, ThreadFacts DEF Rerun, Starters
  <2> QED BY <1>11, <2>1, <2>2
<1>12. ASSUME NEW i \in Pids, Reap(i) PROVE StepOK'
  <2>1. /\ proc'[i].st = "reaped" /\ child' = i
        /\ \A j \in Pids : proc'[j].plug = proc[j].plug
        /\ \A j \in Pids \ {i} : proc'[j] = proc[j]
    BY <1>12, StateEffect DEF Reap
  <2>2. /\ pc[Watch] = "idle" /\ proc[i].st = "zombie"
        /\ UNCHANGED <<arg, new, forks, lost, pluginVars, lockVars, mainVars>>
    BY <1>12 DEF Reap
  <2>3. pc'[Watch] = "reaped" /\ Others(Watch)
    BY <1>12, <2>2, ThreadFacts, GotoEffect DEF Reap, AllSteps
  <2>4. PidsOK'
    BY <1>0, <2>1, <2>2, PidsKept, PidType
  <2>5. Work(Watch)' /\ WatchSteps' /\ AtList(Watch)'
    <3>1. AtList(Watch)
      BY DEF StepOK, Starters
    <3> QED BY <2>1, <2>2, <2>3, <3>1 DEF Work, WatchSteps, AtList, PluginSteps, StartSteps, StopSteps
  <2> QED BY <2>1, <2>2, <2>3, <2>4, <2>5, ThreadFacts, StepByThread
<1>13. ASSUME NEW i \in Pids, OpenFifo(i) \/ Exit(i) PROVE StepOK'
  <2>1. /\ proc'[i].st \in {"reader", "zombie"} /\ proc[i].st \in {"born", "reader"}
        /\ \A j \in Pids : proc'[j].plug = proc[j].plug
        /\ \A j \in Pids \ {i} : proc'[j] = proc[j]
    BY <1>13, StateEffect DEF OpenFifo, Exit, Live
  <2>2. UNCHANGED <<pc, arg, new, forks, lost, pluginVars, lockVars, watchVars, mainVars>>
    BY <1>13 DEF OpenFifo, Exit
  <2>3. PidsOK'
    BY <1>0, <2>1, <2>2, PidsKept, PidType
  <2>4. (Work(Watch) /\ WatchSteps /\ AtList(Watch))'
    <3>1. Work(Watch) /\ WatchSteps /\ AtList(Watch)
      BY ThreadFacts DEF StepOK, Starters
    <3> QED BY <2>1, <2>2, <3>1 DEF Work, WatchSteps, AtList
  <2> QED BY <2>1, <2>2, <2>3, <2>4, ThreadFacts, StepByThread
\* Workers.
<1>14. ASSUME NEW w \in Workers, NEW p \in Plugins, CreatePlugin(w, p) PROVE StepOK'
  BY <1>3, <1>14 DEF CreatePlugin, Plain
<1>15. ASSUME NEW w \in Workers, NEW step \in {"look", "test"}, Goto(w, step),
              arg'[w] \in Plugins \ Plain, \A u \in Threads \ {w} : arg'[u] = arg[u],
              UNCHANGED <<new, pl, procVars, lockVars, stop_plugin, child, phase>>
       PROVE  StepOK'
  <2>1. pc'[w] = step /\ Others(w)
    BY <1>15, ThreadFacts, GotoEffect DEF AllSteps
  <2>2. Work(w)' /\ WorkerSteps(w)'
    BY <1>15, <2>1 DEF Work, WorkerSteps, StopSteps, Plain
  <2> QED BY <1>0, <1>2, <1>15, <2>1, <2>2, PidsStill
<1>16. ASSUME NEW w \in Workers, NEW p \in Plugins, WriteChanged(w, p) PROVE StepOK'
  <2>1. p \notin Plain /\ UNCHANGED <<new, procVars, lockVars, stop_plugin, child, phase>>
    BY <1>16 DEF WriteChanged, Plain
  <2>2. CASE Reset(w, p)
    BY <1>3, <2>1, <2>2
  <2>3. CASE Goto(w, "look") /\ arg' = [arg EXCEPT ![w] = p] /\ UNCHANGED pl
    <3>1. arg'[w] = p /\ \A u \in Threads \ {w} : arg'[u] = arg[u]
      BY <2>3, ThreadFacts, ArgEffect
    <3> QED BY <1>15, <2>1, <2>3, <3>1
  <2> QED BY <1>16, <2>2, <2>3 DEF WriteChanged
<1>17. ASSUME NEW w \in Workers, LookRunning(w) \/ RunKilled(w) PROVE StepOK'
  <2>1. arg[w] \in Plugins \ Plain
    BY <1>17, ThreadFacts, WorkPlugin DEF LookRunning, RunKilled, PluginSteps, StopSteps, StepOK, WorkerSteps
  <2>2. UNCHANGED <<new, procVars, lockVars, stop_plugin, child, phase>>
    BY <1>17 DEF LookRunning, RunKilled
  <2>3. CASE Reset(w, arg[w])
    BY <1>3, <2>1, <2>2, <2>3
  <2>4. CASE Goto(w, "test") /\ UNCHANGED <<arg, pl>>
    BY <1>15, <2>1, <2>2, <2>4
  <2> QED BY <1>17, <2>3, <2>4 DEF LookRunning, RunKilled
<1>18. ASSUME NEW w \in Workers, ListStarted(w) PROVE StepOK'
  <2>1. UNCHANGED <<pl, stop_plugin, lockVars, watchVars, mainVars, procVars>>
    BY <1>18 DEF ListStarted
  <2>2. pc'[w] = "idle" /\ Others(w)
    BY <1>18, ThreadFacts, LeaveEffect DEF ListStarted, AllSteps
  <2>3. Work(w)' /\ WorkerSteps(w)'
    BY <2>2 DEF Work, WorkerSteps, PluginSteps, StartSteps, StopSteps
  <2> QED BY <1>0, <1>2, <2>1, <2>2, <2>3, PidsStill
\* KillPlugin.
<1>19. ASSUME NEW t \in Workers \cup {Main}, Killer(t) PROVE StepOK'
  <2>1. /\ pc[t] \in StopSteps
        /\ UNCHANGED <<arg, new, stop_plugin, lockVars, watchVars, mainVars, procVars>>
        /\ \E step \in StopSteps : Goto(t, step)
        /\ pl' = pl \/ pl' = [pl EXCEPT ![arg[t]].auto = FALSE]
    BY <1>19 DEF Killer, KillTest, KillProbe, KillHup, KillWaited, KillHard, KillGiveUp, StopSteps
  <2>2. t \in Threads /\ t # Watch
    BY ThreadFacts
  <2>3. pc'[t] \in StopSteps /\ Others(t)
    BY <2>1, <2>2, GotoEffect DEF StopSteps, AllSteps
  <2>4. arg[t] \in Plugins
    BY <2>1, <2>2, WorkPlugin DEF PluginSteps
  <2>5. PidsOK'
    BY <1>0, <2>1, <2>4, AutoEffect, PidsStill
  <2>6. Work(t)'
    BY <2>1, <2>3, <2>4 DEF Work, StopSteps
  <2>7. CASE t \in Workers
    <3>1. WorkerSteps(t)'
      BY <2>1, <2>3, <2>7 DEF StepOK, WorkerSteps, Plain, StopSteps
    <3> QED BY <1>2, <2>1, <2>3, <2>5, <2>6, <2>7, <3>1
  <2>8. CASE t = Main
    <3>1. AtList(Main) /\ MainSteps
      BY DEF StepOK, Starters
    <3>2. (AtList(Main) /\ MainSteps)'
      BY <2>1, <2>3, <2>8, <3>1 DEF AtList, MainSteps, StartSteps, StopSteps
    <3> QED BY <1>1, <2>1, <2>2, <2>3, <2>5, <2>6, <2>8, <3>2, ThreadFacts
  <2> QED BY <2>7, <2>8
\* The watch thread goes on, or waits.
<1>20. ASSUME NEW step \in {"idle", "clean", "rerun", "exit"}, Goto(Watch, step),
              pc[Watch] \in {"idle", "reaped", "clean"},
              step = "clean" => pc[Watch] = "reaped" /\ child' = child,
              UNCHANGED <<arg, new, procVars, lockVars, mainVars>>, PidsLess,
              lockval = "free" \/ UNCHANGED stop_plugin
       PROVE  StepOK'
  <2>1. pc'[Watch] = step /\ Others(Watch)
    BY <1>20, ThreadFacts, GotoEffect DEF AllSteps
  <2>2. WatchSteps /\ AtList(Watch)
    BY DEF StepOK, Starters
  <2>3. Work(Watch)' /\ WatchSteps' /\ AtList(Watch)'
    BY <1>20, <2>1, <2>2 DEF Work, WatchSteps, AtList, PluginSteps, StartSteps, StopSteps
  <2>4. \A u \in Starters \ {Watch} : (lockval' = u <=> lockval = u)
                                        /\ (lockval = u => UNCHANGED <<idx, stop_plugin>>)
    BY <1>20, ThreadFacts DEF Starters
  <2>5. PidsOK'
    BY <1>0, <1>20, PidsStill
  <2> QED BY <1>1, <1>20, <2>1, <2>3, <2>4, <2>5, ThreadFacts
<1>21. CASE CallCleanup \/ WatchExit
  <2>1. CASE CallCleanup
    BY <1>20, <2>1 DEF CallCleanup
  <2>2. CASE WatchExit
    BY <1>20, <2>2 DEF WatchExit
  <2> QED BY <1>21, <2>1, <2>2
<1>22. CASE CleanupChildExit
  <2>1. /\ pc[Watch] = "clean" /\ lockval = "free"
        /\ UNCHANGED <<arg, new, procVars, lockVars, mainVars>>
        /\ Goto(Watch, "idle") \/ Goto(Watch, "rerun")
    BY <1>22 DEF CleanupChildExit
  <2>2. PidsLess
    <3>1. child \in Pids
      BY <2>1 DEF StepOK, WatchSteps
    <3>2. CASE run_plugin[child] = NoPlugin
      BY <1>22, <3>2 DEF CleanupChildExit
    <3>3. CASE run_plugin[child] # NoPlugin
      <4>1. run_plugin[child] \in Plugins
        BY <3>1, <3>3 DEF TypeOK
      <4>2. pl' = [pl EXCEPT ![run_plugin[child]].pid = NoPid]
        BY <1>22, <3>3 DEF CleanupChildExit
      <4> QED BY <4>1, <4>2, PidEffect
    <3> QED BY <3>2, <3>3
  <2> QED BY <1>20, <2>1, <2>2
\* The main thread, when it stops.
<1>23. ASSUME Others(Main), UNCHANGED <<procVars, lockVars, child>>,
              lockval = "free" \/ UNCHANGED stop_plugin,
              PidsLess, Work(Main)', AtList(Main)', MainSteps'
       PROVE  StepOK'
  <2>1. \A u \in Starters \ {Main} : (lockval' = u <=> lockval = u)
                                       /\ (lockval = u => UNCHANGED <<idx, stop_plugin>>)
    BY <1>23, ThreadFacts DEF Starters
  <2>2. PidsOK'
    BY <1>0, <1>23, PidsStill
  <2> QED BY <1>1, <1>23, <2>1, <2>2, ThreadFacts
<1>24. AtList(Main) /\ MainSteps /\ Work(Main)
  BY ThreadFacts DEF StepOK, Starters
<1>25. ASSUME NEW x \in tmplist, StopNext(x) PROVE StepOK'
  <2>1. x[2] \in Plugins
    BY <1>25 DEF TypeOK
  <2>2. pc'[Main] = "test" /\ arg'[Main] = x[2] /\ Others(Main)
    BY <1>25, <2>1, ThreadFacts, GotoEffect, ArgEffect, ZenonT(40) DEF StopNext, AllSteps
  <2>3. Work(Main)' /\ AtList(Main)' /\ MainSteps'
    BY <1>24, <1>25, <2>1, <2>2 DEF StopNext, Work, AtList, MainSteps, StartSteps, StopSteps
  <2> QED BY <1>23, <1>25, <2>2, <2>3 DEF StopNext
<1>26. CASE ClosePipe
  <2>1. arg[Main] \in Plugins /\ pc[Main] = "stopped"
    BY <1>26, ThreadFacts, WorkPlugin DEF ClosePipe, PluginSteps, StopSteps
  <2>2. PidsLess
    BY <1>26, <2>1, PipeEffect DEF ClosePipe
  <2>3. pc'[Main] = "idle" /\ Others(Main)
    BY <1>26, ThreadFacts, LeaveEffect DEF ClosePipe, AllSteps
  <2>4. UNCHANGED <<procVars, lockVars, stop_plugin, child, mainVars>>
    BY <1>26 DEF ClosePipe
  <2>5. Work(Main)' /\ AtList(Main)' /\ MainSteps'
    BY <1>24, <2>1, <2>3, <2>4 DEF Work, AtList, MainSteps, PluginSteps, StartSteps, StopSteps
  <2> QED BY <1>23, <2>2, <2>3, <2>4, <2>5
<1>27. CASE ForceStop
  <2>1. arg[Main] \in Plugins /\ pc[Main] = "unkilled"
    BY <1>27, ThreadFacts, WorkPlugin DEF ForceStop, PluginSteps, StopSteps
  <2>2. PidsLess
    BY <1>27, <2>1, PidEffect DEF ForceStop
  <2>3. pc'[Main] = "push" /\ Others(Main)
    BY <1>27, ThreadFacts, GotoEffect DEF ForceStop, AllSteps
  <2>4. UNCHANGED <<arg, procVars, lockVars, stop_plugin, child, mainVars>>
    BY <1>27 DEF ForceStop
  <2>5. Work(Main)' /\ AtList(Main)' /\ MainSteps'
    BY <1>24, <2>1, <2>3, <2>4 DEF Work, AtList, MainSteps, PluginSteps, StartSteps, StopSteps
  <2> QED BY <1>23, <2>2, <2>3, <2>4, <2>5
<1>28. CASE PushForced
  <2>1. pc[Main] = "push" /\ lockval = "free" /\ UNCHANGED <<arg, new, pl, phase, procVars, lockVars, child>>
    BY <1>28 DEF PushForced
  <2>2. pc'[Main] = "stopped" /\ Others(Main)
    BY <1>28, <2>1, ThreadFacts, GotoEffect DEF PushForced, AllSteps
  <2>3. Work(Main)' /\ AtList(Main)' /\ MainSteps'
    BY <1>24, <2>1, <2>2, ThreadFacts DEF Work, AtList, MainSteps, PluginSteps, StartSteps, StopSteps
  <2> QED BY <1>23, <2>1, <2>2, <2>3
<1>29. ASSUME UNCHANGED <<threadVars, procVars, lockVars, stop_plugin, child, pl>>,
              pc[Main] = "idle", phase' # "load"
       PROVE  StepOK'
  <2>1. Work(Main)' /\ AtList(Main)' /\ MainSteps'
    BY <1>24, <1>29 DEF Work, AtList, MainSteps, PluginSteps, StartSteps, StopSteps
  <2> QED BY <1>23, <1>29, <2>1
<1>30. CASE StopBegin \/ StopEnd
  BY <1>24, <1>29, <1>30 DEF StopBegin, StopEnd, MainSteps
<1>31. CASE StopWatchThread \/ JoinWatch
  BY <1>24, <1>29, <1>31 DEF StopWatchThread, JoinWatch, MainSteps
<1> QED
  BY <1>4, <1>5, <1>6, <1>7, <1>8, <1>9, <1>11, <1>12, <1>13, <1>14, <1>16, <1>17, <1>18, <1>19,
     <1>21, <1>22, <1>25, <1>26, <1>27, <1>28, <1>30, <1>31, ThreadFacts
  DEF Next, Watcher, Worker, Request, MainThread, Starter, Runner, Starters

LEMMA NextTyping == Typing /\ [Next]_vars => Typing'
<1>1. TypeOK /\ StepOK /\ UNCHANGED vars => TypeOK' /\ StepOK'
  <2> SUFFICES ASSUME TypeOK, StepOK, UNCHANGED vars PROVE TypeOK' /\ StepOK'
    OBVIOUS
  <2> USE DEF vars, pluginVars, lockVars, threadVars, watchVars, mainVars, procVars, sigVars, fileVars
  <2>1. TypeOK'
    BY DEF TypeOK
  <2>2. (\A t \in Threads : Work(t))' /\ (\A t \in Starters : AtList(t))' /\ (\A w \in Workers : WorkerSteps(w))'
    BY DEF StepOK, Work, AtList, WorkerSteps, Plain
  <2>3. MainSteps' /\ WatchSteps' /\ PidsOK'
    BY DEF StepOK, MainSteps, WatchSteps, PidsOK
  <2> QED BY <2>1, <2>2, <2>3 DEF StepOK
<1> QED BY <1>1, NextType, NextStep DEF Typing

\* The variables have the types TypeOK gives them, in every reachable state.
THEOREM TypeCorrect == Spec => []TypeOK
<1>1. Spec => []Typing
  BY InitTyping, NextTyping, PTL DEF Spec
<1>2. Typing => TypeOK
  BY DEF Typing
<1> QED BY <1>1, <1>2, PTL

-----------------------------------------------------------------------------
(* Where a plugin of the configuration is.  It is in the stop list with no *)
(* process that is left, or being started from there, or in the running    *)
(* list with one process.                                                  *)

InStop(p) == \E k \in DOMAIN stop_plugin : stop_plugin[k] = p
OnceInStop(p) == \A j, k \in DOMAIN stop_plugin : stop_plugin[j] = p /\ stop_plugin[k] = p => j = k

\* All children of p whose start has not failed, but i, are reaped.
ReapedBut(p, i) == \A j \in Own(p) : j # i => proc[j].st = "reaped"

\* If i is reaped, then by the watch thread, which has not looked for it yet.
Tracked(i) == proc[i].st = "reaped" => pc[Watch] \in {"reaped", "clean"} /\ child = i

Starting(t, p) == pc[t] \in {"open", "list"} /\ arg[t] = p

InStopList(p) ==
  /\ InStop(p)
  /\ InRun(p) = {}
  /\ \A t \in Starters : ~Starting(t, p)
  /\ ReapedBut(p, NoPid)

BeingStarted(p, t) ==
  /\ InStop(p)
  /\ InRun(p) = {}
  /\ Starting(t, p)
  /\ new[t] \notin lost
  /\ ReapedBut(p, new[t])
  /\ Tracked(new[t])
  /\ pc[t] = "list" => pl[p].pid = new[t]

InRunList(p, i) ==
  /\ ~InStop(p)
  /\ InRun(p) = {i}
  /\ \A t \in Starters : ~Starting(t, p)
  /\ i \in Own(p)
  /\ pl[p].pid = i
  /\ ReapedBut(p, i)
  /\ Tracked(i)

Place(p) ==
  /\ OnceInStop(p)
  /\ \/ InStopList(p)
     \/ \E t \in Starters : BeingStarted(p, t)
     \/ \E i \in Pids : InRunList(p, i)

PlaceInv == Running => \A p \in Plain : Place(p)

LEMMA InitPlace == Init => PlaceInv
<1> SUFFICES ASSUME Init, NEW p \in Plain PROVE Place(p)
  BY DEF PlaceInv
<1> DEFINE S == Plugins \ Late
<1>1. p \in S /\ p \in Plugins
  BY DEF Plain
<1>2. IsFiniteSet(S) /\ Cardinality(S) \in Nat
  BY FS_CardinalityType, FS_Subset
<1>3. /\ stop_plugin \in [1 .. Cardinality(S) -> S]
      /\ \A i, j \in DOMAIN stop_plugin : stop_plugin[i] = stop_plugin[j] => i = j
  BY DEF Init, Orders
<1> HIDE DEF S
<1>4. OnceInStop(p)
  BY <1>3 DEF OnceInStop
<1>5. InStop(p)
  <2> DEFINE n == Cardinality(S)
  <2>1. n \in Nat
    BY <1>2
  <2>2. stop_plugin \in Injection(1 .. n, S)
    BY <1>3 DEF Injection, IsInjective
  <2>3. IsFiniteSet(1 .. n) /\ Cardinality(1 .. n) = n
    BY <2>1, FS_Interval
  <2>4. stop_plugin \in Surjection(1 .. n, S)
    BY <1>2, <2>2, <2>3, FS_Injection
  <2> QED BY <1>1, <1>3, <2>4 DEF Surjection, InStop
<1>6. InRun(p) = {} /\ Own(p) = {}
  BY <1>1 DEF Init, InRun, Own, Children
<1>7. \A t \in Starters : ~Starting(t, p)
  BY ThreadFacts DEF Init, Starting
<1> QED BY <1>4, <1>5, <1>6, <1>7 DEF Place, InStopList, ReapedBut
\* What a step leaves alone that is not about p.
LEMMA PlaceKept ==
  ASSUME NEW p \in Plain, Place(p),
         \A i \in Pids : proc'[i].plug = p <=> proc[i].plug = p,
         \A i \in Pids : proc[i].plug = p => (i \in lost' <=> i \in lost),
         \A i \in Pids : proc[i].plug = p => (proc'[i].st = "reaped" <=> proc[i].st = "reaped"),
         \A i \in Pids \cup {NoPid} : run_plugin'[i] = p <=> run_plugin[i] = p,
         InStop(p)' <=> InStop(p),
         OnceInStop(p)',
         pl'[p].pid = pl[p].pid \/ InStopList(p),
         \A t \in Starters : Starting(t, p) => pc'[t] = pc[t] /\ arg'[t] = arg[t] /\ new'[t] = new[t],
         \A t \in Starters : Starting(t, p)' => Starting(t, p),
         \A i \in Pids : proc[i].plug = p /\ Tracked(i) => Tracked(i)',
         \A t \in Starters : Starting(t, p) => proc[new[t]].plug = p /\ new[t] \in Pids
  PROVE  Place(p)'
<1>1. Own(p)' = Own(p) /\ InRun(p)' = InRun(p)
  BY DEF Own, Children, InRun
<1>2. Own(p) \subseteq Pids /\ \A i \in Own(p) : proc[i].plug = p
  BY DEF Own, Children
<1>3. ASSUME NEW i PROVE ReapedBut(p, i) => ReapedBut(p, i)'
  BY <1>1, <1>2 DEF ReapedBut
<1>4. CASE InStopList(p)
  BY <1>1, <1>3, <1>4 DEF Place, InStopList
<1>5. ASSUME NEW t \in Starters, BeingStarted(p, t) PROVE Place(p)'
  <2>1. Starting(t, p) /\ pc'[t] = pc[t] /\ arg'[t] = arg[t] /\ new'[t] = new[t]
    BY <1>5 DEF BeingStarted
  <2>2. Starting(t, p)'
    BY <2>1 DEF Starting
  <2>3. ReapedBut(p, new[t])'
    <3>1. \A j \in Own(p)' : j # new'[t] => proc'[j].st = "reaped"
      BY <1>1, <1>2, <1>5, <2>1 DEF BeingStarted, ReapedBut
    <3> QED BY <3>1 DEF ReapedBut
  <2>4. Tracked(new[t])'
    <3>1. new[t] \in Pids /\ proc[new[t]].plug = p /\ Tracked(new[t])
      BY <1>5, <2>1 DEF BeingStarted
    <3>2. \A i \in Pids : i = new[t] => Tracked(i)'
      BY <3>1
    <3> QED BY <2>1, <3>1, <3>2 DEF Tracked
  <2>5. ~InStopList(p)
    BY <2>1 DEF InStopList
  <2>6. BeingStarted(p, t)'
    BY <1>1, <1>5, <2>1, <2>2, <2>3, <2>4, <2>5 DEF BeingStarted
  <2> QED BY <2>6 DEF Place
<1>6. ASSUME NEW i \in Pids, InRunList(p, i) PROVE Place(p)'
  <2>1. ~InStopList(p) /\ proc[i].plug = p
    BY <1>6 DEF InStopList, InRunList, Own, Children
  <2>2. InRunList(p, i)'
    BY <1>1, <1>3, <1>6, <2>1 DEF InRunList
  <2> QED BY <2>2 DEF Place
<1> QED BY <1>4, <1>5, <1>6 DEF Place

\* Only a child of p is listed as running for p.
LEMMA InRunIsChild ==
  ASSUME NEW p \in Plain, Place(p), NEW i \in Pids \cup {NoPid}, run_plugin[i] = p
  PROVE  InRunList(p, i) /\ i \in Pids /\ proc[i].plug = p
<1>1. i \in InRun(p)
  BY DEF InRun
<1>2. PICK k \in Pids : InRunList(p, k)
  BY <1>1 DEF Place, InStopList, BeingStarted
<1> QED BY <1>1, <1>2 DEF InRunList, Own, Children

\* A plugin that is being started, by whoever holds the lock.
LEMMA StartedByHolder ==
  ASSUME StepOK, NEW p \in Plain, Place(p), NEW t \in Starters, lockval = t, arg[t] = p,
         pc[t] \in StartSteps
  PROVE  /\ InStop(p)
         /\ pc[t] = "fork" => InStopList(p)
         /\ pc[t] # "fork" => BeingStarted(p, t)
<1>1. InStop(p)
  BY DEF StepOK, AtList, InStop
<1>2. \A u \in Starters : Starting(u, p) => u = t
  BY DEF StepOK, AtList, Starting, StartSteps
<1>3. \A i \in Pids : ~InRunList(p, i)
  BY <1>1 DEF InRunList
<1>4. pc[t] # "fork" => Starting(t, p)
  BY DEF Starting, StartSteps
<1> QED BY <1>1, <1>2, <1>3, <1>4 DEF Place, InStopList, BeingStarted, Starting

LEMMA NextPlace ==
  ASSUME Typing, PlaceInv, Next
  PROVE  PlaceInv'
<1> USE DEF Typing, pluginVars, lockVars, threadVars, watchVars, mainVars, procVars, sigVars, fileVars
<1>1. Running' => Running
  <2>1. CASE \E t \in Starters : EndRun(t)
    <3>1. CASE EndRun(Main)
      <4>1. pc[Main] = "next" /\ MainSteps
        BY <3>1 DEF EndRun, StepOK
      <4>2. phase = "load"
        BY <4>1 DEF MainSteps, StopSteps
      <4> QED BY <4>2 DEF Running
    <3>2. CASE EndRun(Watch)
      BY <3>2, ThreadFacts DEF EndRun, AfterRun, Running
    <3> QED BY <2>1, <3>1, <3>2 DEF Starters
  <2>2. CASE StopBegin \/ StopEnd \/ StopWatchThread \/ JoinWatch
    BY <2>2 DEF StopBegin, StopEnd, StopWatchThread, JoinWatch, Running
  <2>3. ASSUME UNCHANGED phase PROVE Running' => Running
    BY <2>3 DEF Running
  <2>4. ASSUME NEW t, Starter(t) \/ OpenFails(t) \/ NextStopped(t) \/ ListRestarted(t) \/ Killer(t) PROVE UNCHANGED phase
    BY <2>4 DEF Starter, Fork, FailStart, OpenPipe, OpenFails, NextStopped, ListRestarted,
       Killer, KillTest, KillProbe, KillHup, KillWaited, KillHard, KillGiveUp
  <2>5. ASSUME Load \/ Rerun \/ CallCleanup \/ CleanupChildExit \/ WatchExit PROVE UNCHANGED phase
    BY <2>5 DEF Load, Rerun, CallCleanup, CleanupChildExit, WatchExit
  <2>6. ASSUME NEW i \in Pids, Reap(i) \/ OpenFifo(i) \/ Exit(i) PROVE UNCHANGED phase
    BY <2>6 DEF Reap, OpenFifo, Exit
  <2>7. ASSUME NEW w, Request(w) \/ LookRunning(w) \/ RunKilled(w) \/ ListStarted(w) PROVE UNCHANGED phase
    BY <2>7 DEF Request, CreatePlugin, WriteChanged, LookRunning, RunKilled, ListStarted
  <2>8. ASSUME ClosePipe \/ ForceStop \/ PushForced \/ \E x \in tmplist : StopNext(x) PROVE UNCHANGED phase
    BY <2>8 DEF ClosePipe, ForceStop, PushForced, StopNext
  <2> QED
    BY <2>1, <2>2, <2>3, <2>4, <2>5, <2>6, <2>7, <2>8
    DEF Next, Watcher, Worker, MainThread, Runner, Starters
<1> SUFFICES ASSUME Running, NEW p \in Plain PROVE Place(p)'
  BY <1>1 DEF PlaceInv, Plain
<1>2. Place(p) /\ p \in Plugins /\ p # NoPlugin
  BY DEF PlaceInv, Plain
<1>3. \A t \in Starters : Starting(t, p) => proc[new[t]].plug = p /\ new[t] \in Pids /\ lockval = t
  BY ThreadFacts, WorkPlugin DEF Starting, StepOK, Work, AtList, PluginSteps, StartSteps
\* Steps that leave the processes and the lists alone.
<1>4. ASSUME UNCHANGED <<proc, lost, run_plugin, stop_plugin>>,
             pl'[p].pid = pl[p].pid \/ InStopList(p),
             \A t \in Starters : Starting(t, p) => pc'[t] = pc[t] /\ arg'[t] = arg[t] /\ new'[t] = new[t],
             \A t \in Starters : Starting(t, p)' => Starting(t, p),
             pc[Watch] \in {"reaped", "clean"} => pc'[Watch] \in {"reaped", "clean"} /\ child' = child
      PROVE  Place(p)'
  <2>1. InStop(p)' <=> InStop(p)
    BY <1>4 DEF InStop
  <2>2. OnceInStop(p)'
    BY <1>2, <1>4 DEF Place, OnceInStop
  <2>3. \A i \in Pids : Tracked(i) => Tracked(i)'
    BY <1>4 DEF Tracked
  <2> QED BY <1>2, <1>3, <1>4, <2>1, <2>2, <2>3, PlaceKept
\* ... and concern one thread that does not start p,
<1>5. ASSUME NEW t \in Threads, UNCHANGED <<proc, lost, run_plugin, stop_plugin, child>>,
             pl'[p].pid = pl[p].pid \/ InStopList(p),
             \A u \in Threads \ {t} : pc'[u] = pc[u] /\ arg'[u] = arg[u] /\ new'[u] = new[u],
             pc[t] \notin {"open", "list"} \/ arg[t] # p,
             pc'[t] \notin {"open", "list"} \/ arg'[t] # p,
             t # Watch
      PROVE  Place(p)'
  <2>1. pc'[Watch] = pc[Watch]
    BY <1>5, ThreadFacts
  <2>2. \A u \in Starters : Starting(u, p) => u # t
    BY <1>5 DEF Starting
  <2>3. \A u \in Starters : Starting(u, p)' => u # t
    BY <1>5 DEF Starting
  <2>4. \A u \in Starters : u # t => (Starting(u, p)' <=> Starting(u, p))
    BY <1>5, ThreadFacts DEF Starting
  <2> QED BY <1>4, <1>5, <2>1, <2>2, <2>3, <2>4, ThreadFacts
\* ... as do all steps of a worker but ListStarted and Fork.
<1>6. ASSUME NEW w \in Workers, UNCHANGED <<proc, lost, run_plugin, stop_plugin, child>>, pl'[p].pid = pl[p].pid,
             \A u \in Threads \ {w} : pc'[u] = pc[u] /\ arg'[u] = arg[u] /\ new'[u] = new[u]
      PROVE  Place(p)'
  <2>1. \A u \in Starters : u # w /\ u \in Threads
    BY ThreadFacts DEF Starters
  <2>2. \A u \in Starters : Starting(u, p)' <=> Starting(u, p)
    BY <1>6, <2>1 DEF Starting
  <2> QED BY <1>4, <1>6, <2>1, <2>2, ThreadFacts DEF Starters
<1>7. \A w \in Workers : pc[w] # "idle" => arg[w] # p
  BY DEF StepOK, WorkerSteps
\* Requests.
<1>8. ASSUME NEW w \in Workers, NEW q \in Plugins \ Plain, Reset(w, q),
             UNCHANGED <<proc, lost, run_plugin, stop_plugin, child, new>>
      PROVE  Place(p)'
  <2>1. /\ \A u \in Threads \ {w} : pc'[u] = pc[u] /\ arg'[u] = arg[u]
        /\ pl'[p] = pl[p]
    BY <1>2, <1>8, ThreadFacts, ResetEffect
  <2> QED BY <1>6, <1>8, <2>1
<1>9. ASSUME NEW w \in Workers, NEW q \in Plugins, CreatePlugin(w, q) PROVE Place(p)'
  BY <1>8, <1>9 DEF CreatePlugin, Plain
<1>10. ASSUME NEW w \in Workers, NEW q \in Plugins, WriteChanged(w, q) PROVE Place(p)'
  <2>1. q \notin Plain /\ UNCHANGED <<proc, lost, run_plugin, stop_plugin, child, new>>
    BY <1>10 DEF WriteChanged, Plain
  <2>2. CASE Reset(w, q)
    BY <1>8, <2>1, <2>2
  <2>3. CASE Goto(w, "look") /\ arg' = [arg EXCEPT ![w] = q] /\ UNCHANGED pl
    <3>1. \A u \in Threads \ {w} : pc'[u] = pc[u] /\ arg'[u] = arg[u]
      BY <2>3, ThreadFacts, GotoEffect, ArgEffect DEF AllSteps
    <3> QED BY <1>6, <2>1, <2>3, <3>1
  <2> QED BY <1>10, <2>2, <2>3 DEF WriteChanged
<1>11. ASSUME NEW w \in Workers, LookRunning(w) \/ RunKilled(w) PROVE Place(p)'
  <2>1. arg[w] \in Plugins \ Plain
    BY <1>11, ThreadFacts, WorkPlugin DEF LookRunning, RunKilled, PluginSteps, StopSteps, StepOK, WorkerSteps
  <2>2. UNCHANGED <<proc, lost, run_plugin, stop_plugin, child, new>>
    BY <1>11 DEF LookRunning, RunKilled
  <2>3. CASE Reset(w, arg[w])
    BY <1>8, <2>1, <2>2, <2>3
  <2>4. CASE Goto(w, "test") /\ UNCHANGED <<arg, pl>>
    <3>1. \A u \in Threads \ {w} : pc'[u] = pc[u]
      BY <2>4, ThreadFacts, GotoEffect DEF AllSteps
    <3> QED BY <1>6, <2>2, <2>4, <3>1
  <2> QED BY <1>11, <2>3, <2>4 DEF LookRunning, RunKilled
\* A process is listed: by a worker, ...
<1>12. ASSUME NEW q \in Plugins \ {p}, run_plugin' = [run_plugin EXCEPT ![pl[q].pid] = q]
       PROVE  \A i \in Pids \cup {NoPid} : run_plugin'[i] = p <=> run_plugin[i] = p
  <2>1. /\ run_plugin'[pl[q].pid] = q
        /\ \A j \in Pids \cup {NoPid} : j # pl[q].pid => run_plugin'[j] = run_plugin[j]
    BY <1>12, ListEffect
  <2>2. pl[q].pid # NoPid => proc[pl[q].pid].plug = q
    BY DEF StepOK, PidsOK
  <2>3. pl[q].pid \in Pids \cup {NoPid}
    BY PidType
  <2>4. run_plugin[pl[q].pid] # p
    BY <1>2, <1>12, <2>2, <2>3, InRunIsChild, PidFacts
  <2> QED BY <1>12, <2>1, <2>4
<1>13. ASSUME NEW w \in Workers, ListStarted(w) PROVE Place(p)'
  <2>1. arg[w] \in Plugins \ {p}
    BY <1>7, <1>13, ThreadFacts, WorkPlugin DEF ListStarted, PluginSteps, StartSteps
  <2>2. UNCHANGED <<proc, lost, stop_plugin, child, pl>>
    BY <1>13 DEF ListStarted
  <2>3. \A u \in Threads \ {w} : pc'[u] = pc[u] /\ arg'[u] = arg[u] /\ new'[u] = new[u]
    BY <1>13, ThreadFacts, LeaveEffect DEF ListStarted, AllSteps
  <2>4. \A i \in Pids \cup {NoPid} : run_plugin'[i] = p <=> run_plugin[i] = p
    BY <1>12, <1>13, <2>1 DEF ListStarted
  <2>5. \A u \in Starters : u \in Threads \ {w}
    BY ThreadFacts DEF Starters
  <2>6. \A u \in Starters : Starting(u, p)' <=> Starting(u, p)
    BY <2>3, <2>5 DEF Starting
  <2>7. \A i \in Pids : Tracked(i) => Tracked(i)'
    BY <2>2, <2>3, <2>5, ThreadFacts DEF Tracked, Starters
  <2>8. (InStop(p)' <=> InStop(p)) /\ OnceInStop(p)'
    BY <1>2, <2>2 DEF InStop, OnceInStop, Place
  <2> QED BY <1>2, <1>3, <2>2, <2>3, <2>4, <2>5, <2>6, <2>7, <2>8, PlaceKept
\* ... or by a starter, which takes it out of the stop list.
<1>14. ASSUME NEW t \in Starters, ListRestarted(t) PROVE Place(p)'
  <2>1. /\ pc[t] = "list" /\ lockval = t
        /\ UNCHANGED <<lockVars, pl, watchVars, mainVars, procVars>>
        /\ stop_plugin' = SubSeq(stop_plugin, 1, idx - 1) \o SubSeq(stop_plugin, idx + 1, Len(stop_plugin))
    BY <1>14 DEF ListRestarted
  <2>2. idx \in DOMAIN stop_plugin /\ stop_plugin[idx] = arg[t] /\ arg[t] \in Plugins /\ new[t] \in Pids
        /\ proc[new[t]].plug = arg[t]
    BY <2>1, ThreadFacts, WorkPlugin DEF StepOK, AtList, Work, PluginSteps, StartSteps
  <2>3. /\ idx \in 1 .. Len(stop_plugin) /\ Len(stop_plugin) \in Nat
        /\ Len(stop_plugin') = Len(stop_plugin) - 1 /\ DOMAIN stop_plugin' = 1 .. Len(stop_plugin) - 1
        /\ \A j \in 1 .. Len(stop_plugin) - 1 :
             stop_plugin'[j] = IF j < idx THEN stop_plugin[j] ELSE stop_plugin[j + 1]
    <3>1. stop_plugin \in Seq(Plugins)
      BY DEF TypeOK
    <3>2. /\ stop_plugin' \in Seq(Plugins)
          /\ Len(stop_plugin') = Len(stop_plugin) - 1
          /\ \A j \in DOMAIN stop_plugin' :
               stop_plugin'[j] = IF j < idx THEN stop_plugin[j] ELSE stop_plugin[j + 1]
      BY <2>1, <2>2, <3>1, DropEffect
    <3> QED BY <2>2, <3>1, <3>2, LenProperties
  <2>4. pc'[t] = "next" /\ \A u \in Threads \ {t} : pc'[u] = pc[u] /\ arg'[u] = arg[u] /\ new'[u] = new[u]
    BY <1>14, <2>1, ThreadFacts, LeaveEffect DEF ListRestarted, AllSteps
  <2>5. run_plugin' = [run_plugin EXCEPT ![pl[arg[t]].pid] = arg[t]]
    BY <1>14 DEF ListRestarted
  <2>6. \A u \in Starters : (Starting(u, p)' <=> Starting(u, p) /\ u # t)
    BY <2>4, ThreadFacts DEF Starting
  <2>7. \A u \in Starters : Starting(u, p) => u = t
    BY <1>3, <2>1
  <2>8. \A i \in Pids : Tracked(i) => Tracked(i)'
    <3>1. pc[Watch] \in {"reaped", "clean"} => Watch # t
      BY <2>1
    <3> QED BY <2>1, <2>4, <3>1, ThreadFacts DEF Tracked
  <2>9. DOMAIN stop_plugin = 1 .. Len(stop_plugin)
    BY LenProperties DEF TypeOK
  <2>10. CASE arg[t] # p
    <3>1. \A i \in Pids \cup {NoPid} : run_plugin'[i] = p <=> run_plugin[i] = p
      BY <1>12, <2>2, <2>5, <2>10
    <3>2. InStop(p)' => InStop(p)
      <4>1. \A j \in 1 .. Len(stop_plugin) - 1 : j + 1 \in 1 .. Len(stop_plugin) /\ j \in 1 .. Len(stop_plugin)
        BY <2>3
      <4> QED BY <2>3, <2>9, <4>1 DEF InStop
    <3>3. InStop(p) => InStop(p)'
      <4>1. ASSUME NEW k \in 1 .. Len(stop_plugin), stop_plugin[k] = p PROVE InStop(p)'
        <5>1. k # idx
          BY <2>2, <2>10, <4>1
        <5>2. CASE k < idx
          <6>1. k \in 1 .. Len(stop_plugin) - 1 /\ stop_plugin'[k] = p
            BY <2>3, <4>1, <5>2
          <6> QED BY <2>3, <6>1 DEF InStop
        <5>3. CASE k > idx
          <6>1. k - 1 \in 1 .. Len(stop_plugin) - 1 /\ ~(k - 1 < idx) /\ (k - 1) + 1 = k
            BY <2>3, <5>3
          <6>2. stop_plugin'[k - 1] = p
            BY <2>3, <4>1, <6>1
          <6> QED BY <2>3, <6>1, <6>2 DEF InStop
        <5> QED BY <2>3, <5>1, <5>2, <5>3
      <4> QED BY <2>9, <4>1 DEF InStop
    <3>4. OnceInStop(p)'
      <4> SUFFICES ASSUME NEW j \in 1 .. Len(stop_plugin) - 1, NEW k \in 1 .. Len(stop_plugin) - 1,
                          stop_plugin'[j] = p, stop_plugin'[k] = p
                   PROVE  j = k
        BY <2>3 DEF OnceInStop
      <4> DEFINE J == IF j < idx THEN j ELSE j + 1
                 K == IF k < idx THEN k ELSE k + 1
      <4>1. J \in DOMAIN stop_plugin /\ K \in DOMAIN stop_plugin /\ (J = K => j = k)
        BY <2>3, <2>9
      <4>2. stop_plugin[J] = p /\ stop_plugin[K] = p
        BY <2>3
      <4>3. J = K
        BY <1>2, <4>1, <4>2 DEF Place, OnceInStop
      <4> QED BY <4>1, <4>3
    <3>5. \A u \in Starters : ~Starting(u, p)
      BY <2>7, <2>10 DEF Starting
    <3> QED BY <1>2, <2>1, <2>6, <2>8, <3>1, <3>2, <3>3, <3>4, <3>5, PlaceKept
  <2>11. CASE arg[t] = p
    <3>1. BeingStarted(p, t)
      BY <1>2, <2>1, <2>11, StartedByHolder DEF StartSteps
    <3>2. pl[p].pid = new[t] /\ InRun(p) = {} /\ ReapedBut(p, new[t]) /\ Tracked(new[t])
      BY <2>1, <3>1 DEF BeingStarted
    <3>3. InRun(p)' = {new[t]}
      <4>1. /\ run_plugin'[new[t]] = p
            /\ \A j \in Pids \cup {NoPid} : j # new[t] => run_plugin'[j] = run_plugin[j]
        BY <2>2, <2>5, <2>11, <3>2, ListEffect
      <4> QED BY <2>2, <3>2, <4>1 DEF InRun
    <3>4. ~InStop(p)' /\ OnceInStop(p)'
      <4> SUFFICES ASSUME NEW j \in 1 .. Len(stop_plugin) - 1, stop_plugin'[j] = p
                   PROVE  FALSE
        BY <2>3 DEF InStop, OnceInStop
      <4> DEFINE J == IF j < idx THEN j ELSE j + 1
      <4>1. J \in DOMAIN stop_plugin /\ J # idx
        BY <2>3, <2>9
      <4>2. stop_plugin[J] = p
        BY <2>3
      <4> QED BY <1>2, <2>2, <2>11, <4>1, <4>2 DEF Place, OnceInStop
    <3>5. Own(p)' = Own(p) /\ new[t] \in Own(p)
      BY <2>1, <2>2, <2>11, <3>1 DEF BeingStarted, Own, Children
    <3>6. \A i : ReapedBut(p, i) => ReapedBut(p, i)'
      BY <2>1, <3>5 DEF ReapedBut
    <3>7. PICK i \in Pids : i = new[t]
      BY <2>2
    <3>8. /\ InRun(p)' = {i} /\ i \in Own(p)' /\ pl'[p].pid = i /\ ReapedBut(p, i)' /\ Tracked(i)'
      BY <2>1, <2>8, <3>2, <3>3, <3>5, <3>6, <3>7
    <3>9. \A u \in Starters : ~Starting(u, p)'
      BY <2>6, <2>7
    <3>10. InRunList(p, i)'
      BY <3>4, <3>8, <3>9 DEF InRunList
    <3> QED BY <3>4, <3>10 DEF Place
  <2> QED BY <2>10, <2>11
\* A plugin is run from the stop list.
<1>15. ASSUME NEW t \in Starters, NextStopped(t) PROVE Place(p)'
  <2>1. pc[t] = "next" /\ lockval = t /\ UNCHANGED <<new, run_plugin, stop_plugin, watchVars, procVars>>
    BY <1>15 DEF NextStopped
  <2>2. t \in Threads /\ \A u \in Starters : Starting(u, p) => FALSE
    BY <1>3, <2>1, ThreadFacts DEF Starting
  <2>3. CASE pl[stop_plugin[idx]].auto
    <3>1. stop_plugin[idx] \in Plugins /\ idx \in DOMAIN stop_plugin
      BY <1>15, ElementOfSeq, LenProperties DEF NextStopped, TypeOK
    <3>2. /\ pc'[t] = "fork"
          /\ \A u \in Threads \ {t} : pc'[u] = pc[u] /\ arg'[u] = arg[u]
          /\ \A q \in Plugins \ {stop_plugin[idx]} : pl'[q] = pl[q]
      BY <1>15, <2>2, <2>3, <3>1, ResetEffect DEF NextStopped
    <3>3. pl'[p].pid = pl[p].pid \/ InStopList(p)
      <4>1. CASE p # stop_plugin[idx]
        BY <1>2, <3>2, <4>1
      <4>2. CASE p = stop_plugin[idx]
        <5>1. InStop(p)
          BY <3>1, <4>2 DEF InStop
        <5> QED BY <1>2, <2>2, <5>1 DEF Place, BeingStarted, InRunList
      <4> QED BY <4>1, <4>2
    <3>4. \A u \in Starters : Starting(u, p)' => Starting(u, p)
      BY <3>2, ThreadFacts DEF Starting
    <3>5. pc[Watch] \in {"reaped", "clean"} => pc'[Watch] = pc[Watch]
      BY <2>1, <3>2, ThreadFacts
    <3> QED BY <1>4, <2>1, <2>2, <3>3, <3>4, <3>5
  <2>4. CASE ~pl[stop_plugin[idx]].auto
    <3>1. UNCHANGED <<pl, arg, pc>>
      BY <1>15, <2>4 DEF NextStopped
    <3>2. \A u \in Starters : Starting(u, p)' <=> Starting(u, p)
      BY <3>1 DEF Starting
    <3> QED BY <1>4, <2>1, <3>1, <3>2
  <2> QED BY <2>3, <2>4
<1>16. ASSUME NEW t \in Threads, Fork(t) PROVE Place(p)'
  <2>1. arg[t] \in Plugins /\ pc[t] = "fork"
    BY <1>16, WorkPlugin DEF Fork, PluginSteps, StartSteps
  <2>2. /\ forks + 1 \in Pids /\ proc[forks + 1].plug = NoPlugin /\ forks + 1 \notin lost
        /\ proc'[forks + 1].plug = arg[t] /\ proc'[forks + 1].st = "born"
        /\ \A j \in Pids \ {forks + 1} : proc'[j] = proc[j]
    <3>1. /\ forks + 1 \in Pids
          /\ proc'[forks + 1].plug = arg[t] /\ proc'[forks + 1].st = "born"
          /\ \A j \in Pids \ {forks + 1} : proc'[j] = proc[j]
      BY <1>16, <2>1, ForkEffect DEF Fork
    <3>2. forks + 1 > forks
      BY DEF TypeOK
    <3> QED BY <3>1, <3>2 DEF StepOK, PidsOK
  <2>3. /\ pc'[t] = "open" /\ new'[t] = forks + 1 /\ UNCHANGED <<arg, lost, pluginVars, watchVars>>
        /\ \A u \in Threads \ {t} : pc'[u] = pc[u] /\ new'[u] = new[u]
    BY <1>16, GotoEffect DEF Fork, AllSteps, TypeOK
  <2>4. pc[Watch] \in {"reaped", "clean"} => pc'[Watch] = pc[Watch]
    BY <2>1, <2>3, ThreadFacts
  <2>5. CASE arg[t] # p
    <3>1. \A i \in Pids : proc[i].plug = p \/ proc'[i].plug = p => proc'[i] = proc[i]
      BY <1>2, <2>2, <2>5
    <3>2. \A i \in Pids : proc[i].plug = p /\ Tracked(i) => Tracked(i)'
      BY <2>3, <2>4, <3>1 DEF Tracked
    <3>3. \A u \in Starters : Starting(u, p) => u # t /\ u \in Threads
      BY <2>5, ThreadFacts DEF Starting
    <3>4. \A u \in Starters : Starting(u, p)' => Starting(u, p)
      BY <2>3, <2>5, ThreadFacts DEF Starting
    <3>5. (InStop(p)' <=> InStop(p)) /\ OnceInStop(p)'
      BY <1>2, <2>3 DEF InStop, OnceInStop, Place
    <3> QED BY <1>2, <1>3, <2>3, <3>1, <3>2, <3>3, <3>4, <3>5, PlaceKept
  <2>6. CASE arg[t] = p
    <3>1. t \in Starters /\ lockval = t
      <4>1. t \notin Workers
        BY <1>7, <2>1, <2>6
      <4>2. t \in Starters
        BY <4>1 DEF Threads, Starters
      <4> QED BY <2>1, <4>2 DEF StepOK, AtList, StartSteps
    <3>2. InStopList(p)
      BY <1>2, <2>1, <2>6, <3>1, StartedByHolder DEF StartSteps
    <3>3. InStop(p)' /\ OnceInStop(p)' /\ InRun(p)' = {}
      BY <1>2, <2>3, <3>2 DEF InStop, OnceInStop, Place, InRun, InStopList
    <3>4. ReapedBut(p, new[t])'
      <4>1. \A j \in Pids : j # forks + 1 /\ j \notin lost /\ proc'[j].plug = p => proc'[j].st = "reaped"
        BY <2>2, <3>2, PidFacts DEF InStopList, ReapedBut, Own, Children
      <4> QED BY <2>3, <4>1 DEF ReapedBut, Own, Children
    <3>5. Tracked(new[t])'
      BY <2>2, <2>3 DEF Tracked
    <3>6. Starting(t, p)' /\ pc'[t] # "list" /\ new'[t] \notin lost'
      BY <2>2, <2>3, <2>6 DEF Starting
    <3>7. BeingStarted(p, t)'
      BY <3>3, <3>4, <3>5, <3>6 DEF BeingStarted
    <3> QED BY <3>1, <3>3, <3>7 DEF Place
  <2> QED BY <2>5, <2>6
<1>17. ASSUME NEW t \in Threads, FailStart(t) PROVE Place(p)'
  <2>1. /\ pc[t] = "fork" /\ UNCHANGED <<pluginVars, watchVars, procVars>>
        /\ Leave(t, "idle") \/ Leave(t, "next")
    BY <1>17 DEF FailStart, GiveUpStart
  <2>2. /\ pc'[t] \in {"idle", "next"}
        /\ \A u \in Threads \ {t} : pc'[u] = pc[u] /\ arg'[u] = arg[u] /\ new'[u] = new[u]
    BY <2>1, LeaveEffect DEF AllSteps
  <2>3. \A u \in Starters : (Starting(u, p) => u # t /\ u \in Threads) /\ (Starting(u, p)' => u # t)
    BY <2>1, <2>2, ThreadFacts DEF Starting
  <2>4. \A u \in Starters : Starting(u, p)' => Starting(u, p)
    BY <2>2, <2>3, ThreadFacts DEF Starting
  <2>5. pc[Watch] \in {"reaped", "clean"} => pc'[Watch] = pc[Watch]
    BY <2>1, <2>2, ThreadFacts
  <2> QED BY <1>4, <2>1, <2>2, <2>3, <2>4, <2>5
\* The open fails: back to the stop list, and the child is not counted.
<1>17a. ASSUME NEW t \in Threads, OpenFails(t) PROVE Place(p)'
  <2>1. arg[t] \in Plugins /\ new[t] \in Pids /\ pc[t] = "open" /\ proc[new[t]].plug = arg[t]
    BY <1>17a, WorkPlugin DEF OpenFails, PluginSteps, StartSteps, StepOK, Work
  <2>2. /\ UNCHANGED <<proc, run_plugin, stop_plugin, watchVars>> /\ lost' = lost \cup {new[t]}
        /\ Leave(t, "idle") \/ Leave(t, "next")
        /\ \A q \in Plugins \ {arg[t]} : pl'[q] = pl[q]
    BY <1>17a, <2>1, PidEffect DEF OpenFails, GiveUpStart
  <2>3. /\ pc'[t] \in {"idle", "next"}
        /\ \A u \in Threads \ {t} : pc'[u] = pc[u] /\ arg'[u] = arg[u] /\ new'[u] = new[u]
    BY <2>2, LeaveEffect DEF AllSteps
  <2>4. \A u \in Starters : (Starting(u, p)' => Starting(u, p) /\ u # t) /\ u \in Threads
    BY <2>3, ThreadFacts DEF Starting
  <2>5. (InStop(p)' <=> InStop(p)) /\ OnceInStop(p)'
    BY <1>2, <2>2 DEF InStop, OnceInStop, Place
  <2>6. pc[Watch] \in {"reaped", "clean"} => pc'[Watch] = pc[Watch]
    BY <2>1, <2>3, ThreadFacts
  <2>7. CASE arg[t] # p
    <3>1. \A i \in Pids : proc[i].plug = p => (i \in lost' <=> i \in lost)
      BY <2>1, <2>2, <2>7
    <3>2. \A u \in Starters : Starting(u, p) => u # t
      BY <2>7 DEF Starting
    <3>3. pl'[p] = pl[p] /\ \A i \in Pids : Tracked(i) => Tracked(i)'
      BY <1>2, <2>2, <2>6, <2>7 DEF Tracked
    <3> QED BY <1>2, <1>3, <2>2, <2>3, <2>4, <2>5, <3>1, <3>2, <3>3, PlaceKept
  <2>8. CASE arg[t] = p
    <3>1. t \in Starters /\ lockval = t
      <4>1. t \notin Workers
        BY <1>7, <2>1, <2>8
      <4>2. t \in Starters
        BY <4>1 DEF Threads, Starters
      <4> QED BY <2>1, <4>2 DEF StepOK, AtList, StartSteps
    <3>2. BeingStarted(p, t)
      BY <1>2, <2>1, <2>8, <3>1, StartedByHolder DEF StartSteps
    <3>3. InStop(p)' /\ InRun(p)' = {} /\ ReapedBut(p, NoPid)'
      BY <2>2, <2>5, <3>2 DEF BeingStarted, InRun, ReapedBut, Own, Children
    <3>4. \A u \in Starters : ~Starting(u, p)'
      BY <1>3, <2>4, <3>1
    <3> QED BY <2>5, <3>3, <3>4 DEF Place, InStopList
  <2> QED BY <2>7, <2>8
<1>18. ASSUME NEW t \in Threads, OpenPipe(t) PROVE Place(p)'
  <2>1. arg[t] \in Plugins /\ new[t] \in Pids /\ pc[t] = "open"
    BY <1>18, WorkPlugin DEF OpenPipe, PluginSteps, StartSteps
  <2>2. /\ pl'[arg[t]].pid = new[t]
        /\ \A q \in Plugins \ {arg[t]} : pl'[q] = pl[q]
    BY <1>18, <2>1, OpenEffect DEF OpenPipe
  <2>3. /\ pc'[t] = "list" /\ UNCHANGED <<arg, new, run_plugin, stop_plugin, watchVars, procVars>>
        /\ \A u \in Threads \ {t} : pc'[u] = pc[u]
    BY <1>18, GotoEffect DEF OpenPipe, AllSteps
  <2>4. pc[Watch] \in {"reaped", "clean"} => pc'[Watch] = pc[Watch]
    BY <2>1, <2>3, ThreadFacts
  <2>5. \A u \in Starters : Starting(u, p)' <=> Starting(u, p)
    BY <2>1, <2>3, ThreadFacts DEF Starting
  <2>6. CASE arg[t] # p
    <3>1. \A u \in Starters : Starting(u, p) => u # t /\ u \in Threads
      BY <2>6, ThreadFacts DEF Starting
    <3> QED BY <1>2, <1>4, <2>2, <2>3, <2>4, <2>5, <2>6, <3>1
  <2>7. CASE arg[t] = p
    <3>1. t \in Starters /\ lockval = t
      <4>1. t \notin Workers
        BY <1>7, <2>1, <2>7
      <4>2. t \in Starters
        BY <4>1 DEF Threads, Starters
      <4> QED BY <2>1, <4>2 DEF StepOK, AtList, StartSteps
    <3>2. BeingStarted(p, t)
      BY <1>2, <2>1, <2>7, <3>1, StartedByHolder DEF StartSteps
    <3>3. InStop(p)' /\ OnceInStop(p)' /\ InRun(p)' = {}
      BY <1>2, <2>3, <3>2 DEF InStop, OnceInStop, Place, InRun, BeingStarted
    <3>4. ReapedBut(p, new[t])' /\ Tracked(new[t])' /\ Starting(t, p)'
      BY <2>3, <2>4, <2>5, <3>1, <3>2 DEF BeingStarted, ReapedBut, Own, Children, Tracked
    <3>5. BeingStarted(p, t)'
      BY <2>2, <2>3, <2>7, <3>2, <3>3, <3>4 DEF BeingStarted
    <3> QED BY <3>1, <3>3, <3>5 DEF Place
  <2> QED BY <2>6, <2>7
\* The watch thread reaps a child ...
<1>19. ASSUME NEW i \in Pids, Reap(i) PROVE Place(p)'
  <2>1. /\ proc'[i].st = "reaped" /\ child' = i
        /\ \A j \in Pids : proc'[j].plug = proc[j].plug
        /\ \A j \in Pids \ {i} : proc'[j] = proc[j]
    BY <1>19, StateEffect DEF Reap
  <2>2. /\ pc[Watch] = "idle" /\ proc[i].st = "zombie"
        /\ UNCHANGED <<arg, new, forks, lost, pluginVars, lockVars, mainVars>>
    BY <1>19 DEF Reap
  <2>3. pc'[Watch] = "reaped" /\ \A u \in Threads \ {Watch} : pc'[u] = pc[u]
    BY <1>19, ThreadFacts, GotoEffect DEF Reap, AllSteps
  <2>4. \A u \in Starters : Starting(u, p)' <=> Starting(u, p)
    BY <2>2, <2>3, ThreadFacts DEF Starting
  <2>5. \A u \in Starters : Starting(u, p) => u # Watch /\ u \in Threads
    BY <2>2, ThreadFacts DEF Starting
  <2>6. \A j \in Pids : Tracked(j) => Tracked(j)'
    BY <2>1, <2>2, <2>3 DEF Tracked
  <2>7. Own(p)' = Own(p) /\ InRun(p)' = InRun(p) /\ (InStop(p)' <=> InStop(p)) /\ OnceInStop(p)'
    BY <1>2, <2>1, <2>2 DEF Own, Children, InRun, InStop, OnceInStop, Place
  <2>8. ASSUME NEW k, ReapedBut(p, k) PROVE ReapedBut(p, k)'
    <3>1. \A j \in Own(p) : j # k => proc[j].st = "reaped" /\ j \in Pids
      BY <2>8 DEF ReapedBut, Own, Children
    <3>2. \A j \in Own(p) : j # k => j # i
      BY <2>2, <3>1
    <3> QED BY <2>1, <2>7, <3>1, <3>2 DEF ReapedBut
  <2>9. CASE InStopList(p)
    BY <2>4, <2>7, <2>8, <2>9 DEF Place, InStopList
  <2>10. ASSUME NEW t \in Starters, BeingStarted(p, t) PROVE Place(p)'
    <3>1. Starting(t, p) /\ pc'[t] = pc[t] /\ new'[t] = new[t] /\ new[t] \in Pids
      BY <1>3, <2>2, <2>3, <2>5, <2>10 DEF BeingStarted
    <3>2. ReapedBut(p, new[t])'
      <4>1. \A k : k = new[t] => ReapedBut(p, k)'
        BY <2>8, <2>10 DEF BeingStarted
      <4> QED BY <2>7, <3>1, <4>1 DEF ReapedBut
    <3>3. Tracked(new[t])'
      <4>1. \A k \in Pids : k = new[t] => Tracked(k)'
        BY <2>6, <2>10 DEF BeingStarted
      <4> QED BY <3>1, <4>1 DEF Tracked
    <3>4. BeingStarted(p, t)'
      BY <2>2, <2>4, <2>7, <2>10, <3>1, <3>2, <3>3 DEF BeingStarted
    <3> QED BY <2>7, <3>4 DEF Place
  <2>11. ASSUME NEW k \in Pids, InRunList(p, k) PROVE Place(p)'
    <3>1. InRunList(p, k)'
      BY <2>2, <2>4, <2>6, <2>7, <2>8, <2>11 DEF InRunList
    <3> QED BY <2>7, <3>1 DEF Place
  <2> QED BY <1>2, <2>9, <2>10, <2>11 DEF Place
\* ... and takes it out of the running list.
<1>20. CASE CleanupChildExit
  <2>1. /\ pc[Watch] = "clean" /\ lockval = "free" /\ child \in Pids /\ proc[child].st = "reaped"
        /\ UNCHANGED <<arg, new, procVars, lockVars, mainVars>>
        /\ Goto(Watch, "idle") \/ Goto(Watch, "rerun")
    BY <1>20 DEF CleanupChildExit, StepOK, WatchSteps
  <2>2. pc'[Watch] \in {"idle", "rerun"} /\ \A u \in Threads \ {Watch} : pc'[u] = pc[u]
    BY <2>1, ThreadFacts, GotoEffect DEF AllSteps
  <2>3. \A u \in Starters : ~Starting(u, p)
    BY <1>3, <2>1, ThreadFacts DEF Starters
  <2>4. \A u \in Starters : ~Starting(u, p)'
    BY <2>1, <2>2, <2>3, ThreadFacts DEF Starting
  <2>5. \A i \in Pids : i # child /\ Tracked(i) => Tracked(i)'
    BY <2>1 DEF Tracked
  <2>6. CASE run_plugin[child] # p
    <3>1. UNCHANGED pluginVars \/
            /\ run_plugin[child] \in Plugins
            /\ run_plugin' = [run_plugin EXCEPT ![child] = NoPlugin]
            /\ pl' = [pl EXCEPT ![run_plugin[child]].pid = NoPid]
            /\ stop_plugin' = Append(stop_plugin, run_plugin[child])
      BY <1>20, <2>1 DEF CleanupChildExit, TypeOK
    <3>2. \A i \in Pids \cup {NoPid} : run_plugin'[i] = p <=> run_plugin[i] = p
      BY <1>2, <2>1, <2>6, <3>1 DEF TypeOK
    <3>3. pl'[p] = pl[p]
      BY <1>2, <2>6, <3>1, PidEffect
    <3>4. (InStop(p)' <=> InStop(p)) /\ OnceInStop(p)'
      <4>1. CASE UNCHANGED pluginVars
        BY <1>2, <4>1 DEF InStop, OnceInStop, Place
      <4>2. CASE stop_plugin' = Append(stop_plugin, run_plugin[child]) /\ run_plugin[child] \in Plugins
        <5> DEFINE n == Len(stop_plugin)
        <5>1. /\ n \in Nat /\ DOMAIN stop_plugin = 1 .. n /\ DOMAIN stop_plugin' = 1 .. n + 1
              /\ \A j \in 1 .. n : stop_plugin'[j] = stop_plugin[j]
              /\ stop_plugin'[n + 1] # p
          BY <2>6, <4>2, AppendProperties, LenProperties DEF TypeOK
        <5>2. \A j \in DOMAIN stop_plugin' : stop_plugin'[j] = p => j \in DOMAIN stop_plugin
          BY <5>1
        <5>3. \A j \in DOMAIN stop_plugin : j \in DOMAIN stop_plugin' /\ stop_plugin'[j] = stop_plugin[j]
          BY <5>1
        <5> QED BY <1>2, <5>2, <5>3 DEF InStop, OnceInStop, Place
      <4> QED BY <3>1, <4>1, <4>2
    <3>5. CASE InStopList(p)
      BY <1>2, <2>1, <2>3, <2>4, <3>2, <3>3, <3>4, <3>5 DEF Place, InStopList, InRun, ReapedBut, Own, Children
    <3>6. ASSUME NEW i \in Pids, InRunList(p, i) PROVE Place(p)'
      <4>1. i # child
        BY <2>6, <3>6 DEF InRunList, InRun
      <4>2. InRun(p)' = InRun(p) /\ Own(p)' = Own(p)
        BY <2>1, <3>2 DEF InRun, Own, Children
      <4>3. Tracked(i)' /\ ReapedBut(p, i)'
        BY <2>1, <2>5, <3>6, <4>1, <4>2 DEF InRunList, ReapedBut
      <4>4. InRunList(p, i)'
        BY <2>4, <3>3, <3>4, <3>6, <4>2, <4>3 DEF InRunList
      <4> QED BY <3>4, <4>4 DEF Place
    <3> QED BY <1>2, <2>3, <3>5, <3>6 DEF Place, BeingStarted
  <2>7. CASE run_plugin[child] = p
    <3>1. InRunList(p, child) /\ proc[child].plug = p
      BY <1>2, <2>1, <2>7, InRunIsChild
    <3>2. /\ run_plugin' = [run_plugin EXCEPT ![child] = NoPlugin]
          /\ stop_plugin' = Append(stop_plugin, p)
      BY <1>2, <1>20, <2>7 DEF CleanupChildExit
    <3>3. InRun(p)' = {}
      BY <1>2, <2>1, <3>1, <3>2 DEF InRunList, InRun, TypeOK
    <3>4. ReapedBut(p, NoPid)'
      BY <2>1, <3>1 DEF InRunList, ReapedBut, Own, Children
    <3>5. InStop(p)' /\ OnceInStop(p)'
      <4> DEFINE n == Len(stop_plugin)
      <4>1. /\ n \in Nat /\ DOMAIN stop_plugin = 1 .. n /\ DOMAIN stop_plugin' = 1 .. n + 1
            /\ \A j \in 1 .. n : stop_plugin'[j] = stop_plugin[j]
            /\ stop_plugin'[n + 1] = p
        BY <1>2, <3>2, AppendProperties, LenProperties DEF TypeOK
      <4>2. \A j \in 1 .. n : stop_plugin[j] # p
        BY <3>1, <4>1 DEF InRunList, InStop
      <4>3. n + 1 \in DOMAIN stop_plugin' /\ \A j \in DOMAIN stop_plugin' : stop_plugin'[j] = p => j = n + 1
        BY <4>1, <4>2
      <4> QED BY <4>1, <4>3 DEF InStop, OnceInStop
    <3> QED BY <2>4, <3>3, <3>4, <3>5 DEF Place, InStopList
  <2> QED BY <2>6, <2>7
\* The rest of the watch thread, and the lock.
<1>21. ASSUME NEW t \in Starters, NEW step \in {"next", "idle", "clean", "exit"}, Goto(t, step),
              pc[t] \notin {"open", "list"},
              t = Watch /\ pc[t] \in {"reaped", "clean"} => step = "clean" /\ child' = child,
              t # Watch => child' = child,
              UNCHANGED <<arg, new, proc, lost, pluginVars>>
       PROVE  Place(p)'
  <2>1. pc'[t] = step /\ \A u \in Threads \ {t} : pc'[u] = pc[u]
    BY <1>21, ThreadFacts, GotoEffect DEF AllSteps
  <2>2. \A u \in Starters : (Starting(u, p) => u # t /\ u \in Threads) /\ (Starting(u, p)' => u # t)
    BY <1>21, <2>1, ThreadFacts DEF Starting
  <2>3. \A u \in Starters : Starting(u, p)' => Starting(u, p)
    BY <1>21, <2>1, <2>2, ThreadFacts DEF Starting
  <2>4. pc[Watch] \in {"reaped", "clean"} => pc'[Watch] \in {"reaped", "clean"} /\ child' = child
    BY <1>21, <2>1, ThreadFacts
  <2> QED BY <1>4, <1>21, <2>1, <2>2, <2>3, <2>4
<1>22. CASE Load \/ Rerun \/ CallCleanup \/ WatchExit \/ \E t \in Starters : EndRun(t)
  <2>1. CASE Load
    BY <1>21, <2>1, ThreadFacts DEF Load, EnterRun, Starters
  <2>2. CASE Rerun
    BY <1>21, <2>2, ThreadFacts DEF Rerun, EnterRun, Starters
  <2>3. CASE CallCleanup \/ WatchExit
    BY <1>21, <2>3, ThreadFacts DEF CallCleanup, WatchExit, Starters
  <2>4. ASSUME NEW t \in Starters, EndRun(t) PROVE Place(p)'
    BY <1>21, <2>4 DEF EndRun
  <2> QED BY <1>22, <2>1, <2>2, <2>3, <2>4
<1>23. ASSUME NEW i \in Pids, OpenFifo(i) \/ Exit(i) PROVE Place(p)'
  <2>1. /\ proc'[i].st \in {"reader", "zombie"} /\ proc[i].st \in {"born", "reader"}
        /\ \A j \in Pids : proc'[j].plug = proc[j].plug
        /\ \A j \in Pids \ {i} : proc'[j] = proc[j]
    BY <1>23, StateEffect DEF OpenFifo, Exit, Live
  <2>2. UNCHANGED <<pc, arg, new, lost, pluginVars, child>>
    BY <1>23 DEF OpenFifo, Exit
  <2>3. \A j \in Pids : proc'[j].st = "reaped" <=> proc[j].st = "reaped"
    BY <2>1
  <2>4. \A j \in Pids : Tracked(j) => Tracked(j)'
    BY <2>2, <2>3 DEF Tracked
  <2>5. \A u \in Starters : Starting(u, p)' <=> Starting(u, p)
    BY <2>2 DEF Starting
  <2>6. (InStop(p)' <=> InStop(p)) /\ OnceInStop(p)'
    BY <1>2, <2>2 DEF InStop, OnceInStop, Place
  <2> QED BY <1>2, <1>3, <2>1, <2>2, <2>3, <2>4, <2>5, <2>6, PlaceKept
\* KillPlugin in a worker.
<1>24. ASSUME NEW w \in Workers, Killer(w) PROVE Place(p)'
  <2>1. /\ pc[w] \in StopSteps
        /\ UNCHANGED <<arg, new, proc, lost, run_plugin, stop_plugin, child>>
        /\ \E step \in StopSteps : Goto(w, step)
        /\ pl' = pl \/ pl' = [pl EXCEPT ![arg[w]].auto = FALSE]
    BY <1>24 DEF Killer, KillTest, KillProbe, KillHup, KillWaited, KillHard, KillGiveUp, StopSteps
  <2>2. \A u \in Threads \ {w} : pc'[u] = pc[u]
    BY <2>1, ThreadFacts, GotoEffect DEF StopSteps, AllSteps
  <2>3. arg[w] \in Plugins
    BY <2>1, ThreadFacts, WorkPlugin DEF PluginSteps
  <2>4. pl'[p].pid = pl[p].pid
    BY <1>2, <2>1, <2>3, AutoEffect
  <2> QED BY <1>6, <2>1, <2>2, <2>4
\* The main thread stops plugins when nothing is said any more.
<1>25. CASE \/ Killer(Main) \/ (\E x \in tmplist : StopNext(x)) \/ ClosePipe \/ ForceStop \/ PushForced
            \/ StopEnd \/ StopWatchThread \/ JoinWatch
  <2>1. phase \in {"load", "up"} /\ MainSteps
    BY DEF Running, StepOK
  <2>2. CASE Killer(Main) \/ ClosePipe \/ ForceStop \/ PushForced
    <3>1. pc[Main] \in StopSteps \cup {"push"}
      BY <2>2 DEF Killer, KillTest, KillProbe, KillHup, KillWaited, KillHard, KillGiveUp, ClosePipe,
         ForceStop, PushForced, StopSteps
    <3> QED BY <2>1, <3>1 DEF MainSteps, StopSteps, StartSteps
  <2>3. CASE (\E x \in tmplist : StopNext(x)) \/ StopEnd \/ StopWatchThread \/ JoinWatch
    BY <2>1, <2>3 DEF StopNext, StopEnd, StopWatchThread, JoinWatch
  <2> QED BY <1>25, <2>2, <2>3
<1>26. CASE StopBegin
  <2>1. UNCHANGED <<threadVars, proc, lost, pluginVars, child>>
    BY <1>26 DEF StopBegin
  <2>2. \A u \in Starters : Starting(u, p)' <=> Starting(u, p)
    BY <2>1 DEF Starting
  <2> QED BY <1>4, <2>1, <2>2
<1> QED
  BY <1>9, <1>10, <1>11, <1>13, <1>14, <1>15, <1>16, <1>17, <1>17a, <1>18, <1>19, <1>20, <1>22, <1>23,
     <1>24, <1>25, <1>26, ThreadFacts
  DEF Next, Watcher, Worker, Request, MainThread, Starter, Runner, Starters

IInv == Typing /\ PlaceInv

LEMMA IInvHolds == Spec => []IInv
<1>1. Init => IInv
  BY InitTyping, InitPlace DEF IInv
<1>2. PlaceInv /\ UNCHANGED vars => PlaceInv'
  <2> SUFFICES ASSUME PlaceInv, UNCHANGED vars PROVE PlaceInv'
    OBVIOUS
  <2> USE DEF vars, pluginVars, lockVars, threadVars, watchVars, mainVars, procVars, sigVars, fileVars
  <2> QED BY DEF PlaceInv, Running, Plain, Place, OnceInStop, InStopList, BeingStarted, InRunList,
       InStop, InRun, Own, Children, ReapedBut, Tracked, Starting
<1>3. IInv /\ [Next]_vars => IInv'
  BY <1>2, NextTyping, NextPlace DEF IInv
<1> QED BY <1>1, <1>3, PTL DEF Spec

\* OneProcess: RunPlugins forks a plugin only from the stop list, and a plugin
\* gets there only when waitpid has answered for its process (k2hftplugin.cc,
\* CleanupChildExit) or the open of its pipe has failed: but for the children
\* of such failures no two processes share its named pipe.
THEOREM PluginHasOneProcess == Spec => []OneProcess
<1>1. ASSUME IInv, Running, NEW p \in Plain
      PROVE  Cardinality(Kept(p)) <= 1
  <2>1. PICK k : ReapedBut(p, k)
    BY <1>1 DEF IInv, PlaceInv, Place, InStopList, BeingStarted, InRunList
  <2>2. Kept(p) \subseteq {k}
    BY <2>1 DEF ReapedBut, Kept
  <2>3. IsFiniteSet({k}) /\ Cardinality({k}) = 1
    BY FS_Singleton
  <2>4. Cardinality(Kept(p)) <= Cardinality({k})
    BY <2>2, <2>3, FS_Subset
  <2> QED BY <2>3, <2>4
<1>2. IInv => OneProcess
  BY <1>1 DEF OneProcess
<1> QED BY <1>2, IInvHolds, PTL

\* RunListIsChildren: the process ids in run_plugin are those of children that
\* StopPlugins may signal, and it has all of them, but for the child the watch
\* thread has in its hand, the one that is being started, and the children
\* whose start has failed with the open of the pipe: these are in no list.
THEOREM RunListHasTheChildren == Spec => []RunListIsChildren
<1>1. ASSUME IInv, Running, NEW p \in Plain, NEW i \in Pids, i \in InRun(p)
      PROVE  /\ i \in Own(p)
             /\ pl[p].pid = i
             /\ proc[i].st = "reaped" => pc[Watch] \in {"reaped", "clean"} /\ child = i
  <2>1. InRunList(p, i)
    BY <1>1, InRunIsChild DEF IInv, PlaceInv, InRun
  <2> QED BY <2>1 DEF InRunList, Tracked
<1>2. ASSUME IInv, Running, NEW p \in Plain, NEW i \in Pids, i \in Kept(p)
      PROVE  i \in InRun(p) \/ \E t \in {Main, Watch} : pc[t] \in {"open", "list"} /\ new[t] = i
  <2>1. Place(p) /\ i \in Own(p) /\ proc[i].st # "reaped"
    BY <1>2 DEF IInv, PlaceInv, Kept
  <2>2. ~InStopList(p)
    BY <2>1, PidFacts DEF InStopList, ReapedBut
  <2>3. ASSUME NEW t \in Starters, BeingStarted(p, t)
        PROVE  pc[t] \in {"open", "list"} /\ new[t] = i
    BY <2>1, <2>3 DEF BeingStarted, ReapedBut, Starting
  <2>4. ASSUME NEW k \in Pids, InRunList(p, k) PROVE i \in InRun(p)
    BY <2>1, <2>4 DEF InRunList, ReapedBut
  <2> QED BY <2>1, <2>2, <2>3, <2>4 DEF Place, Starters
<1>3. IInv => RunListIsChildren
  BY <1>1, <1>2 DEF RunListIsChildren
<1> QED BY <1>3, IInvHolds, PTL

=============================================================================
