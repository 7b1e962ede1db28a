------------------------------ MODULE PluginMan ------------------------------
(***************************************************************************)
(* K2hFtPluginMan (k2hftplugin.cc): the plugin processes that read lines   *)
(* from a named pipe each, and the thread that reaps and restarts them.    *)
(*                                                                         *)
(* The main thread starts the plugins of the configuration, and stops them *)
(* at unmount.  The watch thread waits for exited children and runs the    *)
(* plugins in the stop list again.  Workers start a plugin for a file they *)
(* create (RunAddPlugin) and restart one whose output file was replaced    *)
(* (Write).  lockval guards the two lists and nothing else: the members of *)
(* a plugin are read and written by all threads without a lock.            *)
(*                                                                         *)
(* Abstractions.  A plugin is its process id, its pipe and its restart     *)
(* flag; what is written to the pipe is left out, and so are the members   *)
(* that are only reported, the building of arguments and pipe files, and   *)
(* the condition the first children wait for.  Plugins of directory rules  *)
(* are templates that never run.  Process ids are not used again.          *)
(*                                                                         *)
(* External: fork, waitpid, kill and named pipes.  Opening a pipe to write *)
(* blocks until somebody has it open to read; kill(-1) signals every       *)
(* process; a signalled or exited child can be signalled until it is       *)
(* reaped.                                                                 *)
(***************************************************************************)
EXTENDS Integers, Sequences, FiniteSets

CONSTANTS
  Plugins,
  Late,        \* plugins of files created at run time
  Changing,    \* plugins whose output file others may replace
  Workers,     \* threads that serve requests
  MaxForks,    \* bound: processes; a fork beyond it fails
  MaxDeaths,   \* bound: processes that exit by themselves
  MaxChanges,  \* bound: output files that are replaced
  MayFail      \* plugins of which Register, fork or the open of the pipe may fail at any time

ASSUME PluginAssumption ==
  /\ IsFiniteSet(Plugins)
  /\ Late \subseteq Plugins
  /\ Changing \subseteq Plugins
  /\ MaxForks \in Nat
  /\ MaxDeaths \in Nat
  /\ MaxChanges \in Nat
  /\ MayFail \subseteq Plugins

Pids == 1 .. MaxForks
NoPid == -1          \* K2HFT_INVALID_PID
NoPlugin == "none"
Main == "main"
Watch == "watch"
Threads == {Main, Watch} \cup Workers

ASSUME NameAssumption == NoPlugin \notin Plugins /\ Main \notin Workers /\ Watch \notin Workers

VARIABLES
  pl,          \* [Plugins -> Plugin]: members pid, pipe_input, auto_restart
  run_plugin,  \* [Pids \cup {NoPid} -> Plugins \cup {NoPlugin}]
  stop_plugin, \* sequence of plugins
  lockval,     \* "free" or the thread in RunPlugins
  idx,         \* its position in stop_plugin
  pc, arg, new,    \* each thread: its step, plugin and new process
  child, again,    \* the watch thread: reaped process, do_restart
  thread_exit,
  phase,       \* the main thread: from Initialize to the end
  tmplist, is_error,   \* StopPlugins: what is left to kill, an error so far
  proc,        \* [Pids -> Process]: the children
  hup, killed, \* children that got SIGHUP, SIGKILL
  known,       \* plugins workers can write to
  failed,      \* history: plugins whose last start has failed
  lost,        \* history: children that run although their start has failed
  astray,      \* history: a signal was sent to every process
  forks, deaths, changes

pluginVars == <<pl, run_plugin, stop_plugin>>
lockVars   == <<lockval, idx>>
threadVars == <<pc, arg, new>>
watchVars  == <<child, again, thread_exit>>
mainVars   == <<phase, tmplist, is_error>>
procVars   == <<proc, forks, deaths, lost>>
sigVars    == <<hup, killed, astray>>
fileVars   == <<known, changes>>
vars == <<pluginVars, lockVars, threadVars, watchVars, mainVars, procVars, sigVars, fileVars, failed>>

Plugin == [pid : Pids \cup {NoPid}, pipe : BOOLEAN, auto : BOOLEAN]
Stopped == [pid |-> NoPid, pipe |-> FALSE, auto |-> TRUE]

\* A child has not opened its pipe, reads, has exited, or has been reaped.
Process == [plug : Plugins \cup {NoPlugin}, st : {"none", "born", "reader", "zombie", "reaped"}]

Orders(S) == {s \in [1 .. Cardinality(S) -> S] : \A i, j \in DOMAIN s : s[i] = s[j] => i = j}

\* AddPluginInfo has put the plugins of the configuration into the stop list.
Init ==
  /\ pl = [p \in Plugins |-> Stopped]
  /\ run_plugin = [i \in Pids \cup {NoPid} |-> NoPlugin]
  /\ stop_plugin \in Orders(Plugins \ Late)
  /\ lockval = "free"
  /\ idx = 1
  /\ pc = [t \in Threads |-> "idle"]
  /\ arg = [t \in Threads |-> NoPlugin]
  /\ new = [t \in Threads |-> NoPid]
  /\ child = NoPid
  /\ again = FALSE
  /\ thread_exit = FALSE
  /\ phase = "load"
  /\ tmplist = {}
  /\ is_error = FALSE
  /\ proc = [i \in Pids |-> [plug |-> NoPlugin, st |-> "none"]]
  /\ forks = 0
  /\ deaths = 0
  /\ hup = {}
  /\ killed = {}
  /\ astray = FALSE
  /\ known = Plugins \ Late
  /\ changes = 0
  /\ failed = {}
  /\ lost = {}

Live(i) == proc[i].st \in {"born", "reader"}
Children(p) == {i \in Pids : proc[i].plug = p}
HasReader(p) == \E i \in Children(p) : proc[i].st = "reader"

Goto(t, step) == pc' = [pc EXCEPT ![t] = step]

\* A call is over, and its locals are gone.
Leave(t, step) ==
  /\ Goto(t, step)
  /\ arg' = [arg EXCEPT ![t] = NoPlugin]
  /\ new' = [new EXCEPT ![t] = NoPid]

-----------------------------------------------------------------------------
(* The children.                                                           *)

OpenFifo(i) ==
  /\ proc[i].st = "born"
  /\ proc' = [proc EXCEPT ![i].st = "reader"]
  /\ UNCHANGED <<forks, deaths, lost, pluginVars, lockVars, threadVars, watchVars,
                 mainVars, sigVars, fileVars, failed>>

\* A child exits by itself, at any time, or because of a signal.
Exit(i) ==
  /\ Live(i)
  /\ IF i \in hup \cup killed THEN UNCHANGED deaths
                              ELSE deaths < MaxDeaths /\ deaths' = deaths + 1
  /\ proc' = [proc EXCEPT ![i].st = "zombie"]
  /\ hup' = hup \ {i}
  /\ killed' = killed \ {i}
  /\ UNCHANGED <<astray, forks, lost, pluginVars, lockVars, threadVars, watchVars,
                 mainVars, fileVars, failed>>

-----------------------------------------------------------------------------
(* RunPlugin, in whatever thread.                                          *)

\* The members are set as for a plugin that never ran, also pipe_input.
Reset(t, p) ==
  /\ pl' = [pl EXCEPT ![p] = Stopped]
  /\ arg' = [arg EXCEPT ![t] = p]
  /\ Goto(t, "fork")

Fork(t) ==
  /\ pc[t] = "fork"
  /\ forks < MaxForks
  /\ forks' = forks + 1
  /\ proc' = [proc EXCEPT ![forks + 1] = [plug |-> arg[t], st |-> "born"]]
  /\ new' = [new EXCEPT ![t] = forks + 1]
  /\ Goto(t, "open")
  /\ UNCHANGED <<arg, deaths, lost, pluginVars, lockVars, watchVars, mainVars,
                 sigVars, fileVars, failed>>

\* RunPlugin returns false: RunPlugins goes on with the next plugin, a worker
\* gives up.
GiveUpStart(t) ==
  /\ failed' = failed \cup {arg[t]}
  /\ IF t \in Workers THEN Leave(t, "idle") /\ UNCHANGED idx
                      ELSE Leave(t, "next") /\ idx' = idx + 1

\* Register or fork fails.
FailStart(t) ==
  /\ pc[t] = "fork"
  /\ arg[t] \in MayFail \/ forks = MaxForks
  /\ GiveUpStart(t)
  /\ UNCHANGED <<lockval, pluginVars, watchVars, mainVars, procVars,
                 sigVars, fileVars>>

\* The open of the pipe fails, at once or while it waits, after the fork: the
\* member pid is K2HFT_INVALID_PID, and the child runs on, in no list.
OpenFails(t) ==
  /\ pc[t] = "open"
  /\ arg[t] \in MayFail
  /\ ~pl[arg[t]].pipe
  /\ pl' = [pl EXCEPT ![arg[t]].pid = NoPid]
  /\ lost' = lost \cup {new[t]}
  /\ GiveUpStart(t)
  /\ UNCHANGED <<lockval, run_plugin, stop_plugin, watchVars, mainVars, proc,
                 forks, deaths, sigVars, fileVars>>

\* RunPluginProcess opens the pipe, and RunPlugin stores the process id.
OpenPipe(t) ==
  /\ pc[t] = "open"
  /\ pl[arg[t]].pipe \/ HasReader(arg[t])
  /\ pl' = [pl EXCEPT ![arg[t]].pipe = TRUE, ![arg[t]].pid = new[t]]
  /\ failed' = failed \ {arg[t]}
  /\ Goto(t, "list")
  /\ UNCHANGED <<arg, new, run_plugin, stop_plugin, lockVars, watchVars,
                 mainVars, procVars, sigVars, fileVars>>

-----------------------------------------------------------------------------
(* RunPlugins, in the main thread and in the watch thread.                 *)

EnterRun(t) ==
  /\ lockval = "free"
  /\ lockval' = t
  /\ idx' = 1
  /\ Goto(t, "next")

Load ==
  /\ phase = "load"
  /\ pc[Main] = "idle"
  /\ EnterRun(Main)
  /\ UNCHANGED <<arg, new, pluginVars, watchVars, mainVars, procVars, sigVars,
                 fileVars, failed>>

NextStopped(t) ==
  /\ pc[t] = "next"
  /\ lockval = t
  /\ idx <= Len(stop_plugin)
  /\ IF pl[stop_plugin[idx]].auto
       THEN Reset(t, stop_plugin[idx]) /\ UNCHANGED idx
       ELSE idx' = idx + 1 /\ UNCHANGED <<pl, arg, pc>>
  /\ UNCHANGED <<new, lockval, run_plugin, stop_plugin, watchVars, mainVars,
                 procVars, sigVars, fileVars, failed>>

\* Mutant of ListRestarted: the plugin stays in the stop list.
ListRestartedKeeps(t) ==
  /\ pc[t] = "list"
  /\ lockval = t
  /\ run_plugin' = [run_plugin EXCEPT ![pl[arg[t]].pid] = arg[t]]
  /\ idx' = idx + 1
  /\ Leave(t, "next")
  /\ UNCHANGED <<lockval, pl, stop_plugin, watchVars, mainVars,
                 procVars, sigVars, fileVars, failed>>

\* From the stop list to the running list.
ListRestarted(t) ==
  /\ pc[t] = "list"
  /\ lockval = t
  /\ run_plugin' = [run_plugin EXCEPT ![pl[arg[t]].pid] = arg[t]]
  /\ stop_plugin' = SubSeq(stop_plugin, 1, idx - 1) \o SubSeq(stop_plugin, idx + 1, Len(stop_plugin))
  /\ Leave(t, "next")
  /\ UNCHANGED <<lockVars, pl, watchVars, mainVars, procVars,
                 sigVars, fileVars, failed>>

\* Initialize gives up when a plugin did not start.
AfterRun(t) ==
  IF t = Main THEN phase' = IF failed = {} THEN "up" ELSE "failed"
              ELSE UNCHANGED phase

EndRun(t) ==
  /\ pc[t] = "next"
  /\ lockval = t
  /\ idx > Len(stop_plugin)
  /\ lockval' = "free"
  /\ idx' = 1
  /\ AfterRun(t)
  /\ Goto(t, "idle")
  /\ UNCHANGED <<arg, new, tmplist, is_error, pluginVars, watchVars,
                 procVars, sigVars, fileVars, failed>>

-----------------------------------------------------------------------------
(* WatchChildrenExit.                                                      *)

\* Mutant of Reap: the answer 0, no child has changed, is taken for a child.
ReapNobody(i) ==
  /\ pc[Watch] = "idle"
  /\ ~thread_exit
  /\ IF proc[i].st = "zombie"
       THEN proc' = [proc EXCEPT ![i].st = "reaped"] /\ child' = i
       ELSE child' = 0 /\ UNCHANGED proc
  /\ Goto(Watch, "reaped")
  /\ UNCHANGED <<arg, new, again, thread_exit, forks, deaths, lost, pluginVars,
                 lockVars, mainVars, sigVars, fileVars, failed>>

\* waitpid: from here on the process id means nothing any more.
Reap(i) ==
  /\ pc[Watch] = "idle"
  /\ ~thread_exit
  /\ proc[i].st = "zombie"
  /\ proc' = [proc EXCEPT ![i].st = "reaped"]
  /\ child' = i
  /\ Goto(Watch, "reaped")
  /\ UNCHANGED <<arg, new, again, thread_exit, forks, deaths, lost, pluginVars,
                 lockVars, mainVars, sigVars, fileVars, failed>>

\* Mutant of CallCleanup: do_restart is the exit flag itself.
CallCleanupInverted ==
  /\ pc[Watch] = "reaped"
  /\ again' = thread_exit
  /\ Goto(Watch, "clean")
  /\ UNCHANGED <<arg, new, child, thread_exit, pluginVars, lockVars, mainVars,
                 procVars, sigVars, fileVars, failed>>

CallCleanup ==
  /\ pc[Watch] = "reaped"
  /\ again' = ~thread_exit
  /\ Goto(Watch, "clean")
  /\ UNCHANGED <<arg, new, child, thread_exit, pluginVars, lockVars, mainVars,
                 procVars, sigVars, fileVars, failed>>

\* Mutant of CleanupChildExit: the process id is put back into the list.
CleanupNoErase ==
  /\ pc[Watch] = "clean"
  /\ lockval = "free"
  /\ LET p == run_plugin[child]
     IN  IF p = NoPlugin
           THEN Goto(Watch, "idle") /\ UNCHANGED <<pluginVars>>
           ELSE /\ UNCHANGED run_plugin
                /\ pl' = [pl EXCEPT ![p].pid = NoPid]
                /\ stop_plugin' = Append(stop_plugin, p)
                /\ Goto(Watch, IF again THEN "rerun" ELSE "idle")
  /\ child' = NoPid
  /\ again' = FALSE
  /\ UNCHANGED <<arg, new, thread_exit, lockVars, mainVars, procVars, sigVars,
                 fileVars, failed>>

\* From the running list to the stop list; an unknown child is passed over.
CleanupChildExit ==
  /\ pc[Watch] = "clean"
  /\ lockval = "free"
  /\ LET p == run_plugin[child]
     IN  IF p = NoPlugin
           THEN Goto(Watch, "idle") /\ UNCHANGED <<pluginVars>>
           ELSE /\ run_plugin' = [run_plugin EXCEPT ![child] = NoPlugin]
                /\ pl' = [pl EXCEPT ![p].pid = NoPid]
                /\ stop_plugin' = Append(stop_plugin, p)
                /\ Goto(Watch, IF again THEN "rerun" ELSE "idle")
  /\ child' = NoPid
  /\ again' = FALSE
  /\ UNCHANGED <<arg, new, thread_exit, lockVars, mainVars, procVars, sigVars,
                 fileVars, failed>>

\* "run all stopping plugins (run as soon as possible)"
Rerun ==
  /\ pc[Watch] = "rerun"
  /\ EnterRun(Watch)
  /\ UNCHANGED <<arg, new, pluginVars, watchVars, mainVars, procVars, sigVars,
                 fileVars, failed>>

WatchExit ==
  /\ pc[Watch] = "idle"
  /\ thread_exit
  /\ Goto(Watch, "exit")
  /\ UNCHANGED <<arg, new, pluginVars, lockVars, watchVars, mainVars, procVars,
                 sigVars, fileVars, failed>>

-----------------------------------------------------------------------------
(* Workers.  prule_lockval lets one of them at a time create a file.       *)

\* RunAddPlugin for the plugin of a new file.
CreatePlugin(w, p) ==
  /\ phase = "up"
  /\ pc[w] = "idle"
  /\ p \in Late \ known
  /\ \A v \in Workers : pc[v] \in {"fork", "open", "list"} => arg[v] \in known
  /\ Reset(w, p)
  /\ UNCHANGED <<new, run_plugin, stop_plugin, lockVars, watchVars, mainVars,
                 procVars, sigVars, fileVars, failed>>

\* Write finds the output file replaced (the write to the pipe is left out).
\* StopPlugin returns at once when there is no process.
WriteChanged(w, p) ==
  /\ phase = "up"
  /\ pc[w] = "idle"
  /\ p \in known \cap Changing
  /\ changes < MaxChanges
  /\ changes' = changes + 1
  /\ IF pl[p].pid = NoPid
       THEN Reset(w, p)
       ELSE Goto(w, "look") /\ arg' = [arg EXCEPT ![w] = p] /\ UNCHANGED pl
  /\ UNCHANGED <<new, run_plugin, stop_plugin, known, lockVars, watchVars,
                 mainVars, procVars, sigVars, failed>>

\* StopPlugin kills only what is in the running list.
LookRunning(w) ==
  /\ pc[w] = "look"
  /\ lockval = "free"
  /\ IF \E i \in Pids \cup {NoPid} : run_plugin[i] = arg[w]
       THEN Goto(w, "test") /\ UNCHANGED <<arg, pl>>
       ELSE Reset(w, arg[w])
  /\ UNCHANGED <<new, run_plugin, stop_plugin, lockVars, watchVars, mainVars,
                 procVars, sigVars, fileVars, failed>>

\* Killed or not, Write runs the plugin.
RunKilled(w) ==
  /\ pc[w] \in {"stopped", "unkilled"}
  /\ Reset(w, arg[w])
  /\ UNCHANGED <<new, run_plugin, stop_plugin, lockVars, watchVars, mainVars,
                 procVars, sigVars, fileVars, failed>>

\* RunAddPlugin and Write put the process into the running list afterwards,
\* by the member pid as it is now, and leave the stop list as it is.
ListStarted(w) ==
  /\ w \in Workers
  /\ pc[w] = "list"
  /\ lockval = "free"
  /\ run_plugin' = [run_plugin EXCEPT ![pl[arg[w]].pid] = arg[w]]
  /\ known' = known \cup {arg[w]}
  /\ Leave(w, "idle")
  /\ UNCHANGED <<pl, stop_plugin, changes, lockVars, watchVars,
                 mainVars, procVars, sigVars, failed>>

-----------------------------------------------------------------------------
(* KillPlugin, in a worker or in the main thread.  The watch thread may    *)
(* change the member pid between any two of these.                         *)

Pid(t) == pl[arg[t]].pid

\* kill(2) reaches a child that is not reaped, and for -1 everybody.
Reaches(i) == i = NoPid \/ proc[i].st # "reaped"

KillTest(t) ==
  /\ pc[t] = "test"
  /\ Goto(t, IF Pid(t) = NoPid THEN "stopped" ELSE "probe")
  /\ UNCHANGED <<arg, new, pluginVars, lockVars, watchVars, mainVars, procVars,
                 sigVars, fileVars, failed>>

\* "check process is running", "set noauto restart flag"
KillProbe(t) ==
  /\ pc[t] = "probe"
  /\ IF Reaches(Pid(t)) THEN pl' = [pl EXCEPT ![arg[t]].auto = FALSE] /\ Goto(t, "hup")
                        ELSE Goto(t, "unkilled") /\ UNCHANGED pl
  /\ UNCHANGED <<arg, new, run_plugin, stop_plugin, lockVars, watchVars,
                 mainVars, procVars, sigVars, fileVars, failed>>

KillHup(t) ==
  /\ pc[t] = "hup"
  /\ hup' = IF Reaches(Pid(t)) THEN hup \cup ({Pid(t)} \cap Pids) ELSE hup
  /\ astray' = (astray \/ Pid(t) = NoPid)
  /\ Goto(t, IF Reaches(Pid(t)) THEN "wait" ELSE "unkilled")
  /\ UNCHANGED <<arg, new, killed, pluginVars, lockVars, watchVars, mainVars,
                 procVars, fileVars, failed>>

\* The watch thread has reaped the process.
KillWaited(t) ==
  /\ pc[t] \in {"wait", "wait9"}
  /\ Pid(t) = NoPid
  /\ Goto(t, "stopped")
  /\ UNCHANGED <<arg, new, pluginVars, lockVars, watchVars, mainVars, procVars,
                 sigVars, fileVars, failed>>

\* MAX_WAIT_COUNT_UNTIL_KILL is reached.  The loop has just seen a pid; the
\* kill reads it again.
KillHard(t) ==
  /\ pc[t] = "wait"
  /\ killed' = IF Reaches(Pid(t)) THEN killed \cup ({Pid(t)} \cap Pids) ELSE killed
  /\ astray' = (astray \/ Pid(t) = NoPid)
  /\ Goto(t, "wait9")
  /\ UNCHANGED <<arg, new, hup, pluginVars, lockVars, watchVars, mainVars,
                 procVars, fileVars, failed>>

\* "gave up to stop process"
KillGiveUp(t) ==
  /\ pc[t] = "wait9"
  /\ Goto(t, "unkilled")
  /\ UNCHANGED <<arg, new, pluginVars, lockVars, watchVars, mainVars, procVars,
                 sigVars, fileVars, failed>>

-----------------------------------------------------------------------------
(* StopPlugins and the rest of Clean, at unmount, when no request is       *)
(* served any more.                                                        *)

StopBegin ==
  /\ phase = "up"
  /\ \A w \in Workers : pc[w] = "idle"
  /\ lockval = "free"
  /\ tmplist' = {<<i, run_plugin[i]>> : i \in {j \in Pids \cup {NoPid} : run_plugin[j] # NoPlugin}}
  /\ phase' = "stop"
  /\ UNCHANGED <<is_error, pluginVars, lockVars, threadVars, watchVars,
                 procVars, sigVars, fileVars, failed>>

\* The next plugin, in the order of the process ids when the list was made.
StopNext(x) ==
  /\ phase = "stop"
  /\ pc[Main] = "idle"
  /\ x \in tmplist
  /\ \A y \in tmplist : x[1] <= y[1]
  /\ tmplist' = tmplist \ {x}
  /\ arg' = [arg EXCEPT ![Main] = x[2]]
  /\ Goto(Main, "test")
  /\ UNCHANGED <<new, phase, is_error, pluginVars, lockVars, watchVars,
                 procVars, sigVars, fileVars, failed>>

\* "close plugin's named pipe handles"
ClosePipe ==
  /\ pc[Main] = "stopped"
  /\ pl' = [pl EXCEPT ![arg[Main]].pipe = FALSE]
  /\ Leave(Main, "idle")
  /\ UNCHANGED <<run_plugin, stop_plugin, lockVars, watchVars,
                 mainVars, procVars, sigVars, fileVars, failed>>

ForceStop ==
  /\ pc[Main] = "unkilled"
  /\ pl' = [pl EXCEPT ![arg[Main]].pid = NoPid]
  /\ Goto(Main, "push")
  /\ UNCHANGED <<arg, new, run_plugin, stop_plugin, lockVars, watchVars,
                 mainVars, procVars, sigVars, fileVars, failed>>

PushForced ==
  /\ pc[Main] = "push"
  /\ lockval = "free"
  /\ stop_plugin' = Append(stop_plugin, arg[Main])
  /\ is_error' = TRUE
  /\ Goto(Main, "stopped")
  /\ UNCHANGED <<arg, new, pl, run_plugin, phase, tmplist, lockVars, watchVars,
                 procVars, sigVars, fileVars, failed>>

\* After an error, what has no process leaves the running list.
StopEnd ==
  /\ phase = "stop"
  /\ pc[Main] = "idle"
  /\ tmplist = {}
  /\ IF is_error
       THEN /\ lockval = "free"
            /\ run_plugin' = [i \in Pids \cup {NoPid} |->
                 IF run_plugin[i] # NoPlugin /\ pl[run_plugin[i]].pid = NoPid
                   THEN NoPlugin ELSE run_plugin[i]]
       ELSE UNCHANGED run_plugin
  /\ phase' = "free"
  /\ UNCHANGED <<tmplist, is_error, pl, stop_plugin, lockVars, threadVars,
                 watchVars, procVars, sigVars, fileVars, failed>>

\* Mutant of StopWatchThread: the exit flag is not set.
StopWatchThreadNoFlag ==
  /\ phase = "free"
  /\ phase' = "join"
  /\ UNCHANGED <<thread_exit, child, again, tmplist, is_error, pluginVars,
                 lockVars, threadVars, procVars, sigVars, fileVars, failed>>

\* confinfo.Clean has freed the plugins; the destructor stops the thread.
StopWatchThread ==
  /\ phase = "free"
  /\ thread_exit' = TRUE
  /\ phase' = "join"
  /\ UNCHANGED <<child, again, tmplist, is_error, pluginVars, lockVars,
                 threadVars, procVars, sigVars, fileVars, failed>>

JoinWatch ==
  /\ phase = "join"
  /\ pc[Watch] = "exit"
  /\ phase' = "done"
  /\ UNCHANGED <<tmplist, is_error, pluginVars, lockVars, threadVars,
                 watchVars, procVars, sigVars, fileVars, failed>>

-----------------------------------------------------------------------------
Starter(t) == Fork(t) \/ FailStart(t) \/ OpenPipe(t)
Runner(t) == NextStopped(t) \/ ListRestarted(t) \/ EndRun(t)
Killer(t) == KillTest(t) \/ KillProbe(t) \/ KillHup(t) \/ KillWaited(t) \/ KillHard(t) \/ KillGiveUp(t)

Watcher ==
  \/ \E i \in Pids : Reap(i)
  \/ CallCleanup \/ CleanupChildExit \/ Rerun \/ WatchExit
  \/ Starter(Watch) \/ Runner(Watch)

Worker(w) == LookRunning(w) \/ RunKilled(w) \/ ListStarted(w) \/ Starter(w) \/ Killer(w)

Request(w) == \E p \in Plugins : CreatePlugin(w, p) \/ WriteChanged(w, p)

MainThread ==
  \/ Load \/ Starter(Main) \/ Runner(Main)
  \/ (\E x \in tmplist : StopNext(x)) \/ Killer(Main)
  \/ ClosePipe \/ ForceStop \/ PushForced \/ StopEnd
  \/ StopWatchThread \/ JoinWatch

\* After a kill(-1), which every process of the user gets, nothing is said.
Next ==
  /\ ~astray
  /\ \/ Watcher
     \/ \E w \in Workers : Request(w) \/ Worker(w)
     \/ MainThread \/ StopBegin
     \/ \E t \in Threads : OpenFails(t)
     \/ \E i \in Pids : OpenFifo(i) \/ Exit(i)

Spec == Init /\ [][Next]_vars

(***************************************************************************)
(* Fairness.  Threads go on when they can, children open their pipe and    *)
(* die of SIGKILL.  lockval is a spin lock that others hold for as long as *)
(* plugins are started: strong fairness for the steps that take it.        *)
(* Nobody has to make a request, unmount, or exit by itself, and an open   *)
(* that waits need not fail.                                               *)
(***************************************************************************)
Fairness ==
  /\ WF_vars(Watcher)
  /\ SF_vars(CleanupChildExit \/ Rerun)
  /\ WF_vars(MainThread)
  /\ SF_vars(PushForced \/ StopEnd)
  /\ \A w \in Workers : WF_vars(Worker(w)) /\ SF_vars(LookRunning(w) \/ ListStarted(w))
  /\ WF_vars(\E i \in Pids : OpenFifo(i))
  /\ WF_vars(\E i \in killed : Exit(i))

FairSpec == Spec /\ Fairness

-----------------------------------------------------------------------------
\* The types of the variables.
TypeOK ==
  /\ pl \in [Plugins -> Plugin]
  /\ run_plugin \in [Pids \cup {NoPid} -> Plugins \cup {NoPlugin}]
  /\ stop_plugin \in Seq(Plugins)
  /\ lockval \in {"free", Main, Watch}
  /\ idx \in Nat \ {0}
  /\ pc \in [Threads -> {"idle", "next", "fork", "open", "list", "reaped", "clean", "rerun", "exit", "look",
                         "test", "probe", "hup", "wait", "wait9", "stopped", "unkilled", "push"}]
  /\ arg \in [Threads -> Plugins \cup {NoPlugin}]
  /\ new \in [Threads -> Pids \cup {NoPid}]
  /\ child \in Pids \cup {NoPid}
  /\ again \in BOOLEAN
  /\ thread_exit \in BOOLEAN
  /\ phase \in {"load", "up", "failed", "stop", "free", "join", "done"}
  /\ tmplist \subseteq (Pids \cup {NoPid}) \X Plugins
  /\ is_error \in BOOLEAN
  /\ proc \in [Pids -> Process]
  /\ hup \subseteq Pids
  /\ killed \subseteq Pids
  /\ astray \in BOOLEAN
  /\ known \subseteq Plugins
  /\ failed \subseteq Plugins
  /\ lost \subseteq Pids
  /\ forks \in 0 .. MaxForks
  /\ deaths \in 0 .. MaxDeaths
  /\ changes \in 0 .. MaxChanges

\* Plugins of the configuration whose output file stays: only the main thread
\* and the watch thread start and stop them.
Plain == Plugins \ (Late \cup Changing)

Running == phase \in {"load", "up"}

\* The processes of p but for those whose start has failed with the open of
\* the pipe, and which of them are not reaped.
Own(p) == Children(p) \ lost
Kept(p) == {i \in Own(p) : proc[i].st # "reaped"}

\* Two processes would share the named pipe of the plugin and tear its lines
\* apart: a plugin is forked again only when its process has been reaped, or
\* its start has failed after the fork.  So it has one process, and one more
\* for each such failure.
OneProcess ==
  Running => \A p \in Plain : Cardinality(Kept(p)) <= 1

InRun(p) == {i \in Pids \cup {NoPid} : run_plugin[i] = p}

\* A process id in the running list is that of a child the plugin still has
\* (a reaped one could be anybody's), but for the one the watch thread is
\* about to take out; and the only children missing there, which StopPlugins
\* would have to stop, are the one that is just being started and those whose
\* start has failed, of which none is ever listed.
RunListIsChildren ==
  Running => \A p \in Plain, i \in Pids :
    /\ i \in InRun(p) =>
         /\ i \in Own(p)
         /\ pl[p].pid = i
         /\ proc[i].st = "reaped" => pc[Watch] \in {"reaped", "clean"} /\ child = i
    /\ i \in Kept(p) =>
         i \in InRun(p) \/ \E t \in {Main, Watch} : pc[t] \in {"open", "list"} /\ new[t] = i

\* A thread waits in open(2) for a process that has died before it opened
\* the pipe.
Blocked == \E t \in Threads :
  pc[t] = "open" /\ ~pl[arg[t]].pipe /\ ~ \E i \in Children(arg[t]) : Live(i)

\* "run all stopping plugins (run as soon as possible)": a plugin that has no
\* process gets one, unless it cannot be started, whatever the requests are
\* doing with the other plugins and whatever is left of a start that failed.
ExitedPluginRestarts ==
  \A p \in Plain :
    phase = "up" /\ (\A i \in Own(p) : ~Live(i))
      ~> (\E i \in Own(p) : Live(i)) \/ p \in failed \/ Blocked \/ phase # "up" \/ astray

\* An unmount comes to its end, whatever processes ignore and whenever they
\* exit, unless a thread hangs in open(2).
CleanEnds == phase = "stop" ~> phase = "done" \/ Blocked \/ astray
=============================================================================
