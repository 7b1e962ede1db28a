------------------------------- MODULE Daemon -------------------------------
(***************************************************************************)
(* k2hftfuse from main to exit (k2hftfuse.cc, K2hFtManage::Initialize and  *)
(* Clean in k2hftman.cc), around the rules of RuleMap and the workers that *)
(* serve them.                                                             *)
(*                                                                         *)
(* Initialize takes one part after the other, with conf_lockval held; when *)
(* one cannot be had it gives back some of them itself and leaves the rest *)
(* to the destructor.  Clean runs once: in the signal handler, in the      *)
(* destroy callback at unmount, or in the destructor, whichever is first.  *)
(* The handler then has fusermount take the mount point away, which ends   *)
(* the loop of the main thread.                                            *)
(*                                                                         *)
(* Abstractions.  StopPlugins and the Close of the descriptor cache,       *)
(* modelled in PluginMan and FdCache, are one step each, and CloseAll,     *)
(* modelled in WriteStack, changes nothing that is kept here.  Options,    *)
(* umask and the start of chmpx are left out.  Signals come while the      *)
(* daemon serves or shuts down: one that comes during Initialize would     *)
(* make Clean wait for the lock of the thread it interrupts.               *)
(*                                                                         *)
(* External: libfuse mounts, forks into the background unless it is told   *)
(* not to, and runs the handler in the main thread.  fusermount -u fails   *)
(* while a file is open.                                                   *)
(***************************************************************************)
EXTENDS RuleMap

CONSTANTS
  Failures,    \* the parts that Initialize may fail to get, and "mount"
  HasTimer,    \* TRANSLINECNT or TRANSTIMEUP is set
  Foreground,  \* the option -f
  MaxSignals   \* bound: HUP, TERM and INT

Parts == {"fdcache", "pluginman", "rules", "timeup", "pool", "k2hash", "ctp", "trans", "plugins"}

ASSUME DaemonAssumption ==
  /\ Failures \subseteq Parts \cup {"mount"}
  /\ HasTimer \in BOOLEAN /\ Foreground \in BOOLEAN
  /\ MaxSignals \in Nat

VARIABLES
  main,          \* the next step of the main thread
  caller,        \* who has called Clean
  conf_lockval, exit_lockval, run_thread,
  thread,        \* [Threads -> {"none", "run", "exit", "lost"}]
  has,           \* what is to be given back: epoll, named pipes, k2hash, library
  children,      \* plugins run
  mounted,
  fusermount,    \* a fusermount -u has been started
  signals

Threads == {"timeup", "fdwatch", "plugwatch"}
Things == {"epoll", "pipes", "k2hash", "ctp"}

lockVars == <<conf_lockval, exit_lockval>>
mountVars == <<mounted, fusermount, signals>>
mainVars == <<main, caller, lockVars, run_thread, thread, has, children, mountVars>>
allVars == <<ruleVars, mainVars>>

DaemonInit ==
  /\ Init
  /\ main = "fdcache"
  /\ caller = "none"
  /\ conf_lockval = FALSE
  /\ exit_lockval = FALSE
  /\ run_thread = FALSE
  /\ thread = [t \in Threads |-> "none"]
  /\ has = {}
  /\ children = FALSE
  /\ mounted = FALSE
  /\ fusermount = FALSE
  /\ signals = 0

MainAt(here, next) == main = here /\ main' = next

-----------------------------------------------------------------------------
(* Initialize.                                                             *)

\* conf_lockval is taken, and the cache has its epoll and its thread.
InitFdCache ==
  /\ MainAt("fdcache", "pluginman")
  /\ ~conf_lockval
  /\ conf_lockval' = TRUE
  /\ has' = has \cup {"epoll"}
  /\ thread' = [thread EXCEPT !["fdwatch"] = "run"]
  /\ UNCHANGED <<ruleVars, caller, exit_lockval, run_thread, children, mountVars>>

InitPluginMan ==
  /\ MainAt("pluginman", "rules")
  /\ thread' = [thread EXCEPT !["plugwatch"] = "run"]
  /\ UNCHANGED <<ruleVars, caller, lockVars, run_thread, has, children, mountVars>>

\* Loading also makes the named pipes of the plugins.
InitRules ==
  /\ MainAt("rules", "timeup")
  /\ LoadRules
  /\ has' = has \cup {"pipes"}
  /\ UNCHANGED <<caller, lockVars, run_thread, thread, children, mountVars>>

InitTimeup ==
  /\ MainAt("timeup", "pool")
  /\ run_thread' = HasTimer
  /\ thread' = [thread EXCEPT !["timeup"] = IF HasTimer THEN "run" ELSE "none"]
  /\ UNCHANGED <<ruleVars, caller, lockVars, has, children, mountVars>>

\* SetTransThreadPool, Attach, Load and EnableTransaction.
InitTransfer ==
  /\ \/ MainAt("pool", "k2hash") /\ UNCHANGED has
     \/ MainAt("k2hash", "ctp") /\ has' = has \cup {"k2hash"}
     \/ MainAt("ctp", "trans") /\ has' = has \cup {"ctp"}
     \/ MainAt("trans", "plugins") /\ UNCHANGED has
  /\ UNCHANGED <<ruleVars, caller, lockVars, run_thread, thread, children, mountVars>>

\* RunPlugins, and conf_lockval is given back.
InitPlugins ==
  /\ MainAt("plugins", "mount")
  /\ children' = TRUE
  /\ conf_lockval' = FALSE
  /\ UNCHANGED <<ruleVars, caller, exit_lockval, run_thread, thread, has, mountVars>>

\* What the error returns of Initialize give back themselves,
GivenBack(s) ==
  CASE s = "ctp" -> {"k2hash"}
    [] s \in {"trans", "plugins"} -> {"k2hash", "ctp"}
    [] OTHER -> {}

\* Mutant of InitFails: every error return keeps the lock.
InitFailsKeeps(s) ==
  /\ s \in Failures \cap Parts
  /\ MainAt(s, IF s \in {"pool", "k2hash", "ctp", "trans", "plugins"} THEN "undo" ELSE "delete")
  /\ conf_lockval' = conf_lockval
  /\ has' = (IF s = "rules" THEN has \cup {"pipes"} ELSE has) \ GivenBack(s)
  /\ children' = (s = "plugins")
  /\ UNCHANGED <<ruleVars, caller, exit_lockval, run_thread, thread, mountVars>>

\* and whether they clean the rules; the one for the thread keeps the lock.
InitFails(s) ==
  /\ s \in Failures \cap Parts
  /\ MainAt(s, IF s \in {"pool", "k2hash", "ctp", "trans", "plugins"} THEN "undo" ELSE "delete")
  /\ conf_lockval' = (s = "timeup")
  /\ has' = (IF s = "rules" THEN has \cup {"pipes"} ELSE has) \ GivenBack(s)
  /\ children' = (s = "plugins")
  /\ UNCHANGED <<ruleVars, caller, exit_lockval, run_thread, thread, mountVars>>

-----------------------------------------------------------------------------
(* fuse_main.                                                              *)

\* Without -f the process forks: the threads stay behind in the parent,
\* which exits.
MountDone ==
  /\ MainAt("mount", "serve")
  /\ mounted' = TRUE
  /\ thread' = IF Foreground THEN thread
               ELSE [t \in Threads |-> IF thread[t] = "run" THEN "lost" ELSE thread[t]]
  /\ UNCHANGED <<ruleVars, caller, lockVars, run_thread, has, children, fusermount, signals>>

MountFails ==
  /\ "mount" \in Failures
  /\ MainAt("mount", "delete")
  /\ UNCHANGED <<ruleVars, caller, lockVars, run_thread, thread, has, children, mountVars>>

\* Nobody uses the file system.
Unused == handles = {} /\ \A w \in Workers : ~Busy(w)

\* Somebody unmounts.
Unmount ==
  /\ mounted /\ Unused
  /\ mounted' = FALSE
  /\ UNCHANGED <<ruleVars, main, caller, lockVars, run_thread, thread, has, children, fusermount, signals>>

\* The fusermount of the signal handler, in the background: "device busy"
\* unless nobody uses the file system.
Fusermount ==
  /\ fusermount
  /\ fusermount' = FALSE
  /\ mounted' = (mounted /\ ~Unused)
  /\ UNCHANGED <<ruleVars, main, caller, lockVars, run_thread, thread, has, children, signals>>

\* The loop is over, and libfuse calls destroy.
LoopEnds ==
  /\ MainAt("serve", "clean")
  /\ ~mounted
  /\ caller' = "destroy"
  /\ UNCHANGED <<ruleVars, lockVars, run_thread, thread, has, children, mountVars>>

\* exit_signal_handler, in the main thread, which waits for the loop to end.
Signal ==
  /\ signals < MaxSignals
  /\ signals' = signals + 1
  /\ MainAt("serve", "clean")
  /\ caller' = "signal"
  /\ UNCHANGED <<ruleVars, lockVars, run_thread, thread, has, children, mounted, fusermount>>

CleanSteps == {"join", "stop", "lock", "close", "undo", "unlock"}

\* Another signal, while Clean runs: "Already in the end processing."
SignalAgain ==
  /\ signals < MaxSignals
  /\ signals' = signals + 1
  /\ exit_lockval
  /\ main \in CleanSteps
  /\ fusermount' = TRUE
  /\ UNCHANGED <<ruleVars, main, caller, lockVars, run_thread, thread, has, children, mounted>>

-----------------------------------------------------------------------------
(* Clean.                                                                  *)

\* Where the caller of Clean goes on.
Back == CASE caller = "signal" -> "serve"
          [] caller = "destroy" -> "delete"
          [] caller = "delete" -> "members"

Return ==
  /\ main' = Back
  /\ fusermount' = (fusermount \/ caller = "signal")

Delete ==
  /\ MainAt("delete", "clean")
  /\ caller' = "delete"
  /\ UNCHANGED <<ruleVars, lockVars, run_thread, thread, has, children, mountVars>>

\* exit_lockval lets one call through, for good.
CleanAgain ==
  /\ main = "clean"
  /\ exit_lockval
  /\ Return
  /\ UNCHANGED <<ruleVars, caller, lockVars, run_thread, thread, has, children, mounted, signals>>

CleanBegin ==
  /\ MainAt("clean", "join")
  /\ ~exit_lockval
  /\ exit_lockval' = TRUE
  /\ run_thread' = FALSE
  /\ UNCHANGED <<ruleVars, caller, conf_lockval, thread, has, children, mountVars>>

\* Mutant of JoinTimeup: the thread is told to exit, and not waited for.
JoinTimeupNot ==
  /\ MainAt("join", "stop")
  /\ UNCHANGED <<ruleVars, caller, lockVars, run_thread, thread, has, children, mountVars>>

JoinTimeup ==
  /\ MainAt("join", "stop")
  /\ thread["timeup"] # "run"
  /\ UNCHANGED <<ruleVars, caller, lockVars, run_thread, thread, has, children, mountVars>>

\* "Must stop all plugins before K2hFtInfo is cleaned", and their pipes.
StopPlugins ==
  /\ MainAt("stop", "lock")
  /\ children' = FALSE
  /\ has' = has \ {"pipes"}
  /\ UNCHANGED <<ruleVars, caller, lockVars, run_thread, thread, mountVars>>

LockConf ==
  /\ MainAt("lock", "close")
  /\ ~conf_lockval
  /\ conf_lockval' = TRUE
  /\ UNCHANGED <<ruleVars, caller, exit_lockval, run_thread, thread, has, children, mountVars>>

\* The cache with its thread, the transaction library and k2hash.
CloseParts ==
  /\ MainAt("close", "undo")
  /\ has' = has \ {"epoll", "k2hash", "ctp"}
  /\ thread' = [thread EXCEPT !["fdwatch"] = IF @ = "run" THEN "exit" ELSE @]
  /\ UNCHANGED <<ruleVars, caller, lockVars, run_thread, children, mountVars>>

\* K2hFtInfo::Clean, called by Clean or by an error return of Initialize.
CleanInfo ==
  /\ main = "undo"
  /\ CleanRules
  /\ main' = IF cleaning # "clear" THEN "undo" ELSE IF exit_lockval THEN "unlock" ELSE "delete"
  /\ UNCHANGED <<caller, lockVars, run_thread, thread, has, children, mountVars>>

\* Mutant of CleanEnd: conf_lockval stays.
CleanEndNot ==
  /\ main = "unlock"
  /\ Return
  /\ UNCHANGED <<ruleVars, caller, lockVars, run_thread, thread, has, children, mounted, signals>>

CleanEnd ==
  /\ main = "unlock"
  /\ conf_lockval' = FALSE
  /\ Return
  /\ UNCHANGED <<ruleVars, caller, exit_lockval, run_thread, thread, has, children, mounted, signals>>

\* The members are destroyed; the one of the plugins stops them again, and
\* its thread.
Members ==
  /\ MainAt("members", "exited")
  /\ children' = FALSE
  /\ has' = has \ {"pipes"}
  /\ thread' = [thread EXCEPT !["plugwatch"] = IF @ = "run" THEN "exit" ELSE @]
  /\ UNCHANGED <<ruleVars, caller, lockVars, run_thread, mountVars>>

-----------------------------------------------------------------------------
(* The other threads.                                                      *)

Timeup == thread["timeup"] = "run" /\ (TimerAdd \/ TimerEnd) /\ UNCHANGED mainVars

\* TimeupWorkerProc looks at run_thread between two rounds.
TimeupExits ==
  /\ thread["timeup"] = "run"
  /\ ~run_thread
  /\ adding[Timer] = NoAdd
  /\ thread' = [thread EXCEPT !["timeup"] = "exit"]
  /\ UNCHANGED <<ruleVars, main, caller, lockVars, run_thread, has, children, mountVars>>

Ask_ == mounted /\ Ask /\ UNCHANGED mainVars
Serve_ == Serve /\ UNCHANGED mainVars

Initialize == InitFdCache \/ InitPluginMan \/ InitRules \/ InitTimeup \/ InitTransfer \/ InitPlugins
CleanMain ==
  \/ CleanAgain \/ CleanBegin \/ JoinTimeup \/ StopPlugins \/ LockConf
  \/ CloseParts \/ CleanInfo \/ CleanEnd
MainGoes == Initialize \/ MountDone \/ LoopEnds \/ Delete \/ CleanMain \/ Members

DaemonNext ==
  \/ MainGoes \/ (\E s \in Parts : InitFails(s)) \/ MountFails
  \/ Unmount \/ Fusermount \/ Signal \/ SignalAgain
  \/ Timeup \/ TimeupExits \/ Ask_ \/ Serve_

DaemonSpec == DaemonInit /\ [][DaemonNext]_allVars

(***************************************************************************)
(* Fairness.  As long as a thread of the daemon, or fusermount, can go on, *)
(* one of them does.  That is little, and enough: nothing in the daemon    *)
(* goes round in circles but by what clients ask for, so a thread that is  *)
(* left out, or spins on a lock, would be the last one that can go on.     *)
(* Nobody has to ask for anything, to unmount or to send a signal.         *)
(***************************************************************************)
ThreadsGo ==
  \/ MainGoes \/ (\E s \in Parts : InitFails(s))
  \/ (TimerEnd /\ UNCHANGED mainVars) \/ TimeupExits
  \/ Fusermount \/ Serve_

FairDaemonSpec == DaemonSpec /\ WF_allVars(ThreadsGo)

-----------------------------------------------------------------------------
\* The types of the variables.
DaemonTypeOK ==
  /\ TypeOK
  /\ main \in Parts \cup CleanSteps \cup {"mount", "serve", "clean", "delete", "members", "exited"}
  /\ caller \in {"none", "signal", "destroy", "delete"}
  /\ conf_lockval \in BOOLEAN /\ exit_lockval \in BOOLEAN /\ run_thread \in BOOLEAN
  /\ thread \in [Threads -> {"none", "run", "exit", "lost"}]
  /\ has \subseteq Things
  /\ children \in BOOLEAN /\ mounted \in BOOLEAN /\ fusermount \in BOOLEAN
  /\ signals \in 0 .. MaxSignals

\* Clean takes the parts away in an order in which nobody uses one that has
\* gone: not the timeup thread in the middle of a value, and not the plugins.
UsersGoFirst ==
  /\ adding[Timer] # NoAdd => {"k2hash", "epoll"} \subseteq has /\ rules[adding[Timer].id] # Freed
  /\ children => Config /\ "pipes" \in has

\* Whatever part Initialize failed to get, and whoever called Clean first:
\* at the exit all that was taken has been given back.
NothingLeft ==
  main = "exited" =>
    /\ has = {} /\ ~children /\ ~conf_lockval
    /\ \A t \in Threads : thread[t] # "run"
    /\ \A i \in Ids : rules[i] = Freed

\* While requests are served the threads run that put out what is stacked,
\* watch the output files and start the plugins again.
ServedByThreads ==
  main = "serve" /\ ~exit_lockval => \A t \in Threads : t # "timeup" \/ HasTimer => thread[t] = "run"

\* The main thread does not hang: what is started is mounted in the end or
\* exits, and exits after an unmount, whatever the clients have under way.
MainGoesOn == ~mounted ~> mounted \/ main = "exited"
=============================================================================
