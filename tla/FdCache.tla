------------------------------- MODULE FdCache -------------------------------
(***************************************************************************)
(* K2hFtFdCache (k2hftfdcache.cc): the cache of open output files and the  *)
(* thread that watches, with inotify and epoll, for their removal.         *)
(*                                                                         *)
(* Writers (K2hFtInfo::Processing, in any thread) call Write; the watch    *)
(* thread adds watches for new entries and drops the entries whose file    *)
(* has gone; other programs remove, rename and recreate the files.         *)
(*                                                                         *)
(* Abstractions.  Paths never share a file and a file that has gone does   *)
(* not come back, so a file is named by its path and a number; number 0    *)
(* is no file.  The descriptor table is explicit because the code keeps    *)
(* descriptor NUMBERS after the lock is given back.  The events of one     *)
(* watch are represented by the first one unread: CheckInotifyEvents reads *)
(* all there are and acts on the first.  What is written is left out.      *)
(*                                                                         *)
(* External: the kernel's open, inotify, epoll and signalfd.  A new        *)
(* descriptor has the lowest free number; the first watch of an inotify    *)
(* instance has number 1; epoll is edge triggered for watches and level    *)
(* triggered for the signal; FLCK_CLOSE of fullock closes a descriptor.    *)
(***************************************************************************)
EXTENDS Integers, FiniteSets

CONSTANTS
  Paths,         \* output files
  Writers,       \* threads in K2hFtInfo::Processing
  MaxFd,         \* bound: descriptor numbers 1 .. MaxFd
  MaxMoves,      \* bound: changes other programs make to the files
  OpenMayFail,   \* open(2) may fail
  WatchMayFail,  \* inotify_init1, inotify_add_watch or epoll_ctl may fail
  ThreadMayFail  \* so may what the watch thread itself cannot do without

ASSUME FdAssumption ==
  /\ MaxFd \in Nat \ {0}
  /\ MaxMoves \in Nat
  /\ OpenMayFail \in BOOLEAN
  /\ WatchMayFail \in BOOLEAN
  /\ ThreadMayFail \in BOOLEAN

Fds == 1 .. MaxFd
NoFd == -1        \* K2HFT_INVALID_HANDLE
Wd == 1           \* the number of the only watch of an inotify instance
Sig == 0          \* stands for sigfd among the descriptors that are ready
NoPath == "none"

ASSUME PathAssumption == NoPath \notin Paths

VARIABLES
  fs,        \* [Paths -> Nat]: the file that is at the path now
  made,      \* [Paths -> Nat]: files made at the path so far
  moves,     \* changes made by other programs
  fdt,       \* [Fds -> Object]: the descriptor table
  ready,     \* epoll: inotify descriptors with an edge to report
  kick,      \* SIGUSR2 is pending for the watch thread
  alive,     \* the daemon has not been killed
  lockval,   \* "free" or "watch" (AddAllFileWatchEpoll)
  curfwmap,  \* [Paths -> Entry or NoEntry]
  stale,     \* writers that hold an entry that has been deleted
  wpc, wr,   \* each writer: its step and its locals
  tpc, todo, batch, cfd, cpath,  \* the watch thread: step and locals
  run_thread,
  cpc,       \* Close(): its step
  tried      \* history: entries the watch thread has tried to watch

fileVars   == <<fs, made, moves>>
fdVars     == <<fdt, ready>>
sigVars    == <<kick, alive>>
cacheVars  == <<lockval, curfwmap, stale, tried>>
writerVars == <<wpc, wr>>
watchVars  == <<tpc, todo, batch, cfd, cpath>>
closeVars  == <<run_thread, cpc>>
vars == <<fileVars, fdVars, sigVars, cacheVars, writerVars, watchVars, closeVars>>

Object == [kind : {"free", "std", "file", "inotify"}, path : Paths \cup {NoPath},
           no : Nat, event : {"none", "attrib", "move"}]

Obj(kind, p, n) == [kind |-> kind, path |-> p, no |-> n, event |-> "none"]
Free == Obj("free", NoPath, 0)
StdOut == Obj("std", NoPath, 0)

\* K2HFTFW: number of the file at opening (st_ino), opened_fd, inotify_fd.
Entry == [no : Nat, fd : Fds \cup {NoFd}, ifd : Fds \cup {NoFd}]
NoEntry == [no |-> 0, fd |-> NoFd, ifd |-> NoFd]

Local == [op : {"none", "write", "register"}, path : Paths \cup {NoPath}, fd : Fds \cup {NoFd}, direct : BOOLEAN]
NoLocal == [op |-> "none", path |-> NoPath, fd |-> NoFd, direct |-> FALSE]

Cached == {p \in Paths : curfwmap[p] # NoEntry}

Init ==
  /\ fs \in [Paths -> {0, 1}]
  /\ made = fs
  /\ moves = 0
  /\ fdt = [n \in Fds |-> IF n = 1 THEN StdOut ELSE Free]
  /\ ready = {}
  /\ kick = FALSE
  /\ alive = TRUE
  /\ lockval = "free"
  /\ curfwmap = [p \in Paths |-> NoEntry]
  /\ stale = {}
  /\ wpc = [w \in Writers |-> "idle"]
  /\ wr = [w \in Writers |-> NoLocal]
  /\ tpc = "start"
  /\ todo = {}
  /\ batch = {}
  /\ cfd = NoFd
  /\ cpath = NoPath
  /\ run_thread = TRUE
  /\ cpc = "up"
  /\ tried = {}

-----------------------------------------------------------------------------
(* Descriptors.                                                            *)

FreeFds == {n \in Fds : fdt[n].kind = "free"}

\* n is the number the next open(2) returns.
IsNextFd(n) == n \in FreeFds /\ \A m \in FreeFds : n <= m

\* close(2); the kernel takes a closed descriptor out of the epoll set.
CloseFds(fds) ==
  /\ fdt' = [n \in Fds |-> IF n \in fds THEN Free ELSE fdt[n]]
  /\ ready' = ready \ fds

\* KickSignal: pthread_kill with SIGUSR2.  Before MakeSignalFd has blocked the
\* signal its default action ends the process; a thread that has ended does not
\* get it.
KickSignal ==
  /\ kick' = (kick \/ tpc \notin {"start", "exit"})
  /\ alive' = (alive /\ tpc # "start")

-----------------------------------------------------------------------------
(* Other programs.                                                         *)

\* Watches on the file that is at p now get an event; the first one is kept.
Notify(p, e) ==
  LET hit == {n \in Fds : fdt[n].kind = "inotify" /\ fdt[n].path = p /\ fdt[n].no = fs[p]}
  IN  /\ fdt' = [n \in Fds |-> IF n \in hit /\ fdt[n].event = "none"
                                 THEN [fdt[n] EXCEPT !.event = e] ELSE fdt[n]]
      /\ ready' = ready \cup hit

Touch(p, e) ==
  /\ fs[p] # 0
  /\ moves < MaxMoves
  /\ moves' = moves + 1
  /\ Notify(p, e)
  /\ UNCHANGED <<made, sigVars, cacheVars, writerVars, watchVars, closeVars>>

\* unlink(2) changes the link count of the file, which we have open.
Unlink(p) == Touch(p, "attrib") /\ fs' = [fs EXCEPT ![p] = 0]

Rename(p) == Touch(p, "move") /\ fs' = [fs EXCEPT ![p] = 0]

Chmod(p) == Touch(p, "attrib") /\ UNCHANGED fs

Recreate(p) ==
  /\ fs[p] = 0
  /\ made[p] <= MaxMoves
  /\ made' = [made EXCEPT ![p] = @ + 1]
  /\ fs' = [fs EXCEPT ![p] = made[p] + 1]
  /\ UNCHANGED <<moves, fdVars, sigVars, cacheVars, writerVars, watchVars,
                 closeVars>>

-----------------------------------------------------------------------------
(* K2hFtFdCache::Write and Register, which only looks the file up.         *)

Begin(w, op, p) ==
  /\ wpc[w] = "idle"
  /\ cpc = "up"
  /\ wpc' = [wpc EXCEPT ![w] = "get"]
  /\ wr' = [wr EXCEPT ![w].op = op, ![w].path = p]
  /\ UNCHANGED <<fileVars, fdVars, sigVars, cacheVars, watchVars, closeVars>>

\* open(2) with O_CREAT: a file that is not there is made.
OpenFile(p, n) ==
  /\ IsNextFd(n)
  /\ made' = [made EXCEPT ![p] = IF fs[p] = 0 THEN @ + 1 ELSE @]
  /\ fs' = [fs EXCEPT ![p] = IF @ = 0 THEN made[p] + 1 ELSE @]
  /\ fdt' = [fdt EXCEPT ![n] = Obj("file", p, fs'[p])]

\* GetFileWatch, the file is in the cache.
GetCached(w) ==
  /\ wpc[w] = "get"
  /\ lockval = "free"
  /\ curfwmap[wr[w].path] # NoEntry
  /\ wpc' = [wpc EXCEPT ![w] = "ref"]
  /\ UNCHANGED <<wr, fileVars, fdVars, sigVars, cacheVars, watchVars,
                 closeVars>>

\* Mutant of GetOpened: no signal for a new entry.
GetOpenedNoKick(w) ==
  /\ wpc[w] = "get"
  /\ lockval = "free"
  /\ curfwmap[wr[w].path] = NoEntry
  /\ \E n \in FreeFds :
       /\ OpenFile(wr[w].path, n)
       /\ curfwmap' = [curfwmap EXCEPT ![wr[w].path] =
                         [no |-> fs'[wr[w].path], fd |-> n, ifd |-> NoFd]]
  /\ wpc' = [wpc EXCEPT ![w] = "ref"]
  /\ UNCHANGED <<moves, ready, lockval, stale, wr, tried, sigVars, watchVars,
                 closeVars>>

\* GetFileWatch, the file is opened and cached; the signal follows.
GetOpened(w) ==
  /\ wpc[w] = "get"
  /\ lockval = "free"
  /\ curfwmap[wr[w].path] = NoEntry
  /\ \E n \in FreeFds :
       /\ OpenFile(wr[w].path, n)
       /\ curfwmap' = [curfwmap EXCEPT ![wr[w].path] =
                         [no |-> fs'[wr[w].path], fd |-> n, ifd |-> NoFd]]
  /\ wpc' = [wpc EXCEPT ![w] = "kick"]
  /\ UNCHANGED <<moves, ready, lockval, stale, wr, tried, sigVars, watchVars,
                 closeVars>>

Return(w) ==
  /\ wpc' = [wpc EXCEPT ![w] = "idle"]
  /\ wr' = [wr EXCEPT ![w] = NoLocal]

CannotOpen == OpenMayFail \/ FreeFds = {}

\* GetFileWatch, the file cannot be opened.
GetFailed(w) ==
  /\ wpc[w] = "get"
  /\ lockval = "free"
  /\ curfwmap[wr[w].path] = NoEntry
  /\ CannotOpen
  /\ IF wr[w].op = "write" THEN wpc' = [wpc EXCEPT ![w] = "direct"] /\ UNCHANGED wr
                           ELSE Return(w)
  /\ UNCHANGED <<fileVars, fdVars, sigVars, cacheVars, watchVars, closeVars>>

Kick(w) ==
  /\ wpc[w] = "kick"
  /\ KickSignal
  /\ wpc' = [wpc EXCEPT ![w] = "ref"]
  /\ UNCHANGED <<wr, fileVars, fdVars, cacheVars, watchVars, closeVars>>

\* Write reads pfw->opened_fd, after the lock has been given back.
ReadFd(w) ==
  /\ wpc[w] = "ref"
  /\ wr[w].op = "write"
  /\ w \notin stale
  /\ wr' = [wr EXCEPT ![w].fd = curfwmap[wr[w].path].fd]
  /\ wpc' = [wpc EXCEPT ![w] = "write"]
  /\ UNCHANGED <<fileVars, fdVars, sigVars, cacheVars, watchVars, closeVars>>

\* The same from freed memory: what the delete left there, or what an entry
\* made since then has put there.
ReadFreedFd(w) ==
  /\ wpc[w] = "ref"
  /\ wr[w].op = "write"
  /\ w \in stale
  /\ \E n \in {NoFd} \cup {curfwmap[p].fd : p \in Cached} : wr' = [wr EXCEPT ![w].fd = n]
  /\ stale' = stale \ {w}
  /\ wpc' = [wpc EXCEPT ![w] = "write"]
  /\ UNCHANGED <<lockval, curfwmap, tried, fileVars, fdVars, sigVars,
                 watchVars, closeVars>>

\* Register copies the device and the number of the file out of the entry.
RegisterEnd(w) ==
  /\ wpc[w] = "ref"
  /\ wr[w].op = "register"
  /\ stale' = stale \ {w}
  /\ Return(w)
  /\ UNCHANGED <<lockval, curfwmap, tried, fileVars, fdVars, sigVars,
                 watchVars, closeVars>>

\* Write opens the file for itself when the cache could not.
OpenDirect(w) ==
  /\ wpc[w] = "direct"
  /\ \E n \in FreeFds :
       /\ OpenFile(wr[w].path, n)
       /\ wr' = [wr EXCEPT ![w].fd = n, ![w].direct = TRUE]
  /\ wpc' = [wpc EXCEPT ![w] = "write"]
  /\ UNCHANGED <<moves, ready, sigVars, cacheVars, watchVars, closeVars>>

OpenDirectFailed(w) ==
  /\ wpc[w] = "direct"
  /\ CannotOpen
  /\ Return(w)
  /\ UNCHANGED <<fileVars, fdVars, sigVars, cacheVars, watchVars, closeVars>>

\* k2hft_write on the descriptor under its range lock, then the return.
WriteEnd(w) ==
  /\ wpc[w] = "write"
  /\ CloseFds(IF wr[w].direct THEN {wr[w].fd} ELSE {})
  /\ Return(w)
  /\ UNCHANGED <<fileVars, sigVars, cacheVars, watchVars, closeVars>>

-----------------------------------------------------------------------------
(* WorkerThread.                                                           *)

\* MakeSignalFd blocks the signal; the signal descriptor goes into epoll.
ThreadStart ==
  /\ tpc = "start"
  /\ tpc' = "add"
  /\ UNCHANGED <<todo, batch, cfd, cpath, fileVars, fdVars, sigVars,
                 cacheVars, writerVars, closeVars>>

\* MakeSignalFd or epoll_ctl fails and the thread ends.  run_thread stays set,
\* nobody is told, and nothing is watched from then on.
StartFails ==
  /\ tpc = "start"
  /\ ThreadMayFail
  /\ tpc' = "exit"
  /\ UNCHANGED <<todo, batch, cfd, cpath, fileVars, fdVars, sigVars,
                 cacheVars, writerVars, closeVars>>

\* The loop ends, or AddAllFileWatchEpoll takes the lock.
AddBegin ==
  /\ tpc = "add"
  /\ IF run_thread
       THEN /\ lockval = "free"
            /\ lockval' = "watch"
            /\ todo' = {p \in Cached : curfwmap[p].ifd = NoFd}
            /\ tpc' = "adding"
       ELSE tpc' = "exit" /\ UNCHANGED <<lockval, todo>>
  /\ UNCHANGED <<curfwmap, stale, batch, cfd, cpath, tried, fileVars, fdVars,
                 sigVars, writerVars, closeVars>>

\* AddFileWatchEpoll: the watch is put on the file that is at the path now.
AddWatch(p) ==
  /\ tpc = "adding"
  /\ p \in todo
  /\ fs[p] # 0
  /\ \E n \in FreeFds :
       /\ IsNextFd(n)
       /\ fdt' = [fdt EXCEPT ![n] = Obj("inotify", p, fs[p])]
       /\ curfwmap' = [curfwmap EXCEPT ![p].ifd = n]
  /\ todo' = todo \ {p}
  /\ tried' = tried \cup {p}
  /\ UNCHANGED <<ready, lockval, stale, tpc, batch, cfd, cpath, fileVars,
                 sigVars, writerVars, closeVars>>

\* Mutant of AddFailed: the inotify instance is not closed.
AddFailedNoClose(p) ==
  /\ tpc = "adding"
  /\ p \in todo
  /\ fs[p] = 0 \/ FreeFds = {} \/ WatchMayFail
  /\ fdt' = [n \in Fds |-> IF IsNextFd(n) THEN Obj("inotify", p, 0) ELSE fdt[n]]
  /\ todo' = todo \ {p}
  /\ tried' = tried \cup {p}
  /\ UNCHANGED <<ready, lockval, curfwmap, stale, tpc, batch, cfd, cpath,
                 fileVars, sigVars, writerVars, closeVars>>

\* AddFileWatchEpoll fails and leaves the entry without a watch: nothing is at
\* the path or the kernel refuses.  If it is epoll_ctl that fails, the number
\* of the watch is closed as if it were a descriptor.
AddFailed(p) ==
  /\ tpc = "adding"
  /\ p \in todo
  /\ \/ (fs[p] = 0 \/ FreeFds = {} \/ WatchMayFail) /\ CloseFds({})
     \/ fs[p] # 0 /\ WatchMayFail /\ CloseFds({Wd})
  /\ todo' = todo \ {p}
  /\ tried' = tried \cup {p}
  /\ UNCHANGED <<lockval, curfwmap, stale, tpc, batch, cfd, cpath, fileVars,
                 sigVars, writerVars, closeVars>>

AddEnd ==
  /\ tpc = "adding"
  /\ todo = {}
  /\ lockval' = "free"
  /\ tpc' = "wait"
  /\ UNCHANGED <<curfwmap, stale, todo, batch, cfd, cpath, tried, fileVars,
                 fdVars, sigVars, writerVars, closeVars>>

\* epoll_pwait without a timeout.
WaitEvents ==
  /\ tpc = "wait"
  /\ ready # {} \/ kick
  /\ batch' = ready \cup (IF kick THEN {Sig} ELSE {})
  /\ ready' = {}
  /\ tpc' = "events"
  /\ UNCHANGED <<fdt, todo, cfd, cpath, fileVars, sigVars, cacheVars,
                 writerVars, closeVars>>

\* A signal handler interrupts epoll_pwait, which has nothing to report.
WaitInterrupted ==
  /\ tpc = "wait"
  /\ ready = {} /\ ~kick
  /\ tpc' = "add"
  /\ UNCHANGED <<todo, batch, cfd, cpath, fileVars, fdVars, sigVars,
                 cacheVars, writerVars, closeVars>>

\* epoll_pwait fails in any other way and the thread ends, as in StartFails.
WaitFails ==
  /\ tpc = "wait"
  /\ ThreadMayFail
  /\ tpc' = "exit"
  /\ UNCHANGED <<todo, batch, cfd, cpath, fileVars, fdVars, sigVars,
                 cacheVars, writerVars, closeVars>>

\* Mutant of ReadSignal: the signal descriptor is taken for a watch.
ReadSignalAsEvent ==
  /\ tpc = "events"
  /\ Sig \in batch
  /\ batch' = batch \ {Sig}
  /\ cfd' = Sig
  /\ UNCHANGED <<tpc, todo, cpath, fileVars, fdVars, sigVars, cacheVars,
                 writerVars, closeVars>>

\* The signal is read; the other events are skipped when the thread must stop.
ReadSignal ==
  /\ tpc = "events"
  /\ Sig \in batch
  /\ kick' = FALSE
  /\ batch' = IF run_thread THEN batch \ {Sig} ELSE {}
  /\ UNCHANGED <<alive, tpc, todo, cfd, cpath, fileVars, fdVars, cacheVars,
                 writerVars, closeVars>>

\* Mutant of CheckInotifyEvents: a change of attributes is not looked into.
CheckInotifyEventsMoveOnly(n) ==
  /\ tpc = "events"
  /\ n \in batch \cap Fds
  /\ batch' = batch \ {n}
  /\ cfd' = n
  /\ fdt' = [fdt EXCEPT ![n].event = "none"]
  /\ tpc' = IF fdt[n].event = "move" THEN "drop" ELSE "events"
  /\ UNCHANGED <<ready, todo, cpath, fileVars, sigVars, cacheVars,
                 writerVars, closeVars>>

\* CheckInotifyEvents: read until empty or until the first event of interest.
CheckInotifyEvents(n) ==
  /\ tpc = "events"
  /\ n \in batch \cap Fds
  /\ batch' = batch \ {n}
  /\ cfd' = n
  /\ fdt' = [fdt EXCEPT ![n].event = "none"]
  /\ tpc' = CASE fdt[n].event = "move" -> "drop"
              [] fdt[n].event = "attrib" -> "find"
              [] OTHER -> "events"
  /\ UNCHANGED <<ready, todo, cpath, fileVars, sigVars, cacheVars,
                 writerVars, closeVars>>

\* The entries the loops over curfwmap may find for the descriptor.
Watched == {p \in Cached : curfwmap[p].ifd = cfd}

\* CheckRemoveFileWatch up to the unlock.
FindWatch ==
  /\ tpc = "find"
  /\ lockval = "free"
  /\ \/ \E p \in Watched : tpc' = "stat" /\ cpath' = p
     \/ Watched = {} /\ tpc' = "events" /\ UNCHANGED cpath
  /\ UNCHANGED <<todo, batch, cfd, fileVars, fdVars, sigVars, cacheVars,
                 writerVars, closeVars>>

\* Mutant of StatFile: an event is taken for a removal.
StatFileAlways ==
  /\ tpc = "stat"
  /\ tpc' = "drop"
  /\ UNCHANGED <<todo, batch, cfd, cpath, fileVars, fdVars, sigVars,
                 cacheVars, writerVars, closeVars>>

\* CheckRemoveFileWatch compares the file at the path with the cached one.
StatFile ==
  /\ tpc = "stat"
  /\ tpc' = IF fs[cpath] # curfwmap[cpath].no THEN "drop" ELSE "events"
  /\ UNCHANGED <<todo, batch, cfd, cpath, fileVars, fdVars, sigVars,
                 cacheVars, writerVars, closeVars>>

\* Writers that GetFileWatch has given the entry of p to.
Holders(p) == {w \in Writers : wpc[w] \in {"kick", "ref"} /\ wr[w].path = p}

\* DeleteFileWatchEpoll closes the number of the watch, the inotify instance
\* and the file, in this order, and deletes the entry.
DeleteEntry(p) ==
  LET e == curfwmap[p]
  IN  /\ CloseFds({e.ifd, e.fd} \cup (IF e.ifd # NoFd THEN {Wd} ELSE {}))
      /\ curfwmap' = [curfwmap EXCEPT ![p] = NoEntry]
      /\ stale' = stale \cup Holders(p)
      /\ tried' = tried \ {p}

\* DeleteFileWatch
DropWatch ==
  /\ tpc = "drop"
  /\ lockval = "free"
  /\ \/ \E p \in Watched : DeleteEntry(p)
     \/ Watched = {} /\ UNCHANGED <<curfwmap, stale, tried, fdVars>>
  /\ tpc' = "events"
  /\ UNCHANGED <<lockval, todo, batch, cfd, cpath, fileVars, sigVars,
                 writerVars, closeVars>>

EventsEnd ==
  /\ tpc = "events"
  /\ batch = {}
  /\ tpc' = "add"
  /\ UNCHANGED <<todo, batch, cfd, cpath, fileVars, fdVars, sigVars,
                 cacheVars, writerVars, closeVars>>

-----------------------------------------------------------------------------
(* K2hFtFdCache::Close, at unmount, when nobody writes any more.           *)

\* Mutant of CloseStart: the thread is not woken.
CloseStartNoKick ==
  /\ cpc = "up"
  /\ \A w \in Writers : wpc[w] = "idle"
  /\ run_thread' = FALSE
  /\ cpc' = "join"
  /\ UNCHANGED <<fileVars, fdVars, sigVars, cacheVars, writerVars, watchVars>>

CloseStart ==
  /\ cpc = "up"
  /\ \A w \in Writers : wpc[w] = "idle"
  /\ run_thread' = FALSE
  /\ KickSignal
  /\ cpc' = "join"
  /\ UNCHANGED <<fileVars, fdVars, cacheVars, writerVars, watchVars>>

CloseJoin ==
  /\ cpc = "join"
  /\ tpc = "exit"
  /\ cpc' = "free"
  /\ UNCHANGED <<run_thread, fileVars, fdVars, sigVars, cacheVars,
                 writerVars, watchVars>>

CloseEntry(p) ==
  /\ cpc = "free"
  /\ p \in Cached
  /\ DeleteEntry(p)
  /\ UNCHANGED <<lockval, fileVars, sigVars, writerVars, watchVars, closeVars>>

CloseEnd ==
  /\ cpc = "free"
  /\ Cached = {}
  /\ cpc' = "done"
  /\ UNCHANGED <<run_thread, fileVars, fdVars, sigVars, cacheVars,
                 writerVars, watchVars>>

-----------------------------------------------------------------------------
Others(p) == Unlink(p) \/ Rename(p) \/ Chmod(p) \/ Recreate(p)

Call(w) == \E p \in Paths, op \in {"write", "register"} : Begin(w, op, p)

Writer(w) ==
  \/ GetCached(w) \/ GetOpened(w) \/ GetFailed(w) \/ Kick(w)
  \/ ReadFd(w) \/ ReadFreedFd(w) \/ RegisterEnd(w)
  \/ OpenDirect(w) \/ OpenDirectFailed(w) \/ WriteEnd(w)

Watcher ==
  \/ ThreadStart \/ AddBegin
  \/ \E p \in Paths : AddWatch(p) \/ AddFailed(p)
  \/ AddEnd \/ WaitEvents \/ ReadSignal
  \/ \E n \in Fds : CheckInotifyEvents(n)
  \/ FindWatch \/ StatFile \/ DropWatch \/ EventsEnd

\* What may happen to the watch thread and does not have to.
Disturbed == StartFails \/ WaitInterrupted \/ WaitFails

Closer == CloseJoin \/ (\E p \in Paths : CloseEntry(p)) \/ CloseEnd

Running ==
  \/ \E w \in Writers : Call(w) \/ Writer(w)
  \/ Watcher \/ Disturbed
  \/ CloseStart \/ Closer

\* The process has ended, or Close is over.
Stopped == (~alive \/ cpc = "done") /\ UNCHANGED vars

Next ==
  \/ alive /\ Running
  \/ \E p \in Paths : Others(p)
  \/ Stopped

Spec == Init /\ [][Next]_vars

(***************************************************************************)
(* Fairness.  Every thread that can go on does.  lockval is a spin lock    *)
(* that others hold for a moment only: strong fairness for the steps that  *)
(* take it.  Nobody has to write, to close or to change a file, and        *)
(* nothing has to fail or to be interrupted.                               *)
(***************************************************************************)
Fairness ==
  /\ \A w \in Writers :
       /\ WF_vars(alive /\ Writer(w))
       /\ SF_vars(alive /\ (GetCached(w) \/ GetOpened(w) \/ GetFailed(w)))
  /\ WF_vars(alive /\ Watcher)
  /\ SF_vars(alive /\ (FindWatch \/ DropWatch))
  /\ WF_vars(alive /\ Closer)

FairSpec == Spec /\ Fairness

-----------------------------------------------------------------------------
\* The types of the variables.
TypeOK ==
  /\ fs \in [Paths -> Nat]
  /\ made \in [Paths -> Nat]
  /\ moves \in Nat
  /\ fdt \in [Fds -> Object]
  /\ ready \subseteq Fds
  /\ kick \in BOOLEAN
  /\ alive \in BOOLEAN
  /\ lockval \in {"free", "watch"}
  /\ curfwmap \in [Paths -> Entry]
  /\ stale \subseteq Writers
  /\ wpc \in [Writers -> {"idle", "get", "kick", "ref", "direct", "write"}]
  /\ wr \in [Writers -> Local]
  /\ tpc \in {"start", "add", "adding", "wait", "events", "find", "stat", "drop", "exit"}
  /\ todo \subseteq Paths
  /\ batch \subseteq Fds \cup {Sig}
  /\ cfd \in Fds \cup {NoFd}
  /\ cpath \in Paths \cup {NoPath}
  /\ run_thread \in BOOLEAN
  /\ cpc \in {"up", "join", "free", "done"}

\* No descriptor is lost: whatever is open is in the cache or was opened by a
\* writer for itself, through failing opens and watches, drops and Close.
NoFdLeak ==
  \A n \in Fds : fdt[n].kind \in {"file", "inotify"} =>
    \/ \E p \in Cached : n \in {curfwmap[p].fd, curfwmap[p].ifd}
    \/ \E w \in Writers : wr[w].direct /\ wr[w].fd = n

\* The [NOTE] in GetFileWatch: "Added K2HFTFW is set inotify in thread".  When
\* the watch thread goes to sleep for good it has tried to watch every entry
\* there is, unless the signal of whoever added one is still to come.
KickedUntilWatched ==
  tpc = "wait" /\ ~kick /\ (\A w \in Writers : wpc[w] # "kick") => Cached \subseteq tried

\* No other entry has the number of this one's inotify instance.  Another one
\* may have it once the number of a watch has been closed as a descriptor.
Alone(p) == \A q \in Cached : curfwmap[q].ifd = curfwmap[p].ifd => q = p

\* The watch thread drops an entry only when its file has gone, whatever else
\* was done to the file and however late its events are read.
OnlyRemovedIsDropped ==
  [][\A p \in Cached :
       Alone(p) /\ curfwmap'[p] = NoEntry /\ cpc = "up" => fs[p] # curfwmap[p].no]_vars

\* An entry whose own file is watched is dropped once that file has gone from
\* its path, so that the next write opens the new file; unless the inotify
\* instance has the number of a watch and may be closed for one, or the watch
\* thread has given up.
WatchedRemovalNoticed ==
  \A p \in Paths, k \in 1 .. (MaxMoves + 2) :
    (/\ curfwmap[p].no = k
     /\ curfwmap[p].ifd \in Fds \ {Wd}
     /\ fdt[curfwmap[p].ifd].no = k
     /\ fs[p] # k)
    ~> (curfwmap[p].no # k \/ ~alive \/ tpc = "exit")

\* Close comes to its end: the thread it joins may be asleep in epoll_pwait,
\* between two looks at run_thread, in the middle of its events, or at its end.
CloseEnds == cpc = "join" ~> (cpc = "done" \/ ~alive)
=============================================================================
