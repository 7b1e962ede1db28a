---------------------------- MODULE FdCacheProofs ----------------------------
(***************************************************************************)
(* What the writers, the watch thread, Close and the programs that change  *)
(* the output files keep of the cache, for any number of paths, writers,   *)
(* descriptors and changes: no descriptor is lost, no entry is left        *)
(* without a look at it, and only the entry of a file that has gone is     *)
(* dropped.                                                                *)
(***************************************************************************)
EXTENDS FdCache, TLAPS

-----------------------------------------------------------------------------
(* The invariant.                                                          *)

\* A writer opens a file for itself in its last step but one.
WriterInv ==
  \A w \in Writers :
    /\ wpc[w] # "idle" => wr[w].path \in Paths
    /\ wr[w].direct => wpc[w] = "write"

\* What AddAllFileWatchEpoll has still to look at has no watch, and stays.
LockInv ==
  /\ tpc = "adding" <=> lockval = "watch"
  /\ tpc = "adding" => \A p \in todo : p \in Cached /\ curfwmap[p].ifd = NoFd
  /\ cpc \in {"free", "done"} => tpc = "exit"

\* Files at a path are numbered upwards; an entry has the number of one.
EntryInv ==
  \A p \in Paths :
    /\ fs[p] \in {0, made[p]}
    /\ curfwmap[p].no <= made[p]
    /\ curfwmap[p].no = 0 => curfwmap[p] = NoEntry

\* n watches, for the entry of p, a file not older than the entry's.
Watches(n, p) ==
  /\ curfwmap[p].ifd = n
  /\ curfwmap[p].no # 0
  /\ fdt[n].no \in curfwmap[p].no .. made[p]
  /\ fdt[n].event = "move" => fs[p] # fdt[n].no

WatchOK(n) ==
  /\ fdt[n].event # "none" => fdt[n].kind = "inotify"
  /\ fdt[n].kind = "inotify" => fdt[n].path \in Paths /\ Watches(n, fdt[n].path)

WatchInv == \A n \in Fds : WatchOK(n)

\* What the watch thread has found out stays true without the lock.
FoundInv ==
  /\ tpc \in {"find", "stat", "drop"} => cfd \in Fds
  /\ tpc = "stat" => cpath \in Watched
  /\ tpc = "drop" => \A p \in Watched : Alone(p) => fs[p] # curfwmap[p].no

\* An entry that has not been looked at has no watch.  It is in todo, or its
\* signal is to come.
TriedInv == \A p \in Cached \ tried : curfwmap[p].ifd = NoFd

LookInv ==
  /\ tpc = "adding" => Cached \subseteq tried \cup todo
  /\ tpc = "wait" => Cached \subseteq tried \/ kick \/ \E w \in Writers : wpc[w] = "kick"

FdInv ==
  /\ TypeOK /\ WriterInv /\ LockInv /\ EntryInv
  /\ WatchInv /\ FoundInv /\ TriedInv /\ LookInv /\ NoFdLeak

-----------------------------------------------------------------------------
(* Types.                                                                  *)

USE FdAssumption, PathAssumption

LEMMA ConstantTypes ==
  /\ Free \in Object
  /\ StdOut \in Object
  /\ NoEntry \in Entry
  /\ NoLocal \in Local
  /\ Fds \subseteq Nat \ {0}
  /\ NoFd \notin Fds
  /\ \A p \in Paths, n \in Nat : Obj("file", p, n) \in Object /\ Obj("inotify", p, n) \in Object
BY DEF Free, StdOut, NoEntry, NoLocal, Object, Entry, Local, Obj, Fds, NoFd

LEMMA CloseFdsTypes ==
  ASSUME NEW fds, CloseFds(fds), fdt \in [Fds -> Object], ready \subseteq Fds
  PROVE  fdt' \in [Fds -> Object] /\ ready' \subseteq Fds
BY ConstantTypes DEF CloseFds

\* The types of what belongs to the files, the cache and the threads.
FileTypes == fs \in [Paths -> Nat] /\ made \in [Paths -> Nat] /\ moves \in Nat
FdTypes == fdt \in [Fds -> Object] /\ ready \subseteq Fds
SigTypes == kick \in BOOLEAN /\ alive \in BOOLEAN
CacheTypes ==
  /\ lockval \in {"free", "watch"}
  /\ curfwmap \in [Paths -> Entry]
  /\ stale \subseteq Writers
WriterTypes ==
  /\ wpc \in [Writers -> {"idle", "get", "kick", "ref", "direct", "write"}]
  /\ wr \in [Writers -> Local]
WatchTypes ==
  /\ tpc \in {"start", "add", "adding", "wait", "events", "find", "stat", "drop", "exit"}
  /\ todo \subseteq Paths
  /\ batch \subseteq Fds \cup {Sig}
  /\ cfd \in Fds \cup {NoFd}
  /\ cpath \in Paths \cup {NoPath}
CloseTypes == run_thread \in BOOLEAN /\ cpc \in {"up", "join", "free", "done"}

LEMMA Types ==
  /\ TypeOK <=> FileTypes /\ FdTypes /\ SigTypes /\ CacheTypes /\ WriterTypes /\ WatchTypes /\ CloseTypes
  /\ TypeOK' <=> FileTypes' /\ FdTypes' /\ SigTypes' /\ CacheTypes' /\ WriterTypes' /\ WatchTypes' /\ CloseTypes'
BY DEF TypeOK, FileTypes, FdTypes, SigTypes, CacheTypes, WriterTypes, WatchTypes, CloseTypes

\* What a step leaves alone keeps its types.
LEMMA TypesAside ==
  /\ FileTypes /\ UNCHANGED fileVars => FileTypes'
  /\ FdTypes /\ UNCHANGED fdVars => FdTypes'
  /\ SigTypes /\ UNCHANGED sigVars => SigTypes'
  /\ CacheTypes /\ UNCHANGED cacheVars => CacheTypes'
  /\ WriterTypes /\ UNCHANGED writerVars => WriterTypes'
  /\ WatchTypes /\ UNCHANGED watchVars => WatchTypes'
  /\ CloseTypes /\ UNCHANGED closeVars => CloseTypes'
BY DEF FileTypes, FdTypes, SigTypes, CacheTypes, WriterTypes, WatchTypes, CloseTypes,
       fileVars, fdVars, sigVars, cacheVars, writerVars, watchVars, closeVars

LEMMA InitTypes == Init => TypeOK
<1> SUFFICES ASSUME Init PROVE TypeOK
  OBVIOUS
<1>1. FileTypes
  BY DEF Init, FileTypes
<1>2. FdTypes
  BY ConstantTypes DEF Init, FdTypes
<1>3. CacheTypes /\ WriterTypes
  BY ConstantTypes DEF Init, CacheTypes, WriterTypes
<1>4. SigTypes /\ WatchTypes /\ CloseTypes
  BY DEF Init, SigTypes, WatchTypes, CloseTypes
<1> QED BY <1>1, <1>2, <1>3, <1>4, Types

LEMMA OthersTypes ==
  ASSUME TypeOK, NEW p \in Paths, Others(p)
  PROVE  TypeOK'
<1>1. ASSUME NEW e \in {"attrib", "move"}, Touch(p, e), fs' \in [Paths -> Nat] PROVE TypeOK'
  <2>1. FdTypes'
    BY <1>1 DEF TypeOK, FdTypes, Touch, Notify, Object
  <2>2. FileTypes'
    BY <1>1 DEF TypeOK, FileTypes, Touch
  <2> QED BY <1>1, <2>1, <2>2, Types, TypesAside DEF Touch
<1>2. CASE Unlink(p) \/ Rename(p) \/ Chmod(p)
  BY <1>1, <1>2 DEF Unlink, Rename, Chmod, TypeOK
<1>3. CASE Recreate(p)
  <2>1. FileTypes'
    BY <1>3 DEF TypeOK, FileTypes, Recreate
  <2> QED BY <1>3, <2>1, Types, TypesAside DEF Recreate
<1> QED BY <1>2, <1>3 DEF Others

\* A file that is opened for p.
LEMMA OpenTypes ==
  ASSUME TypeOK, NEW p \in Paths, NEW n \in FreeFds, OpenFile(p, n), UNCHANGED <<moves, ready>>
  PROVE  FileTypes' /\ FdTypes' /\ fs'[p] \in Nat \ {0} /\ n \in Fds
<1>1. FileTypes' /\ n \in Fds
  BY DEF TypeOK, FileTypes, OpenFile, FreeFds
<1>2. FdTypes'
  BY <1>1, ConstantTypes DEF TypeOK, FdTypes, FileTypes, OpenFile
<1> QED BY <1>1, <1>2 DEF TypeOK, FileTypes, OpenFile

\* The end of a call, and the start of one.
LEMMA ReturnTypes ==
  ASSUME TypeOK, NEW w \in Writers, Return(w)
  PROVE  WriterTypes'
BY ConstantTypes DEF TypeOK, WriterTypes, Return

LEMMA CallTypes ==
  ASSUME TypeOK, NEW w \in Writers, Call(w)
  PROVE  TypeOK'
<1>1. PICK p \in Paths, op \in {"write", "register"} : Begin(w, op, p)
  BY DEF Call
<1>2. WriterTypes'
  <2>0. wr[w] \in Local /\ op \in {"none", "write", "register"} /\ p \in Paths \cup {NoPath}
    BY <1>1 DEF TypeOK
  <2>1. [wr[w] EXCEPT !.op = op, !.path = p] \in Local
    BY <2>0 DEF Local
  <2> QED BY <1>1, <2>1 DEF TypeOK, WriterTypes, Begin
<1> QED BY <1>1, <1>2, Types, TypesAside DEF Begin

LEMMA KickTypes ==
  ASSUME TypeOK, KickSignal
  PROVE  SigTypes'
BY DEF TypeOK, SigTypes, KickSignal

\* The steps of a call that only go on, or read a descriptor.
LEMMA ReadTypes ==
  ASSUME TypeOK, WriterInv, NEW w \in Writers,
         GetCached(w) \/ GetFailed(w) \/ Kick(w) \/ ReadFd(w) \/ ReadFreedFd(w) \/ RegisterEnd(w) \/ OpenDirectFailed(w)
  PROVE  TypeOK'
<1>1. CASE GetCached(w)
  <2>1. WriterTypes'
    BY <1>1 DEF TypeOK, WriterTypes, GetCached
  <2> QED BY <1>1, <2>1, Types, TypesAside DEF GetCached
<1>2. CASE GetFailed(w)
  <2>1. WriterTypes'
    BY <1>2, ReturnTypes DEF TypeOK, WriterTypes, GetFailed
  <2> QED BY <1>2, <2>1, Types, TypesAside DEF GetFailed
<1>3. CASE Kick(w)
  <2>1. WriterTypes'
    BY <1>3 DEF TypeOK, WriterTypes, Kick
  <2> QED BY <1>3, <2>1, KickTypes, Types, TypesAside DEF Kick
<1>4. CASE ReadFd(w)
  <2>1. wr[w].path \in Paths
    BY <1>4 DEF WriterInv, ReadFd
  <2>2. WriterTypes'
    <3>1. curfwmap[wr[w].path].fd \in Fds \cup {NoFd} /\ wr[w] \in Local
      BY <2>1 DEF TypeOK, Entry
    <3>2. [wr[w] EXCEPT !.fd = curfwmap[wr[w].path].fd] \in Local
      BY <3>1 DEF Local
    <3> QED BY <1>4, <3>2 DEF TypeOK, WriterTypes, ReadFd
  <2> QED BY <1>4, <2>2, Types, TypesAside DEF ReadFd
<1>5. CASE ReadFreedFd(w)
  <2>1. PICK n \in {NoFd} \cup {curfwmap[p].fd : p \in Cached} : wr' = [wr EXCEPT ![w].fd = n]
    BY <1>5 DEF ReadFreedFd
  <2>2. n \in Fds \cup {NoFd}
    BY <2>1 DEF TypeOK, Cached, Entry
  <2>3. WriterTypes'
    <3>1. wr[w] \in Local
      BY DEF TypeOK
    <3>2. [wr[w] EXCEPT !.fd = n] \in Local
      BY <2>2, <3>1 DEF Local
    <3> QED BY <1>5, <2>1, <3>2 DEF TypeOK, WriterTypes, ReadFreedFd
  <2>4. CacheTypes'
    BY <1>5 DEF TypeOK, CacheTypes, ReadFreedFd
  <2> QED BY <1>5, <2>3, <2>4, Types, TypesAside DEF ReadFreedFd
<1>6. CASE RegisterEnd(w)
  <2>1. CacheTypes'
    BY <1>6 DEF TypeOK, CacheTypes, RegisterEnd
  <2> QED BY <1>6, <2>1, ReturnTypes, Types, TypesAside DEF RegisterEnd
<1>7. CASE OpenDirectFailed(w)
  BY <1>7, ReturnTypes, Types, TypesAside DEF OpenDirectFailed
<1> QED BY <1>1, <1>2, <1>3, <1>4, <1>5, <1>6, <1>7

\* The steps that open and close.
LEMMA OpenCloseTypes ==
  ASSUME TypeOK, WriterInv, NEW w \in Writers, GetOpened(w) \/ OpenDirect(w) \/ WriteEnd(w)
  PROVE  TypeOK'
<1>1. CASE GetOpened(w)
  <2>1. wr[w].path \in Paths
    BY <1>1 DEF WriterInv, GetOpened
  <2>2. PICK n \in FreeFds : /\ OpenFile(wr[w].path, n)
                             /\ curfwmap' = [curfwmap EXCEPT ![wr[w].path] =
                                               [no |-> fs'[wr[w].path], fd |-> n, ifd |-> NoFd]]
    BY <1>1 DEF GetOpened
  <2>3. FileTypes' /\ FdTypes' /\ fs'[wr[w].path] \in Nat \ {0} /\ n \in Fds
    BY <1>1, <2>1, <2>2, OpenTypes DEF GetOpened
  <2>4. CacheTypes'
    BY <1>1, <2>1, <2>2, <2>3 DEF TypeOK, CacheTypes, GetOpened, Entry
  <2>5. WriterTypes'
    BY <1>1 DEF TypeOK, WriterTypes, GetOpened
  <2> QED BY <1>1, <2>3, <2>4, <2>5, Types, TypesAside DEF GetOpened
<1>2. CASE OpenDirect(w)
  <2>1. wr[w].path \in Paths
    BY <1>2 DEF WriterInv, OpenDirect
  <2>2. PICK n \in FreeFds : OpenFile(wr[w].path, n) /\ wr' = [wr EXCEPT ![w].fd = n, ![w].direct = TRUE]
    BY <1>2 DEF OpenDirect
  <2>3. FileTypes' /\ FdTypes' /\ n \in Fds
    BY <1>2, <2>1, <2>2, OpenTypes DEF OpenDirect
  <2>4. WriterTypes'
    <3>1. [wr[w] EXCEPT !.fd = n, !.direct = TRUE] \in Local
      <4>1. wr[w] \in Local
        BY DEF TypeOK
      <4> QED BY <2>3, <4>1 DEF Local
    <3> QED BY <1>2, <2>2, <3>1 DEF TypeOK, WriterTypes, OpenDirect
  <2> QED BY <1>2, <2>3, <2>4, Types, TypesAside DEF OpenDirect
<1>3. CASE WriteEnd(w)
  <2>1. FdTypes'
    BY <1>3, CloseFdsTypes DEF TypeOK, FdTypes, WriteEnd
  <2> QED BY <1>3, <2>1, ReturnTypes, Types, TypesAside DEF WriteEnd
<1> QED BY <1>1, <1>2, <1>3

LEMMA DeleteTypes ==
  ASSUME TypeOK, NEW p \in Paths, DeleteEntry(p), UNCHANGED lockval
  PROVE  FdTypes' /\ CacheTypes'
<1>1. FdTypes'
  BY CloseFdsTypes DEF TypeOK, FdTypes, DeleteEntry
<1>2. CacheTypes'
  BY ConstantTypes DEF TypeOK, CacheTypes, DeleteEntry, Holders
<1> QED BY <1>1, <1>2

\* AddAllFileWatchEpoll.
LEMMA AddTypes ==
  ASSUME TypeOK, AddBegin \/ (\E p \in Paths : AddWatch(p) \/ AddFailed(p)) \/ AddEnd
  PROVE  TypeOK'
<1>1. CASE AddBegin
  <2>1. CacheTypes' /\ WatchTypes'
    BY <1>1 DEF TypeOK, CacheTypes, WatchTypes, AddBegin, Cached
  <2> QED BY <1>1, <2>1, Types, TypesAside DEF AddBegin
<1>2. ASSUME NEW p \in Paths, AddWatch(p) PROVE TypeOK'
  <2>1. PICK n \in FreeFds : /\ fdt' = [fdt EXCEPT ![n] = Obj("inotify", p, fs[p])]
                             /\ curfwmap' = [curfwmap EXCEPT ![p].ifd = n]
    BY <1>2 DEF AddWatch
  <2>2. n \in Fds
    BY DEF FreeFds
  <2>3. FdTypes'
    BY <1>2, <2>1, ConstantTypes DEF TypeOK, FdTypes, AddWatch
  <2>4. CacheTypes'
    BY <1>2, <2>1, <2>2, SMTT(30) DEF TypeOK, CacheTypes, AddWatch, Entry
  <2>5. WatchTypes'
    BY <1>2 DEF TypeOK, WatchTypes, AddWatch
  <2> QED BY <1>2, <2>3, <2>4, <2>5, Types, TypesAside DEF AddWatch
<1>3. ASSUME NEW p \in Paths, AddFailed(p) PROVE TypeOK'
  <2>1. FdTypes'
    BY <1>3, CloseFdsTypes DEF TypeOK, FdTypes, AddFailed
  <2>2. CacheTypes' /\ WatchTypes'
    BY <1>3 DEF TypeOK, CacheTypes, WatchTypes, AddFailed
  <2> QED BY <1>3, <2>1, <2>2, Types, TypesAside DEF AddFailed
<1>4. CASE AddEnd
  <2>1. CacheTypes' /\ WatchTypes'
    BY <1>4 DEF TypeOK, CacheTypes, WatchTypes, AddEnd
  <2> QED BY <1>4, <2>1, Types, TypesAside DEF AddEnd
<1> QED BY <1>1, <1>2, <1>3, <1>4

\* epoll_pwait and the events.
LEMMA EventTypes ==
  ASSUME TypeOK, ThreadStart \/ WaitEvents \/ ReadSignal \/ (\E n \in Fds : CheckInotifyEvents(n))
                 \/ FindWatch \/ StatFile \/ DropWatch \/ EventsEnd \/ Disturbed
  PROVE  TypeOK'
<1>1. CASE ThreadStart \/ StatFile \/ EventsEnd
  <2>1. WatchTypes'
    BY <1>1 DEF TypeOK, WatchTypes, ThreadStart, StatFile, EventsEnd
  <2> QED BY <1>1, <2>1, Types, TypesAside DEF ThreadStart, StatFile, EventsEnd
<1>2. CASE WaitEvents
  <2>1. WatchTypes' /\ FdTypes'
    BY <1>2 DEF TypeOK, WatchTypes, FdTypes, WaitEvents
  <2> QED BY <1>2, <2>1, Types, TypesAside DEF WaitEvents
<1>3. CASE ReadSignal
  <2>1. WatchTypes' /\ SigTypes'
    BY <1>3 DEF TypeOK, WatchTypes, SigTypes, ReadSignal
  <2> QED BY <1>3, <2>1, Types, TypesAside DEF ReadSignal
<1>4. ASSUME NEW n \in Fds, CheckInotifyEvents(n) PROVE TypeOK'
  <2>1. FdTypes'
    BY <1>4, SMTT(30) DEF TypeOK, FdTypes, CheckInotifyEvents, Object
  <2>2. WatchTypes'
    BY <1>4 DEF TypeOK, WatchTypes, CheckInotifyEvents
  <2> QED BY <1>4, <2>1, <2>2, Types, TypesAside DEF CheckInotifyEvents
<1>5. CASE FindWatch
  <2>1. WatchTypes'
    BY <1>5 DEF TypeOK, WatchTypes, FindWatch, Watched, Cached
  <2> QED BY <1>5, <2>1, Types, TypesAside DEF FindWatch
<1>6. CASE DropWatch
  <2>1. WatchTypes'
    BY <1>6 DEF TypeOK, WatchTypes, DropWatch
  <2>2. ASSUME NEW p \in Watched, DeleteEntry(p) PROVE FdTypes' /\ CacheTypes'
    BY <1>6, <2>2, DeleteTypes DEF DropWatch, Watched, Cached
  <2>3. CASE UNCHANGED <<curfwmap, stale, tried, fdVars>>
    BY <1>6, <2>1, <2>3, TypesAside, Types DEF DropWatch, cacheVars
  <2> QED BY <1>6, <2>1, <2>2, <2>3, Types, TypesAside DEF DropWatch
<1>7. CASE Disturbed
  <2>1. WatchTypes'
    BY <1>7 DEF TypeOK, WatchTypes, Disturbed, StartFails, WaitInterrupted, WaitFails
  <2> QED BY <1>7, <2>1, Types, TypesAside DEF Disturbed, StartFails, WaitInterrupted, WaitFails
<1> QED BY <1>1, <1>2, <1>3, <1>4, <1>5, <1>6, <1>7

LEMMA CloserTypes ==
  ASSUME TypeOK, CloseStart \/ Closer
  PROVE  TypeOK'
<1>1. CASE CloseStart
  <2>1. CloseTypes'
    BY <1>1 DEF TypeOK, CloseTypes, CloseStart
  <2> QED BY <1>1, <2>1, KickTypes, Types, TypesAside DEF CloseStart
<1>2. CASE CloseJoin \/ CloseEnd
  <2>1. CloseTypes'
    BY <1>2 DEF TypeOK, CloseTypes, CloseJoin, CloseEnd
  <2> QED BY <1>2, <2>1, Types, TypesAside DEF CloseJoin, CloseEnd
<1>3. ASSUME NEW p \in Paths, CloseEntry(p) PROVE TypeOK'
  BY <1>3, DeleteTypes, Types, TypesAside DEF CloseEntry
<1> QED BY <1>1, <1>2, <1>3 DEF Closer

LEMMA NextTypes ==
  ASSUME TypeOK, WriterInv, [Next]_vars
  PROVE  TypeOK'
<1>1. CASE UNCHANGED vars
  BY <1>1, Types, TypesAside DEF vars
<1>2. CASE Next
  BY <1>1, <1>2, OthersTypes, CallTypes, ReadTypes, OpenCloseTypes, AddTypes, EventTypes, CloserTypes
     DEF Next, Running, Writer, Watcher, Stopped
<1> QED BY <1>1, <1>2

-----------------------------------------------------------------------------
(* How files and entries may change.                                       *)

\* The steps that change files, descriptors or entries.
LEMMA Steps ==
  ASSUME [Next]_vars
  PROVE  \/ \E p \in Paths : Others(p)
         \/ \E w \in Writers : GetOpened(w) \/ OpenDirect(w) \/ WriteEnd(w)
         \/ \E p \in Paths : AddWatch(p) \/ AddFailed(p)
         \/ \E n \in Fds : CheckInotifyEvents(n)
         \/ DropWatch
         \/ \E p \in Paths : CloseEntry(p)
         \/ UNCHANGED <<fs, made, fdt, curfwmap>>
<1>1. CASE UNCHANGED vars
  BY <1>1 DEF vars, fileVars, fdVars, cacheVars
<1>2. ASSUME NEW w \in Writers, Call(w) \/ Writer(w)
      PROVE  GetOpened(w) \/ OpenDirect(w) \/ WriteEnd(w) \/ UNCHANGED <<fs, made, fdt, curfwmap>>
  BY <1>2 DEF Call, Begin, Writer, GetCached, GetFailed, Kick, ReadFd, ReadFreedFd, RegisterEnd, OpenDirectFailed,
              fileVars, fdVars, cacheVars
<1>3. CASE Watcher
  BY <1>3 DEF Watcher, ThreadStart, AddBegin, AddEnd, WaitEvents, ReadSignal, FindWatch, StatFile, EventsEnd,
              fileVars, fdVars, cacheVars
<1>4. CASE CloseStart \/ Closer
  BY <1>4 DEF CloseStart, Closer, CloseJoin, CloseEnd, fileVars, fdVars, cacheVars
<1>5. CASE Disturbed
  BY <1>5 DEF Disturbed, StartFails, WaitInterrupted, WaitFails, fileVars, fdVars, cacheVars
<1> QED BY <1>1, <1>2, <1>3, <1>4, <1>5 DEF Next, Running, Stopped

\* A file that has gone does not come back.
FileGrows(p) ==
  /\ made[p] <= made'[p]
  /\ fs'[p] \in {0, made'[p]}
  /\ fs'[p] = fs[p] \/ fs'[p] = 0 \/ fs'[p] > made[p]

LEMMA OpenGrows ==
  ASSUME TypeOK, EntryInv, NEW p \in Paths, NEW n \in Fds, OpenFile(p, n)
  PROVE  \A q \in Paths : FileGrows(q)
BY DEF TypeOK, EntryInv, OpenFile, FileGrows

LEMMA FilesGrow ==
  ASSUME TypeOK, WriterInv, EntryInv, [Next]_vars
  PROVE  \A q \in Paths : FileGrows(q)
<1>1. CASE UNCHANGED <<fs, made>>
  BY <1>1 DEF TypeOK, EntryInv, FileGrows
<1>2. ASSUME NEW p \in Paths, Others(p) PROVE \A q \in Paths : FileGrows(q)
  <2>1. CASE Unlink(p) \/ Rename(p) \/ Chmod(p)
    BY <2>1 DEF TypeOK, EntryInv, FileGrows, Unlink, Rename, Chmod, Touch
  <2>2. CASE Recreate(p)
    BY <2>2 DEF TypeOK, EntryInv, FileGrows, Recreate
  <2> QED BY <1>2, <2>1, <2>2 DEF Others
<1>3. ASSUME NEW w \in Writers, GetOpened(w) \/ OpenDirect(w) PROVE \A q \in Paths : FileGrows(q)
  <2>1. wr[w].path \in Paths
    BY <1>3 DEF WriterInv, GetOpened, OpenDirect
  <2>2. \E n \in Fds : OpenFile(wr[w].path, n)
    BY <1>3 DEF GetOpened, OpenDirect, FreeFds
  <2> QED BY <2>1, <2>2, OpenGrows
<1> QED BY <1>1, <1>2, <1>3, Steps
        DEF WriteEnd, AddWatch, AddFailed, CheckInotifyEvents, DropWatch, CloseEntry, fileVars

\* What one step makes of the entry of p.
EntryStays(p) == curfwmap'[p] = curfwmap[p]
EntryGoes(p) == curfwmap'[p] = NoEntry /\ (DropWatch \/ CloseEntry(p))
EntryComes(p) ==
  /\ lockval = "free"
  /\ curfwmap[p] = NoEntry
  /\ curfwmap'[p].no = fs'[p] /\ fs'[p] # 0
  /\ curfwmap'[p].ifd = NoFd
EntryWatched(p) == AddWatch(p) /\ \E n \in Fds : curfwmap'[p] = [curfwmap[p] EXCEPT !.ifd = n]

LEMMA EntriesChange ==
  ASSUME TypeOK, WriterInv, [Next]_vars, NEW q \in Paths
  PROVE  EntryStays(q) \/ EntryGoes(q) \/ EntryComes(q) \/ EntryWatched(q)
<1>1. CASE UNCHANGED curfwmap
  BY <1>1 DEF EntryStays
<1>2. ASSUME NEW w \in Writers, GetOpened(w) PROVE EntryStays(q) \/ EntryComes(q)
  <2>1. wr[w].path \in Paths
    BY <1>2 DEF WriterInv, GetOpened
  <2>2. PICK n \in FreeFds : /\ OpenFile(wr[w].path, n)
                             /\ curfwmap' = [curfwmap EXCEPT ![wr[w].path] =
                                               [no |-> fs'[wr[w].path], fd |-> n, ifd |-> NoFd]]
    BY <1>2 DEF GetOpened
  <2>3. fs'[wr[w].path] # 0
    BY <1>2, <2>1, <2>2, OpenTypes DEF GetOpened
  <2>4. CASE q = wr[w].path
    BY <1>2, <2>2, <2>3, <2>4 DEF TypeOK, GetOpened, EntryComes
  <2>5. CASE q # wr[w].path
    BY <2>2, <2>5 DEF TypeOK, EntryStays
  <2> QED BY <2>4, <2>5
<1>3. ASSUME NEW p \in Paths, AddWatch(p) PROVE EntryStays(q) \/ EntryWatched(q)
  <2>1. PICK n \in FreeFds : curfwmap' = [curfwmap EXCEPT ![p].ifd = n]
    BY <1>3 DEF AddWatch
  <2>2. n \in Fds
    BY DEF FreeFds
  <2>3. CASE q = p
    BY <1>3, <2>1, <2>2, <2>3 DEF TypeOK, EntryWatched
  <2>4. CASE q # p
    BY <2>1, <2>4 DEF TypeOK, EntryStays
  <2> QED BY <2>3, <2>4
<1>4. CASE DropWatch
  BY <1>4 DEF TypeOK, DropWatch, DeleteEntry, Watched, Cached, EntryStays, EntryGoes
<1>5. ASSUME NEW p \in Paths, CloseEntry(p) PROVE EntryStays(q) \/ EntryGoes(q)
  BY <1>5 DEF TypeOK, CloseEntry, DeleteEntry, EntryStays, EntryGoes
<1> QED BY <1>1, <1>2, <1>3, <1>4, <1>5, Steps
        DEF Others, Unlink, Rename, Chmod, Touch, Recreate, OpenDirect, WriteEnd, AddFailed, CheckInotifyEvents, cacheVars

-----------------------------------------------------------------------------
(* Every step keeps the parts of the invariant.                            *)

LEMMA WriterKept ==
  ASSUME TypeOK, WriterInv, [Next]_vars
  PROVE  WriterInv'
<1>1. CASE UNCHANGED writerVars
  BY <1>1 DEF WriterInv, writerVars
<1>2. ASSUME NEW w \in Writers, Call(w) PROVE WriterInv'
  <2>1. PICK p \in Paths, op \in {"write", "register"} : Begin(w, op, p)
    BY <1>2 DEF Call
  <2> QED BY <2>1 DEF TypeOK, WriterInv, Begin, Local
<1>3. ASSUME NEW w \in Writers, Writer(w) PROVE WriterInv'
  <2>1. CASE GetCached(w) \/ GetOpened(w) \/ Kick(w)
    BY <2>1 DEF TypeOK, WriterInv, GetCached, GetOpened, Kick
  <2>2. CASE Return(w)
    BY <2>2 DEF TypeOK, WriterInv, Return, NoLocal
  <2>3. CASE GetFailed(w)
    BY <2>2, <2>3 DEF TypeOK, WriterInv, GetFailed
  <2>4. CASE ReadFd(w) \/ ReadFreedFd(w)
    BY <2>4, SMTT(30) DEF TypeOK, WriterInv, ReadFd, ReadFreedFd, Local
  <2>5. CASE OpenDirect(w)
    BY <2>5 DEF TypeOK, WriterInv, OpenDirect, Local
  <2> QED BY <1>3, <2>1, <2>2, <2>3, <2>4, <2>5 DEF Writer, RegisterEnd, OpenDirectFailed, WriteEnd
<1>4. CASE Watcher
  BY <1>1, <1>4 DEF Watcher, ThreadStart, AddBegin, AddWatch, AddFailed, AddEnd, WaitEvents, ReadSignal,
                    CheckInotifyEvents, FindWatch, StatFile, DropWatch, EventsEnd
<1>5. CASE CloseStart \/ Closer
  BY <1>1, <1>5 DEF CloseStart, Closer, CloseJoin, CloseEntry, CloseEnd
<1>6. ASSUME NEW p \in Paths, Others(p) PROVE WriterInv'
  BY <1>1, <1>6 DEF Others, Unlink, Rename, Chmod, Touch, Recreate
<1>7. CASE Disturbed
  BY <1>1, <1>7 DEF Disturbed, StartFails, WaitInterrupted, WaitFails
<1> QED BY <1>1, <1>2, <1>3, <1>4, <1>5, <1>6, <1>7 DEF Next, Running, Stopped, vars

LEMMA EntryKept ==
  ASSUME TypeOK, WriterInv, LockInv, EntryInv, [Next]_vars
  PROVE  EntryInv'
<1> SUFFICES ASSUME NEW q \in Paths
             PROVE  /\ fs'[q] \in {0, made'[q]}
                    /\ curfwmap'[q].no <= made'[q]
                    /\ curfwmap'[q].no = 0 => curfwmap'[q] = NoEntry
  BY DEF EntryInv
<1>1. FileGrows(q) /\ TypeOK'
  BY FilesGrow, NextTypes
<1>2. CASE EntryStays(q)
  BY <1>1, <1>2 DEF TypeOK, Entry, EntryInv, FileGrows, EntryStays
<1>3. CASE EntryGoes(q)
  BY <1>1, <1>3 DEF TypeOK, FileGrows, EntryGoes, NoEntry
<1>4. CASE EntryComes(q)
  BY <1>1, <1>4 DEF TypeOK, FileGrows, EntryComes
<1>5. CASE EntryWatched(q)
  <2>1. curfwmap[q].no # 0
    BY <1>5 DEF LockInv, EntryInv, EntryWatched, AddWatch, Cached
  <2> QED BY <1>1, <1>5, <2>1 DEF TypeOK, Entry, EntryInv, FileGrows, EntryWatched
<1> QED BY <1>2, <1>3, <1>4, <1>5, EntriesChange

\* Only the watch thread moves on; the others touch neither its lock nor what
\* it has still to do.
LEMMA LockKept ==
  ASSUME TypeOK, WriterInv, LockInv, EntryInv, [Next]_vars
  PROVE  LockInv'
<1>1. CASE UNCHANGED <<tpc, lockval, todo, cpc>>
  <2>1. ASSUME NEW p \in todo, tpc = "adding" PROVE p \in Cached' /\ curfwmap'[p].ifd = NoFd
    <3>1. p \in Paths /\ p \in Cached /\ curfwmap[p].ifd = NoFd /\ lockval = "watch" /\ cpc # "free"
      BY <2>1 DEF LockInv, TypeOK
    <3>2. ~EntryGoes(p) /\ ~EntryComes(p) /\ ~EntryWatched(p)
      BY <1>1, <2>1, <3>1 DEF EntryGoes, DropWatch, CloseEntry, EntryComes, EntryWatched, AddWatch
    <3>3. EntryStays(p)
      BY <3>1, <3>2, EntriesChange
    <3> QED BY <3>1, <3>3 DEF EntryStays, Cached
  <2> QED BY <1>1, <2>1 DEF LockInv
<1>2. CASE AddBegin
  BY <1>2 DEF LockInv, TypeOK, AddBegin, Cached, closeVars
<1>3. ASSUME NEW p \in Paths, AddWatch(p) PROVE LockInv'
  BY <1>3 DEF LockInv, TypeOK, AddWatch, Cached, closeVars
<1>4. ASSUME NEW p \in Paths, AddFailed(p) PROVE LockInv'
  BY <1>4 DEF LockInv, TypeOK, AddFailed, Cached, closeVars
<1>5. CASE ThreadStart \/ AddEnd \/ WaitEvents \/ ReadSignal \/ FindWatch \/ StatFile \/ EventsEnd
  BY <1>5 DEF LockInv, ThreadStart, AddEnd, WaitEvents, ReadSignal, FindWatch, StatFile, EventsEnd, cacheVars, closeVars
<1>6. CASE DropWatch \/ \E n \in Fds : CheckInotifyEvents(n)
  BY <1>6 DEF LockInv, DropWatch, CheckInotifyEvents, cacheVars, closeVars
<1>7. CASE CloseStart \/ CloseJoin \/ CloseEnd
  BY <1>7 DEF LockInv, CloseStart, CloseJoin, CloseEnd, Cached, cacheVars, watchVars
<1>8. ASSUME NEW p \in Paths, CloseEntry(p) \/ Others(p) PROVE LockInv'
  BY <1>1, <1>8 DEF CloseEntry, Others, Unlink, Rename, Chmod, Touch, Recreate, watchVars, closeVars, cacheVars
<1>9. ASSUME NEW w \in Writers, Call(w) \/ Writer(w) PROVE LockInv'
  BY <1>1, <1>9 DEF Call, Begin, Writer, GetCached, GetOpened, GetFailed, Kick, ReadFd, ReadFreedFd, RegisterEnd,
                    OpenDirect, OpenDirectFailed, WriteEnd, watchVars, closeVars, cacheVars
<1>10. CASE Disturbed
  BY <1>10 DEF LockInv, Disturbed, StartFails, WaitInterrupted, WaitFails, cacheVars, closeVars
<1> QED BY <1>1, <1>2, <1>3, <1>4, <1>5, <1>6, <1>7, <1>8, <1>9, <1>10
        DEF Next, Running, Watcher, Closer, Stopped, vars, watchVars, closeVars, cacheVars

\* The watch of n goes on, for the same entry: the descriptor is as it was, or
\* has got an event, and the entry is as it was.
LEMMA WatchStays ==
  ASSUME TypeOK, TypeOK', EntryInv, WatchInv, NEW n \in Fds, fdt'[n].kind = "inotify",
         fdt[n].kind = "inotify", fdt'[n].path = fdt[n].path, fdt'[n].no = fdt[n].no,
         fdt'[n].event = "move" => fdt[n].event = "move" \/ fs'[fdt[n].path] = 0,
         EntryStays(fdt[n].path), FileGrows(fdt[n].path)
  PROVE  WatchOK(n)'
<1> DEFINE p == fdt[n].path
<1>1. p \in Paths /\ Watches(n, p)
  BY DEF WatchInv, WatchOK
<1>2. /\ fs[p] \in Nat /\ made[p] \in Nat /\ fs'[p] \in Nat /\ made'[p] \in Nat
      /\ fdt[n].no \in Nat /\ curfwmap[p].no \in Nat
  BY <1>1 DEF TypeOK, Object, Entry
<1>3. fdt[n].no \in 1 .. made'[p] /\ fdt[n].no \in curfwmap[p].no .. made'[p]
  BY <1>1, <1>2 DEF Watches, FileGrows
<1>4. fdt'[n].event = "move" => fs'[p] # fdt[n].no
  BY <1>1, <1>2, <1>3 DEF Watches, FileGrows
<1>5. Watches(n, p)'
  BY <1>1, <1>3, <1>4 DEF Watches, EntryStays
<1> QED BY <1>1, <1>5 DEF WatchOK

\* A step that only closes: what is still open is as it was.
LEMMA ClosedKept ==
  ASSUME TypeOK, TypeOK', EntryInv, WatchInv, NEW fds, CloseFds(fds),
         \A p \in Paths : FileGrows(p),
         \A p \in Paths : EntryStays(p) \/ curfwmap[p].ifd \in fds
  PROVE  WatchInv'
<1> SUFFICES ASSUME NEW n \in Fds
             PROVE  WatchOK(n)'
  BY DEF WatchInv, WatchOK
<1>1. CASE n \in fds
  BY <1>1 DEF CloseFds, Free, Obj, WatchOK
<1>2. CASE n \notin fds
  <2>1. fdt'[n] = fdt[n]
    BY <1>2 DEF CloseFds
  <2>2. CASE fdt[n].kind = "inotify"
    <3>1. fdt[n].path \in Paths /\ EntryStays(fdt[n].path)
      BY <1>2, <2>2 DEF WatchInv, WatchOK, Watches
    <3> QED BY <2>1, <2>2, <3>1, WatchStays
  <2> QED BY <2>1, <2>2 DEF WatchInv, WatchOK
<1> QED BY <1>1, <1>2

\* A step that opens a file.
LEMMA OpenedKept ==
  ASSUME TypeOK, TypeOK', EntryInv, WatchInv, NEW p \in Paths, NEW n \in FreeFds, OpenFile(p, n),
         \A q \in Paths : FileGrows(q),
         \A q \in Paths : EntryStays(q) \/ curfwmap[q] = NoEntry
  PROVE  WatchInv'
<1> SUFFICES ASSUME NEW m \in Fds
             PROVE  WatchOK(m)'
  BY DEF WatchInv, WatchOK
<1>1. CASE m = n
  BY <1>1 DEF TypeOK, OpenFile, Obj, WatchOK
<1>2. CASE m # n
  <2>1. fdt'[m] = fdt[m]
    BY <1>2 DEF TypeOK, OpenFile
  <2>2. CASE fdt[m].kind = "inotify"
    <3>1. fdt[m].path \in Paths /\ EntryStays(fdt[m].path)
      BY <2>2 DEF WatchInv, WatchOK, Watches, NoEntry
    <3> QED BY <2>1, <2>2, <3>1, WatchStays
  <2> QED BY <2>1, <2>2 DEF WatchInv, WatchOK
<1> QED BY <1>1, <1>2

LEMMA WatchKept ==
  ASSUME TypeOK, WriterInv, LockInv, EntryInv, WatchInv, [Next]_vars
  PROVE  WatchInv'
<1>1. TypeOK' /\ \A p \in Paths : FileGrows(p)
  BY NextTypes, FilesGrow
<1>2. CASE UNCHANGED <<fs, made, fdt, curfwmap>>
  BY <1>2 DEF WatchInv, WatchOK, Watches
<1>3. ASSUME NEW p \in Paths, Others(p) PROVE WatchInv'
  <2> SUFFICES ASSUME NEW n \in Fds
               PROVE  WatchOK(n)'
    BY DEF WatchInv, WatchOK
  <2>1. UNCHANGED curfwmap
    BY <1>3 DEF Others, Unlink, Rename, Chmod, Touch, Recreate, cacheVars
  <2>2. CASE UNCHANGED fdt
    BY <1>1, <2>1, <2>2, WatchStays DEF WatchInv, WatchOK, EntryStays
  <2>3. ASSUME NEW e \in {"attrib", "move"}, Notify(p, e), e = "move" => fs'[p] = 0
        PROVE  WatchOK(n)'
    <3>1. \/ fdt'[n] = fdt[n]
          \/ fdt[n].kind = "inotify" /\ fdt[n].path = p /\ fdt'[n] = [fdt[n] EXCEPT !.event = e]
      BY <2>3 DEF Notify
    <3>2. /\ fdt'[n].kind = fdt[n].kind /\ fdt'[n].path = fdt[n].path /\ fdt'[n].no = fdt[n].no
          /\ \/ fdt'[n].event = fdt[n].event
             \/ fdt[n].kind = "inotify" /\ fdt[n].path = p /\ fdt'[n].event = e
      <4>1. fdt[n] \in Object
        BY DEF TypeOK
      <4> QED BY <3>1, <4>1 DEF Object
    <3> QED BY <1>1, <2>1, <2>3, <3>2, WatchStays DEF WatchInv, WatchOK, EntryStays
  <2> QED BY <1>3, <2>2, <2>3 DEF Others, Unlink, Rename, Chmod, Touch, Recreate, fdVars, TypeOK
<1>4. ASSUME NEW w \in Writers, GetOpened(w) \/ OpenDirect(w) PROVE WatchInv'
  <2>1. wr[w].path \in Paths
    BY <1>4 DEF WriterInv, GetOpened, OpenDirect
  <2>2. \E n \in FreeFds : OpenFile(wr[w].path, n)
    BY <1>4 DEF GetOpened, OpenDirect
  <2>3. \A q \in Paths : EntryStays(q) \/ curfwmap[q] = NoEntry
    BY <1>4, <2>1 DEF TypeOK, GetOpened, OpenDirect, EntryStays, cacheVars
  <2> QED BY <1>1, <2>1, <2>2, <2>3, OpenedKept
<1>5. ASSUME NEW w \in Writers, WriteEnd(w) PROVE WatchInv'
  BY <1>1, <1>5, ClosedKept DEF WriteEnd, EntryStays, cacheVars
<1>6. ASSUME NEW p \in Paths, AddFailed(p) PROVE WatchInv'
  BY <1>1, <1>6, ClosedKept DEF AddFailed, EntryStays
<1>7. ASSUME NEW p \in Paths, AddWatch(p) PROVE WatchInv'
  <2> SUFFICES ASSUME NEW m \in Fds
               PROVE  WatchOK(m)'
    BY DEF WatchInv, WatchOK
  <2>1. PICK n \in Fds : /\ fdt' = [fdt EXCEPT ![n] = Obj("inotify", p, fs[p])]
                         /\ curfwmap' = [curfwmap EXCEPT ![p].ifd = n]
    BY <1>7 DEF AddWatch, FreeFds
  <2>2. curfwmap[p] # NoEntry /\ curfwmap[p].ifd = NoFd /\ curfwmap[p].no # 0 /\ fs[p] # 0 /\ UNCHANGED <<fs, made>>
    BY <1>7 DEF LockInv, EntryInv, AddWatch, Cached, fileVars
  <2>3. CASE m = n
    <3>1. fdt'[m] = Obj("inotify", p, fs[p])
      BY <2>1, <2>3 DEF TypeOK
    <3>2. curfwmap'[p].ifd = m /\ curfwmap'[p].no = curfwmap[p].no
      BY <2>1, <2>3 DEF TypeOK, Entry
    <3>3. fs[p] \in curfwmap[p].no .. made'[p]
      BY <2>2 DEF TypeOK, Entry, EntryInv
    <3> QED BY <2>2, <3>1, <3>2, <3>3 DEF Watches, Obj, WatchOK
  <2>4. CASE m # n
    <3>1. fdt'[m] = fdt[m]
      BY <2>1, <2>4 DEF TypeOK
    <3>2. CASE fdt[m].kind = "inotify"
      <4>1. fdt[m].path \in Paths /\ fdt[m].path # p
        BY <2>2, <3>2 DEF WatchInv, WatchOK, Watches, Fds, NoFd
      <4>2. EntryStays(fdt[m].path)
        BY <2>1, <4>1 DEF EntryStays
      <4> QED BY <1>1, <3>1, <3>2, <4>1, <4>2, WatchStays
    <3> QED BY <3>1, <3>2 DEF WatchInv, WatchOK
  <2> QED BY <2>3, <2>4
<1>8. ASSUME NEW k \in Fds, CheckInotifyEvents(k) PROVE WatchInv'
  <2> SUFFICES ASSUME NEW n \in Fds
               PROVE  WatchOK(n)'
    BY DEF WatchInv, WatchOK
  <2>1. UNCHANGED curfwmap
    BY <1>8 DEF CheckInotifyEvents, cacheVars
  <2>2. /\ fdt'[n].kind = fdt[n].kind /\ fdt'[n].path = fdt[n].path /\ fdt'[n].no = fdt[n].no
        /\ fdt'[n].event = fdt[n].event \/ fdt'[n].event = "none"
    BY <1>8 DEF TypeOK, CheckInotifyEvents, Object
  <2> QED BY <1>1, <2>1, <2>2, WatchStays DEF WatchInv, WatchOK, EntryStays
<1>9. ASSUME NEW p \in Paths, DeleteEntry(p) PROVE WatchInv'
  BY <1>1, <1>9, ClosedKept DEF TypeOK, DeleteEntry, EntryStays
<1>10. CASE DropWatch
  BY <1>2, <1>9, <1>10 DEF DropWatch, Watched, Cached, fileVars, fdVars
<1> QED BY <1>2, <1>3, <1>4, <1>5, <1>6, <1>7, <1>8, <1>9, <1>10, Steps DEF CloseEntry

-----------------------------------------------------------------------------
(* What the watch thread finds.                                            *)

\* The entry of a file that has gone is still that of one that has gone.
LEMMA GoneStays ==
  ASSUME TypeOK, EntryInv, NEW p \in Paths, curfwmap[p].no # 0, fs[p] # curfwmap[p].no, FileGrows(p)
  PROVE  fs'[p] # curfwmap[p].no
BY DEF TypeOK, Entry, EntryInv, FileGrows

\* While the watch thread looks at an event, nobody else touches the entries
\* that have its descriptor.
LEMMA WatchedStays ==
  ASSUME TypeOK, WriterInv, LockInv, [Next]_vars, UNCHANGED <<tpc, cfd>>, tpc \in {"stat", "drop"}, cfd \in Fds
  PROVE  Watched' = Watched /\ \A p \in Watched : EntryStays(p)
<1>1. ASSUME NEW p \in Paths PROVE EntryStays(p) \/ EntryComes(p)
  <2>1. ~EntryGoes(p) /\ ~EntryWatched(p)
    BY DEF EntryGoes, DropWatch, CloseEntry, EntryWatched, AddWatch, LockInv
  <2> QED BY <2>1, EntriesChange
<1>2. ASSUME NEW p \in Paths PROVE p \in Watched' <=> p \in Watched
  BY <1>1 DEF EntryStays, EntryComes, Watched, Cached, NoEntry, NoFd, Fds
<1>3. ASSUME NEW p \in Watched PROVE EntryStays(p)
  BY <1>1 DEF EntryComes, Watched, Cached
<1> QED BY <1>2, <1>3 DEF Watched, Cached

\* The watch of an entry that is alone with its number is on its own path.
LEMMA AloneWatched ==
  ASSUME TypeOK, EntryInv, WatchInv, NEW n \in Fds, fdt[n].event = "move",
         NEW p \in Cached, curfwmap[p].ifd = n, Alone(p)
  PROVE  fs[p] # curfwmap[p].no
<1> DEFINE q == fdt[n].path
<1>1. q \in Paths /\ Watches(n, q)
  BY DEF WatchInv, WatchOK
<1>2. q \in Cached
  BY <1>1 DEF Cached, Watches, NoEntry
<1>3. q = p
  BY <1>1, <1>2 DEF Alone, Watches
<1>4. fs[p] \in {0, made[p]} /\ made[p] \in Nat /\ curfwmap[p].no \in Nat /\ fdt[n].no \in Nat
  BY <1>1, <1>3 DEF EntryInv, TypeOK, Entry, Object
<1> QED BY <1>1, <1>3, <1>4 DEF Watches

LEMMA FoundKept ==
  ASSUME TypeOK, WriterInv, LockInv, EntryInv, WatchInv, FoundInv, [Next]_vars
  PROVE  FoundInv'
<1>1. CASE UNCHANGED <<tpc, cfd, cpath>>
  <2>1. ASSUME tpc = "stat" PROVE cpath \in Watched'
    BY <1>1, <2>1, WatchedStays DEF FoundInv
  <2>2. ASSUME tpc = "drop", NEW p \in Watched', Alone(p)' PROVE fs'[p] # curfwmap'[p].no
    <3>1. p \in Watched /\ EntryStays(p) /\ Watched' = Watched
      BY <1>1, <2>2, WatchedStays DEF FoundInv
    <3>2. p \in Paths /\ curfwmap[p] # NoEntry /\ curfwmap[p].no # 0
      BY <3>1 DEF Watched, Cached, EntryInv
    <3>3. Alone(p)
      BY <1>1, <2>2, <3>1, WatchedStays DEF FoundInv, Alone, Watched, Cached, EntryStays
    <3> QED BY <2>2, <3>1, <3>2, <3>3, FilesGrow, GoneStays DEF FoundInv, EntryStays
  <2> QED BY <1>1, <2>1, <2>2 DEF FoundInv
<1>2. CASE tpc' \notin {"find", "stat", "drop"}
  BY <1>2 DEF FoundInv
<1>3. ASSUME NEW n \in Fds, CheckInotifyEvents(n) PROVE FoundInv'
  <2>1. UNCHANGED <<fs, curfwmap>> /\ cfd' = n
    BY <1>3 DEF CheckInotifyEvents, fileVars, cacheVars
  <2>2. CASE fdt[n].event = "move"
    <3>1. tpc' = "drop"
      BY <1>3, <2>2 DEF CheckInotifyEvents
    <3>2. ASSUME NEW p \in Watched', Alone(p)' PROVE fs'[p] # curfwmap'[p].no
      BY <2>1, <2>2, <3>2, AloneWatched DEF Watched, Cached, Alone
    <3> QED BY <2>1, <3>1, <3>2 DEF FoundInv
  <2>3. CASE fdt[n].event # "move"
    BY <1>2, <1>3, <2>1, <2>3 DEF CheckInotifyEvents, FoundInv
  <2> QED BY <2>2, <2>3
<1>4. CASE FindWatch
  BY <1>2, <1>4 DEF FindWatch, FoundInv, Watched, Cached, cacheVars
<1>5. CASE StatFile
  <2>1. UNCHANGED <<fs, curfwmap, cfd, cpath>>
    BY <1>5 DEF StatFile, fileVars, cacheVars
  <2>2. ASSUME fs[cpath] # curfwmap[cpath].no, NEW p \in Watched, Alone(p) PROVE fs[p] # curfwmap[p].no
    BY <1>5, <2>2 DEF StatFile, FoundInv, Watched, Alone
  <2>3. CASE fs[cpath] # curfwmap[cpath].no
    BY <1>5, <2>1, <2>2, <2>3 DEF StatFile, FoundInv, Watched, Cached, Alone
  <2> QED BY <1>2, <1>5, <2>3 DEF StatFile
<1>6. CASE ThreadStart \/ AddBegin \/ AddEnd \/ WaitEvents \/ DropWatch \/ EventsEnd
  BY <1>2, <1>6 DEF ThreadStart, AddBegin, AddEnd, WaitEvents, DropWatch, EventsEnd
<1>7. CASE ReadSignal \/ \E p \in Paths : AddWatch(p) \/ AddFailed(p)
  BY <1>1, <1>7 DEF ReadSignal, AddWatch, AddFailed
<1>8. CASE CloseStart \/ Closer
  BY <1>1, <1>8 DEF CloseStart, Closer, CloseJoin, CloseEntry, CloseEnd, watchVars
<1>9. ASSUME NEW p \in Paths, Others(p) PROVE FoundInv'
  BY <1>1, <1>9 DEF Others, Unlink, Rename, Chmod, Touch, Recreate, watchVars
<1>10. ASSUME NEW w \in Writers, Call(w) \/ Writer(w) PROVE FoundInv'
  BY <1>1, <1>10 DEF Call, Begin, Writer, GetCached, GetOpened, GetFailed, Kick, ReadFd, ReadFreedFd, RegisterEnd,
                     OpenDirect, OpenDirectFailed, WriteEnd, watchVars
<1>11. CASE Disturbed
  BY <1>2, <1>11 DEF Disturbed, StartFails, WaitInterrupted, WaitFails
<1> QED BY <1>1, <1>3, <1>4, <1>5, <1>6, <1>7, <1>8, <1>9, <1>10, <1>11
        DEF Next, Running, Watcher, Stopped, vars, watchVars

-----------------------------------------------------------------------------
(* The signal of a new entry.                                              *)

LEMMA TriedKept ==
  ASSUME TypeOK, WriterInv, TriedInv, [Next]_vars
  PROVE  TriedInv'
<1>1. ASSUME NEW q \in Cached', q \notin tried' PROVE curfwmap'[q].ifd = NoFd
  <2>1. q \in Paths /\ ~EntryGoes(q)
    BY <1>1 DEF Cached, EntryGoes
  <2>2. CASE EntryComes(q)
    BY <2>2 DEF EntryComes
  <2>3. ~EntryWatched(q)
    BY <1>1 DEF EntryWatched, AddWatch
  <2>4. CASE EntryStays(q)
    <3>1. q \in Cached
      BY <1>1, <2>4 DEF Cached, EntryStays
    <3>2. CASE q \notin tried
      BY <2>4, <3>1, <3>2 DEF TriedInv, EntryStays
    <3>3. CASE q \in tried
      <4>1. ~ UNCHANGED tried
        BY <1>1, <3>3
      <4>2. ASSUME NEW p \in Paths, DeleteEntry(p) PROVE FALSE
        <5>1. p = q
          BY <1>1, <3>3, <4>2 DEF DeleteEntry
        <5> QED BY <1>1, <4>2, <5>1 DEF DeleteEntry, TypeOK, Cached
      <4>3. ~DropWatch /\ ~ \E p \in Paths : CloseEntry(p)
        BY <4>1, <4>2 DEF DropWatch, CloseEntry, Watched, Cached
      <4>4. ~ \E p \in Paths : AddWatch(p) \/ AddFailed(p)
        BY <1>1, <3>3 DEF AddWatch, AddFailed
      <4>5. ~ \E w \in Writers : Call(w) \/ Writer(w)
        BY <4>1 DEF Call, Begin, Writer, GetCached, GetOpened, GetFailed, Kick, ReadFd, ReadFreedFd, RegisterEnd,
                    OpenDirect, OpenDirectFailed, WriteEnd, cacheVars
      <4>6. ~Watcher
        BY <4>1, <4>3, <4>4 DEF Watcher, ThreadStart, AddBegin, AddEnd, WaitEvents, ReadSignal,
                    CheckInotifyEvents, FindWatch, StatFile, EventsEnd, cacheVars
      <4>7. ~CloseStart /\ ~Closer
        BY <4>1, <4>3 DEF CloseStart, Closer, CloseJoin, CloseEnd, cacheVars
      <4>8. ~ \E p \in Paths : Others(p)
        BY <4>1 DEF Others, Unlink, Rename, Chmod, Touch, Recreate, cacheVars
      <4>9. ~Disturbed
        BY <4>1 DEF Disturbed, StartFails, WaitInterrupted, WaitFails, cacheVars
      <4> QED BY <4>1, <4>3, <4>5, <4>6, <4>7, <4>8, <4>9 DEF Next, Running, Stopped, vars, cacheVars
    <3> QED BY <3>2, <3>3
  <2> QED BY <2>1, <2>2, <2>3, <2>4, EntriesChange
<1> QED BY <1>1 DEF TriedInv

LEMMA LookKept ==
  ASSUME TypeOK, WriterInv, LockInv, TriedInv, LookInv, [Next]_vars
  PROVE  LookInv'
<1>1. CASE UNCHANGED <<tpc, todo, curfwmap, tried, kick, wpc>>
  BY <1>1 DEF LookInv, Cached
<1>2. CASE tpc' \notin {"adding", "wait"}
  BY <1>2 DEF LookInv
<1>3. CASE AddBegin
  BY <1>3 DEF AddBegin, LookInv, TriedInv, Cached
<1>4. ASSUME NEW p \in Paths, AddWatch(p) \/ AddFailed(p) PROVE LookInv'
  <2>1. p \in Cached /\ tpc = "adding" /\ tpc' = "adding" /\ tried' = tried \cup {p} /\ todo' = todo \ {p}
    BY <1>4 DEF AddWatch, AddFailed, LockInv
  <2>2. Cached' \subseteq Cached
    BY <1>4, <2>1 DEF AddWatch, AddFailed, Cached, TypeOK
  <2> QED BY <2>1, <2>2 DEF LookInv
<1>5. CASE AddEnd
  BY <1>5 DEF AddEnd, LookInv, Cached
<1>6. CASE ThreadStart \/ WaitEvents \/ FindWatch \/ StatFile \/ DropWatch \/ EventsEnd
           \/ \E n \in Fds : CheckInotifyEvents(n)
  BY <1>2, <1>6 DEF ThreadStart, WaitEvents, FindWatch, StatFile, DropWatch, EventsEnd, CheckInotifyEvents
<1>7. CASE ReadSignal
  BY <1>2, <1>7 DEF ReadSignal
<1>8. CASE CloseStart
  BY <1>8 DEF CloseStart, KickSignal, LookInv, Cached, cacheVars, writerVars, watchVars
<1>9. CASE Closer
  <2>1. CASE CloseJoin \/ CloseEnd
    BY <1>1, <2>1 DEF CloseJoin, CloseEnd, sigVars, cacheVars, writerVars, watchVars
  <2>2. ASSUME NEW p \in Paths, CloseEntry(p) PROVE LookInv'
    BY <1>2, <2>2 DEF CloseEntry, LockInv, watchVars
  <2> QED BY <1>9, <2>1, <2>2 DEF Closer
<1>10. ASSUME NEW p \in Paths, Others(p) PROVE LookInv'
  BY <1>1, <1>10 DEF Others, Unlink, Rename, Chmod, Touch, Recreate, sigVars, cacheVars, writerVars, watchVars
<1>11. ASSUME NEW w \in Writers, Call(w) \/ Writer(w) PROVE LookInv'
  <2>1. CASE GetOpened(w)
    <3>1. tpc # "adding" /\ wpc'[w] = "kick" /\ tpc' = tpc
      BY <2>1 DEF GetOpened, LockInv, TypeOK, watchVars
    <3> QED BY <3>1 DEF LookInv
  <2>2. CASE Kick(w)
    BY <2>2 DEF Kick, KickSignal, LookInv, Cached, cacheVars, watchVars
  <2>3. ASSUME wpc[w] # "kick", UNCHANGED <<tpc, todo, curfwmap, tried, kick>>,
               NEW step, wpc' = [wpc EXCEPT ![w] = step]
        PROVE  LookInv'
    BY <2>3 DEF LookInv, Cached, TypeOK
  <2> QED BY <1>1, <1>11, <2>1, <2>2, <2>3
          DEF Call, Begin, Writer, GetCached, GetFailed, ReadFd, ReadFreedFd, RegisterEnd, OpenDirect,
              OpenDirectFailed, WriteEnd, Return, sigVars, cacheVars, watchVars
<1>12. CASE UNCHANGED vars
  BY <1>1, <1>12 DEF vars, sigVars, cacheVars, writerVars, watchVars
<1>13. CASE Disturbed
  BY <1>2, <1>13 DEF Disturbed, StartFails, WaitInterrupted, WaitFails
<1> QED BY <1>3, <1>4, <1>5, <1>6, <1>7, <1>8, <1>9, <1>10, <1>11, <1>12, <1>13 DEF Next, Running, Watcher, Stopped

-----------------------------------------------------------------------------
(* The descriptors.                                                        *)

\* Whose descriptor n is.
Owned(n) ==
  \/ \E p \in Cached : n \in {curfwmap[p].fd, curfwmap[p].ifd}
  \/ \E w \in Writers : wr[w].direct /\ wr[w].fd = n

\* A step that closes what its owner gives up.
LEMMA ClosedOwned ==
  ASSUME TypeOK, NoFdLeak, NEW fds, CloseFds(fds),
         \A p \in Paths : EntryStays(p) \/ {curfwmap[p].fd, curfwmap[p].ifd} \subseteq fds \cup {NoFd},
         \A w \in Writers : wr[w].direct => (wr'[w].direct /\ wr'[w].fd = wr[w].fd) \/ wr[w].fd \in fds
  PROVE  NoFdLeak'
<1> SUFFICES ASSUME NEW n \in Fds, fdt'[n].kind \in {"file", "inotify"} PROVE Owned(n)'
  BY DEF NoFdLeak, Owned
<1>1. n \notin fds /\ fdt'[n] = fdt[n]
  BY DEF CloseFds, Free, Obj
<1>2. CASE \E p \in Cached : n \in {curfwmap[p].fd, curfwmap[p].ifd}
  BY <1>1, <1>2, ConstantTypes DEF Owned, EntryStays, Cached
<1>3. CASE \E w \in Writers : wr[w].direct /\ wr[w].fd = n
  BY <1>1, <1>3 DEF Owned
<1> QED BY <1>1, <1>2, <1>3 DEF NoFdLeak

\* A step that opens n, and leaves every other descriptor to its owner.
LEMMA OpenedOwned ==
  ASSUME TypeOK, NoFdLeak, NEW n \in Fds, Owned(n)', NEW o, fdt' = [fdt EXCEPT ![n] = o],
         \A p \in Cached : p \in Cached' /\ curfwmap'[p].fd = curfwmap[p].fd
                           /\ curfwmap'[p].ifd \in {curfwmap[p].ifd, n}
                           /\ curfwmap[p].ifd \in {curfwmap'[p].ifd, NoFd},
         \A w \in Writers : wr[w].direct => wr'[w].direct /\ wr'[w].fd = wr[w].fd
  PROVE  NoFdLeak'
<1> SUFFICES ASSUME NEW m \in Fds, fdt'[m].kind \in {"file", "inotify"}, m # n PROVE Owned(m)'
  BY DEF NoFdLeak, Owned
<1>1. fdt'[m] = fdt[m]
  BY DEF TypeOK
<1>2. CASE \E p \in Cached : m \in {curfwmap[p].fd, curfwmap[p].ifd}
  BY <1>2, ConstantTypes DEF Owned
<1>3. CASE \E w \in Writers : wr[w].direct /\ wr[w].fd = m
  BY <1>3 DEF Owned
<1> QED BY <1>1, <1>2, <1>3 DEF NoFdLeak

\* The other steps.
LEMMA SameOwned ==
  ASSUME NoFdLeak, \A n \in Fds : fdt'[n].kind = fdt[n].kind, UNCHANGED curfwmap,
         \A w \in Writers : wr[w].direct => wr'[w].direct /\ wr'[w].fd = wr[w].fd
  PROVE  NoFdLeak'
BY DEF NoFdLeak, Cached

LEMMA OwnerKept ==
  ASSUME TypeOK, WriterInv, LockInv, EntryInv, NoFdLeak, [Next]_vars
  PROVE  NoFdLeak'
<1>1. ASSUME NEW p \in Paths, Others(p) PROVE NoFdLeak'
  <2>1. \A n \in Fds : fdt'[n].kind = fdt[n].kind
    BY <1>1 DEF TypeOK, Object, Others, Unlink, Rename, Chmod, Touch, Notify, Recreate, fdVars
  <2> QED BY <1>1, <2>1, SameOwned DEF Others, Unlink, Rename, Chmod, Touch, Recreate, cacheVars, writerVars
<1>2. ASSUME NEW w \in Writers, GetOpened(w) PROVE NoFdLeak'
  <2>1. wr[w].path \in Paths /\ curfwmap[wr[w].path] = NoEntry
    BY <1>2 DEF WriterInv, GetOpened
  <2>2. PICK n \in Fds : /\ fdt' = [fdt EXCEPT ![n] = Obj("file", wr[w].path, fs'[wr[w].path])]
                         /\ curfwmap' = [curfwmap EXCEPT ![wr[w].path] =
                                           [no |-> fs'[wr[w].path], fd |-> n, ifd |-> NoFd]]
    BY <1>2 DEF GetOpened, OpenFile, FreeFds
  <2>3. curfwmap'[wr[w].path].fd = n /\ wr[w].path \in Cached'
    BY <2>1, <2>2, ConstantTypes DEF TypeOK, Cached, NoEntry
  <2>4. Owned(n)'
    BY <2>3 DEF Owned
  <2>5. \A p \in Cached : p \in Cached' /\ curfwmap'[p] = curfwmap[p]
    BY <2>1, <2>2 DEF TypeOK, Cached
  <2> QED BY <1>2, <2>2, <2>4, <2>5, OpenedOwned DEF GetOpened
<1>3. ASSUME NEW w \in Writers, OpenDirect(w) PROVE NoFdLeak'
  <2>1. PICK n \in Fds : /\ fdt' = [fdt EXCEPT ![n] = Obj("file", wr[w].path, fs'[wr[w].path])]
                         /\ wr' = [wr EXCEPT ![w].fd = n, ![w].direct = TRUE]
    BY <1>3 DEF OpenDirect, OpenFile, FreeFds
  <2>2. ~wr[w].direct
    BY <1>3 DEF WriterInv, OpenDirect
  <2>3. wr'[w].direct /\ wr'[w].fd = n /\ \A v \in Writers : v # w => wr'[v] = wr[v]
    BY <2>1 DEF TypeOK, Local
  <2>4. Owned(n)'
    BY <2>3 DEF Owned
  <2> QED BY <1>3, <2>1, <2>2, <2>3, <2>4, OpenedOwned DEF OpenDirect, cacheVars, Cached
<1>4. ASSUME NEW w \in Writers, WriteEnd(w) PROVE NoFdLeak'
  <2>1. \A v \in Writers : v # w => wr'[v] = wr[v]
    BY <1>4 DEF TypeOK, WriteEnd, Return
  <2> QED BY <1>4, <2>1, ClosedOwned DEF WriteEnd, EntryStays, cacheVars
<1>5. ASSUME NEW w \in Writers, Call(w) PROVE NoFdLeak'
  BY <1>5, SameOwned DEF Call, Begin, TypeOK, Local, fdVars, cacheVars
<1>6. ASSUME NEW w \in Writers, wpc[w] \in {"get", "kick", "ref", "direct"}, UNCHANGED <<fdt, curfwmap>>,
             \A v \in Writers : v # w => wr'[v] = wr[v]
      PROVE  NoFdLeak'
  BY <1>6, SameOwned DEF WriterInv
<1>7. ASSUME NEW w \in Writers, Writer(w) PROVE NoFdLeak'
  BY <1>2, <1>3, <1>4, <1>6, <1>7
     DEF Writer, GetCached, GetFailed, Kick, ReadFd, ReadFreedFd, RegisterEnd, OpenDirectFailed, Return,
         TypeOK, fdVars, cacheVars
<1>8. ASSUME NEW p \in Paths, AddWatch(p) PROVE NoFdLeak'
  <2>1. PICK n \in Fds : /\ fdt' = [fdt EXCEPT ![n] = Obj("inotify", p, fs[p])]
                         /\ curfwmap' = [curfwmap EXCEPT ![p].ifd = n]
    BY <1>8 DEF AddWatch, FreeFds
  <2>2. p \in Cached /\ curfwmap[p].ifd = NoFd /\ curfwmap[p].no # 0
    BY <1>8 DEF LockInv, EntryInv, AddWatch, Cached
  <2>3. curfwmap'[p].ifd = n /\ curfwmap'[p].fd = curfwmap[p].fd /\ p \in Cached'
    BY <2>1, <2>2 DEF TypeOK, Entry, Cached, NoEntry
  <2>4. \A q \in Cached : q # p => q \in Cached' /\ curfwmap'[q] = curfwmap[q]
    BY <2>1 DEF TypeOK, Cached
  <2>5. Owned(n)'
    BY <2>3 DEF Owned
  <2> QED BY <1>8, <2>1, <2>2, <2>3, <2>4, <2>5, OpenedOwned, ZenonT(30) DEF AddWatch, writerVars
<1>9. ASSUME NEW p \in Paths, AddFailed(p) PROVE NoFdLeak'
  BY <1>9, ClosedOwned DEF AddFailed, EntryStays, writerVars
<1>10. ASSUME NEW n \in Fds, CheckInotifyEvents(n) PROVE NoFdLeak'
  BY <1>10, SameOwned DEF CheckInotifyEvents, TypeOK, Object, cacheVars, writerVars
<1>11. ASSUME NEW p \in Paths, DeleteEntry(p), UNCHANGED writerVars PROVE NoFdLeak'
  BY <1>11, ClosedOwned DEF TypeOK, DeleteEntry, EntryStays, writerVars
<1>12. ASSUME UNCHANGED <<fdt, curfwmap, wr>> PROVE NoFdLeak'
  BY <1>12, SameOwned
<1>13. CASE Watcher
  BY <1>8, <1>9, <1>10, <1>11, <1>12, <1>13
     DEF Watcher, ThreadStart, AddBegin, AddEnd, WaitEvents, ReadSignal, FindWatch, StatFile, DropWatch, EventsEnd,
         Watched, Cached, fdVars, cacheVars, writerVars
<1>14. CASE CloseStart \/ Closer
  BY <1>11, <1>12, <1>14 DEF CloseStart, Closer, CloseJoin, CloseEntry, CloseEnd, fdVars, cacheVars, writerVars
<1>15. CASE Disturbed
  BY <1>12, <1>15 DEF Disturbed, StartFails, WaitInterrupted, WaitFails, fdVars, cacheVars, writerVars
<1> QED BY <1>1, <1>5, <1>7, <1>12, <1>13, <1>14, <1>15 DEF Next, Running, Stopped, vars, fdVars, cacheVars, writerVars

-----------------------------------------------------------------------------
(* The theorems.                                                           *)

LEMMA InitInv == Init => FdInv
<1> SUFFICES ASSUME Init PROVE FdInv
  OBVIOUS
<1>1. \A p \in Paths : curfwmap[p] = NoEntry
  BY DEF Init
<1>2. TypeOK /\ Cached = {}
  BY <1>1, InitTypes DEF Cached
<1>3. WriterInv /\ LockInv /\ FoundInv /\ LookInv
  BY DEF Init, WriterInv, LockInv, FoundInv, LookInv, NoLocal
<1>4. EntryInv
  BY <1>1 DEF Init, EntryInv, NoEntry
<1>5. \A n \in Fds : fdt[n].event = "none" /\ fdt[n].kind \in {"free", "std"}
  BY DEF Init, StdOut, Free, Obj
<1>6. WatchInv /\ NoFdLeak
  BY <1>5 DEF WatchInv, WatchOK, NoFdLeak
<1> QED BY <1>2, <1>3, <1>4, <1>6 DEF FdInv, TriedInv

LEMMA NextInv ==
  ASSUME FdInv, [Next]_vars
  PROVE  FdInv'
BY NextTypes, WriterKept, LockKept, EntryKept, WatchKept, FoundKept, TriedKept, LookKept, OwnerKept DEF FdInv

LEMMA AlwaysFdInv == Spec => []FdInv
BY InitInv, NextInv, PTL DEF Spec

\* The types of the files, the descriptors, the cache and the threads.
THEOREM FdTypesCorrect == Spec => []TypeOK
BY AlwaysFdInv, PTL DEF FdInv

\* GetFileWatch, AddFileWatchEpoll, DeleteFileWatchEpoll and Close lose no
\* descriptor, whichever open, watch or epoll_ctl fails, and although numbers
\* of watches are closed that are descriptors of others.
THEOREM NoDescriptorLost == Spec => []NoFdLeak
BY AlwaysFdInv, PTL DEF FdInv

\* The signal of GetFileWatch and the look at the whole map after each wait
\* leave no new entry without a watch that could have had one.
THEOREM EveryEntryLookedAt == Spec => []KickedUntilWatched
<1>1. FdInv => KickedUntilWatched
  BY DEF FdInv, LookInv, KickedUntilWatched
<1> QED BY <1>1, AlwaysFdInv, PTL

\* CheckInotifyEvents, CheckRemoveFileWatch and DeleteFileWatch work without
\* the lock between them, and with an event that may be old; they drop the
\* entry of a file that has gone, and of no other.
THEOREM OnlyGoneDropped == Spec => OnlyRemovedIsDropped
<1>1. ASSUME FdInv, [Next]_vars, NEW p \in Cached, Alone(p), curfwmap'[p] = NoEntry, cpc = "up"
      PROVE  fs[p] # curfwmap[p].no
  <2>1. p \in Paths /\ curfwmap[p] # NoEntry /\ curfwmap[p].no # 0
    BY <1>1 DEF Cached, FdInv, EntryInv
  <2>2. ~EntryStays(p) /\ ~EntryComes(p)
    BY <1>1, <2>1 DEF EntryStays, EntryComes
  <2>3. ~EntryWatched(p)
    <3>1. curfwmap[p] \in Entry
      BY <1>1, <2>1 DEF FdInv, TypeOK
    <3>2. ASSUME NEW n \in Fds, curfwmap'[p] = [curfwmap[p] EXCEPT !.ifd = n]
          PROVE  curfwmap'[p].no = curfwmap[p].no
      BY <3>1, <3>2 DEF Entry
    <3>3. ASSUME EntryWatched(p) PROVE FALSE
      <4>1. curfwmap'[p].no = curfwmap[p].no
        BY <3>2, <3>3 DEF EntryWatched
      <4> QED BY <1>1, <2>1, <4>1 DEF NoEntry
    <3> QED BY <3>3
  <2>4. DropWatch
    BY <1>1, <2>1, <2>2, <2>3, EntriesChange DEF EntryGoes, CloseEntry, FdInv
  <2>5. p \in Watched /\ tpc = "drop"
    BY <1>1, <2>1, <2>4 DEF DropWatch, DeleteEntry, Watched, FdInv, TypeOK
  <2> QED BY <1>1, <2>5 DEF FdInv, FoundInv
<1>2. FdInv /\ [Next]_vars =>
        [\A p \in Cached : Alone(p) /\ curfwmap'[p] = NoEntry /\ cpc = "up" => fs[p] # curfwmap[p].no]_vars
  BY <1>1
<1> QED BY <1>2, AlwaysFdInv, PTL DEF Spec, OnlyRemovedIsDropped

=============================================================================
