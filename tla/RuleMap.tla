------------------------------- MODULE RuleMap -------------------------------
(***************************************************************************)
(* The rules and the attributes of the files: K2hFtInfo (k2hftinfo.cc) and *)
(* the FUSE callbacks that look files up, create them and change them      *)
(* (k2hftfuse.cc).                                                         *)
(*                                                                         *)
(* RuleMap maps the path of a file, or of a directory that has a rule, to  *)
(* its rule; the address of the rule is the file handle.  prule_lockval is *)
(* held for one lookup or one change, and given back in between: a         *)
(* callback looks the file up, checks its owner, looks the parent up,      *)
(* checks the permission and only then changes anything.  CreateFile keeps *)
(* it while the plugin of the new file starts.  SetTimespec walks over the *)
(* map, and Processing adds to the size, without it.                       *)
(*                                                                         *)
(* Abstractions.  A path is the sequence of its names.  A rule is what     *)
(* stat shows of it and whether a plugin reads its output; what a line     *)
(* goes through is left to LineAssembly.  A critical section that nobody   *)
(* can look into is one step, together with the unlocked IsLoad in front   *)
(* of it: after Clean the map is empty, and both answer alike.  A time is  *)
(* "now" or given by the client; a value counts 1.                         *)
(*                                                                         *)
(* A rule whose plugin cannot be started is deleted, and stays in the map: *)
(* what is read at its address is anything, so that a check passes or not. *)
(*                                                                         *)
(* External: the kernel.  It keeps changes of one file apart, and the      *)
(* creation of files of one directory, and opens what it has looked up.    *)
(***************************************************************************)
EXTENDS Integers, Sequences, FiniteSets

CONSTANTS
  Paths,       \* the paths requests are about, without the mount point
  MapOrder,    \* [Paths -> Nat], the order of the keys of std::map
  Conf,        \* the rules of the configuration, in its order
  Users, SuperUser, Groups,
  Member,      \* SUBSET (Users \X Groups), is_gid_include_ids
  Mount,       \* the mode, uid and gid of directories without a rule
  GroupOf,     \* [Users -> Groups], the group a new file gets
  Workers,     \* threads that serve requests
  Requests,    \* the requests clients may make
  MaxRequests, \* bound: requests
  MaxRules,    \* bound: rules that are ever made
  MaxValues,   \* bound: values put out by the timeup thread
  PluginMayFail,
  Freed        \* what is at an address without a rule

Timer == "timer"
Cleaner == "cleaner"
Free == "free"
Root == <<>>
Bits == {"u", "g", "o"} \X {"r", "w", "x"}
Stat == [dir : BOOLEAN, mode : SUBSET Bits, uid : Users, gid : Groups]
Rule == [stat : Stat, plugin : BOOLEAN, AccumSize : Nat, LastTime : {"now", "given"}]
Ids == 1 .. MaxRules
NoId == 0
NoRequest == [op |-> "none"]
Keep == -1  \* of chown: leave the owner, or the group, as it is
Adders == Workers \cup {Timer}

ASSUME PathAssumption ==
  /\ Paths \subseteq Seq(STRING) \ {Root}
  /\ IsFiniteSet(Paths)
  /\ \A p \in Paths : \A k \in 1 .. Len(p) : SubSeq(p, 1, k) \in Paths
  /\ MapOrder \in [Paths -> Nat]
  /\ \A p, q \in Paths : MapOrder[p] = MapOrder[q] => p = q
  /\ \A p \in Paths : \A k \in 1 .. Len(p) - 1 : MapOrder[SubSeq(p, 1, k)] < MapOrder[p]
  /\ Conf \in Seq([path : Paths, rule : Rule])
  /\ \A i \in DOMAIN Conf : Conf[i].rule.stat.dir \/ Conf[i].rule.AccumSize = 0
  /\ \A i, j \in DOMAIN Conf : Conf[i].path = Conf[j].path => i = j
  /\ Len(Conf) <= MaxRules

ASSUME UserAssumption ==
  /\ SuperUser \in Users
  /\ Member \subseteq Users \X Groups
  /\ GroupOf \in [Users -> Groups]
  /\ Mount \in Stat /\ Mount.dir

ASSUME WorkerAssumption ==
  /\ Freed \notin Rule
  /\ Workers \cap {Timer, Cleaner, Free} = {}
  /\ PluginMayFail \in BOOLEAN
  /\ MaxRules \in Nat /\ MaxRequests \in Nat /\ MaxValues \in Nat

ASSUME RequestAssumption ==
  \A r \in Requests :
    /\ r.op \in {"look", "chmod", "chown", "utimens", "truncate", "open", "create", "write", "fsync", "release"}
    /\ r.path \in Paths
    /\ r.uid \in Users
    /\ r.op \in {"chmod", "create", "open"} => r.mode \subseteq Bits
    /\ r.op = "chown" => r.owner \in Users \cup {Keep} /\ r.group \in Groups \cup {Keep}

VARIABLES
  Config,        \* K2hFtInfo::IsLoad
  DirMode,       \* K2hFtInfo::DirMode, nothing after Clean
  rules,         \* [Ids -> Rule or Freed], the rules by address
  made,          \* the rules made so far
  RuleMap,       \* [Paths -> Ids \cup {NoId}]
  prule_lockval, \* Free, or who holds it
  cleaning,      \* the step of K2hFtInfo::Clean
  call, pc,      \* each worker: its request and its next step
  fi,            \* each worker: the handle it has found, fi->fh
  torn,          \* workers that walk over the map while it changes
  handles,       \* open files: path and handle
  adding,        \* [Adders -> [id, old]]: an addition to AccumSize under way
  asked, late,   \* the requests made, the values others had to put out
  failed,        \* history: the paths whose plugin could not be started
  put,           \* history: [Ids -> Nat], values processed since the last truncation
  overlapped,    \* history: [Ids -> Nat], those that met another addition under way
  raced          \* history: rules truncated while an addition was under way

NoAdd == [id |-> NoId, old |-> 0]

mapVars  == <<rules, made, RuleMap>>
confVars == <<Config, DirMode, cleaning>>
callVars == <<call, pc, fi, torn>>
sizeVars == <<adding, put, overlapped, raced>>
past == <<asked, late, failed>>
ruleVars == <<mapVars, confVars, prule_lockval, callVars, sizeVars, handles, past>>

Init ==
  /\ Config = FALSE
  /\ DirMode = {}
  /\ rules = [i \in Ids |-> Freed]
  /\ made = 0
  /\ RuleMap = [p \in Paths |-> NoId]
  /\ prule_lockval = Free
  /\ cleaning = "no"
  /\ call = [w \in Workers |-> NoRequest]
  /\ pc = [w \in Workers |-> "idle"]
  /\ fi = [w \in Workers |-> NoId]
  /\ torn = {}
  /\ handles = {}
  /\ adding = [a \in Adders |-> NoAdd]
  /\ asked = 0
  /\ late = 0
  /\ failed = {}
  /\ put = [i \in Ids |-> 0]
  /\ overlapped = [i \in Ids |-> 0]
  /\ raced = {}

-----------------------------------------------------------------------------
(* Paths and permissions.                                                  *)

\* get_parent_dirpath, for the path of a request, which starts with "/".
Parent(p) == SubSeq(p, 1, Len(p) - 1)

IsBelow(q, p) == Len(q) > Len(p) /\ SubSeq(q, 1, Len(p)) = p

InMap == {p \in Paths : RuleMap[p] # NoId}
RuleAt(p) == rules[RuleMap[p]]

\* check_permission_raw
Allowed(bit, st, u) ==
  \/ u = SuperUser /\ (bit = "x" => <<"u", "x">> \in st.mode)
  \/ u = st.uid /\ <<"u", bit>> \in st.mode
  \/ <<u, st.gid>> \in Member /\ <<"g", bit>> \in st.mode
  \/ <<"o", bit>> \in st.mode

\* check_premission_owner
IsOwner(st, u) == u = SuperUser \/ u = st.uid

NotFound == [found |-> FALSE]
MountStat == [Mount EXCEPT !.mode = DirMode]

\* What is read at an address: what was freed is no rule any more.
Dead(p) == p \in InMap /\ RuleAt(p) = Freed
StatAt(p) == IF Dead(p) THEN Freed ELSE RuleAt(p).stat

\* What a look at the rule of p may show: what it is, or anything.
Shown(p, what) == IF Dead(p) THEN BOOLEAN ELSE {what}

\* A loop over the map comes to p before the rest of S.
IsFirst(p, S) == p \in S /\ \A q \in S : MapOrder[p] <= MapOrder[q]

\* FindPath: the mount point, or what the first key tells that is the path,
\* a rule, or goes on after it with "/", a directory on the way to a rule.
FindPath(p) ==
  LET Matches == {q \in InMap : q = p \/ IsBelow(q, p)}
  IN  IF p = Root THEN [found |-> TRUE, st |-> MountStat]
      ELSE IF ~Config \/ Matches = {} THEN NotFound
      ELSE [found |-> TRUE, st |-> IF IsFirst(p, Matches) THEN StatAt(p) ELSE MountStat]

\* GetFileHandle
GetFileHandle(p) == IF Config THEN RuleMap[p] ELSE NoId

\* An entry of the directory p: the next name of a key below it, and the
\* attributes of the rule, unless the key goes on.
EntryOf(q, p) ==
  [name |-> q[Len(p) + 1], st |-> IF Len(q) = Len(p) + 1 THEN StatAt(q) ELSE MountStat]

Named(n, p) == {q \in InMap : IsBelow(q, p) /\ q[Len(p) + 1] = n}

\* Mutant of ReadDir: the last key of a name tells, not the first.
ReadDirLast(p) ==
  {EntryOf(q, p) : q \in {r \in InMap :
     IsBelow(r, p) /\ \A o \in Named(r[Len(p) + 1], p) : MapOrder[o] <= MapOrder[r]}}

\* ReadDir: the entries of a directory, from a loop over the map that passes
\* over a name it has already listed.
ReadDir(p) ==
  {EntryOf(q, p) : q \in {r \in InMap : IsBelow(r, p) /\ IsFirst(r, Named(r[Len(p) + 1], p))}}

-----------------------------------------------------------------------------
(* Load, and the requests of clients.                                      *)

ConfAt(p) == {i \in DOMAIN Conf : Conf[i].path = p}

\* Load puts the rules of the configuration into the map.
LoadRules ==
  /\ ~Config
  /\ made = 0
  /\ rules' = [i \in Ids |-> IF i \in DOMAIN Conf THEN Conf[i].rule ELSE Freed]
  /\ RuleMap' = [p \in Paths |-> IF ConfAt(p) = {} THEN NoId ELSE CHOOSE i \in ConfAt(p) : TRUE]
  /\ made' = Len(Conf)
  /\ Config' = TRUE
  /\ DirMode' = Mount.mode
  /\ UNCHANGED <<cleaning, prule_lockval, callVars, sizeVars, handles, past>>

Busy(w) == call[w] # NoRequest

Changing == {"chmod", "chown", "utimens", "truncate", "write", "fsync", "release"}

\* The kernel holds the inode of a file that is changed, and the directory
\* in which a file is created, and opens files it has looked up.
KernelAllows(r) ==
  /\ \A w \in Workers : Busy(w) =>
       /\ r.op \in Changing /\ call[w].op \in Changing => r.path # call[w].path
       /\ r.op = "create" /\ call[w].op = "create" => Parent(r.path) # Parent(call[w].path)
  /\ r.op = "open" => r.path \in InMap \/ ~Config
  /\ r.op \in {"write", "fsync", "release"} => \E h \in handles : h.path = r.path /\ h.id # NoId

\* The first step of the callback.
FirstStep(r) ==
  CASE r.op \in {"write", "fsync", "release"} -> "use"
    [] r.op = "truncate" -> "set"
    [] OTHER -> "find"

Arrive(w, r) ==
  /\ ~Busy(w)
  /\ asked < MaxRequests
  /\ KernelAllows(r)
  /\ call' = [call EXCEPT ![w] = r]
  /\ pc' = [pc EXCEPT ![w] = FirstStep(r)]
  /\ asked' = asked + 1
  /\ UNCHANGED <<late, failed, mapVars, confVars, prule_lockval, fi, torn, sizeVars, handles>>

Goto(w, step) == pc' = [pc EXCEPT ![w] = step] /\ UNCHANGED call

\* The callback returns, with success or an error.
Answer(w) ==
  /\ pc' = [pc EXCEPT ![w] = "idle"]
  /\ call' = [call EXCEPT ![w] = NoRequest]

\* Spinning on prule_lockval, for a section that is one step.
Unlocked == prule_lockval = Free

-----------------------------------------------------------------------------
(* The lookups.                                                            *)

\* getattr, access and readdir look, and answer.
Look(w) ==
  /\ pc[w] = "find"
  /\ Unlocked
  /\ call[w].op = "look"
  /\ Answer(w)
  /\ UNCHANGED <<mapVars, confVars, prule_lockval, fi, torn, sizeVars, handles, past>>

\* chmod, chown and utimens: the file, its owner, and no directory.
FindFile(w) ==
  /\ pc[w] = "find"
  /\ Unlocked
  /\ call[w].op \in {"chmod", "chown", "utimens"}
  /\ LET p == call[w].path
         f == FindPath(p)
     IN  \E passes \in Shown(p, f.found /\ IsOwner(f.st, call[w].uid) /\ ~f.st.dir) :
           IF passes THEN Goto(w, "parent") ELSE Answer(w)
  /\ UNCHANGED <<mapVars, confVars, prule_lockval, fi, torn, sizeVars, handles, past>>

\* open: the file, if there is one.
FindToOpen(w) ==
  /\ pc[w] = "find"
  /\ Unlocked
  /\ call[w].op = "open"
  /\ LET p == call[w].path
         f == FindPath(p)
     IN  IF ~f.found THEN Goto(w, "parent")
         ELSE \E dir \in Shown(p, f.st.dir) : IF dir THEN Answer(w) ELSE Goto(w, "handle")
  /\ UNCHANGED <<mapVars, confVars, prule_lockval, fi, torn, sizeVars, handles, past>>

\* Mutant of TakeHandle: the handle is not taken.
TakeHandleNot(w) ==
  /\ pc[w] = "handle"
  /\ Unlocked
  /\ Goto(w, "parent")
  /\ UNCHANGED <<mapVars, confVars, prule_lockval, fi, torn, sizeVars, handles, past>>

TakeHandle(w) ==
  /\ pc[w] = "handle"
  /\ Unlocked
  /\ fi' = [fi EXCEPT ![w] = GetFileHandle(call[w].path)]
  /\ Goto(w, "parent")
  /\ UNCHANGED <<mapVars, confVars, prule_lockval, torn, sizeVars, handles, past>>

\* create: there must not be one.
FindToCreate(w) ==
  /\ pc[w] = "find"
  /\ Unlocked
  /\ call[w].op = "create"
  /\ IF FindPath(call[w].path).found THEN Answer(w) ELSE Goto(w, "parent")
  /\ UNCHANGED <<mapVars, confVars, prule_lockval, fi, torn, sizeVars, handles, past>>

Creates(w) == call[w].op = "create" \/ (call[w].op = "open" /\ fi[w] = NoId)

\* Mutant of ParentCheck: creating needs no more than the others.
ParentCheckX(w, st) == Allowed("x", st, call[w].uid)

\* What a request needs of the parent directory.
ParentCheck(w, st) ==
  Allowed("x", st, call[w].uid) /\ (Creates(w) => Allowed("w", st, call[w].uid))

\* The callback of open or create is over, with a handle for the kernel.
GiveHandle(w, id) ==
  /\ Answer(w)
  /\ fi' = [fi EXCEPT ![w] = NoId]
  /\ handles' = handles \cup {[path |-> call[w].path, id |-> id]}

Refuse(w) ==
  /\ Answer(w)
  /\ fi' = [fi EXCEPT ![w] = NoId]
  /\ UNCHANGED handles

ParentPasses(w) ==
  IF fi[w] # NoId THEN GiveHandle(w, fi[w])
  ELSE Goto(w, IF call[w].op \in {"open", "create"} THEN "create" ELSE "set") /\ UNCHANGED <<fi, handles>>

FindParent(w) ==
  /\ pc[w] = "parent"
  /\ Unlocked
  /\ LET d == Parent(call[w].path)
         f == FindPath(d)
     IN  \E passes \in Shown(d, f.found /\ ParentCheck(w, f.st)) :
           IF passes THEN ParentPasses(w) ELSE Refuse(w)
  /\ UNCHANGED <<mapVars, confVars, prule_lockval, torn, sizeVars, past>>

-----------------------------------------------------------------------------
(* The changes.                                                            *)

Adding(i) == \E a \in Adders : adding[a].id = i

\* SetOwner
ChangeOwner(st, q) ==
  [st EXCEPT !.uid = IF q.owner = Keep THEN @ ELSE q.owner, !.gid = IF q.group = Keep THEN @ ELSE q.group]

\* Mutant of Changed: truncate leaves the size.
ChangedNotSize(r, q) ==
  CASE q.op = "chmod" -> [r EXCEPT !.stat.mode = q.mode, !.LastTime = "now"]
    [] q.op = "chown" -> [r EXCEPT !.stat = ChangeOwner(r.stat, q), !.LastTime = "now"]
    [] q.op = "truncate" -> [r EXCEPT !.LastTime = "now"]

Changed(r, q) ==
  CASE q.op = "chmod" -> [r EXCEPT !.stat.mode = q.mode, !.LastTime = "now"]
    [] q.op = "chown" -> [r EXCEPT !.stat = ChangeOwner(r.stat, q), !.LastTime = "now"]
    [] q.op = "truncate" -> [r EXCEPT !.AccumSize = 0, !.LastTime = "now"]

\* SetMode, SetOwner and TruncateZero look the file up again.
SetAttribute(w) ==
  /\ pc[w] = "set"
  /\ Unlocked
  /\ call[w].op \in {"chmod", "chown", "truncate"}
  /\ LET p == call[w].path
         i == RuleMap[p]
     IN  IF ~Config \/ p \notin InMap \/ Dead(p) \/ rules[i].stat.dir
           THEN Answer(w) /\ UNCHANGED <<rules, put, overlapped, raced>>
           ELSE /\ rules' = [rules EXCEPT ![i] = Changed(rules[i], call[w])]
                /\ Answer(w)
                /\ IF call[w].op # "truncate" THEN UNCHANGED <<put, overlapped, raced>>
                   ELSE /\ put' = [put EXCEPT ![i] = 0]
                        /\ overlapped' = [overlapped EXCEPT ![i] = 0]
                        /\ raced' = IF Adding(i) THEN raced \cup {i} ELSE raced \ {i}
  /\ UNCHANGED <<made, RuleMap, confVars, prule_lockval, fi, torn, adding, handles, past>>

\* SetTimespec: "Do not lock here."
BeginWalk(w) ==
  /\ pc[w] = "set"
  /\ call[w].op = "utimens"
  /\ IF Config THEN Goto(w, "walk") ELSE Answer(w)
  /\ UNCHANGED <<mapVars, confVars, prule_lockval, fi, torn, sizeVars, handles, past>>

\* The walk finds the file, unless the map was changed under it: then it may
\* miss the file, or write into a rule that has been freed.
SetTimespec(w) ==
  /\ pc[w] = "walk"
  /\ LET p == call[w].path
     IN  \/ /\ p \in InMap \/ w \in torn
            /\ Answer(w)
            /\ rules' = IF p \in InMap /\ RuleAt(p) # Freed
                          THEN [rules EXCEPT ![RuleMap[p]].LastTime = "given"] ELSE rules
         \/ /\ p \notin InMap \/ w \in torn
            /\ Answer(w)
            /\ UNCHANGED rules
  /\ torn' = torn \ {w}
  /\ UNCHANGED <<made, RuleMap, confVars, prule_lockval, fi, sizeVars, handles, past>>

\* Those who walk over the map without the lock while it is changed.
Tear == torn' = torn \cup {w \in Workers : pc[w] = "walk"}

-----------------------------------------------------------------------------
(* CreateFile.  It skips the first "/" of the path: a file right under the *)
(* mount point has no "/" left, and no parent.                             *)

\* The rule of the parent directory, not a directory on the way to a rule.
HasParentRule(p) ==
  Shown(Parent(p), Parent(p) \in InMap /\ RuleAt(Parent(p)).stat.dir)

\* Mutant of CreateNothing: no early return gives the lock back.
CreateNothingKeeps(w) ==
  /\ pc[w] = "create"
  /\ Unlocked
  /\ LET p == call[w].path
     IN  /\ ~Config \/ p \in InMap \/ Len(p) = 1 \/ FALSE \in HasParentRule(p)
         /\ IF Config /\ p \in InMap THEN GiveHandle(w, NoId) ELSE Refuse(w)
         /\ prule_lockval' = IF Config /\ p \notin InMap THEN w ELSE Free
  /\ UNCHANGED <<mapVars, confVars, torn, sizeVars, past>>

\* Nothing is created.  A file that is there already is a success, without a
\* handle; the return for want of a parent keeps the lock.
CreateNothing(w) ==
  /\ pc[w] = "create"
  /\ Unlocked
  /\ LET p == call[w].path
     IN  /\ ~Config \/ p \in InMap \/ Len(p) = 1 \/ FALSE \in HasParentRule(p)
         /\ IF Config /\ p \in InMap THEN GiveHandle(w, NoId) ELSE Refuse(w)
         /\ prule_lockval' = IF Config /\ p \notin InMap /\ Len(p) = 1 THEN w ELSE Free
  /\ UNCHANGED <<mapVars, confVars, torn, sizeVars, past>>

\* Mutant of NewRule: the user for the group.
NewRuleGroup(w, plugin) ==
  [stat |-> [dir |-> FALSE, mode |-> call[w].mode, uid |-> call[w].uid, gid |-> call[w].uid],
   plugin |-> plugin, AccumSize |-> 0, LastTime |-> "now"]

\* The new file belongs to who creates it; open gives it what umask leaves.
NewRule(w, plugin) ==
  [stat |-> [dir |-> FALSE, mode |-> call[w].mode, uid |-> call[w].uid, gid |-> GroupOf[call[w].uid]],
   plugin |-> plugin, AccumSize |-> 0, LastTime |-> "now"]

CreateInsert(w) ==
  /\ pc[w] = "create"
  /\ Unlocked
  /\ made < MaxRules
  /\ LET p == call[w].path
     IN  /\ Config /\ p \notin InMap /\ Len(p) > 1 /\ TRUE \in HasParentRule(p)
         /\ made' = made + 1
         /\ RuleMap' = [RuleMap EXCEPT ![p] = made']
         /\ \E plugin \in Shown(Parent(p), RuleAt(Parent(p)).plugin) :
              /\ rules' = [rules EXCEPT ![made'] = NewRule(w, plugin)]
              /\ IF plugin
                   THEN /\ Goto(w, "plugin")
                        /\ fi' = [fi EXCEPT ![w] = made']
                        /\ prule_lockval' = w
                        /\ UNCHANGED handles
                   ELSE GiveHandle(w, made') /\ UNCHANGED prule_lockval
  /\ Tear
  /\ UNCHANGED <<confVars, sizeVars, past>>

\* RunAddPlugin has started the plugin, or it has failed: then the rule is
\* deleted, and the map keeps its address.
StartPlugin(w) ==
  /\ pc[w] = "plugin"
  /\ \E started \in {TRUE, ~PluginMayFail} :
       IF started THEN GiveHandle(w, fi[w]) /\ UNCHANGED <<rules, failed>>
       ELSE /\ rules' = [rules EXCEPT ![fi[w]] = Freed]
            /\ failed' = failed \cup {call[w].path}
            /\ Refuse(w)
  /\ prule_lockval' = Free
  /\ UNCHANGED <<made, RuleMap, confVars, torn, sizeVars, asked, late>>

-----------------------------------------------------------------------------
(* What is done through a handle, without a lock: the size and the times.  *)

IdOf(w) == (CHOOSE h \in handles : h.path = call[w].path /\ h.id # NoId).id

\* Processing, in a worker that writes or in the thread that puts out what
\* others have stacked, has put the value out, or failed to: it goes on to
\* AccumSize all the same, and reads it.
BeginAdd(a, i) ==
  /\ adding[a] = NoAdd
  /\ rules[i] # Freed
  /\ adding' = [adding EXCEPT ![a] = [id |-> i, old |-> rules[i].AccumSize]]
  /\ put' = [put EXCEPT ![i] = @ + 1]
  /\ overlapped' = IF Adding(i) THEN [overlapped EXCEPT ![i] = @ + 1] ELSE overlapped
  /\ UNCHANGED raced

Added(a) == adding[a].old + 1

\* It writes what it has read and the value, and the time.
EndAdd(a) ==
  /\ adding[a] # NoAdd
  /\ LET i == adding[a].id
     IN  rules' = IF rules[i] = Freed THEN rules
                  ELSE [rules EXCEPT ![i].AccumSize = Added(a), ![i].LastTime = "now"]
  /\ adding' = [adding EXCEPT ![a] = NoAdd]
  /\ UNCHANGED <<made, RuleMap, put, overlapped, raced>>

Write(w) ==
  /\ pc[w] = "use"
  /\ call[w].op = "write"
  /\ BeginAdd(w, IdOf(w))
  /\ Goto(w, "add")
  /\ UNCHANGED <<mapVars, confVars, prule_lockval, fi, torn, handles, past>>

WriteEnd(w) ==
  /\ pc[w] = "add"
  /\ EndAdd(w)
  /\ Answer(w)
  /\ UNCHANGED <<confVars, prule_lockval, fi, torn, handles, past>>

\* UpdateMTime
Fsync(w) ==
  /\ pc[w] = "use"
  /\ call[w].op = "fsync"
  /\ rules[IdOf(w)] # Freed
  /\ rules' = [rules EXCEPT ![IdOf(w)].LastTime = "now"]
  /\ Answer(w)
  /\ UNCHANGED <<made, RuleMap, confVars, prule_lockval, fi, torn, sizeVars, handles, past>>

\* The rule has been freed under the handle: WriteStack tells what is lost.
UseFreed(w) ==
  /\ pc[w] = "use"
  /\ rules[IdOf(w)] = Freed
  /\ Answer(w)
  /\ UNCHANGED <<mapVars, confVars, prule_lockval, fi, torn, sizeVars, handles, past>>

\* The last close of the file; what is flushed by it is left to WriteStack.
Release(w) ==
  /\ pc[w] = "use"
  /\ call[w].op = "release"
  /\ handles' = {h \in handles : h.path # call[w].path}
  /\ Answer(w)
  /\ UNCHANGED <<mapVars, confVars, prule_lockval, fi, torn, sizeVars, past>>

\* The timeup thread, for any file that somebody has opened.
TimerAdd ==
  /\ late < MaxValues
  /\ \E h \in handles : h.id # NoId /\ BeginAdd(Timer, h.id)
  /\ late' = late + 1
  /\ UNCHANGED <<mapVars, confVars, prule_lockval, callVars, handles, asked, failed>>

TimerEnd ==
  /\ EndAdd(Timer)
  /\ UNCHANGED <<confVars, prule_lockval, callVars, handles, past>>

-----------------------------------------------------------------------------
(* K2hFtInfo::Clean, at the end or when Initialize fails.                  *)

CleanConfig ==
  /\ cleaning = "no"
  /\ Config' = FALSE
  /\ cleaning' = "mode"
  /\ UNCHANGED <<DirMode, mapVars, prule_lockval, callVars, sizeVars, handles, past>>

CleanMode ==
  /\ cleaning = "mode"
  /\ DirMode' = {}
  /\ cleaning' = "lock"
  /\ UNCHANGED <<Config, mapVars, prule_lockval, callVars, sizeVars, handles, past>>

\* Every rule is deleted, with the lock held,
CleanFree ==
  /\ cleaning = "lock"
  /\ Unlocked
  /\ prule_lockval' = Cleaner
  /\ rules' = [i \in Ids |-> IF \E p \in InMap : RuleMap[p] = i THEN Freed ELSE rules[i]]
  /\ cleaning' = "clear"
  /\ Tear
  /\ UNCHANGED <<Config, DirMode, made, RuleMap, call, pc, fi, sizeVars, handles, past>>

\* and then the map cleared.
CleanClear ==
  /\ cleaning = "clear"
  /\ RuleMap' = [p \in Paths |-> NoId]
  /\ prule_lockval' = Free
  /\ cleaning' = "no"
  /\ Tear
  /\ UNCHANGED <<Config, DirMode, rules, made, call, pc, fi, sizeVars, handles, past>>

-----------------------------------------------------------------------------
\* What a worker does without waiting, and what it may have to wait for.
Locking(w) ==
  \/ Look(w) \/ FindFile(w) \/ FindToOpen(w) \/ TakeHandle(w) \/ FindToCreate(w)
  \/ FindParent(w) \/ SetAttribute(w) \/ CreateNothing(w) \/ CreateInsert(w)

Going(w) ==
  \/ BeginWalk(w) \/ SetTimespec(w) \/ StartPlugin(w)
  \/ Write(w) \/ WriteEnd(w) \/ Fsync(w) \/ UseFreed(w) \/ Release(w)

Serve == \E w \in Workers : Locking(w) \/ Going(w)

Ask == \E w \in Workers, r \in Requests : Arrive(w, r)

CleanRules == CleanConfig \/ CleanMode \/ CleanFree \/ CleanClear

Next == LoadRules \/ Ask \/ Serve \/ TimerAdd \/ TimerEnd \/ CleanRules

Spec == Init /\ [][Next]_ruleVars

-----------------------------------------------------------------------------
\* The types of the variables.
TypeOK ==
  /\ Config \in BOOLEAN
  /\ DirMode \subseteq Bits
  /\ rules \in [Ids -> Rule \cup {Freed}]
  /\ made \in 0 .. MaxRules
  /\ RuleMap \in [Paths -> Ids \cup {NoId}]
  /\ prule_lockval \in Workers \cup {Free, Cleaner}
  /\ cleaning \in {"no", "mode", "lock", "clear"}
  /\ call \in [Workers -> Requests \cup {NoRequest}]
  /\ pc \in [Workers -> {"idle", "find", "handle", "parent", "set", "walk", "create", "plugin", "use", "add"}]
  /\ fi \in [Workers -> Ids \cup {NoId}]
  /\ torn \subseteq Workers
  /\ handles \subseteq [path : Paths, id : Ids \cup {NoId}]
  /\ adding \in [Adders -> {NoAdd} \cup [id : Ids, old : Nat]]
  /\ asked \in 0 .. MaxRequests
  /\ late \in 0 .. MaxValues
  /\ failed \subseteq Paths
  /\ put \in [Ids -> Nat]
  /\ overlapped \in [Ids -> Nat]
  /\ raced \subseteq Ids

\* FindPath, ReadDir and the setters follow the addresses in the map: while
\* nobody holds the lock, each of them is that of a rule that is not freed,
\* but where a plugin could not be started, and of one path only.
MapIsLive ==
  Unlocked => \A p \in InMap :
    /\ p \notin failed => RuleAt(p) # Freed
    /\ \A q \in InMap : RuleMap[q] = RuleMap[p] => q = p

\* "K2hFtInfo is only growing up": the handle of an open file is the address
\* of the rule its path has, from the open on until the rules are cleaned;
\* this is a rule as long as the plugin of the file was started, if any.
HandleStays ==
  Config => \A h \in handles :
    /\ h.id # NoId /\ RuleMap[h.path] = h.id
    /\ h.path \notin failed => rules[h.id] # Freed

\* A callback that has answered holds no lock: whoever comes next would spin
\* on it for ever.
RuleLockGivenBack == prule_lockval \in Workers => pc[prule_lockval] = "plugin"

\* Two loops over one map, of which one stops at the first key that matches
\* and the other goes on: what ReadDir lists in a directory is what FindPath
\* finds there, with the same attributes, also where a rule is the directory
\* of other rules, so that a client sees every file it can open.
ListingAgrees ==
  Unlocked /\ Config => \A p \in {Root} \cup {Parent(q) : q \in InMap} :
    {e.name : e \in ReadDir(p)} = {q[Len(q)] : q \in {r \in Paths : Parent(r) = p /\ FindPath(r).found}}
      /\ \A e \in ReadDir(p) : FindPath(Append(p, e.name)) = [found |-> TRUE, st |-> e.st]

\* A rule is made for somebody who may write and search the directory as it
\* is then, if it still is one, and its mode and owner are changed by its
\* owner as he is then, although that was looked at under earlier locks,
\* while others went on.
ChangeAllowed ==
  /\ made # 0 /\ made' # made =>
       \E w \in Workers :
         /\ call[w].op \in {"create", "open"}
         /\ RuleMap'[call[w].path] = made'
         /\ LET d == Parent(call[w].path)
            IN  ~Dead(d) => \A bit \in {"x", "w"} : Allowed(bit, RuleAt(d).stat, call[w].uid)
  /\ \A p \in InMap :
       RuleAt(p) # Freed /\ rules'[RuleMap[p]] # Freed /\ rules'[RuleMap[p]].stat # RuleAt(p).stat =>
         \E w \in Workers :
           /\ call[w].op \in {"chmod", "chown"} /\ call[w].path = p
           /\ IsOwner(RuleAt(p).stat, call[w].uid)

ChangedByAllowed == [][ChangeAllowed]_ruleVars

\* "AccumSize means transferred byte data": values are added without a lock
\* by several threads, and a truncation comes in between.  Of the values that
\* went through Processing since then none counts twice, unless one was under
\* way when the file was truncated, and all count in the end but those that
\* met another one under way.
SizeBounded ==
  \A i \in Ids : rules[i] # Freed /\ ~rules[i].stat.dir =>
    /\ i \notin raced => rules[i].AccumSize <= put[i]
    /\ ~Adding(i) => put[i] - overlapped[i] <= rules[i].AccumSize

\* Every request is answered, however long the plugin of another file takes.
RequestAnswered == \A w \in Workers : Busy(w) ~> ~Busy(w)
=============================================================================
