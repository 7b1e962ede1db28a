----------------------------- MODULE DaemonProofs -----------------------------
(***************************************************************************)
(* What Initialize, Clean and the threads around them keep, for every      *)
(* configuration, every set of workers and clients, and whatever part      *)
(* Initialize fails to get: the handles of open files stay good, the parts *)
(* go after those who use them, and nothing is left at the exit.  What a   *)
(* step of RuleMap keeps is proved before the step is put in its place.    *)
(***************************************************************************)
EXTENDS Daemon, TLAPS, SequenceTheorems, WellFoundedInduction

-----------------------------------------------------------------------------
(* The invariant.                                                          *)

Creating == {"create", "open"}

\* What goes with the step of a worker.
CallOK(w) ==
  /\ pc[w] = "idle" <=> ~Busy(w)
  /\ pc[w] = "handle" => call[w].op = "open"
  /\ pc[w] \in {"create", "plugin"} => call[w].op \in Creating
  /\ pc[w] = "plugin" => fi[w] # NoId /\ prule_lockval = w
  /\ fi[w] # NoId => pc[w] \in {"parent", "plugin"} /\ call[w].op \in Creating
  /\ pc[w] = "use" => call[w].op \in Changing /\ \E h \in handles : h.path = call[w].path /\ h.id # NoId

CallInv == \A w \in Workers : CallOK(w)

\* What the kernel keeps apart.
Apart ==
  \A v, w \in Workers : v # w /\ Busy(v) /\ Busy(w) =>
    /\ call[v].op \in Changing /\ call[w].op \in Changing => call[v].path # call[w].path
    /\ call[v].op = "create" /\ call[w].op = "create" => Parent(call[v].path) # Parent(call[w].path)

LockInv ==
  /\ cleaning = "clear" <=> prule_lockval = Cleaner
  /\ cleaning # "no" => ~Config

\* The map and the rules: none of them is lost, none is freed under the map
\* but the one whose plugin has failed, and by Clean, which frees all.
MapInv ==
  /\ \A p \in Paths : RuleMap[p] <= made
  /\ prule_lockval # Cleaner => \A p \in InMap \ failed : RuleAt(p) # Freed
  /\ prule_lockval = Cleaner => \A i \in Ids : rules[i] = Freed
  /\ \A p, q \in InMap : RuleMap[p] = RuleMap[q] => p = q
  /\ \A i \in Ids : rules[i] # Freed => \E p \in Paths : RuleMap[p] = i

\* Until Clean, a handle is the address of the rule of its path; open finds
\* its file in the map, and create does not.
HandleInv ==
  Config =>
    /\ \A h \in handles : h.id # NoId /\ RuleMap[h.path] = h.id
    /\ \A w \in Workers :
         /\ fi[w] # NoId => RuleMap[call[w].path] = fi[w]
         /\ call[w].op = "open" =>
              \/ pc[w] \in {"find", "handle"} /\ call[w].path \in InMap
              \/ pc[w] = "parent" /\ fi[w] # NoId
         /\ call[w].op = "create" /\ pc[w] \in {"find", "parent", "create"} =>
              fi[w] = NoId /\ (pc[w] # "find" => call[w].path \notin InMap)

InfoInv == TypeOK /\ CallInv /\ Apart /\ LockInv /\ MapInv /\ HandleInv

\* The rule whose plugin is being started has its path, and nobody uses it
\* yet, so that nobody misses it when the plugin fails.
PlugOK(w) ==
  pc[w] = "plugin" =>
    /\ RuleMap[call[w].path] = fi[w]
    /\ \A h \in handles : h.id # fi[w]
    /\ \A a \in Adders : adding[a].id # fi[w]

PlugInv ==
  /\ \A w \in Workers : PlugOK(w)
  /\ \A a \in Adders : adding[a].id <= made

-----------------------------------------------------------------------------
(* Types.                                                                  *)

LEMMA RequestType ==
  ASSUME TypeOK, CallInv, NEW w \in Workers, pc[w] # "idle"
  PROVE  call[w] \in Requests /\ call[w].path \in Paths /\ call[w].path # Root
BY RequestAssumption, PathAssumption DEF TypeOK, CallInv, CallOK, Busy

LEMMA NoRequestType == NoRequest \notin Requests /\ NoRequest.op = "none"
BY RequestAssumption DEF NoRequest

LEMMA ChangedType ==
  ASSUME NEW r \in Rule, NEW q \in Requests, q.op \in {"chmod", "chown", "truncate"}
  PROVE  Changed(r, q) \in Rule
<1>1. r.stat \in Stat
  BY DEF Rule
<1>2. CASE q.op = "chmod"
  <2>1. q.mode \subseteq Bits
    BY <1>2, RequestAssumption
  <2>2. [r.stat EXCEPT !.mode = q.mode] \in Stat
    BY <1>1, <2>1 DEF Stat
  <2>3. Changed(r, q) = [r EXCEPT !.stat = [r.stat EXCEPT !.mode = q.mode], !.LastTime = "now"]
    BY <1>2 DEF Changed, Rule
  <2> QED BY <2>2, <2>3 DEF Rule
<1>3. CASE q.op = "chown"
  <2>1. q.owner \in Users \cup {Keep} /\ q.group \in Groups \cup {Keep}
    BY <1>3, RequestAssumption
  <2>2. ChangeOwner(r.stat, q) \in Stat
    BY <1>1, <2>1 DEF ChangeOwner, Stat
  <2>3. Changed(r, q) = [r EXCEPT !.stat = ChangeOwner(r.stat, q), !.LastTime = "now"]
    BY <1>3 DEF Changed
  <2> QED BY <2>2, <2>3 DEF Rule
<1>4. CASE q.op = "truncate"
  BY <1>4 DEF Changed, Rule
<1> QED BY <1>2, <1>3, <1>4

\* Steps that change what is at an address, and free nothing.
SameRules ==
  /\ rules' \in [Ids -> Rule \cup {Freed}]
  /\ \A i \in Ids : rules'[i] = Freed <=> rules[i] = Freed
  /\ UNCHANGED <<made, RuleMap, failed>>

LEMMA SameRulesUpdate ==
  ASSUME TypeOK, NEW i \in Ids, rules[i] # Freed, NEW r \in Rule,
         rules' = [rules EXCEPT ![i] = r], UNCHANGED <<made, RuleMap, failed>>
  PROVE  SameRules
BY WorkerAssumption DEF TypeOK, SameRules

LEMMA SameRulesUnchanged ==
  ASSUME TypeOK, UNCHANGED <<mapVars, failed>>
  PROVE  SameRules
BY DEF TypeOK, SameRules, mapVars

LEMMA MapKept ==
  ASSUME TypeOK, MapInv, SameRules, prule_lockval' = Cleaner <=> prule_lockval = Cleaner
  PROVE  MapInv'
BY DEF TypeOK, MapInv, SameRules, InMap, RuleAt

\* The request of a worker goes on, or is answered.
LEMMA GotoType ==
  ASSUME TypeOK, NEW w \in Workers, NEW step, Goto(w, step)
  PROVE  /\ call' = call /\ pc'[w] = step
         /\ \A v \in Workers \ {w} : pc'[v] = pc[v]
BY DEF TypeOK, Goto

LEMMA AnswerType ==
  ASSUME TypeOK, NEW w \in Workers, Answer(w)
  PROVE  /\ pc'[w] = "idle" /\ call'[w] = NoRequest
         /\ \A v \in Workers \ {w} : pc'[v] = pc[v] /\ call'[v] = call[v]
         /\ pc' \in [Workers -> {"idle", "find", "handle", "parent", "set", "walk", "create", "plugin", "use", "add"}]
         /\ call' \in [Workers -> Requests \cup {NoRequest}]
BY DEF TypeOK, Answer

-----------------------------------------------------------------------------
(* What FindPath finds.                                                    *)

Hit(st) == [found |-> TRUE, st |-> st]

LEMMA HitFound == \A st : Hit(st).found
BY DEF Hit

\* The key of a path comes before the keys below it.
LEMMA FoundRule ==
  ASSUME Config, NEW p \in InMap
  PROVE  FindPath(p) = Hit(StatAt(p))
<1> DEFINE Matches == {q \in InMap : q = p \/ IsBelow(q, p)}
<1>1. p \in Paths /\ p # Root /\ p \in Matches
  BY PathAssumption DEF InMap
<1>2. ASSUME NEW q \in Matches
      PROVE  MapOrder[p] <= MapOrder[q]
  <2>1. q \in Paths /\ MapOrder[p] \in Nat /\ MapOrder[q] \in Nat
    BY <1>1, PathAssumption DEF InMap
  <2>2. CASE IsBelow(q, p)
    <3>1. p \in Seq(STRING) /\ q \in Seq(STRING) /\ Len(p) # 0
      BY <1>1, <2>1, PathAssumption, EmptySeq DEF Root
    <3>2. Len(p) \in 1 .. Len(q) - 1 /\ SubSeq(q, 1, Len(p)) = p
      BY <2>2, <3>1, SMTT(40) DEF IsBelow
    <3>3. PICK k \in 1 .. Len(q) - 1 : SubSeq(q, 1, k) = p
      BY <3>2
    <3>4. MapOrder[SubSeq(q, 1, k)] < MapOrder[q]
      BY <2>1, PathAssumption
    <3>5. MapOrder[p] < MapOrder[q]
      BY <3>3, <3>4
    <3> QED BY <2>1, <3>5
  <2> QED BY <2>1, <2>2
<1>3. IsFirst(p, Matches)
  BY <1>1, <1>2 DEF IsFirst
<1> QED BY <1>1, <1>3 DEF FindPath, Hit

\* A path without a rule is found when it is on the way to one.
LEMMA FoundWay ==
  ASSUME Config, NEW p \in Paths, p \notin InMap, NEW q \in InMap, IsBelow(q, p)
  PROVE  FindPath(p) = Hit(MountStat)
BY PathAssumption DEF FindPath, IsFirst, Hit

LEMMA FoundNot ==
  ASSUME NEW p \in Paths, ~Config \/ (p \notin InMap /\ \A q \in InMap : ~IsBelow(q, p))
  PROVE  ~FindPath(p).found
BY PathAssumption DEF FindPath, NotFound

-----------------------------------------------------------------------------
(* The steps of the workers.                                               *)

\* A worker goes to another step and leaves everything else as it is.
LEMMA GotoKeeps ==
  ASSUME InfoInv, NEW w \in Workers, pc[w] # "idle", pc[w] # "plugin",
         NEW step \in {"parent", "set", "walk", "create", "handle"}, Goto(w, step),
         UNCHANGED <<mapVars, confVars, prule_lockval, fi, handles, past>>,
         step = "handle" => call[w].op = "open",
         step = "create" => call[w].op \in Creating,
         fi[w] # NoId => step = "parent",
         Config /\ call[w].op = "open" =>
           \/ step = "handle" /\ call[w].path \in InMap
           \/ step = "parent" /\ fi[w] # NoId,
         Config /\ call[w].op = "create" /\ step \in {"parent", "create"} =>
           fi[w] = NoId /\ call[w].path \notin InMap
  PROVE  CallInv' /\ Apart' /\ LockInv' /\ MapInv' /\ HandleInv'
<1> USE DEF InfoInv
<1>1. call' = call /\ pc'[w] = step /\ \A v \in Workers \ {w} : pc'[v] = pc[v]
  BY GotoType
<1>2. CallInv'
  BY <1>1 DEF CallInv, CallOK, Busy
<1>3. Apart'
  BY <1>1 DEF Apart, Busy
<1>4. LockInv'
  BY DEF LockInv, confVars
<1>5. MapInv'
  BY SameRulesUnchanged, MapKept DEF past
<1>6. HandleInv'
  BY <1>1 DEF HandleInv, confVars, mapVars, InMap
<1> QED BY <1>2, <1>3, <1>4, <1>5, <1>6

\* The lock when a worker answers.
LockAfter(w) ==
  \/ prule_lockval' = prule_lockval
  \/ prule_lockval = Free /\ prule_lockval' = w
  \/ pc[w] = "plugin" /\ prule_lockval' = Free

\* The handles that are new are right.
NewHandles ==
  /\ handles \subseteq handles'
  /\ Config => \A h \in handles' \ handles : h.id # NoId /\ RuleMap[h.path] = h.id

\* The same for a worker that answers, but for what is at the addresses.
LEMMA AnswerLeaves ==
  ASSUME InfoInv, NEW w \in Workers, pc[w] # "idle", Answer(w),
         fi'[w] = NoId, \A v \in Workers \ {w} : fi'[v] = fi[v],
         UNCHANGED <<made, RuleMap>>, UNCHANGED confVars,
         LockAfter(w), NewHandles
  PROVE  /\ CallInv' /\ Apart' /\ LockInv' /\ HandleInv'
         /\ prule_lockval' = Cleaner <=> prule_lockval = Cleaner
<1> USE DEF InfoInv
<1>1. /\ pc'[w] = "idle" /\ call'[w] = NoRequest
      /\ \A v \in Workers \ {w} : pc'[v] = pc[v] /\ call'[v] = call[v]
  BY AnswerType
<1>2. \A v \in Workers \ {w} : pc[v] = "plugin" => prule_lockval' = v
  BY WorkerAssumption DEF CallInv, CallOK, LockAfter, Free
<1>3. CallInv'
  BY <1>1, <1>2 DEF CallInv, CallOK, Busy, NewHandles
<1>4. Apart'
  BY <1>1 DEF Apart, Busy
<1>5. prule_lockval' = Cleaner <=> prule_lockval = Cleaner
  BY WorkerAssumption DEF CallInv, CallOK, Free, Cleaner, LockAfter
<1>6. LockInv'
  BY <1>5 DEF LockInv, confVars
<1>7. HandleInv'
  BY <1>1, NoRequestType DEF HandleInv, confVars, InMap, NewHandles
<1> QED BY <1>3, <1>4, <1>5, <1>6, <1>7

LEMMA AnswerKeeps ==
  ASSUME InfoInv, NEW w \in Workers, pc[w] # "idle", Answer(w),
         fi'[w] = NoId, \A v \in Workers \ {w} : fi'[v] = fi[v],
         SameRules, UNCHANGED confVars,
         LockAfter(w), NewHandles
  PROVE  CallInv' /\ Apart' /\ LockInv' /\ MapInv' /\ HandleInv'
<1>1. UNCHANGED <<made, RuleMap>>
  BY DEF SameRules
<1>2. /\ CallInv' /\ Apart' /\ LockInv' /\ HandleInv'
      /\ prule_lockval' = Cleaner <=> prule_lockval = Cleaner
  BY <1>1, AnswerLeaves
<1>3. MapInv'
  BY <1>2, MapKept DEF InfoInv
<1> QED BY <1>2, <1>3

\* Only in these steps a worker has a handle of its own.
LEMMA NoHandleYet ==
  ASSUME InfoInv, NEW w \in Workers, pc[w] \notin {"parent", "plugin"}
  PROVE  fi[w] = NoId
BY DEF InfoInv, CallInv, CallOK

\* A worker that answers without having found a handle.
LEMMA PlainAnswerKeeps ==
  ASSUME InfoInv, NEW w \in Workers, pc[w] \notin {"idle", "parent", "plugin"}, Answer(w),
         SameRules, UNCHANGED <<confVars, prule_lockval, fi, handles>>
  PROVE  CallInv' /\ Apart' /\ LockInv' /\ MapInv' /\ HandleInv'
<1>1. fi'[w] = NoId /\ \A v \in Workers \ {w} : fi'[v] = fi[v]
  BY NoHandleYet
<1>2. UNCHANGED confVars /\ prule_lockval' = prule_lockval
  OBVIOUS
<1>3. LockAfter(w) /\ NewHandles
  BY DEF LockAfter, NewHandles
<1> QED BY <1>1, <1>2, <1>3, AnswerKeeps

\* The lookups.
LEMMA LookKeeps ==
  ASSUME InfoInv, NEW w \in Workers, Look(w)
  PROVE  InfoInv'
<1>1. TypeOK'
  BY AnswerType DEF InfoInv, Look, TypeOK, mapVars, confVars, sizeVars, past
<1>2. SameRules
  BY SameRulesUnchanged DEF InfoInv, Look, past
<1> QED BY <1>1, <1>2, PlainAnswerKeeps DEF Look, InfoInv

LEMMA FindFileKeeps ==
  ASSUME InfoInv, NEW w \in Workers, FindFile(w)
  PROVE  InfoInv'
<1>1. fi[w] = NoId /\ pc[w] = "find" /\ SameRules
  BY NoHandleYet, SameRulesUnchanged DEF InfoInv, FindFile, past
<1>2. CASE Goto(w, "parent")
  <2>1. TypeOK'
    BY <1>2 DEF InfoInv, FindFile, Goto, TypeOK, mapVars, confVars, sizeVars, past
  <2> QED BY <1>1, <1>2, <2>1, GotoKeeps DEF FindFile, InfoInv
<1>3. CASE Answer(w)
  <2>1. TypeOK'
    BY <1>3, AnswerType DEF InfoInv, FindFile, TypeOK, mapVars, confVars, sizeVars, past
  <2> QED BY <1>1, <1>3, <2>1, PlainAnswerKeeps DEF FindFile, InfoInv
<1> QED BY <1>2, <1>3 DEF FindFile

LEMMA FindToOpenKeeps ==
  ASSUME InfoInv, NEW w \in Workers, FindToOpen(w)
  PROVE  InfoInv'
<1> USE DEF InfoInv
<1>1. fi[w] = NoId /\ pc[w] = "find" /\ call[w].op = "open" /\ SameRules
  BY NoHandleYet, SameRulesUnchanged DEF FindToOpen, past
<1>2. Config => call[w].path \in InMap
  BY <1>1 DEF HandleInv
<1>3. call[w].path \in Paths /\ call[w].path # Root
  BY <1>1, RequestType
<1>4. Config => FindPath(call[w].path).found
  BY <1>2, FoundRule DEF Hit
<1>5. CASE Goto(w, "parent") /\ ~Config
  <2>1. TypeOK'
    BY <1>5 DEF FindToOpen, Goto, TypeOK, mapVars, confVars, sizeVars, past
  <2> QED BY <1>1, <1>5, <2>1, GotoKeeps DEF FindToOpen
<1>6. CASE Goto(w, "handle")
  <2>1. TypeOK'
    BY <1>6 DEF FindToOpen, Goto, TypeOK, mapVars, confVars, sizeVars, past
  <2> QED BY <1>1, <1>2, <1>6, <2>1, GotoKeeps DEF FindToOpen
<1>7. CASE Answer(w)
  <2>1. TypeOK'
    BY <1>7, AnswerType DEF FindToOpen, TypeOK, mapVars, confVars, sizeVars, past
  <2> QED BY <1>1, <1>7, <2>1, PlainAnswerKeeps DEF FindToOpen
<1> QED BY <1>4, <1>5, <1>6, <1>7 DEF FindToOpen

LEMMA TakeHandleKeeps ==
  ASSUME InfoInv, NEW w \in Workers, TakeHandle(w)
  PROVE  InfoInv'
<1> USE DEF InfoInv
<1>1. pc[w] = "handle" /\ call[w].op = "open" /\ call[w].path \in Paths
  BY RequestType DEF TakeHandle, CallInv, CallOK
<1>2. /\ GetFileHandle(call[w].path) \in Ids \cup {NoId}
      /\ Config => GetFileHandle(call[w].path) = RuleMap[call[w].path]
      /\ Config => GetFileHandle(call[w].path) # NoId
  BY <1>1 DEF GetFileHandle, HandleInv, InMap, TypeOK
<1>3. call' = call /\ pc'[w] = "parent" /\ \A v \in Workers \ {w} : pc'[v] = pc[v]
  BY GotoType DEF TakeHandle
<1>4. fi'[w] = GetFileHandle(call[w].path) /\ \A v \in Workers \ {w} : fi'[v] = fi[v]
  BY DEF TakeHandle, TypeOK
<1>5. TypeOK'
  BY <1>2 DEF TakeHandle, Goto, TypeOK, mapVars, confVars, sizeVars, past
<1>6. CallInv'
  BY <1>1, <1>3, <1>4 DEF TakeHandle, CallInv, CallOK, Busy, Creating
<1>7. Apart'
  BY <1>3 DEF Apart, Busy
<1>8. LockInv'
  BY DEF TakeHandle, LockInv, confVars
<1>9. MapInv'
  BY SameRulesUnchanged, MapKept DEF TakeHandle, past
<1>10. HandleInv'
  BY <1>1, <1>2, <1>3, <1>4 DEF TakeHandle, HandleInv, confVars, mapVars, InMap
<1> QED BY <1>5, <1>6, <1>7, <1>8, <1>9, <1>10

LEMMA FindToCreateKeeps ==
  ASSUME InfoInv, NEW w \in Workers, FindToCreate(w)
  PROVE  InfoInv'
<1> USE DEF InfoInv
<1>1. fi[w] = NoId /\ pc[w] = "find" /\ call[w].op = "create" /\ SameRules
  BY NoHandleYet, SameRulesUnchanged DEF FindToCreate, past
<1>2. call[w].path \in Paths /\ call[w].path # Root
  BY <1>1, RequestType
<1>3. CASE Goto(w, "parent") /\ ~FindPath(call[w].path).found
  <2>1. TypeOK'
    BY <1>3 DEF FindToCreate, Goto, TypeOK, mapVars, confVars, sizeVars, past
  <2>2. Config => call[w].path \notin InMap
    BY <1>3, FoundRule DEF Hit
  <2> QED BY <1>1, <1>3, <2>1, <2>2, GotoKeeps DEF FindToCreate
<1>4. CASE Answer(w)
  <2>1. TypeOK'
    BY <1>4, AnswerType DEF FindToCreate, TypeOK, mapVars, confVars, sizeVars, past
  <2> QED BY <1>1, <1>4, <2>1, PlainAnswerKeeps DEF FindToCreate
<1> QED BY <1>3, <1>4 DEF FindToCreate

LEMMA RefuseKeeps ==
  ASSUME InfoInv, NEW w \in Workers, pc[w] # "idle", Refuse(w), SameRules, UNCHANGED confVars,
         LockAfter(w)
  PROVE  CallInv' /\ Apart' /\ LockInv' /\ MapInv' /\ HandleInv'
<1>1. fi'[w] = NoId /\ \A v \in Workers \ {w} : fi'[v] = fi[v]
  BY DEF Refuse, InfoInv, TypeOK
<1>2. NewHandles
  BY DEF Refuse, NewHandles
<1> QED BY <1>1, <1>2, AnswerKeeps DEF Refuse

LEMMA GiveHandleKeeps ==
  ASSUME InfoInv, NEW w \in Workers, pc[w] # "idle", NEW id \in Ids, GiveHandle(w, id),
         Config => RuleMap[call[w].path] = id,
         SameRules, UNCHANGED confVars, LockAfter(w)
  PROVE  CallInv' /\ Apart' /\ LockInv' /\ MapInv' /\ HandleInv'
<1>1. fi'[w] = NoId /\ \A v \in Workers \ {w} : fi'[v] = fi[v]
  BY DEF GiveHandle, InfoInv, TypeOK
<1>2. id # NoId
  BY DEF Ids, NoId
<1>3. NewHandles
  BY <1>2 DEF GiveHandle, NewHandles
<1> QED BY <1>1, <1>3, AnswerKeeps DEF GiveHandle

LEMMA FindParentKeeps ==
  ASSUME InfoInv, NEW w \in Workers, FindParent(w)
  PROVE  InfoInv'
<1> USE DEF InfoInv
<1>1. pc[w] = "parent" /\ call[w] \in Requests /\ call[w].path \in Paths /\ SameRules
  BY RequestType, SameRulesUnchanged DEF FindParent, past
<1>2. UNCHANGED confVars /\ LockAfter(w)
  BY DEF FindParent, LockAfter
<1>3. CASE Refuse(w)
  <2>1. TypeOK'
    BY <1>3, AnswerType DEF FindParent, Refuse, TypeOK, mapVars, confVars, sizeVars, past
  <2> QED BY <1>1, <1>2, <1>3, <2>1, RefuseKeeps
<1>4. CASE fi[w] # NoId /\ GiveHandle(w, fi[w])
  <2>1. fi[w] \in Ids /\ (Config => RuleMap[call[w].path] = fi[w])
    BY <1>4 DEF TypeOK, HandleInv
  <2>2. TypeOK'
    BY <1>1, <1>4, <2>1, AnswerType DEF FindParent, GiveHandle, TypeOK, mapVars, confVars, sizeVars, past
  <2> QED BY <1>1, <1>2, <1>4, <2>1, <2>2, GiveHandleKeeps
<1>5. ASSUME NEW step \in {"create", "set"}, fi[w] = NoId, Goto(w, step), UNCHANGED <<fi, handles>>,
             step = "create" => call[w].op \in Creating
      PROVE  InfoInv'
  <2>1. TypeOK'
    BY <1>5 DEF FindParent, Goto, TypeOK, mapVars, confVars, sizeVars, past
  <2>2. Config => call[w].op # "open"
    BY <1>1, <1>5 DEF HandleInv
  <2>3. Config /\ call[w].op = "create" => call[w].path \notin InMap
    BY <1>1 DEF HandleInv
  <2> QED BY <1>1, <1>5, <2>1, <2>2, <2>3, GotoKeeps DEF FindParent
<1>6. \E passes : IF passes THEN ParentPasses(w) ELSE Refuse(w)
  BY DEF FindParent
<1> QED BY <1>3, <1>4, <1>5, <1>6 DEF ParentPasses, Creating

\* The changes.
LEMMA SetAttributeKeeps ==
  ASSUME InfoInv, NEW w \in Workers, SetAttribute(w)
  PROVE  InfoInv' /\ SameRules
<1> USE DEF InfoInv
<1>1. /\ pc[w] = "set" /\ call[w] \in Requests /\ call[w].path \in Paths
      /\ call[w].op \in {"chmod", "chown", "truncate"} /\ Answer(w)
      /\ prule_lockval = Free
  BY RequestType DEF SetAttribute, Unlocked
<1>2. CASE UNCHANGED <<rules, put, overlapped, raced>>
  <2>1. SameRules
    BY <1>2, SameRulesUnchanged DEF SetAttribute, mapVars, past
  <2>2. TypeOK'
    BY <1>1, <1>2, AnswerType DEF SetAttribute, TypeOK, confVars, past
  <2> QED BY <1>1, <2>1, <2>2, PlainAnswerKeeps DEF SetAttribute
<1>3. CASE ~(UNCHANGED <<rules, put, overlapped, raced>>)
  <2> DEFINE i == RuleMap[call[w].path]
  <2>1. i \in Ids /\ rules[i] # Freed /\ rules[i] \in Rule
    BY <1>1, <1>3 DEF SetAttribute, Dead, InMap, RuleAt, TypeOK
  <2>2. Changed(rules[i], call[w]) \in Rule
    BY <1>1, <2>1, ChangedType
  <2>3. rules' = [rules EXCEPT ![i] = Changed(rules[i], call[w])]
    BY <1>3 DEF SetAttribute
  <2>4. SameRules
    BY <2>1, <2>2, <2>3, SameRulesUpdate DEF SetAttribute, past
  <2>5. put' \in [Ids -> Nat] /\ overlapped' \in [Ids -> Nat] /\ raced' \subseteq Ids
    BY <2>1, <1>3 DEF SetAttribute, TypeOK
  <2>6. TypeOK'
    BY <1>1, <2>4, <2>5, AnswerType DEF SetAttribute, TypeOK, confVars, past, SameRules
  <2> QED BY <1>1, <2>4, <2>6, PlainAnswerKeeps DEF SetAttribute
<1> QED BY <1>2, <1>3 DEF SetAttribute

LEMMA BeginWalkKeeps ==
  ASSUME InfoInv, NEW w \in Workers, BeginWalk(w)
  PROVE  InfoInv'
<1>1. fi[w] = NoId /\ pc[w] = "set" /\ call[w].op = "utimens" /\ SameRules
  BY NoHandleYet, SameRulesUnchanged DEF InfoInv, BeginWalk, past
<1>2. CASE Goto(w, "walk")
  <2>1. TypeOK'
    BY <1>2 DEF InfoInv, BeginWalk, Goto, TypeOK, mapVars, confVars, sizeVars, past
  <2> QED BY <1>1, <1>2, <2>1, GotoKeeps DEF BeginWalk, InfoInv
<1>3. CASE Answer(w)
  <2>1. TypeOK'
    BY <1>3, AnswerType DEF InfoInv, BeginWalk, TypeOK, mapVars, confVars, sizeVars, past
  <2> QED BY <1>1, <1>3, <2>1, PlainAnswerKeeps DEF BeginWalk, InfoInv
<1> QED BY <1>2, <1>3 DEF BeginWalk

LEMMA SetTimespecKeeps ==
  ASSUME InfoInv, NEW w \in Workers, SetTimespec(w)
  PROVE  InfoInv' /\ SameRules
<1> USE DEF InfoInv
<1>1. pc[w] = "walk" /\ Answer(w) /\ call[w].path \in Paths
  BY RequestType DEF SetTimespec
<1>2. SameRules
  <2>1. CASE rules' = rules
    BY <2>1, SameRulesUnchanged DEF SetTimespec, mapVars, past
  <2>2. CASE rules' # rules
    <3> DEFINE i == RuleMap[call[w].path]
    <3>1. i \in Ids /\ rules[i] # Freed /\ rules' = [rules EXCEPT ![i].LastTime = "given"]
      BY <1>1, <2>2 DEF SetTimespec, InMap, RuleAt, TypeOK
    <3>2. rules[i] \in Rule
      BY <3>1 DEF TypeOK
    <3>3. [rules[i] EXCEPT !.LastTime = "given"] \in Rule
      BY <3>2 DEF Rule
    <3> QED BY <3>1, <3>3, SameRulesUpdate DEF SetTimespec, past
  <2> QED BY <2>1, <2>2
<1>3. TypeOK'
  BY <1>1, <1>2, AnswerType DEF SetTimespec, TypeOK, confVars, sizeVars, past, SameRules
<1> QED BY <1>1, <1>2, <1>3, PlainAnswerKeeps DEF SetTimespec

LEMMA NothingCreatedKeeps ==
  ASSUME InfoInv, NEW w \in Workers, CreateNothing(w)
  PROVE  InfoInv'
<1> USE DEF InfoInv
<1>1. pc[w] = "create" /\ fi[w] = NoId /\ prule_lockval = Free /\ SameRules
  BY NoHandleYet, SameRulesUnchanged DEF CreateNothing, Unlocked, past
<1>2. call[w].op \in Creating /\ (Config => call[w].path \notin InMap)
  BY <1>1 DEF CallInv, CallOK, HandleInv, Creating
<1>3. Refuse(w)
  BY <1>2 DEF CreateNothing
<1>4. UNCHANGED confVars /\ LockAfter(w)
  BY <1>1 DEF CreateNothing, LockAfter
<1>5. TypeOK'
  BY <1>3, <1>4, AnswerType DEF CreateNothing, Refuse, LockAfter, TypeOK, mapVars, confVars, sizeVars, past
<1>6. CallInv' /\ Apart' /\ LockInv' /\ MapInv' /\ HandleInv'
  BY <1>1, <1>3, <1>4, RefuseKeeps
<1> QED BY <1>5, <1>6

LEMMA NewRuleType ==
  ASSUME InfoInv, NEW w \in Workers, pc[w] = "create", NEW plugin \in BOOLEAN
  PROVE  NewRule(w, plugin) \in Rule
<1>1. call[w] \in Requests /\ call[w].op \in Creating
  BY RequestType DEF InfoInv, CallInv, CallOK
<1>2. call[w].mode \subseteq Bits /\ call[w].uid \in Users /\ GroupOf[call[w].uid] \in Groups
  BY <1>1, RequestAssumption, UserAssumption DEF Creating
<1> QED BY <1>2 DEF NewRule, Rule, Stat

\* What is inserted, whatever is read at the address of the directory.
LEMMA InsertType ==
  ASSUME InfoInv, NEW w \in Workers, CreateInsert(w)
  PROVE  \E plugin \in BOOLEAN :
           /\ rules' = [rules EXCEPT ![made'] = NewRule(w, plugin)]
           /\ IF plugin
                THEN /\ Goto(w, "plugin")
                     /\ fi' = [fi EXCEPT ![w] = made']
                     /\ prule_lockval' = w
                     /\ UNCHANGED handles
                ELSE GiveHandle(w, made') /\ UNCHANGED prule_lockval
<1> DEFINE d == Parent(call[w].path)
<1>1. PICK plugin \in Shown(d, RuleAt(d).plugin) :
        /\ rules' = [rules EXCEPT ![made'] = NewRule(w, plugin)]
        /\ IF plugin
             THEN /\ Goto(w, "plugin")
                  /\ fi' = [fi EXCEPT ![w] = made']
                  /\ prule_lockval' = w
                  /\ UNCHANGED handles
             ELSE GiveHandle(w, made') /\ UNCHANGED prule_lockval
  BY DEF CreateInsert
<1>2. plugin \in BOOLEAN
  <2>1. CASE Dead(d)
    BY <1>1, <2>1 DEF Shown
  <2>2. CASE ~Dead(d)
    <3>1. plugin = RuleAt(d).plugin /\ TRUE \in HasParentRule(call[w].path)
      BY <1>1, <2>2 DEF Shown, CreateInsert
    <3>2. d \in InMap
      BY <2>2, <3>1 DEF HasParentRule, Shown
    <3>3. RuleAt(d) \in Rule
      BY <2>2, <3>2 DEF InfoInv, TypeOK, Dead, InMap, RuleAt
    <3> QED BY <3>1, <3>3 DEF Rule
  <2> QED BY <2>1, <2>2
<1> QED BY <1>1, <1>2

\* A new rule gets an address nobody has yet.
LEMMA CreateInsertKeeps ==
  ASSUME InfoInv, NEW w \in Workers, CreateInsert(w)
  PROVE  InfoInv'
<1> USE DEF InfoInv
<1> DEFINE p == call[w].path
<1>1. /\ pc[w] = "create" /\ fi[w] = NoId /\ prule_lockval = Free
      /\ Config /\ p \notin InMap
      /\ p \in Paths /\ call[w].op = "create"
  BY NoHandleYet, RequestType DEF CreateInsert, Unlocked, CallInv, CallOK, HandleInv, Creating
<1>2. made' \in Ids /\ made' = made + 1 /\ made' # NoId
  BY WorkerAssumption DEF CreateInsert, TypeOK, Ids, NoId
<1>0. PICK plugin \in BOOLEAN :
        /\ rules' = [rules EXCEPT ![made'] = NewRule(w, plugin)]
        /\ IF plugin
             THEN /\ Goto(w, "plugin")
                  /\ fi' = [fi EXCEPT ![w] = made']
                  /\ prule_lockval' = w
                  /\ UNCHANGED handles
             ELSE GiveHandle(w, made') /\ UNCHANGED prule_lockval
  BY InsertType
<1>3. NewRule(w, plugin) \in Rule /\ NewRule(w, plugin) # Freed
  BY <1>1, NewRuleType, WorkerAssumption
<1>4. /\ rules' \in [Ids -> Rule \cup {Freed}]
      /\ rules'[made'] # Freed
      /\ \A i \in Ids \ {made'} : rules'[i] = rules[i]
  BY <1>0, <1>2, <1>3 DEF TypeOK
<1>5. /\ RuleMap' \in [Paths -> Ids \cup {NoId}]
      /\ RuleMap'[p] = made' /\ RuleMap[p] = NoId
      /\ \A q \in Paths \ {p} : RuleMap'[q] = RuleMap[q]
  BY <1>1, <1>2 DEF CreateInsert, TypeOK, InMap
<1>6. UNCHANGED <<Config, cleaning>>
  BY DEF CreateInsert, confVars
<1>7. /\ \A v \in Workers \ {w} : pc'[v] = pc[v] /\ call'[v] = call[v] /\ fi'[v] = fi[v]
      /\ \/ /\ pc'[w] = "plugin" /\ call'[w] = call[w] /\ fi'[w] = made'
            /\ prule_lockval' = w /\ handles' = handles
         \/ /\ pc'[w] = "idle" /\ call'[w] = NoRequest /\ fi'[w] = NoId
            /\ prule_lockval' = Free /\ handles' = handles \cup {[path |-> p, id |-> made']}
  <2>1. CASE plugin
    BY <1>0, <1>1, <1>2, <2>1, GotoType DEF TypeOK
  <2>2. CASE ~plugin
    BY <1>0, <1>1, <1>2, <2>2, AnswerType DEF GiveHandle, TypeOK
  <2> QED BY <2>1, <2>2
<1>8. /\ pc' \in [Workers -> {"idle", "find", "handle", "parent", "set", "walk", "create", "plugin", "use", "add"}]
      /\ call' \in [Workers -> Requests \cup {NoRequest}]
      /\ fi' \in [Workers -> Ids \cup {NoId}]
  <2>1. CASE plugin
    BY <1>0, <1>1, <1>2, <2>1 DEF Goto, TypeOK
  <2>2. CASE ~plugin
    BY <1>0, <1>1, <1>2, <2>2, AnswerType DEF GiveHandle, TypeOK
  <2> QED BY <2>1, <2>2
<1>9. TypeOK'
  <2>1. handles' \subseteq [path : Paths, id : Ids \cup {NoId}]
    BY <1>1, <1>2, <1>7 DEF TypeOK
  <2>2. torn' \subseteq Workers
    BY DEF CreateInsert, Tear, TypeOK
  <2> QED BY <1>2, <1>4, <1>5, <1>7, <1>8, <2>1, <2>2, SMTT(40) DEF CreateInsert, TypeOK, confVars, sizeVars, past, Ids
<1>10. CallInv'
  BY <1>1, <1>2, <1>7, NoRequestType, WorkerAssumption DEF CallInv, CallOK, Busy, Creating, Free
<1>11. Apart'
  BY <1>7 DEF Apart, Busy
<1>12. LockInv'
  BY <1>1, <1>6, <1>7, WorkerAssumption DEF LockInv, Free, Cleaner
<1>13. MapInv'
  <2>1. \A q \in Paths : RuleMap[q] <= made /\ RuleMap[q] # made'
    BY <1>2 DEF MapInv, TypeOK, Ids, NoId
  <2>2. \A q \in InMap \ failed : RuleAt(q) # Freed
    BY <1>1, WorkerAssumption DEF MapInv, Free, Cleaner
  <2>3. \A q \in Paths : RuleMap'[q] <= made'
    BY <1>2, <1>5, <2>1 DEF TypeOK, Ids, NoId
  <2>4. \A q \in InMap' \ failed' : RuleAt(q)' # Freed
    <3>1. failed' = failed
      BY DEF CreateInsert, past
    <3> QED BY <1>4, <1>5, <2>1, <2>2, <3>1 DEF InMap, RuleAt, TypeOK
  <2>5. \A q, r \in InMap' : RuleMap'[q] = RuleMap'[r] => q = r
    BY <1>5, <2>1 DEF InMap, MapInv
  <2>6. \A i \in Ids : rules'[i] # Freed => \E q \in Paths : RuleMap'[q] = i
    <3>1. ASSUME NEW i \in Ids, rules'[i] # Freed, i # made'
          PROVE  \E q \in Paths : RuleMap'[q] = i
      <4>1. PICK q \in Paths : RuleMap[q] = i
        BY <1>4, <3>1 DEF MapInv
      <4>2. q # p
        BY <1>5, <4>1 DEF Ids, NoId
      <4> QED BY <1>5, <4>1, <4>2
    <3> QED BY <1>1, <1>5, <3>1
  <2>7. prule_lockval' # Cleaner
    BY <1>7, WorkerAssumption DEF Free, Cleaner
  <2> QED BY <2>3, <2>4, <2>5, <2>6, <2>7 DEF MapInv
<1>14. HandleInv'
  <2>1. \A h \in handles' : h.id # NoId /\ RuleMap'[h.path] = h.id
    <3>1. \A h \in handles : h.id # NoId /\ h.path \in Paths /\ h.path # p
      BY <1>1, <1>5 DEF HandleInv, TypeOK
    <3> QED BY <1>1, <1>2, <1>5, <1>7, <3>1 DEF HandleInv
  <2>2. \A v \in Workers \ {w} : Busy(v) /\ call[v].op = "create" => call[v].path # p
    BY <1>1 DEF Apart, CallInv, CallOK
  <2>3. \A v \in Workers \ {w} : Busy(v) => call[v].path \in Paths
    BY RequestType DEF CallInv, CallOK
  <2>4. \A v \in Workers \ {w} : ~Busy(v) => fi[v] = NoId /\ call[v].op = "none"
    BY NoRequestType DEF CallInv, CallOK, Busy
  <2>5. \A v \in Workers \ {w} : fi[v] # NoId => call[v].path # p
    BY <1>1, <1>5 DEF HandleInv
  <2>6. ASSUME NEW v \in Workers \ {w}
        PROVE  /\ fi'[v] # NoId => RuleMap'[call'[v].path] = fi'[v]
               /\ call'[v].op = "open" =>
                    \/ pc'[v] \in {"find", "handle"} /\ call'[v].path \in InMap'
                    \/ pc'[v] = "parent" /\ fi'[v] # NoId
               /\ call'[v].op = "create" /\ pc'[v] \in {"find", "parent", "create"} =>
                    fi'[v] = NoId /\ (pc'[v] # "find" => call'[v].path \notin InMap')
    BY <1>1, <1>2, <1>5, <1>7, <2>2, <2>3, <2>4, <2>5, <2>6 DEF HandleInv, InMap
  <2>7. /\ fi'[w] # NoId => RuleMap'[call'[w].path] = fi'[w]
        /\ call'[w].op # "open"
        /\ pc'[w] \in {"plugin", "idle"}
    BY <1>1, <1>5, <1>7, NoRequestType
  <2> QED BY <2>1, <2>6, <2>7 DEF HandleInv
<1> QED BY <1>9, <1>10, <1>11, <1>12, <1>13, <1>14

LEMMA StartPluginKeeps ==
  ASSUME InfoInv, PlugInv, NEW w \in Workers, StartPlugin(w)
  PROVE  InfoInv'
<1> USE DEF InfoInv
<1>1. /\ pc[w] = "plugin" /\ fi[w] \in Ids /\ call[w].path \in Paths
      /\ RuleMap[call[w].path] = fi[w]
  BY RequestType DEF StartPlugin, CallInv, CallOK, PlugInv, PlugOK, TypeOK
<1>2. prule_lockval' = Free /\ UNCHANGED confVars /\ LockAfter(w)
  BY <1>1 DEF StartPlugin, LockAfter
<1>3. CASE GiveHandle(w, fi[w]) /\ UNCHANGED <<rules, failed>>
  <2>1. SameRules
    BY <1>3, SameRulesUnchanged DEF StartPlugin, mapVars
  <2>2. TypeOK'
    BY <1>1, <1>2, <1>3, AnswerType DEF StartPlugin, GiveHandle, TypeOK, confVars, sizeVars
  <2>3. CallInv' /\ Apart' /\ LockInv' /\ MapInv' /\ HandleInv'
    BY <1>1, <1>2, <1>3, <2>1, GiveHandleKeeps
  <2> QED BY <2>2, <2>3
<1>4. CASE /\ rules' = [rules EXCEPT ![fi[w]] = Freed]
           /\ failed' = failed \cup {call[w].path}
           /\ Refuse(w)
  <2>1. TypeOK'
    BY <1>1, <1>2, <1>4, AnswerType DEF StartPlugin, Refuse, TypeOK, confVars, sizeVars
  <2>2. fi'[w] = NoId /\ (\A v \in Workers \ {w} : fi'[v] = fi[v]) /\ NewHandles /\ Answer(w)
    BY <1>4 DEF Refuse, NewHandles, TypeOK
  <2>3. CallInv' /\ Apart' /\ LockInv' /\ HandleInv'
    BY <1>1, <1>2, <2>2, AnswerLeaves DEF StartPlugin
  <2>4. MapInv'
    <3>1. /\ \A i \in Ids \ {fi[w]} : rules'[i] = rules[i]
          /\ rules'[fi[w]] = Freed
      BY <1>1, <1>4 DEF TypeOK
    <3>2. prule_lockval = w /\ prule_lockval # Cleaner /\ prule_lockval' # Cleaner
      BY <1>1, <1>2, WorkerAssumption DEF CallInv, CallOK, Free, Cleaner
    <3>3. InMap' = InMap /\ UNCHANGED <<made, RuleMap>>
      BY DEF StartPlugin, InMap
    <3>4. \A p \in InMap' \ failed' : RuleAt(p)' # Freed
      <4>1. ASSUME NEW p \in InMap, p \notin failed, p # call[w].path
            PROVE  RuleAt(p)' # Freed
        <5>1. RuleMap[p] \in Ids /\ p \in Paths /\ call[w].path \in InMap
          BY <1>1 DEF InMap, TypeOK, Ids, NoId
        <5>2. RuleMap[p] # fi[w]
          BY <1>1, <4>1, <5>1 DEF MapInv
        <5>3. RuleAt(p) # Freed
          BY <3>2, <4>1 DEF MapInv
        <5> QED BY <3>1, <3>3, <5>1, <5>2, <5>3 DEF RuleAt
      <4> QED BY <1>4, <3>3, <4>1
    <3>5. \A i \in Ids : rules'[i] # Freed => \E p \in Paths : RuleMap'[p] = i
      BY <3>1, <3>3 DEF MapInv
    <3> QED BY <3>2, <3>3, <3>4, <3>5 DEF MapInv
  <2> QED BY <2>1, <2>3, <2>4
<1> QED BY <1>3, <1>4 DEF StartPlugin

\* What is done through a handle.
LEMMA IdOfType ==
  ASSUME InfoInv, NEW w \in Workers, pc[w] = "use"
  PROVE  IdOf(w) \in Ids
<1>1. \E h \in handles : h.path = call[w].path /\ h.id # NoId
  BY DEF InfoInv, CallInv, CallOK
<1> QED BY <1>1 DEF IdOf, InfoInv, TypeOK

LEMMA BeginAddType ==
  ASSUME TypeOK, NEW a \in Adders, NEW i \in Ids, BeginAdd(a, i)
  PROVE  /\ adding' \in [Adders -> {NoAdd} \cup [id : Ids, old : Nat]]
         /\ put' \in [Ids -> Nat] /\ overlapped' \in [Ids -> Nat] /\ raced' \subseteq Ids
<1>1. rules[i] \in Rule
  BY DEF TypeOK, BeginAdd
<1>2. rules[i].AccumSize \in Nat
  BY <1>1 DEF Rule
<1> QED BY <1>2 DEF TypeOK, BeginAdd

LEMMA EndAddType ==
  ASSUME TypeOK, NEW a \in Adders, EndAdd(a), failed' = failed
  PROVE  /\ SameRules
         /\ adding' \in [Adders -> {NoAdd} \cup [id : Ids, old : Nat]]
         /\ put' \in [Ids -> Nat] /\ overlapped' \in [Ids -> Nat] /\ raced' \subseteq Ids
<1> DEFINE i == adding[a].id
<1>1. adding[a] \in [id : Ids, old : Nat]
  BY DEF TypeOK, EndAdd
<1>2. /\ adding' \in [Adders -> {NoAdd} \cup [id : Ids, old : Nat]]
      /\ put' \in [Ids -> Nat] /\ overlapped' \in [Ids -> Nat] /\ raced' \subseteq Ids
  BY DEF TypeOK, EndAdd
<1>3. CASE rules[i] = Freed
  <2>1. UNCHANGED mapVars
    BY <1>3 DEF EndAdd, mapVars
  <2> QED BY <1>2, <2>1, SameRulesUnchanged
<1>4. CASE rules[i] # Freed /\ i \in Ids
  <2>1. rules[i] \in Rule
    BY <1>4 DEF TypeOK
  <2>2. Added(a) \in Nat
    BY <1>1 DEF Added
  <2>3. [rules[i] EXCEPT !.AccumSize = Added(a), !.LastTime = "now"] \in Rule
    BY <2>1, <2>2 DEF Rule
  <2>4. rules' = [rules EXCEPT ![i] = [rules[i] EXCEPT !.AccumSize = Added(a), !.LastTime = "now"]]
    BY <1>4, <2>1 DEF EndAdd, TypeOK, Rule
  <2>5. SameRules
    BY <1>4, <2>3, <2>4, SameRulesUpdate DEF EndAdd
  <2> QED BY <1>2, <2>5
<1> QED BY <1>1, <1>3, <1>4

\* A step that leaves the requests and the map as they are.
LEMMA AsideKeeps ==
  ASSUME InfoInv, SameRules, UNCHANGED <<confVars, prule_lockval, call, pc, fi, handles>>
  PROVE  CallInv' /\ Apart' /\ LockInv' /\ MapInv' /\ HandleInv'
<1> USE DEF InfoInv
<1>1. CallInv' /\ Apart'
  BY DEF CallInv, CallOK, Apart, Busy
<1>2. LockInv'
  BY DEF LockInv, confVars
<1>3. MapInv'
  BY MapKept
<1>4. HandleInv'
  BY DEF HandleInv, SameRules, InMap, confVars
<1> QED BY <1>1, <1>2, <1>3, <1>4

LEMMA WriteKeeps ==
  ASSUME InfoInv, NEW w \in Workers, Write(w)
  PROVE  InfoInv'
<1> USE DEF InfoInv
<1>1. pc[w] = "use" /\ call[w].op = "write" /\ fi[w] = NoId /\ BeginAdd(w, IdOf(w))
  BY NoHandleYet DEF Write
<1>2. IdOf(w) \in Ids /\ w \in Adders
  BY <1>1, IdOfType DEF Adders
<1>3. TypeOK'
  BY <1>1, <1>2, BeginAddType DEF Write, Goto, TypeOK, mapVars, confVars, past
<1>4. call' = call /\ pc'[w] = "add" /\ \A v \in Workers \ {w} : pc'[v] = pc[v]
  BY GotoType DEF Write
<1>5. CallInv'
  BY <1>1, <1>4 DEF Write, CallInv, CallOK, Busy
<1>6. Apart'
  BY <1>4 DEF Apart, Busy
<1>7. LockInv'
  BY DEF Write, LockInv, confVars
<1>8. MapInv'
  BY SameRulesUnchanged, MapKept DEF Write, past
<1>9. HandleInv'
  BY <1>1, <1>4 DEF Write, HandleInv, confVars, mapVars, InMap
<1> QED BY <1>3, <1>5, <1>6, <1>7, <1>8, <1>9

LEMMA WriteEndKeeps ==
  ASSUME InfoInv, NEW w \in Workers, WriteEnd(w)
  PROVE  InfoInv' /\ SameRules
<1> USE DEF InfoInv
<1>1. pc[w] = "add" /\ Answer(w) /\ w \in Adders /\ EndAdd(w)
  BY DEF WriteEnd, Adders
<1>2. SameRules
  BY <1>1, EndAddType DEF WriteEnd, past
<1>3. TypeOK'
  BY <1>1, EndAddType, AnswerType DEF WriteEnd, TypeOK, SameRules, confVars, past
<1> QED BY <1>1, <1>2, <1>3, PlainAnswerKeeps DEF WriteEnd

LEMMA FsyncKeeps ==
  ASSUME InfoInv, NEW w \in Workers, Fsync(w)
  PROVE  InfoInv' /\ SameRules
<1> USE DEF InfoInv
<1>1. pc[w] = "use" /\ Answer(w) /\ IdOf(w) \in Ids /\ rules[IdOf(w)] # Freed
  BY IdOfType DEF Fsync
<1>2. rules[IdOf(w)] \in Rule
  BY <1>1 DEF TypeOK
<1>3. [rules[IdOf(w)] EXCEPT !.LastTime = "now"] \in Rule
  BY <1>2 DEF Rule
<1>4. rules' = [rules EXCEPT ![IdOf(w)] = [rules[IdOf(w)] EXCEPT !.LastTime = "now"]]
  BY DEF Fsync
<1>5. SameRules
  BY <1>1, <1>3, <1>4, SameRulesUpdate DEF Fsync, past
<1>6. TypeOK'
  BY <1>1, <1>5, AnswerType DEF Fsync, TypeOK, SameRules, confVars, sizeVars, past
<1> QED BY <1>1, <1>5, <1>6, PlainAnswerKeeps DEF Fsync

LEMMA UseFreedKeeps ==
  ASSUME InfoInv, NEW w \in Workers, UseFreed(w)
  PROVE  InfoInv'
<1>1. TypeOK'
  BY AnswerType DEF InfoInv, UseFreed, TypeOK, mapVars, confVars, sizeVars, past
<1>2. SameRules
  BY SameRulesUnchanged DEF InfoInv, UseFreed, past
<1> QED BY <1>1, <1>2, PlainAnswerKeeps DEF UseFreed, InfoInv

\* A release takes the handles of its own path away only.
LEMMA ReleaseKeeps ==
  ASSUME InfoInv, NEW w \in Workers, Release(w)
  PROVE  InfoInv'
<1> USE DEF InfoInv
<1>1. pc[w] = "use" /\ call[w].op = "release" /\ fi[w] = NoId /\ Answer(w)
  BY NoHandleYet DEF Release
<1>2. TypeOK'
  BY <1>1, AnswerType DEF Release, TypeOK, mapVars, confVars, sizeVars, past
<1>3. /\ pc'[w] = "idle" /\ call'[w] = NoRequest
      /\ \A v \in Workers \ {w} : pc'[v] = pc[v] /\ call'[v] = call[v]
  BY <1>1, AnswerType
<1>4. ASSUME NEW v \in Workers \ {w}, pc[v] = "use"
      PROVE  \E h \in handles' : h.path = call[v].path /\ h.id # NoId
  <2>1. PICK h \in handles : h.path = call[v].path /\ h.id # NoId
    BY <1>4 DEF CallInv, CallOK
  <2>2. call[v].path # call[w].path
    BY <1>1, <1>4 DEF Apart, CallInv, CallOK, Changing
  <2> QED BY <2>1, <2>2 DEF Release
<1>5. CallInv'
  BY <1>1, <1>3, <1>4 DEF Release, CallInv, CallOK, Busy
<1>6. Apart'
  BY <1>3 DEF Apart, Busy
<1>7. LockInv'
  BY DEF Release, LockInv, confVars
<1>8. MapInv'
  BY SameRulesUnchanged, MapKept DEF Release, past
<1>9. HandleInv'
  BY <1>1, <1>3, NoRequestType DEF Release, HandleInv, confVars, mapVars, InMap
<1> QED BY <1>2, <1>5, <1>6, <1>7, <1>8, <1>9

LEMMA ServeKeeps ==
  ASSUME InfoInv, PlugInv, Serve
  PROVE  InfoInv'
<1>1. PICK w \in Workers : Locking(w) \/ Going(w)
  BY DEF Serve
<1>2. CASE Locking(w)
  BY <1>2, LookKeeps, FindFileKeeps, FindToOpenKeeps, TakeHandleKeeps, FindToCreateKeeps, FindParentKeeps,
     SetAttributeKeeps, NothingCreatedKeeps, CreateInsertKeeps DEF Locking
<1>3. CASE Going(w)
  BY <1>3, BeginWalkKeeps, SetTimespecKeeps, StartPluginKeeps, WriteKeeps, WriteEndKeeps, FsyncKeeps,
     UseFreedKeeps, ReleaseKeeps DEF Going
<1> QED BY <1>1, <1>2, <1>3

\* CreateInsert makes a rule, and a plugin that fails takes its own away.
LEMMA ServeRules ==
  ASSUME InfoInv, PlugInv, Serve
  PROVE  /\ \A i \in Ids : ~Config /\ rules[i] = Freed => rules'[i] = Freed
         /\ adding[Timer] # NoAdd /\ rules[adding[Timer].id] # Freed => rules'[adding[Timer].id] # Freed
         /\ UNCHANGED confVars
         /\ adding'[Timer] = adding[Timer]
         /\ \E w \in Workers : Busy(w)
<1>1. PICK w \in Workers : Locking(w) \/ Going(w)
  BY DEF Serve
<1>2. UNCHANGED confVars
  BY <1>1 DEF Locking, Going, Look, FindFile, FindToOpen, TakeHandle, FindToCreate, FindParent, SetAttribute,
     CreateNothing, CreateInsert, BeginWalk, SetTimespec, StartPlugin, Write, WriteEnd, Fsync, UseFreed, Release
<1>3. Busy(w)
  <2>1. pc[w] # "idle"
    BY <1>1 DEF Locking, Going, Look, FindFile, FindToOpen, TakeHandle, FindToCreate, FindParent, SetAttribute,
       CreateNothing, CreateInsert, BeginWalk, SetTimespec, StartPlugin, Write, WriteEnd, Fsync, UseFreed, Release
  <2> QED BY <2>1, SMTT(40) DEF InfoInv, CallInv, CallOK
<1>4. adding'[Timer] = adding[Timer]
  <2>1. w # Timer
    BY WorkerAssumption
  <2>4. Timer \in Adders /\ adding \in [Adders -> {NoAdd} \cup [id : Ids, old : Nat]]
    BY DEF InfoInv, TypeOK, Adders
  <2>2. CASE Write(w)
    BY <2>1, <2>2, <2>4 DEF Write, BeginAdd
  <2>5. CASE WriteEnd(w)
    BY <2>1, <2>5, <2>4, SMTT(40) DEF WriteEnd, EndAdd
  <2>3. CASE ~(Write(w) \/ WriteEnd(w))
    BY <1>1, <2>3 DEF Locking, Going, Look, FindFile, FindToOpen, TakeHandle, FindToCreate, FindParent, SetAttribute,
       CreateNothing, CreateInsert, BeginWalk, SetTimespec, StartPlugin, Fsync, UseFreed, Release, sizeVars
  <2> QED BY <2>2, <2>3, <2>5
<1>5. \/ \A i \in Ids : rules'[i] = Freed <=> rules[i] = Freed
      \/ Config /\ \A i \in Ids : rules[i] # Freed => rules'[i] # Freed
      \/ pc[w] = "plugin" /\ rules' = [rules EXCEPT ![fi[w]] = Freed]
  <2>1. CASE CreateInsert(w)
    <3>1. Config /\ pc[w] = "create"
      BY <2>1 DEF CreateInsert
    <3>2. PICK plugin \in BOOLEAN : rules' = [rules EXCEPT ![made'] = NewRule(w, plugin)]
      BY <2>1, InsertType
    <3>3. NewRule(w, plugin) # Freed
      BY <3>1, NewRuleType, WorkerAssumption
    <3> QED BY <3>1, <3>2, <3>3 DEF InfoInv, TypeOK
  <2>2. CASE SetAttribute(w) \/ SetTimespec(w) \/ WriteEnd(w) \/ Fsync(w)
    <3>1. SameRules
      BY <2>2, SetAttributeKeeps, SetTimespecKeeps, WriteEndKeeps, FsyncKeeps
    <3> QED BY <3>1 DEF SameRules
  <2>3. CASE StartPlugin(w)
    BY <2>3 DEF StartPlugin
  <2>4. CASE ~(CreateInsert(w) \/ StartPlugin(w) \/ SetAttribute(w) \/ SetTimespec(w) \/ WriteEnd(w) \/ Fsync(w))
    <3>1. rules' = rules
      BY <1>1, <2>4 DEF Locking, Going, Look, FindFile, FindToOpen, TakeHandle, FindToCreate, FindParent,
         CreateNothing, BeginWalk, Write, UseFreed, Release, mapVars
    <3> QED BY <3>1
  <2> QED BY <2>1, <2>2, <2>3, <2>4
<1>6. adding[Timer] # NoAdd => adding[Timer].id \in Ids
  BY DEF InfoInv, TypeOK, Adders
<1>7. pc[w] = "plugin" => adding[Timer].id # fi[w] /\ fi[w] \in Ids
  BY DEF PlugInv, PlugOK, Adders, InfoInv, CallInv, CallOK, TypeOK
<1>8. adding[Timer] # NoAdd /\ rules[adding[Timer].id] # Freed => rules'[adding[Timer].id] # Freed
  BY <1>5, <1>6, <1>7 DEF InfoInv, TypeOK
<1>9. \A i \in Ids : ~Config /\ rules[i] = Freed => rules'[i] = Freed
  BY <1>5, <1>7 DEF InfoInv, TypeOK
<1> QED BY <1>1, <1>2, <1>3, <1>4, <1>8, <1>9, SMTT(40)

-----------------------------------------------------------------------------
(* The other steps.                                                        *)

LEMMA TimerAddKeeps ==
  ASSUME InfoInv, TimerAdd
  PROVE  InfoInv'
<1> USE DEF InfoInv
<1>1. PICK h \in handles : h.id # NoId /\ BeginAdd(Timer, h.id)
  BY DEF TimerAdd
<1>2. h.id \in Ids /\ Timer \in Adders
  BY <1>1 DEF TypeOK, Adders
<1>3. TypeOK'
  BY <1>1, <1>2, BeginAddType, WorkerAssumption DEF TimerAdd, TypeOK, mapVars, confVars, callVars
<1>4. SameRules
  BY SameRulesUnchanged DEF TimerAdd, past
<1> QED BY <1>3, <1>4, AsideKeeps DEF TimerAdd, callVars

LEMMA TimerEndKeeps ==
  ASSUME InfoInv, TimerEnd
  PROVE  InfoInv'
<1> USE DEF InfoInv
<1>1. Timer \in Adders /\ EndAdd(Timer)
  BY DEF TimerEnd, Adders
<1>2. SameRules
  BY <1>1, EndAddType DEF TimerEnd, past
<1>3. TypeOK'
  BY <1>1, EndAddType DEF TimerEnd, TypeOK, SameRules, confVars, callVars, past
<1> QED BY <1>2, <1>3, AsideKeeps DEF TimerEnd, callVars

\* The kernel asks for nothing that interferes with what is under way.
LEMMA AskKeeps ==
  ASSUME InfoInv, Ask
  PROVE  InfoInv'
<1> USE DEF InfoInv
<1>1. PICK w \in Workers, r \in Requests : Arrive(w, r)
  BY DEF Ask
<1>2. r # NoRequest /\ r.op # "none" /\ r.path \in Paths
  BY NoRequestType, RequestAssumption
<1>3. pc[w] = "idle" /\ call[w] = NoRequest /\ fi[w] = NoId /\ KernelAllows(r)
  BY <1>1 DEF Arrive, CallInv, CallOK, Busy
<1>4. /\ call'[w] = r /\ pc'[w] = FirstStep(r)
      /\ \A v \in Workers \ {w} : pc'[v] = pc[v] /\ call'[v] = call[v]
      /\ call' \in [Workers -> Requests \cup {NoRequest}]
  BY <1>1 DEF Arrive, TypeOK
<1>5. /\ FirstStep(r) \in {"use", "set", "find"}
      /\ FirstStep(r) = "use" => r.op \in {"write", "fsync", "release"}
      /\ r.op \in {"open", "create"} => FirstStep(r) = "find"
  BY DEF FirstStep
<1>6. UNCHANGED <<mapVars, confVars, prule_lockval, fi, handles, torn, sizeVars, failed>>
  BY <1>1 DEF Arrive
<1>7. TypeOK'
  <2>1. pc' \in [Workers -> {"idle", "find", "handle", "parent", "set", "walk", "create", "plugin", "use", "add"}]
    BY <1>1, <1>5 DEF Arrive, TypeOK
  <2>2. asked' \in 0 .. MaxRequests /\ late' = late
    BY <1>1, WorkerAssumption DEF Arrive, TypeOK
  <2> QED BY <1>4, <1>6, <2>1, <2>2 DEF TypeOK, mapVars, confVars, sizeVars
<1>8. CallInv'
  <2>1. FirstStep(r) = "use" => r.op \in Changing /\ \E h \in handles : h.path = r.path /\ h.id # NoId
    BY <1>3, <1>5 DEF KernelAllows, Changing
  <2> QED BY <1>2, <1>3, <1>4, <1>5, <1>6, <2>1 DEF CallInv, CallOK, Busy
<1>9. Apart'
  BY <1>3, <1>4 DEF Apart, Busy, KernelAllows
<1>10. LockInv'
  BY <1>6 DEF LockInv, confVars
<1>11. MapInv'
  BY <1>6, SameRulesUnchanged, MapKept
<1>12. HandleInv'
  <2>1. Config /\ r.op = "open" => r.path \in InMap
    BY <1>3 DEF KernelAllows
  <2> QED BY <1>3, <1>4, <1>5, <1>6, <2>1 DEF HandleInv, confVars, mapVars, InMap
<1> QED BY <1>7, <1>8, <1>9, <1>10, <1>11, <1>12

LEMMA TearType == TypeOK /\ Tear => torn' \subseteq Workers
BY DEF TypeOK, Tear

\* Clean tells that nothing is loaded before it takes anything away.
LEMMA CleanKeeps ==
  ASSUME InfoInv, CleanRules
  PROVE  InfoInv'
<1> USE DEF InfoInv
<1>1. CASE CleanConfig \/ CleanMode
  <2>1. TypeOK'
    BY <1>1 DEF CleanConfig, CleanMode, TypeOK, mapVars, callVars, sizeVars, past
  <2>2. ~Config' /\ cleaning' \in {"mode", "lock"} /\ prule_lockval' # Cleaner
    BY <1>1 DEF CleanConfig, CleanMode, LockInv
  <2>3. CallInv' /\ Apart'
    BY <1>1 DEF CleanConfig, CleanMode, callVars, CallInv, CallOK, Apart, Busy
  <2>4. LockInv' /\ HandleInv'
    BY <2>2 DEF LockInv, HandleInv
  <2>5. MapInv'
    BY <1>1, SameRulesUnchanged, MapKept DEF CleanConfig, CleanMode, past
  <2> QED BY <2>1, <2>3, <2>4, <2>5
<1>2. CASE CleanFree
  <2>1. prule_lockval = Free /\ ~Config /\ prule_lockval' = Cleaner /\ ~Config' /\ cleaning' = "clear"
    BY <1>2 DEF CleanFree, Unlocked, LockInv
  <2>2. \A i \in Ids : rules'[i] = Freed
    <3>1. ASSUME NEW i \in Ids
          PROVE  rules'[i] = Freed
      <4>1. CASE \E p \in InMap : RuleMap[p] = i
        BY <1>2, <4>1 DEF CleanFree
      <4>2. CASE ~ \E p \in InMap : RuleMap[p] = i
        <5>1. rules'[i] = rules[i]
          BY <1>2, <4>2 DEF CleanFree
        <5> QED BY <4>2, <5>1 DEF MapInv, InMap, Ids, NoId
      <4> QED BY <4>1, <4>2
    <3> QED BY <3>1
  <2>3. rules' \in [Ids -> Rule \cup {Freed}]
    BY <1>2, <2>2 DEF CleanFree
  <2>4. TypeOK'
    BY <1>2, <2>3, TearType DEF CleanFree, TypeOK, sizeVars, past
  <2>5. CallInv' /\ Apart'
    BY <1>2, <2>1, WorkerAssumption DEF CleanFree, CallInv, CallOK, Apart, Busy, Free
  <2>6. LockInv' /\ HandleInv'
    BY <2>1 DEF LockInv, HandleInv
  <2>7. MapInv'
    BY <1>2, <2>1, <2>2 DEF CleanFree, MapInv, InMap
  <2> QED BY <2>4, <2>5, <2>6, <2>7
<1>3. CASE CleanClear
  <2>1. prule_lockval = Cleaner /\ ~Config /\ prule_lockval' = Free /\ ~Config' /\ cleaning' = "no"
    BY <1>3 DEF CleanClear, LockInv
  <2>2. TypeOK'
    BY <1>3, TearType, WorkerAssumption DEF CleanClear, TypeOK, sizeVars, past
  <2>3. CallInv' /\ Apart'
    BY <1>3, <2>1, WorkerAssumption DEF CleanClear, CallInv, CallOK, Apart, Busy, Cleaner
  <2>4. LockInv' /\ HandleInv'
    BY <2>1 DEF LockInv, HandleInv, Free, Cleaner
  <2>5. \A i \in Ids : rules'[i] = Freed
    BY <1>3, <2>1 DEF CleanClear, MapInv
  <2>6. \A p \in Paths : RuleMap'[p] = NoId
    BY <1>3 DEF CleanClear
  <2>7. MapInv'
    BY <1>3, <2>1, <2>2, <2>5, <2>6 DEF CleanClear, MapInv, InMap, NoId, Free, Cleaner, TypeOK
  <2> QED BY <2>2, <2>3, <2>4, <2>7
<1> QED BY <1>1, <1>2, <1>3 DEF CleanRules

\* The rules are loaded before anybody asks for anything.
LEMMA LoadKeeps ==
  ASSUME InfoInv, LoadRules, handles = {}, cleaning = "no", \A w \in Workers : ~Busy(w)
  PROVE  InfoInv'
<1> USE DEF InfoInv
<1>1. Len(Conf) \in Nat /\ Len(Conf) <= MaxRules /\ DOMAIN Conf = 1 .. Len(Conf) /\ DOMAIN Conf \subseteq Ids
  BY PathAssumption, WorkerAssumption DEF Ids
<1>2. \A i \in DOMAIN Conf : Conf[i].path \in Paths /\ Conf[i].rule \in Rule /\ Conf[i].rule # Freed
  <2>1. \A i \in DOMAIN Conf : Conf[i] \in [path : Paths, rule : Rule]
    <3>1. Conf \in Seq([path : Paths, rule : Rule])
      BY PathAssumption
    <3> QED BY <1>1, <3>1, ElementOfSeq
  <2> QED BY <2>1, WorkerAssumption
<1>3. /\ rules' \in [Ids -> Rule \cup {Freed}]
      /\ \A i \in Ids : rules'[i] # Freed <=> i \in DOMAIN Conf
  BY <1>1, <1>2 DEF LoadRules
<1>4. \A p \in Paths : RuleMap'[p] = NoId \/ (RuleMap'[p] \in DOMAIN Conf /\ Conf[RuleMap'[p]].path = p)
  BY DEF LoadRules, ConfAt
<1>5. RuleMap' \in [Paths -> Ids \cup {NoId}]
  <2>1. RuleMap' = [p \in Paths |-> RuleMap'[p]]
    BY DEF LoadRules
  <2> QED BY <1>1, <1>4, <2>1
<1>6. \A i \in DOMAIN Conf : RuleMap'[Conf[i].path] = i
  <2>1. ASSUME NEW i \in DOMAIN Conf
        PROVE  RuleMap'[Conf[i].path] = i
    <3>1. ConfAt(Conf[i].path) = {i}
      BY PathAssumption DEF ConfAt
    <3> QED BY <1>2, <3>1 DEF LoadRules
  <2> QED BY <2>1
<1>7. prule_lockval # Cleaner /\ prule_lockval' = prule_lockval /\ cleaning' = "no"
  BY DEF LockInv, LoadRules
<1>8. TypeOK'
  BY <1>1, <1>3, <1>5, <1>7, UserAssumption DEF LoadRules, TypeOK, Stat, callVars, sizeVars, past
<1>9. CallInv' /\ Apart'
  BY DEF LoadRules, callVars, CallInv, CallOK, Apart, Busy
<1>10. LockInv'
  BY <1>7 DEF LockInv
<1>11. MapInv'
  <2>1. made' = Len(Conf)
    BY DEF LoadRules
  <2>2. \A p \in Paths : RuleMap'[p] <= made'
    BY <1>1, <1>4, <2>1 DEF NoId
  <2>3. \A p \in InMap' : RuleMap'[p] \in DOMAIN Conf /\ Conf[RuleMap'[p]].path = p
    BY <1>4 DEF InMap
  <2>4. \A p \in InMap' : RuleAt(p)' # Freed
    BY <1>1, <1>3, <2>3 DEF RuleAt
  <2>5. \A i \in Ids : rules'[i] # Freed => \E p \in Paths : RuleMap'[p] = i
    BY <1>2, <1>3, <1>6
  <2> QED BY <1>7, <2>2, <2>3, <2>4, <2>5 DEF MapInv
<1>12. HandleInv'
  BY NoRequestType DEF LoadRules, callVars, HandleInv, CallInv, CallOK, Busy
<1> QED BY <1>8, <1>9, <1>10, <1>11, <1>12

LEMMA InitInfo == Init => InfoInv
<1> SUFFICES ASSUME Init PROVE InfoInv
  OBVIOUS
<1>1. TypeOK
  <2>1. /\ Config \in BOOLEAN /\ DirMode \subseteq Bits /\ cleaning \in {"no", "mode", "lock", "clear"}
        /\ prule_lockval \in Workers \cup {Free, Cleaner} /\ torn \subseteq Workers
        /\ handles \subseteq [path : Paths, id : Ids \cup {NoId}] /\ raced \subseteq Ids /\ failed \subseteq Paths
    BY DEF Init
  <2>2. /\ made \in 0 .. MaxRules /\ asked \in 0 .. MaxRequests /\ late \in 0 .. MaxValues
    BY WorkerAssumption DEF Init
  <2>3. /\ rules \in [Ids -> Rule \cup {Freed}] /\ put \in [Ids -> Nat] /\ overlapped \in [Ids -> Nat]
        /\ RuleMap \in [Paths -> Ids \cup {NoId}] /\ fi \in [Workers -> Ids \cup {NoId}]
        /\ call \in [Workers -> Requests \cup {NoRequest}]
    BY DEF Init
  <2>4. /\ pc \in [Workers -> {"idle", "find", "handle", "parent", "set", "walk", "create", "plugin", "use", "add"}]
        /\ adding \in [Adders -> {NoAdd} \cup [id : Ids, old : Nat]]
    BY DEF Init
  <2> QED BY <2>1, <2>2, <2>3, <2>4 DEF TypeOK
<1>2. CallInv /\ Apart
  BY DEF Init, CallInv, CallOK, Apart, Busy
<1>3. LockInv /\ HandleInv
  BY DEF Init, LockInv, HandleInv, Free, Cleaner
<1>4. MapInv
  BY WorkerAssumption DEF Init, MapInv, InMap, NoId, Free, Cleaner
<1> QED BY <1>1, <1>2, <1>3, <1>4 DEF InfoInv

LEMMA StutterKeeps ==
  ASSUME InfoInv, UNCHANGED ruleVars
  PROVE  InfoInv'
<1> USE DEF InfoInv
<1>1. TypeOK'
  BY DEF ruleVars, TypeOK, mapVars, confVars, callVars, sizeVars, past
<1>2. SameRules
  BY SameRulesUnchanged DEF ruleVars, past
<1> QED BY <1>1, <1>2, AsideKeeps DEF ruleVars, callVars

\* No plugin is started while somebody else has the lock.
LEMMA NobodyStarts ==
  ASSUME InfoInv, NEW w, prule_lockval = w, NEW v \in Workers, pc[v] = "plugin"
  PROVE  v = w
BY DEF InfoInv, CallInv, CallOK

\* Steps that start no plugin, open no file meanwhile, and add to the size
\* of open files only.
LEMMA PlugStill ==
  ASSUME InfoInv, PlugInv, UNCHANGED <<made, RuleMap>>,
         \A v \in Workers : pc'[v] = "plugin" =>
           pc[v] = "plugin" /\ call'[v] = call[v] /\ fi'[v] = fi[v] /\ handles' \subseteq handles,
         \A a \in Adders :
           \/ adding'[a].id \in {adding[a].id, NoId}
           \/ adding'[a].id <= made /\ \E h \in handles : h.id = adding'[a].id
  PROVE  PlugInv'
<1>1. \A v \in Workers : pc[v] = "plugin" => fi[v] # NoId
  BY DEF InfoInv, CallInv, CallOK
<1>2. NoId <= made
  BY WorkerAssumption DEF NoId, InfoInv, TypeOK
<1>3. \A a \in Adders : adding'[a].id <= made'
  BY <1>2 DEF PlugInv
<1>4. ASSUME NEW v \in Workers
      PROVE  PlugOK(v)'
  BY <1>1 DEF PlugInv, PlugOK
<1> QED BY <1>3, <1>4 DEF PlugInv

\* An addition is begun at the rule of an open file.
LEMMA BeginAddPlug ==
  ASSUME InfoInv, NEW a \in Adders, NEW h \in handles, h.id \in Ids, BeginAdd(a, h.id)
  PROVE  \A b \in Adders :
           \/ adding'[b].id \in {adding[b].id, NoId}
           \/ adding'[b].id <= made /\ \E g \in handles : g.id = adding'[b].id
<1>1. h.id <= made
  BY DEF BeginAdd, InfoInv, MapInv
<1>2. adding'[a].id = h.id /\ \A b \in Adders \ {a} : adding'[b] = adding[b]
  BY DEF BeginAdd, InfoInv, TypeOK
<1> QED BY <1>1, <1>2

LEMMA EndAddPlug ==
  ASSUME InfoInv, NEW a \in Adders, EndAdd(a)
  PROVE  \A b \in Adders : adding'[b].id \in {adding[b].id, NoId}
BY DEF EndAdd, InfoInv, TypeOK, NoAdd

LEMMA ServePlug ==
  ASSUME InfoInv, PlugInv, Serve
  PROVE  PlugInv'
<1> USE DEF InfoInv
<1>1. PICK w \in Workers : Locking(w) \/ Going(w)
  BY DEF Serve
<1>2. CASE Locking(w)
  <2>1. prule_lockval = Free
    BY <1>2 DEF Locking, Look, FindFile, FindToOpen, TakeHandle, FindToCreate, FindParent, SetAttribute,
       CreateNothing, CreateInsert, Unlocked
  <2>2. \A v \in Workers : pc[v] # "plugin"
    BY <2>1, NobodyStarts, WorkerAssumption
  <2>3. CASE CreateInsert(w)
    <3>1. PICK plugin \in BOOLEAN :
            IF plugin THEN Goto(w, "plugin") /\ fi' = [fi EXCEPT ![w] = made'] /\ UNCHANGED handles
            ELSE GiveHandle(w, made')
      BY <2>3, InsertType
    <3>2. /\ made' = made + 1 /\ made' \in Nat /\ made \in Nat /\ UNCHANGED adding /\ Config
          /\ RuleMap' = [RuleMap EXCEPT ![call[w].path] = made'] /\ pc[w] = "create"
      BY <2>3, WorkerAssumption DEF CreateInsert, TypeOK, sizeVars
    <3>3. \A v \in Workers \ {w} : pc'[v] # "plugin"
      BY <2>2, <3>1, GotoType, AnswerType DEF GiveHandle
    <3>4. adding \in [Adders -> {NoAdd} \cup [id : Ids, old : Nat]] /\ \A a \in Adders : adding[a].id \in Nat
      BY DEF TypeOK, NoAdd, NoId, Ids
    <3>5. \A a \in Adders : adding'[a].id <= made' /\ adding'[a].id # made'
      BY <3>2, <3>4 DEF PlugInv
    <3>6. PlugOK(w)'
      <4>1. CASE Goto(w, "plugin") /\ fi' = [fi EXCEPT ![w] = made'] /\ UNCHANGED handles
        <5>1. fi'[w] = made' /\ call' = call /\ call[w].path \in Paths
          BY <3>2, <4>1, GotoType, RequestType DEF TypeOK
        <5>2. RuleMap'[call[w].path] = made'
          BY <3>2, <5>1 DEF TypeOK
        <5>3. \A h \in handles : h.id # made'
          BY <3>2 DEF HandleInv, MapInv, TypeOK
        <5> QED BY <3>5, <4>1, <5>1, <5>2, <5>3 DEF PlugOK
      <4>2. CASE GiveHandle(w, made')
        BY <4>2, AnswerType DEF GiveHandle, PlugOK
      <4> QED BY <3>1, <4>1, <4>2
    <3> QED BY <3>3, <3>5, <3>6 DEF PlugInv, PlugOK
  <2>4. CASE ~CreateInsert(w)
    <3>1. UNCHANGED <<made, RuleMap, adding>>
      BY <1>2, <2>4 DEF Locking, Look, FindFile, FindToOpen, TakeHandle, FindToCreate, FindParent, SetAttribute,
         CreateNothing, mapVars, sizeVars
    <3>2. Answer(w) \/ Goto(w, "parent") \/ Goto(w, "handle") \/ Goto(w, "create") \/ Goto(w, "set")
      BY <1>2, <2>4 DEF Locking, Look, FindFile, FindToOpen, TakeHandle, FindToCreate, FindParent, ParentPasses,
         SetAttribute, CreateNothing, GiveHandle, Refuse
    <3>3. \A v \in Workers : pc'[v] # "plugin"
      BY <2>2, <3>2, GotoType, AnswerType
    <3> QED BY <3>1, <3>3, PlugStill
  <2> QED BY <2>3, <2>4, SMTT(40)
<1>3. CASE StartPlugin(w)
  <2>1. Answer(w) /\ UNCHANGED <<made, RuleMap, adding>> /\ pc[w] = "plugin"
    BY <1>3 DEF StartPlugin, GiveHandle, Refuse, sizeVars
  <2>2. \A v \in Workers : pc'[v] # "plugin"
    BY <2>1, NobodyStarts, AnswerType DEF CallInv, CallOK
  <2> QED BY <2>1, <2>2, PlugStill
<1>4. CASE Going(w) /\ ~StartPlugin(w)
  <2>1. /\ UNCHANGED <<made, RuleMap, fi>> /\ handles' \subseteq handles
        /\ Answer(w) \/ Goto(w, "walk") \/ Goto(w, "add")
    BY <1>4 DEF Going, BeginWalk, SetTimespec, Write, WriteEnd, EndAdd, Fsync, UseFreed, Release, mapVars
  <2>2. pc'[w] # "plugin" /\ \A v \in Workers \ {w} : pc'[v] = pc[v] /\ call'[v] = call[v]
    BY <2>1, GotoType, AnswerType
  <2>3. CASE Write(w)
    <3>1. w \in Adders /\ IdOf(w) \in Ids /\ pc[w] = "use"
      BY <2>3, IdOfType DEF Write, Adders
    <3>2. PICK h \in handles : h.id = IdOf(w)
      BY <3>1 DEF IdOf, CallInv, CallOK
    <3> QED BY <2>1, <2>2, <2>3, <3>1, <3>2, BeginAddPlug, PlugStill DEF Write
  <2>4. CASE WriteEnd(w)
    <3>1. w \in Adders
      BY DEF Adders
    <3> QED BY <2>1, <2>2, <2>4, <3>1, EndAddPlug, PlugStill DEF WriteEnd
  <2>5. CASE ~(Write(w) \/ WriteEnd(w))
    <3>1. UNCHANGED adding
      BY <1>4, <2>5 DEF Going, BeginWalk, SetTimespec, Fsync, UseFreed, Release, sizeVars
    <3> QED BY <2>1, <2>2, <3>1, PlugStill
  <2> QED BY <2>3, <2>4, <2>5
<1> QED BY <1>1, <1>2, <1>3, <1>4

LEMMA OthersPlug ==
  ASSUME InfoInv, PlugInv, TimerAdd \/ TimerEnd \/ Ask \/ CleanRules \/ UNCHANGED ruleVars
  PROVE  PlugInv'
<1> USE DEF InfoInv
<1>1. CASE TimerAdd \/ TimerEnd \/ UNCHANGED ruleVars
  <2>1. UNCHANGED <<made, RuleMap, pc, call, fi, handles>>
    BY <1>1 DEF TimerAdd, TimerEnd, EndAdd, ruleVars, mapVars, callVars
  <2>2. CASE TimerAdd
    <3>1. PICK h \in handles : h.id # NoId /\ BeginAdd(Timer, h.id)
      BY <2>2 DEF TimerAdd
    <3>2. h.id \in Ids /\ Timer \in Adders
      BY <3>1 DEF TypeOK, Adders
    <3> QED BY <2>1, <3>1, <3>2, BeginAddPlug, PlugStill
  <2>3. CASE TimerEnd
    <3>1. Timer \in Adders /\ EndAdd(Timer)
      BY <2>3 DEF TimerEnd, Adders
    <3> QED BY <2>1, <3>1, EndAddPlug, PlugStill
  <2>4. CASE UNCHANGED ruleVars
    BY <2>1, <2>4, PlugStill DEF ruleVars, sizeVars
  <2> QED BY <1>1, <2>2, <2>3, <2>4
<1>2. CASE Ask
  <2>1. PICK w \in Workers, r \in Requests : Arrive(w, r)
    BY <1>2 DEF Ask
  <2>2. /\ UNCHANGED <<made, RuleMap, fi, handles, adding>> /\ pc'[w] = FirstStep(r)
        /\ \A v \in Workers \ {w} : pc'[v] = pc[v] /\ call'[v] = call[v]
    BY <2>1 DEF Arrive, TypeOK, mapVars, sizeVars
  <2>3. FirstStep(r) # "plugin"
    BY DEF FirstStep
  <2> QED BY <2>2, <2>3, PlugStill
<1>3. CASE CleanConfig \/ CleanMode \/ CleanFree
  <2>1. UNCHANGED <<made, RuleMap, pc, call, fi, handles, adding>>
    BY <1>3 DEF CleanConfig, CleanMode, CleanFree, mapVars, callVars, sizeVars
  <2> QED BY <2>1, PlugStill
<1>4. CASE CleanClear
  <2>1. UNCHANGED <<made, pc, adding>> /\ prule_lockval = Cleaner
    BY <1>4 DEF CleanClear, sizeVars, LockInv
  <2>2. \A v \in Workers : pc'[v] # "plugin"
    BY <2>1, NobodyStarts, WorkerAssumption
  <2> QED BY <2>1, <2>2 DEF PlugInv, PlugOK
<1> QED BY <1>1, <1>2, <1>3, <1>4 DEF CleanRules

LEMMA LoadPlug ==
  ASSUME InfoInv, PlugInv, LoadRules, \A w \in Workers : ~Busy(w)
  PROVE  PlugInv'
<1>1. \A w \in Workers : pc'[w] = "idle"
  BY DEF LoadRules, callVars, InfoInv, CallInv, CallOK
<1>2. made = 0 /\ made' \in Nat /\ UNCHANGED adding
  BY PathAssumption DEF LoadRules, sizeVars
<1>3. \A a \in Adders : adding[a].id \in Nat
  BY DEF InfoInv, TypeOK, NoAdd, NoId, Ids
<1> QED BY <1>1, <1>2, <1>3 DEF PlugInv, PlugOK

LEMMA InitPlug == Init => PlugInv
BY DEF Init, PlugInv, PlugOK, NoAdd, NoId

\* While the rules are there, the handles of open files are the addresses of
\* the rules of their paths; and nobody who takes the lock meets a freed rule.
LEMMA InfoMeans == InfoInv => HandleStays /\ MapIsLive
BY WorkerAssumption DEF InfoInv, TypeOK, HandleInv, MapInv, LockInv, InMap, RuleAt, HandleStays, MapIsLive,
   Unlocked, Free, Cleaner
-----------------------------------------------------------------------------
(* What a directory lists, and what can be found.                          *)

\* The first k names of a path are a path, with its parent and its last name.
LEMMA PrefixType ==
  ASSUME NEW q \in Paths, NEW k \in 1 .. Len(q)
  PROVE  /\ SubSeq(q, 1, k) \in Paths /\ SubSeq(q, 1, k) # Root
         /\ Len(SubSeq(q, 1, k)) = k /\ SubSeq(q, 1, k)[k] = q[k]
         /\ Parent(SubSeq(q, 1, k)) = SubSeq(q, 1, k - 1)
         /\ Append(SubSeq(q, 1, k - 1), q[k]) = SubSeq(q, 1, k)
<1>1. q \in Seq(STRING) /\ Len(q) \in Nat
  BY PathAssumption
<1>2. /\ SubSeq(q, 1, k) \in Seq(STRING) /\ Len(SubSeq(q, 1, k)) = k
      /\ \A i \in 1 .. k : SubSeq(q, 1, k)[i] = q[i]
  BY <1>1, SubSeqProperties, ElementOfSeq
<1>3. SubSeq(q, 1, k) \in Paths
  BY PathAssumption
<1>4. /\ SubSeq(q, 1, k - 1) \in Seq(STRING) /\ Len(SubSeq(q, 1, k - 1)) = k - 1
      /\ \A i \in 1 .. k - 1 : SubSeq(q, 1, k - 1)[i] = q[i]
  BY <1>1, SubSeqProperties, ElementOfSeq
<1>5. Parent(SubSeq(q, 1, k)) = SubSeq(q, 1, k - 1)
  <2>1. /\ SubSeq(SubSeq(q, 1, k), 1, k - 1) \in Seq(STRING) /\ Len(SubSeq(SubSeq(q, 1, k), 1, k - 1)) = k - 1
        /\ \A i \in 1 .. k - 1 : SubSeq(SubSeq(q, 1, k), 1, k - 1)[i] = SubSeq(q, 1, k)[i]
    BY <1>2, SubSeqProperties, ElementOfSeq
  <2>2. SubSeq(SubSeq(q, 1, k), 1, k - 1) = SubSeq(q, 1, k - 1)
    BY <1>2, <1>4, <2>1, SeqEqual
  <2> QED BY <1>2, <2>2 DEF Parent
<1>6. Append(SubSeq(q, 1, k - 1), q[k]) = SubSeq(q, 1, k)
  <2>1. q[k] \in STRING
    BY <1>1, ElementOfSeq
  <2>2. /\ Append(SubSeq(q, 1, k - 1), q[k]) \in Seq(STRING)
        /\ Len(Append(SubSeq(q, 1, k - 1), q[k])) = k
        /\ \A i \in 1 .. k - 1 : Append(SubSeq(q, 1, k - 1), q[k])[i] = q[i]
        /\ Append(SubSeq(q, 1, k - 1), q[k])[k] = q[k]
    BY <1>4, <2>1, AppendProperties
  <2>3. PICK x, y : x = Append(SubSeq(q, 1, k - 1), q[k]) /\ y = SubSeq(q, 1, k)
    OBVIOUS
  <2>4. \A i \in 1 .. k : x[i] = y[i]
    <3> SUFFICES ASSUME NEW i \in 1 .. k PROVE x[i] = y[i]
      OBVIOUS
    <3>1. i \in 1 .. k - 1 \/ i = k
      OBVIOUS
    <3> QED BY <1>2, <2>2, <2>3, <3>1
  <2>5. x \in Seq(STRING) /\ y \in Seq(STRING) /\ Len(x) = k /\ Len(y) = k
    BY <1>2, <2>2, <2>3
  <2>6. x = y
    BY ONLY <2>4, <2>5, SeqEqual
  <2> QED BY <2>3, <2>6
<1>7. SubSeq(q, 1, k) # Root
  BY <1>2, EmptySeq DEF Root
<1> QED BY <1>2, <1>3, <1>5, <1>6, <1>7

\* What is below a directory, and the entry that leads to it.
LEMMA EntryType ==
  ASSUME NEW p, p = Root \/ p \in Paths, NEW q \in Paths, IsBelow(q, p)
  PROVE  /\ Len(p) \in Nat /\ Len(p) + 1 \in 1 .. Len(q)
         /\ SubSeq(q, 1, Len(p) + 1) \in Paths /\ SubSeq(q, 1, Len(p) + 1) # Root
         /\ Len(SubSeq(q, 1, Len(p) + 1)) = Len(p) + 1
         /\ SubSeq(q, 1, Len(p) + 1)[Len(p) + 1] = q[Len(p) + 1]
         /\ Parent(SubSeq(q, 1, Len(p) + 1)) = p
         /\ Append(p, q[Len(p) + 1]) = SubSeq(q, 1, Len(p) + 1)
<1>1. Len(p) \in Nat /\ Len(q) \in Nat
  BY PathAssumption, EmptySeq DEF Root
<1>2. PICK k \in 1 .. Len(q) : k = Len(p) + 1 /\ k - 1 = Len(p)
  BY <1>1 DEF IsBelow
<1>3. SubSeq(q, 1, k - 1) = p
  BY <1>2 DEF IsBelow
<1>4. /\ SubSeq(q, 1, k) \in Paths /\ SubSeq(q, 1, k) # Root
      /\ Len(SubSeq(q, 1, k)) = k /\ SubSeq(q, 1, k)[k] = q[k]
      /\ Parent(SubSeq(q, 1, k)) = p /\ Append(p, q[k]) = SubSeq(q, 1, k)
  BY <1>3, PrefixType
<1> QED BY <1>1, <1>2, <1>4

\* One of the keys comes first.
LEMMA HasFirst ==
  ASSUME NEW S, S \subseteq Paths, NEW x \in S
  PROVE  \E q \in S : IsFirst(q, S)
<1> DEFINE Numbers == {MapOrder[q] : q \in S}
           Less    == {ss \in Nat \X Nat : ss[1] < ss[2]}
<1>1. \A q \in S : MapOrder[q] \in Nat
  BY PathAssumption
<1>2. Numbers \subseteq Nat /\ Numbers # {}
  BY <1>1
<1>3. IsWellFoundedOn(Less, Nat)
  BY NatLessThanWellFounded DEF OpToRel
<1>4. \E m \in Numbers : \A n \in Numbers : ~(<<n, m>> \in Less)
  <2> HIDE DEF Numbers, Less
  <2> QED BY <1>2, <1>3, WFMin
<1>5. PICK m \in Numbers : \A n \in Numbers : ~(<<n, m>> \in Less)
  BY <1>4
<1>6. PICK q \in S : MapOrder[q] = m
  OBVIOUS
<1>7. ASSUME NEW r \in S PROVE MapOrder[q] <= MapOrder[r]
  <2>1. MapOrder[r] \in Numbers /\ MapOrder[r] \in Nat /\ m \in Nat
    BY <1>1, <1>6
  <2>2. ~(MapOrder[r] < m)
    BY <1>5, <2>1
  <2> QED BY <1>6, <2>1, <2>2
<1> QED BY <1>6, <1>7 DEF IsFirst

\* ReadDir lists a name once, from the first key that has it: the entry
\* itself when it has a rule, because no key below it comes before it.
LEMMA FirstOfName ==
  ASSUME NEW p, p = Root \/ p \in Paths, NEW q \in InMap, IsBelow(q, p), IsFirst(q, Named(q[Len(p) + 1], p)),
         SubSeq(q, 1, Len(p) + 1) \in InMap
  PROVE  Len(q) = Len(p) + 1
<1> DEFINE e == SubSeq(q, 1, Len(p) + 1)
<1>1. q \in Paths /\ q \in Seq(STRING)
  BY PathAssumption DEF InMap
<1>2. PICK k \in 1 .. Len(q) : k = Len(p) + 1 /\ k \in Nat /\ Len(p) \in Nat
  BY <1>1, EntryType
<1>3. e \in Paths /\ Len(e) = Len(p) + 1 /\ Parent(e) = p /\ e[Len(p) + 1] = q[Len(p) + 1]
  BY <1>1, EntryType
<1>4. IsBelow(e, p)
  <2>1. SubSeq(e, 1, Len(e) - 1) = p /\ Len(e) - 1 = Len(p)
    BY <1>2, <1>3 DEF Parent
  <2> QED BY <1>2, <1>3, <2>1 DEF IsBelow
<1>5. MapOrder[q] <= MapOrder[e]
  BY <1>3, <1>4 DEF IsFirst, Named
<1>6. CASE k \in 1 .. Len(q) - 1
  <2>1. MapOrder[SubSeq(q, 1, k)] < MapOrder[q]
    BY <1>1, <1>6, PathAssumption
  <2>2. MapOrder[q] \in Nat /\ MapOrder[e] \in Nat
    BY <1>1, <1>3, PathAssumption
  <2> QED BY <1>2, <1>5, <2>1, <2>2
<1>7. CASE k \notin 1 .. Len(q) - 1
  BY <1>1, <1>2, <1>7
<1> QED BY <1>6, <1>7

\* What FindPath finds at an entry, when the rules are loaded.
LEMMA EntryFound ==
  ASSUME Config, NEW p, p = Root \/ p \in Paths, NEW q \in InMap, IsBelow(q, p)
  PROVE  /\ FindPath(SubSeq(q, 1, Len(p) + 1)).found
         /\ IsFirst(q, Named(q[Len(p) + 1], p)) => FindPath(SubSeq(q, 1, Len(p) + 1)) = Hit(EntryOf(q, p).st)
<1> DEFINE e == SubSeq(q, 1, Len(p) + 1)
<1>1. q \in Paths /\ q \in Seq(STRING)
  BY PathAssumption DEF InMap
<1>2. e \in Paths /\ Len(e) = Len(p) + 1 /\ Len(p) + 1 \in 1 .. Len(q)
  BY <1>1, EntryType
<1>3. Len(q) = Len(p) + 1 => e = q
  BY <1>1, SubSeqFull
<1>4. CASE e \in InMap
  <2>1. FindPath(e) = Hit(StatAt(e))
    BY <1>4, FoundRule
  <2>2. IsFirst(q, Named(q[Len(p) + 1], p)) => EntryOf(q, p).st = StatAt(e)
    BY <1>3, <1>4, FirstOfName DEF EntryOf
  <2>3. FindPath(e).found
    BY <2>1, HitFound
  <2> QED BY <2>1, <2>2, <2>3
<1>5. CASE e \notin InMap
  <2>1. Len(q) # Len(p) + 1
    BY <1>3, <1>5
  <2>2. IsBelow(q, e)
    BY <1>2, <2>1 DEF IsBelow
  <2>3. FindPath(e) = Hit(MountStat)
    BY <1>2, <1>5, <2>2, FoundWay
  <2>4. FindPath(e).found
    BY <2>3, HitFound
  <2>5. EntryOf(q, p).st = MountStat
    BY <2>1 DEF EntryOf
  <2> QED BY <2>3, <2>4, <2>5
<1> QED BY <1>4, <1>5

\* ReadDir and FindPath, two loops over one map, agree in every state.
LEMMA ListingMeans == ListingAgrees
<1> SUFFICES ASSUME Config, NEW p \in {Root} \cup {Parent(q) : q \in InMap}
             PROVE  /\ {e.name : e \in ReadDir(p)} =
                         {q[Len(q)] : q \in {r \in Paths : Parent(r) = p /\ FindPath(r).found}}
                    /\ \A e \in ReadDir(p) : FindPath(Append(p, e.name)) = [found |-> TRUE, st |-> e.st]
  BY DEF ListingAgrees
<1> DEFINE Entry(q) == SubSeq(q, 1, Len(p) + 1)
           Below    == {q \in InMap : IsBelow(q, p)}
           First    == {q \in Below : IsFirst(q, Named(q[Len(p) + 1], p))}
           Found    == {r \in Paths : Parent(r) = p /\ FindPath(r).found}
<1>1. p = Root \/ p \in Paths
  <2>1. ASSUME NEW q \in InMap, p = Parent(q) PROVE p = Root \/ p \in Paths
    <3>1. q \in Paths /\ Len(q) \in Nat
      BY PathAssumption DEF InMap
    <3>2. CASE Len(q) - 1 \in 1 .. Len(q)
      BY <2>1, <3>1, <3>2, PrefixType DEF Parent
    <3>3. CASE Len(q) - 1 < 1
      BY <2>1, <3>1, <3>3, SubSeqEmpty DEF Parent, Root
    <3> QED BY <3>1, <3>2, <3>3
  <2> QED BY <2>1
<1>2. \A q \in Below : q \in InMap /\ q \in Paths
  BY DEF InMap
<1>3. ReadDir(p) = {EntryOf(q, p) : q \in First}
  BY DEF ReadDir
<1>4. {e.name : e \in ReadDir(p)} = {q[Len(p) + 1] : q \in Below}
  <2>1. \A q : EntryOf(q, p).name = q[Len(p) + 1]
    BY DEF EntryOf
  <2>2. ASSUME NEW q \in Below PROVE \E r \in First : r[Len(p) + 1] = q[Len(p) + 1]
    <3>1. q \in Named(q[Len(p) + 1], p) /\ Named(q[Len(p) + 1], p) \subseteq Paths
      BY DEF Named, InMap
    <3>2. PICK r \in Named(q[Len(p) + 1], p) : IsFirst(r, Named(q[Len(p) + 1], p))
      BY <3>1, HasFirst
    <3>3. r \in Below /\ r[Len(p) + 1] = q[Len(p) + 1]
      BY <3>2 DEF Named
    <3> QED BY <3>2, <3>3
  <2> QED BY <1>3, <2>1, <2>2
<1>5. ASSUME NEW q \in Below
      PROVE  \E r \in Found : r[Len(r)] = q[Len(p) + 1]
  <2>1. q \in InMap /\ q \in Paths /\ IsBelow(q, p)
    BY <1>2
  <2>2. /\ Entry(q) \in Paths /\ Parent(Entry(q)) = p /\ Len(Entry(q)) = Len(p) + 1
        /\ Entry(q)[Len(p) + 1] = q[Len(p) + 1]
    BY <1>1, <2>1, EntryType
  <2>3. FindPath(Entry(q)).found
    BY <1>1, <2>1, EntryFound
  <2>4. Entry(q) \in Found /\ Entry(q)[Len(Entry(q))] = q[Len(p) + 1]
    BY <2>2, <2>3
  <2> QED BY <2>4
<1>6. ASSUME NEW r \in Found
      PROVE  \E q \in Below : q[Len(p) + 1] = r[Len(r)]
  <2>1. r \in Seq(STRING) /\ r # Root /\ Len(r) \in Nat /\ Len(r) > 0
    BY PathAssumption, EmptySeq DEF Root
  <2>2. Len(p) = Len(r) - 1 /\ SubSeq(r, 1, Len(p)) = p
    <3>1. Len(SubSeq(r, 1, Len(r) - 1)) = Len(r) - 1
      <4>1. \A i \in 1 .. Len(r) - 1 : r[i] \in STRING
        BY <2>1, ElementOfSeq
      <4>2. PICK n \in Nat : n = Len(r) - 1
        BY <2>1
      <4>3. Len(SubSeq(r, 1, n)) = IF 1 <= n THEN n - 1 + 1 ELSE 0
        BY <4>1, <4>2, SubSeqProperties
      <4>4. Len(SubSeq(r, 1, n)) = n
        BY <4>3
      <4> QED BY <4>2, <4>4
    <3> QED BY <3>1 DEF Parent
  <2>3. CASE r \in InMap
    <3>1. IsBelow(r, p)
      BY <2>1, <2>2 DEF IsBelow
    <3> QED BY <2>1, <2>2, <2>3, <3>1
  <2>4. CASE r \notin InMap
    <3>1. PICK q \in InMap : IsBelow(q, r)
      BY <2>4, FoundNot
    <3>2. q \in Paths /\ Len(r) \in 1 .. Len(q) /\ SubSeq(q, 1, Len(r)) = r
      BY <2>1, <3>1, PathAssumption DEF InMap, IsBelow
    <3>3. r[Len(r)] = q[Len(r)] /\ Parent(r) = SubSeq(q, 1, Len(r) - 1)
      BY <3>2, PrefixType
    <3>4. IsBelow(q, p)
      BY <2>1, <2>2, <3>2, <3>3 DEF IsBelow
    <3> QED BY <2>1, <2>2, <3>1, <3>3, <3>4
  <2> QED BY <2>3, <2>4
<1>7. {e.name : e \in ReadDir(p)} = {q[Len(q)] : q \in Found}
  BY <1>4, <1>5, <1>6, ZenonT(40)
<1>8. ASSUME NEW e \in ReadDir(p)
      PROVE  FindPath(Append(p, e.name)) = [found |-> TRUE, st |-> e.st]
  <2>1. PICK q \in First : e = EntryOf(q, p)
    BY <1>3
  <2>2. q \in InMap /\ q \in Paths /\ IsBelow(q, p)
    BY <1>2
  <2>3. Append(p, e.name) = Entry(q)
    BY <1>1, <2>1, <2>2, EntryType DEF EntryOf
  <2>4. FindPath(Entry(q)) = Hit(EntryOf(q, p).st)
    BY <1>1, <2>1, <2>2, EntryFound
  <2> QED BY <2>1, <2>3, <2>4 DEF Hit
<1> QED BY <1>7, <1>8

-----------------------------------------------------------------------------
(* Sizes.                                                                  *)

FileAt(i) == rules[i] # Freed /\ ~rules[i].stat.dir
AddsTo(a, i) == adding[a] # NoAdd /\ adding[a].id = i

\* What an addition has read, and what is in the file meanwhile: below what
\* went through Processing, and short of it by no more than those that met
\* another one, and the addition itself.
SizeInv ==
  /\ SizeBounded
  /\ \A i \in Ids : \A a \in Adders :
       AddsTo(a, i) =>
         /\ i <= made
         /\ FileAt(i) =>
              /\ i \notin raced => adding[a].old < put[i]
              /\ put[i] - overlapped[i] - 1 <= adding[a].old
              /\ put[i] - overlapped[i] - 1 <= rules[i].AccumSize
  /\ \A i \in Ids : i > made => put[i] = 0 /\ overlapped[i] = 0

\* No rule is added, and no size changed.
SizeStill ==
  /\ UNCHANGED <<sizeVars, made>>
  /\ \A i \in Ids : rules'[i] # Freed =>
       /\ rules[i] # Freed
       /\ rules'[i].AccumSize = rules[i].AccumSize /\ rules'[i].stat.dir = rules[i].stat.dir

LEMMA SizeStillKeeps ==
  ASSUME SizeInv, SizeStill
  PROVE  SizeInv'
<1>1. \A i \in Ids : FileAt(i)' => FileAt(i) /\ rules'[i].AccumSize = rules[i].AccumSize
  BY DEF SizeStill, FileAt
<1>2. \A a \in Adders, i \in Ids : AddsTo(a, i)' <=> AddsTo(a, i)
  BY DEF SizeStill, AddsTo, sizeVars
<1>3. SizeBounded'
  BY <1>1 DEF SizeStill, SizeInv, SizeBounded, FileAt, Adding, sizeVars
<1> QED BY <1>1, <1>2, <1>3 DEF SizeStill, SizeInv, sizeVars

\* A rule is changed, but for its size and its kind.
LEMMA OneRuleStill ==
  ASSUME TypeOK, NEW i \in Ids, rules[i] # Freed, NEW r, r.AccumSize = rules[i].AccumSize,
         r.stat.dir = rules[i].stat.dir, rules' = [rules EXCEPT ![i] = r], UNCHANGED <<sizeVars, made>>
  PROVE  SizeStill
BY DEF TypeOK, SizeStill

\* chmod, chown and truncate.
LEMMA SetAttributeSize ==
  ASSUME InfoInv, SizeInv, NEW w \in Workers, SetAttribute(w)
  PROVE  SizeInv'
<1> USE DEF InfoInv
<1> DEFINE i == RuleMap[call[w].path]
           r == rules[i]
<1>1. CASE UNCHANGED <<rules, put, overlapped, raced>>
  BY <1>1, SizeStillKeeps DEF SetAttribute, SizeStill, sizeVars
<1>2. CASE ~ UNCHANGED <<rules, put, overlapped, raced>>
  <2>1. /\ call[w].path \in InMap /\ r # Freed /\ rules' = [rules EXCEPT ![i] = Changed(r, call[w])]
        /\ call[w].op \in {"chmod", "chown", "truncate"}
        /\ call[w].op # "truncate" => UNCHANGED <<put, overlapped, raced>>
        /\ call[w].op = "truncate" =>
             /\ put' = [put EXCEPT ![i] = 0]
             /\ overlapped' = [overlapped EXCEPT ![i] = 0]
             /\ raced' = IF Adding(i) THEN raced \cup {i} ELSE raced \ {i}
        /\ UNCHANGED <<adding, made>>
    BY <1>2 DEF SetAttribute, Dead, RuleAt
  <2>2. i \in Ids /\ r \in Rule /\ r # Freed /\ r.stat \in Stat
    BY <2>1 DEF InMap, TypeOK, Rule
  <2>3. CASE call[w].op # "truncate"
    <3>1. Changed(r, call[w]).AccumSize = r.AccumSize /\ Changed(r, call[w]).stat.dir = r.stat.dir
      BY <2>1, <2>2, <2>3, SMTT(40) DEF Changed, ChangeOwner, Rule, Stat
    <3>2. SizeStill
      BY <2>1, <2>2, <2>3, <3>1, OneRuleStill DEF sizeVars
    <3> QED BY <3>2, SizeStillKeeps, ZenonT(40)
  <2>4. CASE call[w].op = "truncate"
    <3>1. Changed(r, call[w]).AccumSize = 0 /\ Changed(r, call[w]).stat = r.stat
      BY <2>2, <2>4 DEF Changed, Rule
    <3>2. /\ put'[i] = 0 /\ overlapped'[i] = 0 /\ rules'[i] = Changed(r, call[w])
          /\ \A j \in Ids \ {i} : put'[j] = put[j] /\ overlapped'[j] = overlapped[j] /\ rules'[j] = rules[j]
      BY <2>1, <2>2, <2>4 DEF TypeOK
    <3>3. \A j \in Ids \ {i} : j \in raced' <=> j \in raced
      BY <2>1, <2>4
    <3>4. \A a \in Adders, j \in Ids : AddsTo(a, j)' <=> AddsTo(a, j)
      BY <2>1 DEF AddsTo
    <3>5. \A a \in Adders : AddsTo(a, i) => i \in raced' /\ adding[a].old \in Nat /\ i <= made
      BY <2>1, <2>4 DEF AddsTo, Adding, TypeOK, SizeInv
    <3>6. SizeBounded'
      BY <2>1, <3>1, <3>2, <3>3 DEF SizeInv, SizeBounded, Adding
    <3>7. \A j \in Ids \ {i} : FileAt(j)' <=> FileAt(j)
      BY <3>2 DEF FileAt
    <3>8. ASSUME NEW j \in Ids, NEW a \in Adders, AddsTo(a, j)'
          PROVE  /\ j <= made'
                 /\ FileAt(j)' =>
                      /\ j \notin raced' => adding'[a].old < put'[j]
                      /\ put'[j] - overlapped'[j] - 1 <= adding'[a].old
                      /\ put'[j] - overlapped'[j] - 1 <= rules'[j].AccumSize
      <4>1. CASE j = i
        BY <2>1, <3>1, <3>2, <3>4, <3>5, <3>8, <4>1
      <4>2. CASE j # i
        BY <2>1, <3>2, <3>3, <3>4, <3>7, <3>8, <4>2 DEF SizeInv
      <4> QED BY <4>1, <4>2
    <3>9. \A j \in Ids : j > made' => put'[j] = 0 /\ overlapped'[j] = 0
      BY <2>1, <3>2 DEF SizeInv
    <3> QED BY <3>6, <3>8, <3>9 DEF SizeInv
  <2> QED BY <2>3, <2>4
<1> QED BY <1>1, <1>2

\* A new file has no size, and nobody adds to it yet.
LEMMA CreateSize ==
  ASSUME InfoInv, SizeInv, NEW w \in Workers, CreateInsert(w)
  PROVE  SizeInv'
<1> USE DEF InfoInv
<1>1. made < MaxRules /\ made' = made + 1 /\ UNCHANGED sizeVars
  BY DEF CreateInsert
<1>2. PICK plugin \in BOOLEAN : rules' = [rules EXCEPT ![made'] = NewRule(w, plugin)]
  BY InsertType
<1>3. made \in Nat /\ made' \in Ids /\ made < made'
  BY <1>1, WorkerAssumption DEF TypeOK, Ids
<1>4. rules'[made'].AccumSize = 0 /\ \A i \in Ids \ {made'} : rules'[i] = rules[i]
  BY <1>2, <1>3 DEF TypeOK, NewRule
<1>5. put[made'] = 0 /\ overlapped[made'] = 0 /\ \A a \in Adders : ~AddsTo(a, made')
  <2>1. \A i \in Ids : i \in Int
    BY DEF Ids
  <2> QED BY <1>3, <2>1 DEF SizeInv
<1>6. \A a \in Adders, i \in Ids : AddsTo(a, i)' <=> AddsTo(a, i)
  BY <1>1 DEF AddsTo, sizeVars
<1>7. SizeBounded'
  BY <1>1, <1>4, <1>5 DEF SizeInv, SizeBounded, Adding, sizeVars
<1>8. ASSUME NEW i \in Ids, NEW a \in Adders, AddsTo(a, i)'
      PROVE  /\ i <= made'
             /\ FileAt(i)' =>
                  /\ i \notin raced' => adding'[a].old < put'[i]
                  /\ put'[i] - overlapped'[i] - 1 <= adding'[a].old
                  /\ put'[i] - overlapped'[i] - 1 <= rules'[i].AccumSize
  <2>1. i # made' /\ AddsTo(a, i)
    BY <1>5, <1>6, <1>8
  <2>2. i <= made'
    BY <1>3, <2>1 DEF SizeInv, Ids
  <2>3. (FileAt(i)' <=> FileAt(i)) /\ rules'[i] = rules[i]
    BY <1>4, <2>1 DEF FileAt
  <2> QED BY <1>1, <2>1, <2>2, <2>3 DEF SizeInv, sizeVars
<1>9. \A i \in Ids : i > made' => put'[i] = 0 /\ overlapped'[i] = 0
  BY <1>1, <1>3 DEF SizeInv, Ids, sizeVars
<1> QED BY <1>7, <1>8, <1>9 DEF SizeInv

\* Whether an addition meets another one or not, it has read what may stand.
LEMMA BeginAddSize ==
  ASSUME InfoInv, SizeInv, NEW a \in Adders, NEW i \in Ids, BeginAdd(a, i), UNCHANGED mapVars
  PROVE  SizeInv'
<1> USE DEF InfoInv
<1>1. /\ adding[a] = NoAdd /\ rules[i] # Freed
      /\ adding' = [adding EXCEPT ![a] = [id |-> i, old |-> rules[i].AccumSize]]
      /\ put' = [put EXCEPT ![i] = @ + 1]
      /\ overlapped' = IF Adding(i) THEN [overlapped EXCEPT ![i] = @ + 1] ELSE overlapped
      /\ UNCHANGED <<raced, rules, made>>
  BY DEF BeginAdd, mapVars
<1>2. i <= made /\ i # NoId
  BY <1>1 DEF MapInv, TypeOK, NoId, Ids
<1>3. adding'[a] = [id |-> i, old |-> rules[i].AccumSize] /\ \A b \in Adders \ {a} : adding'[b] = adding[b]
  BY <1>1 DEF TypeOK
<1>4. /\ \A b \in Adders \ {a}, j \in Ids : AddsTo(b, j)' <=> AddsTo(b, j)
      /\ \A j \in Ids : AddsTo(a, j)' <=> j = i
  <2>1. [id |-> i, old |-> rules[i].AccumSize] # NoAdd
    BY <1>2 DEF NoAdd
  <2> QED BY <1>3, <2>1 DEF AddsTo
<1>5. /\ put'[i] = put[i] + 1 /\ \A j \in Ids \ {i} : put'[j] = put[j] /\ overlapped'[j] = overlapped[j]
      /\ put \in [Ids -> Nat] /\ overlapped \in [Ids -> Nat] /\ put' \in [Ids -> Nat] /\ overlapped' \in [Ids -> Nat]
  BY <1>1 DEF TypeOK
<1>6. \/ ~Adding(i) /\ overlapped'[i] = overlapped[i]
      \/ Adding(i) /\ overlapped'[i] = overlapped[i] + 1
  BY <1>1 DEF TypeOK
<1>7. Adding(i) => \E b \in Adders : AddsTo(b, i)
  BY <1>2 DEF Adding, AddsTo, NoAdd
<1>8. \A j \in Ids : Adding(j)' <=> Adding(j) \/ j = i
  BY <1>1, <1>2, <1>3 DEF Adding, NoAdd, NoId, Ids
<1>9. \A j \in Ids : FileAt(j) => rules[j].AccumSize \in Nat
  BY DEF FileAt, TypeOK, Rule
<1>10. FileAt(i) =>
         /\ put'[i] - overlapped'[i] - 1 <= rules[i].AccumSize
         /\ i \notin raced => rules[i].AccumSize < put'[i]
  <2>1. FileAt(i) /\ i \notin raced => rules[i].AccumSize <= put[i]
    BY DEF SizeInv, SizeBounded, FileAt
  <2>2. FileAt(i) /\ ~Adding(i) => put[i] - overlapped[i] <= rules[i].AccumSize
    BY DEF SizeInv, SizeBounded, FileAt
  <2>3. FileAt(i) /\ Adding(i) => put[i] - overlapped[i] - 1 <= rules[i].AccumSize
    BY <1>7 DEF SizeInv
  <2> QED BY <1>5, <1>6, <1>9, <2>1, <2>2, <2>3
<1>11. SizeBounded'
  <2>1. ASSUME NEW j \in Ids, FileAt(j)
        PROVE  /\ j \notin raced' => rules'[j].AccumSize <= put'[j]
               /\ ~Adding(j)' => put'[j] - overlapped'[j] <= rules'[j].AccumSize
    <3>1. CASE j = i
      BY <1>1, <1>5, <1>8, <1>9, <1>10, <2>1, <3>1
    <3>2. CASE j # i
      BY <1>1, <1>5, <1>8, <2>1, <3>2 DEF SizeInv, SizeBounded, FileAt
    <3> QED BY <3>1, <3>2
  <2> QED BY <1>1, <2>1 DEF SizeBounded, FileAt
<1>12. ASSUME NEW j \in Ids, NEW b \in Adders, AddsTo(b, j)'
       PROVE  /\ j <= made'
              /\ FileAt(j)' =>
                   /\ j \notin raced' => adding'[b].old < put'[j]
                   /\ put'[j] - overlapped'[j] - 1 <= adding'[b].old
                   /\ put'[j] - overlapped'[j] - 1 <= rules'[j].AccumSize
  <2>1. FileAt(j)' <=> FileAt(j)
    BY <1>1 DEF FileAt
  <2>2. CASE b = a
    <3>1. j = i
      BY <1>4, <1>12, <2>2
    <3> QED BY <1>1, <1>2, <1>3, <1>10, <2>1, <2>2, <3>1
  <2>3. CASE b # a
    <3>1. AddsTo(b, j)
      BY <1>4, <1>12, <2>3
    <3>2. /\ j <= made
          /\ FileAt(j) =>
               /\ j \notin raced => adding[b].old < put[j]
               /\ put[j] - overlapped[j] - 1 <= adding[b].old
               /\ put[j] - overlapped[j] - 1 <= rules[j].AccumSize
      BY <3>1 DEF SizeInv
    <3>3. adding[b].old \in Nat /\ adding'[b].old = adding[b].old
      BY <1>3, <2>3, <3>1 DEF AddsTo, TypeOK
    <3>4. CASE j = i
      <4>1. Adding(i)
        BY <3>1, <3>4 DEF AddsTo, Adding
      <4> QED BY <1>1, <1>5, <1>6, <2>1, <3>2, <3>3, <3>4, <4>1, <1>9
    <3>5. CASE j # i
      BY <1>1, <1>5, <2>1, <3>2, <3>3, <3>5
    <3> QED BY <3>4, <3>5
  <2> QED BY <2>2, <2>3
<1>13. \A j \in Ids : j > made' => put'[j] = 0 /\ overlapped'[j] = 0
  BY <1>1, <1>2, <1>5 DEF SizeInv, Ids, TypeOK
<1> QED BY <1>11, <1>12, <1>13 DEF SizeInv

\* What is written back is what was read and one more.
LEMMA EndAddSize ==
  ASSUME InfoInv, SizeInv, NEW a \in Adders, EndAdd(a)
  PROVE  SizeInv'
<1> USE DEF InfoInv
<1> DEFINE i == adding[a].id
<1>1. /\ adding[a] # NoAdd /\ adding' = [adding EXCEPT ![a] = NoAdd]
      /\ UNCHANGED <<made, RuleMap, put, overlapped, raced>>
      /\ rules[i] = Freed => UNCHANGED rules
      /\ rules[i] # Freed => rules' = [rules EXCEPT ![i].AccumSize = Added(a), ![i].LastTime = "now"]
  BY DEF EndAdd
<1>2. adding[a] \in [id : Ids, old : Nat] /\ i \in Ids /\ AddsTo(a, i)
  BY <1>1 DEF TypeOK, AddsTo
<1>3. /\ \A b \in Adders, j \in Ids : AddsTo(b, j)' => b # a /\ AddsTo(b, j)
      /\ \A b \in Adders \ {a} : adding'[b] = adding[b]
  BY <1>1 DEF AddsTo, TypeOK
<1>4. \A j \in Ids \ {i} : rules'[j] = rules[j]
  BY <1>1, <1>2 DEF TypeOK
<1>5. rules[i] # Freed => rules'[i].AccumSize = adding[a].old + 1 /\ rules'[i].stat = rules[i].stat
  <2>1. rules[i] # Freed => rules[i] \in Rule
    BY <1>2 DEF TypeOK
  <2> QED BY <1>1, <1>2, <2>1 DEF Added, TypeOK, Rule
<1>6. \A j \in Ids : FileAt(j)' => FileAt(j)
  BY <1>1, <1>4, <1>5 DEF FileAt
<1>7. FileAt(i) =>
        /\ i \notin raced => adding[a].old < put[i]
        /\ put[i] - overlapped[i] - 1 <= adding[a].old
  BY <1>2 DEF SizeInv
<1>8. put[i] \in Nat /\ overlapped[i] \in Nat /\ adding[a].old \in Nat
  BY <1>2 DEF TypeOK
<1>9. SizeBounded'
  <2>1. ASSUME NEW j \in Ids, FileAt(j)'
        PROVE  /\ j \notin raced' => rules'[j].AccumSize <= put'[j]
               /\ ~Adding(j)' => put'[j] - overlapped'[j] <= rules'[j].AccumSize
    <3>1. CASE j = i
      BY <1>1, <1>5, <1>6, <1>7, <1>8, <2>1, <3>1 DEF FileAt
    <3>2. CASE j # i
      <4>1. Adding(j) => Adding(j)'
        BY <1>3, <3>2 DEF Adding
      <4> QED BY <1>1, <1>4, <1>6, <2>1, <3>2, <4>1 DEF SizeInv, SizeBounded, FileAt
    <3> QED BY <3>1, <3>2
  <2> QED BY <2>1 DEF SizeBounded, FileAt
<1>10. ASSUME NEW j \in Ids, NEW b \in Adders, AddsTo(b, j)'
       PROVE  /\ j <= made'
              /\ FileAt(j)' =>
                   /\ j \notin raced' => adding'[b].old < put'[j]
                   /\ put'[j] - overlapped'[j] - 1 <= adding'[b].old
                   /\ put'[j] - overlapped'[j] - 1 <= rules'[j].AccumSize
  <2>1. b # a /\ AddsTo(b, j)
    BY <1>3, <1>10
  <2>2. /\ j <= made
        /\ FileAt(j) =>
             /\ j \notin raced => adding[b].old < put[j]
             /\ put[j] - overlapped[j] - 1 <= adding[b].old
             /\ put[j] - overlapped[j] - 1 <= rules[j].AccumSize
    BY <2>1 DEF SizeInv
  <2>3. CASE j = i
    BY <1>1, <1>3, <1>5, <1>6, <1>7, <1>8, <2>1, <2>2, <2>3 DEF FileAt
  <2>4. CASE j # i
    BY <1>1, <1>3, <1>4, <1>6, <2>1, <2>2, <2>4
  <2> QED BY <2>3, <2>4
<1>11. \A j \in Ids : j > made' => put'[j] = 0 /\ overlapped'[j] = 0
  BY <1>1 DEF SizeInv
<1> QED BY <1>9, <1>10, <1>11 DEF SizeInv

LEMMA ServeSize ==
  ASSUME InfoInv, SizeInv, Serve
  PROVE  SizeInv'
<1> USE DEF InfoInv
<1>1. PICK w \in Workers : Locking(w) \/ Going(w)
  BY DEF Serve
<1>2. CASE SetAttribute(w) \/ CreateInsert(w)
  BY <1>2, SetAttributeSize, CreateSize
<1>3. CASE Write(w)
  <2>1. IdOf(w) \in Ids /\ w \in Adders
    BY <1>3, IdOfType DEF Write, Adders
  <2> QED BY <1>3, <2>1, BeginAddSize DEF Write
<1>4. CASE WriteEnd(w)
  BY <1>4, EndAddSize DEF WriteEnd, Adders
<1>5. CASE Fsync(w)
  <2>1. IdOf(w) \in Ids /\ rules[IdOf(w)] # Freed
    BY <1>5, IdOfType DEF Fsync
  <2>2. rules[IdOf(w)] \in Rule
    BY <2>1 DEF TypeOK
  <2>3. rules' = [rules EXCEPT ![IdOf(w)] = [rules[IdOf(w)] EXCEPT !.LastTime = "now"]]
    BY <1>5 DEF Fsync
  <2>4. UNCHANGED <<sizeVars, made>>
    BY <1>5 DEF Fsync
  <2>5. SizeStill
    BY <2>1, <2>2, <2>3, <2>4, OneRuleStill DEF Rule
  <2> QED BY <2>5, SizeStillKeeps
<1>6. CASE SetTimespec(w)
  <2>1. UNCHANGED <<sizeVars, made>>
    BY <1>6 DEF SetTimespec
  <2>2. CASE rules' = rules
    BY <2>1, <2>2, SizeStillKeeps DEF SizeStill
  <2>3. CASE rules' # rules
    <3>1. /\ call[w].path \in InMap /\ RuleAt(call[w].path) # Freed
          /\ rules' = [rules EXCEPT ![RuleMap[call[w].path]].LastTime = "given"]
      BY <1>6, <2>3 DEF SetTimespec
    <3>2. RuleMap[call[w].path] \in Ids /\ rules[RuleMap[call[w].path]] \in Rule
      BY <3>1 DEF InMap, RuleAt, TypeOK
    <3>3. SizeStill
      BY <2>1, <3>1, <3>2, OneRuleStill DEF Rule, RuleAt
    <3> QED BY <3>3, SizeStillKeeps
  <2> QED BY <2>2, <2>3
<1>7. CASE \/ Look(w) \/ FindFile(w) \/ FindToOpen(w) \/ TakeHandle(w) \/ FindToCreate(w) \/ FindParent(w)
           \/ CreateNothing(w) \/ BeginWalk(w) \/ UseFreed(w) \/ Release(w)
  <2>1. UNCHANGED <<sizeVars, made, rules>>
    BY <1>7 DEF Look, FindFile, FindToOpen, TakeHandle, FindToCreate, FindParent, CreateNothing, BeginWalk,
       UseFreed, Release, mapVars
  <2> QED BY <2>1, SizeStillKeeps DEF SizeStill
<1>8. CASE StartPlugin(w)
  <2>1. UNCHANGED <<sizeVars, made>> /\ (rules' = rules \/ rules' = [rules EXCEPT ![fi[w]] = Freed])
    BY <1>8 DEF StartPlugin
  <2>2. \A i \in Ids : rules'[i] # Freed => rules'[i] = rules[i]
    BY <2>1 DEF TypeOK
  <2>3. SizeStill
    BY <2>1, <2>2 DEF SizeStill
  <2> QED BY <2>3, SizeStillKeeps
<1> QED BY <1>1, <1>2, <1>3, <1>4, <1>5, <1>6, <1>7, <1>8 DEF Locking, Going

LEMMA OthersSize ==
  ASSUME InfoInv, SizeInv, TimerAdd \/ TimerEnd \/ Ask \/ CleanRules \/ UNCHANGED ruleVars
  PROVE  SizeInv'
<1> USE DEF InfoInv
<1>1. CASE TimerAdd
  <2>1. PICK h \in handles : h.id # NoId /\ BeginAdd(Timer, h.id)
    BY <1>1 DEF TimerAdd
  <2>2. h.id \in Ids /\ Timer \in Adders
    BY <2>1 DEF TypeOK, Adders
  <2> QED BY <1>1, <2>1, <2>2, BeginAddSize DEF TimerAdd
<1>2. CASE TimerEnd
  BY <1>2, EndAddSize DEF TimerEnd, Adders
<1>3. CASE CleanFree
  <2>1. \A i \in Ids : rules'[i] # Freed => rules'[i] = rules[i]
    BY <1>3 DEF CleanFree
  <2>2. SizeStill
    BY <1>3, <2>1 DEF CleanFree, SizeStill
  <2> QED BY <2>2, SizeStillKeeps
<1>4. CASE Ask \/ CleanConfig \/ CleanMode \/ CleanClear \/ UNCHANGED ruleVars
  <2>1. UNCHANGED <<sizeVars, made, rules>>
    BY <1>4 DEF Ask, Arrive, CleanConfig, CleanMode, CleanClear, ruleVars, mapVars
  <2> QED BY <2>1, SizeStillKeeps DEF SizeStill
<1> QED BY <1>1, <1>2, <1>3, <1>4 DEF CleanRules

\* The files of the configuration start without a size.
LEMMA LoadSize ==
  ASSUME InfoInv, SizeInv, LoadRules
  PROVE  SizeInv'
<1> USE DEF InfoInv
<1>1. /\ made = 0 /\ made' = Len(Conf) /\ UNCHANGED sizeVars
      /\ rules' = [i \in Ids |-> IF i \in DOMAIN Conf THEN Conf[i].rule ELSE Freed]
  BY DEF LoadRules
<1>2. \A i \in Ids : i > made
  BY <1>1 DEF Ids
<1>3. \A i \in Ids : put[i] = 0 /\ overlapped[i] = 0 /\ \A a \in Adders : ~AddsTo(a, i)
  BY <1>1, <1>2 DEF SizeInv, Ids
<1>4. \A i \in Ids : put'[i] = 0 /\ overlapped'[i] = 0 /\ \A a \in Adders : ~AddsTo(a, i)'
  BY <1>1, <1>3 DEF AddsTo, sizeVars
<1>5. \A i \in Ids : rules'[i] # Freed => rules'[i].stat.dir \/ rules'[i].AccumSize = 0
  BY <1>1, PathAssumption
<1>6. SizeBounded'
  BY <1>4, <1>5 DEF SizeBounded
<1> QED BY <1>4, <1>6 DEF SizeInv

LEMMA InitSize == Init => SizeInv
<1> SUFFICES ASSUME Init PROVE SizeInv
  OBVIOUS
<1>1. \A i \in Ids : rules[i] = Freed /\ put[i] = 0 /\ overlapped[i] = 0
  BY DEF Init
<1>2. \A i \in Ids, a \in Adders : ~AddsTo(a, i)
  BY DEF Init, AddsTo
<1> QED BY <1>1, <1>2 DEF SizeInv, SizeBounded

-----------------------------------------------------------------------------
(* Permissions.                                                            *)

\* The rule of the parent directory, if there is one.
LiveDir(p) == Parent(p) \in InMap /\ RuleAt(Parent(p)) # Freed /\ RuleAt(Parent(p)).stat.dir

\* What was checked under an earlier lock is still so: the creator may write
\* and search the directory, and who changes mode or owner owns the file.
AllowOK(w) ==
  LET p == call[w].path
      u == call[w].uid
  IN  /\ pc[w] = "create" /\ LiveDir(p) =>
           Allowed("x", RuleAt(Parent(p)).stat, u) /\ Allowed("w", RuleAt(Parent(p)).stat, u)
      /\ pc[w] \in {"parent", "set"} /\ call[w].op \in {"chmod", "chown"} =>
           p \in InMap /\ (RuleAt(p) # Freed => IsOwner(RuleAt(p).stat, u))

AllowInv == Config => \A w \in Workers : AllowOK(w)

\* No directory gets a rule, and none is changed.
DirsKept ==
  \A p \in InMap' : RuleAt(p)' # Freed /\ RuleAt(p)'.stat.dir =>
    p \in InMap /\ RuleAt(p) # Freed /\ RuleAt(p)'.stat = RuleAt(p).stat

OwnerKept(p) ==
  p \in InMap =>
    /\ p \in InMap'
    /\ RuleAt(p)' # Freed => RuleAt(p) # Freed /\ RuleAt(p)'.stat.uid = RuleAt(p).stat.uid

LEMMA AllowStays ==
  ASSUME NEW v \in Workers, AllowOK(v), pc'[v] = pc[v], call'[v] = call[v], DirsKept,
         pc[v] \in {"parent", "set"} /\ call[v].op \in {"chmod", "chown"} => OwnerKept(call[v].path)
  PROVE  AllowOK(v)'
<1> DEFINE p == call[v].path
<1>1. ASSUME LiveDir(p)'
      PROVE  LiveDir(p) /\ RuleAt(Parent(p))'.stat = RuleAt(Parent(p)).stat
  <2>1. call'[v].path = p
    OBVIOUS
  <2>2. Parent(p) \in InMap' /\ RuleAt(Parent(p))' # Freed /\ RuleAt(Parent(p))'.stat.dir
    BY <1>1, <2>1 DEF LiveDir
  <2> QED BY <2>2 DEF DirsKept, LiveDir
<1>2. (pc[v] = "create" /\ LiveDir(p))' =>
         Allowed("x", RuleAt(Parent(p)).stat, call[v].uid)' /\ Allowed("w", RuleAt(Parent(p)).stat, call[v].uid)'
  BY <1>1 DEF AllowOK, Allowed
<1>3. (pc[v] \in {"parent", "set"} /\ call[v].op \in {"chmod", "chown"})' =>
         (p \in InMap /\ (RuleAt(p) # Freed => IsOwner(RuleAt(p).stat, call[v].uid)))'
  BY DEF AllowOK, OwnerKept, IsOwner
<1> QED BY <1>2, <1>3 DEF AllowOK

\* Steps that leave what stat shows of the rules as it is, but for those
\* that they free.
StatsStill ==
  /\ UNCHANGED RuleMap
  /\ \A i \in Ids : rules'[i] # Freed => rules[i] # Freed /\ rules'[i].stat = rules[i].stat

LEMMA StatsStillKept ==
  ASSUME InfoInv, StatsStill
  PROVE  DirsKept /\ \A p \in Paths : OwnerKept(p)
<1>1. \A p \in InMap : RuleMap[p] \in Ids
  BY DEF InfoInv, InMap, TypeOK
<1>2. InMap' = InMap
  BY DEF StatsStill, InMap
<1>3. \A p \in InMap : RuleAt(p)' # Freed => RuleAt(p) # Freed /\ RuleAt(p)'.stat = RuleAt(p).stat
  BY <1>1 DEF StatsStill, RuleAt
<1> QED BY <1>2, <1>3 DEF DirsKept, OwnerKept

LEMMA OneStatStill ==
  ASSUME TypeOK, NEW i \in Ids, rules[i] # Freed, NEW r, r.stat = rules[i].stat,
         rules' = [rules EXCEPT ![i] = r], UNCHANGED RuleMap
  PROVE  StatsStill
BY DEF TypeOK, StatsStill

\* A plugin that fails takes its rule away.
LEMMA StartPluginStats ==
  ASSUME TypeOK, NEW w \in Workers, StartPlugin(w)
  PROVE  StatsStill
<1>1. UNCHANGED RuleMap /\ (rules' = rules \/ rules' = [rules EXCEPT ![fi[w]] = Freed])
  BY DEF StartPlugin
<1> QED BY <1>1 DEF TypeOK, StatsStill

\* The others keep what they have found, the worker that goes has to check.
LEMMA AllowKept ==
  ASSUME InfoInv, AllowInv, Config' => Config, NEW w \in Workers, AllowOK(w)',
         \A v \in Workers \ {w} : pc'[v] = pc[v] /\ call'[v] = call[v],
         DirsKept,
         \A v \in Workers \ {w} :
           pc[v] \in {"parent", "set"} /\ call[v].op \in {"chmod", "chown"} => OwnerKept(call[v].path)
  PROVE  AllowInv'
BY AllowStays DEF AllowInv

LEMMA IdleAllowed ==
  ASSUME NEW w \in Workers, pc'[w] \notin {"create", "parent", "set"}
  PROVE  AllowOK(w)'
BY DEF AllowOK

LEMMA SetAttributeAllowed ==
  ASSUME InfoInv, AllowInv, NEW w \in Workers, SetAttribute(w)
  PROVE  AllowInv' /\ (Config => DirsKept)
<1> USE DEF InfoInv
<1>0. PICK p \in Paths : p = call[w].path
  BY RequestType DEF SetAttribute
<1> DEFINE i == RuleMap[p]
           r == rules[i]
<1>1. /\ pc'[w] = "idle"
      /\ \A v \in Workers \ {w} : pc'[v] = pc[v] /\ call'[v] = call[v]
  <2>1. Answer(w)
    BY DEF SetAttribute
  <2> QED BY <2>1, AnswerType
<1>2. AllowOK(w)' /\ Config' = Config /\ UNCHANGED RuleMap
  BY <1>1, IdleAllowed DEF SetAttribute, confVars
<1>3. CASE rules' = rules
  <2>1. StatsStill
    BY <1>2, <1>3 DEF StatsStill
  <2>2. DirsKept /\ \A q \in Paths : OwnerKept(q)
    BY <2>1, StatsStillKept
  <2>3. \A v \in Workers : pc[v] \in {"parent", "set"} => call[v].path \in Paths
    BY RequestType
  <2> QED BY <1>1, <1>2, <2>2, <2>3, AllowKept DEF AllowInv
<1>4. CASE rules' # rules
  <2>1. /\ p \in InMap /\ r # Freed /\ ~r.stat.dir /\ rules' = [rules EXCEPT ![i] = Changed(r, call[w])]
        /\ call[w].op \in {"chmod", "chown", "truncate"} /\ pc[w] = "set"
    BY <1>0, <1>4 DEF SetAttribute, Dead, RuleAt
  <2>2. i \in Ids /\ r \in Rule /\ r.stat \in Stat
    BY <2>1 DEF InMap, TypeOK, Rule
  <2>3. ~Changed(r, call[w]).stat.dir
    BY <2>1, <2>2 DEF Changed, ChangeOwner, Rule, Stat
  <2>4. /\ rules'[i] = Changed(r, call[w]) /\ InMap' = InMap
        /\ \A q \in InMap \ {p} : RuleAt(q)' = RuleAt(q)
    BY <1>2, <2>1, <2>2 DEF TypeOK, InMap, MapInv, RuleAt
  <2>5. DirsKept
    <3>1. RuleAt(p)' = Changed(r, call[w])
      BY <1>2, <2>4 DEF RuleAt
    <3> QED BY <2>3, <2>4, <3>1 DEF DirsKept
  <2>6. ASSUME NEW v \in Workers \ {w}, pc[v] \in {"parent", "set"}, call[v].op \in {"chmod", "chown"}
        PROVE  OwnerKept(call[v].path)
    <3>1. Busy(v) /\ Busy(w)
      BY <2>1, <2>6 DEF CallInv, CallOK
    <3>2. call[v].op \in Changing /\ call[w].op \in Changing
      BY <2>1, <2>6 DEF Changing
    <3>3. call[v].path # p
      BY <1>0, <3>1, <3>2 DEF Apart
    <3>4. call'[v].path = call[v].path
      BY <1>1
    <3> QED BY <2>4, <3>4, <3>3 DEF OwnerKept
  <2> QED BY <1>1, <1>2, <2>5, <2>6, AllowKept
<1> QED BY <1>3, <1>4

LEMMA CreateAllowed ==
  ASSUME InfoInv, AllowInv, NEW w \in Workers, CreateInsert(w)
  PROVE  AllowInv' /\ DirsKept
<1> USE DEF InfoInv
<1>0. PICK p \in Paths : p = call[w].path
  BY RequestType DEF CreateInsert
<1>1. /\ made < MaxRules /\ made' = made + 1
      /\ RuleMap' = [RuleMap EXCEPT ![p] = made'] /\ p \notin InMap /\ Config' = Config
      /\ pc[w] = "create"
  BY <1>0 DEF CreateInsert, confVars
<1>1a. PICK plugin \in BOOLEAN :
         /\ rules' = [rules EXCEPT ![made'] = NewRule(w, plugin)]
         /\ Goto(w, "plugin") \/ Answer(w)
  BY InsertType DEF GiveHandle
<1>2. made \in Nat /\ made' \in Ids /\ made < made'
  BY <1>1, WorkerAssumption DEF TypeOK, Ids
<1>3. /\ pc'[w] \in {"idle", "plugin"}
      /\ \A v \in Workers \ {w} : pc'[v] = pc[v] /\ call'[v] = call[v]
  <2>1. CASE Goto(w, "plugin")
    BY <2>1, GotoType
  <2>2. CASE Answer(w)
    BY <2>2, AnswerType
  <2> QED BY <1>1a, <2>1, <2>2
<1>4. rules'[made'] = NewRule(w, plugin) /\ RuleMap'[p] = made' /\ made' # NoId
  BY <1>1, <1>1a, <1>2 DEF TypeOK, Ids, NoId
<1>5. \A q \in Paths \ {p} : RuleMap'[q] = RuleMap[q]
  BY <1>1 DEF TypeOK
<1>6. \A q \in InMap : q # p /\ q \in InMap' /\ RuleMap[q] \in Ids /\ RuleMap[q] # made'
  BY <1>1, <1>2, <1>5 DEF InMap, TypeOK, MapInv
<1>7. \A q \in InMap : RuleAt(q)' = RuleAt(q)
  BY <1>1, <1>1a, <1>5, <1>6 DEF InMap, RuleAt, TypeOK
<1>8. \A q \in InMap' : q = p \/ q \in InMap
  BY <1>5 DEF InMap
<1>9. ~RuleAt(p)'.stat.dir
  BY <1>4 DEF RuleAt, NewRule
<1>10. DirsKept
  BY <1>7, <1>8, <1>9 DEF DirsKept
<1>11. \A q : OwnerKept(q)
  BY <1>6, <1>7 DEF OwnerKept
<1>12. AllowOK(w)'
  BY <1>3, IdleAllowed
<1> QED BY <1>1, <1>3, <1>10, <1>11, <1>12, AllowKept

\* A worker goes on, and nothing that stat shows is changed.
LEMMA StillAllowed ==
  ASSUME InfoInv, AllowInv, NEW w \in Workers, StatsStill, UNCHANGED confVars, Config => AllowOK(w)',
         \A v \in Workers \ {w} : pc'[v] = pc[v] /\ call'[v] = call[v]
  PROVE  AllowInv'
<1>1. Config' = Config
  BY DEF confVars
<1>2. CASE Config
  <2>1. DirsKept /\ \A p \in Paths : OwnerKept(p)
    BY StatsStillKept
  <2>2. ASSUME NEW v \in Workers \ {w}, pc[v] \in {"parent", "set"} PROVE OwnerKept(call[v].path)
    <3>1. PICK p \in Paths : p = call[v].path
      BY <2>2, RequestType DEF InfoInv
    <3>2. call'[v].path = call[v].path
      OBVIOUS
    <3> QED BY <2>1, <3>1, <3>2 DEF OwnerKept
  <2> QED BY <1>1, <1>2, <2>1, <2>2, AllowKept
<1>3. CASE ~Config
  BY <1>1, <1>3 DEF AllowInv
<1> QED BY <1>2, <1>3

\* The owner is asked where the file was found.
LEMMA FindFileAllowed ==
  ASSUME InfoInv, AllowInv, NEW w \in Workers, FindFile(w)
  PROVE  AllowInv'
<1> USE DEF InfoInv
<1>0. PICK p \in Paths : p = call[w].path /\ p # Root
  BY RequestType DEF FindFile
<1> DEFINE f == FindPath(p)
           owned == f.found /\ IsOwner(f.st, call[w].uid) /\ ~f.st.dir
<1>1. /\ pc[w] = "find" /\ UNCHANGED <<mapVars, confVars>>
      /\ \E passes \in Shown(p, owned) : IF passes THEN Goto(w, "parent") ELSE Answer(w)
  BY <1>0 DEF FindFile
<1>2. StatsStill
  BY <1>1 DEF StatsStill, mapVars
<1>3. CASE Answer(w)
  <2>1. AllowOK(w)'
    BY <1>3, AnswerType, IdleAllowed
  <2> QED BY <1>1, <1>2, <1>3, <2>1, AnswerType, StillAllowed
<1>4. CASE ~Answer(w)
  <2>1. TRUE \in Shown(p, owned) /\ Goto(w, "parent")
    BY <1>1, <1>4
  <2>1a. call' = call /\ pc'[w] = "parent" /\ \A v \in Workers \ {w} : pc'[v] = pc[v]
    BY <2>1, GotoType
  <2>2. Config => p \in InMap /\ (RuleAt(p) # Freed => IsOwner(RuleAt(p).stat, call[w].uid))
    <3>1. ASSUME Config, p \notin InMap PROVE FALSE
      <4>1. ~Dead(p)
        BY <3>1 DEF Dead
      <4>2. f.found /\ ~f.st.dir
        BY <2>1, <4>1 DEF Shown
      <4>3. PICK q \in InMap : IsBelow(q, p)
        BY <3>1, <4>2, FoundNot
      <4>4. f = Hit(MountStat)
        BY <3>1, <4>3, FoundWay
      <4>5. MountStat.dir
        BY UserAssumption DEF MountStat, Stat
      <4> QED BY <4>2, <4>4, <4>5 DEF Hit
    <3>2. ASSUME Config, p \in InMap, RuleAt(p) # Freed PROVE IsOwner(RuleAt(p).stat, call[w].uid)
      <4>1. ~Dead(p) /\ StatAt(p) = RuleAt(p).stat
        BY <3>2 DEF Dead, StatAt
      <4>2. f = Hit(StatAt(p))
        BY <3>2, FoundRule
      <4>3. f.st = RuleAt(p).stat
        BY <4>1, <4>2 DEF Hit
      <4>4. owned
        BY <2>1, <4>1, Zenon DEF Shown
      <4> QED BY <4>3, <4>4
    <3> QED BY <3>1, <3>2
  <2>3. InMap' = InMap /\ RuleAt(p)' = RuleAt(p)
    BY <1>1 DEF mapVars, InMap, RuleAt
  <2>4. Config => (p \in InMap)' /\ (RuleAt(p)' # Freed => IsOwner(RuleAt(p).stat, call[w].uid)')
    BY <2>1a, <2>2, <2>3 DEF IsOwner
  <2>5. Config => AllowOK(w)'
    BY <1>0, <2>1a, <2>4 DEF AllowOK
  <2> QED BY <1>1, <1>2, <2>1a, <2>5, StillAllowed
<1> QED BY <1>3, <1>4

\* The directory is asked where it was found.
LEMMA FindParentAllowed ==
  ASSUME InfoInv, AllowInv, NEW w \in Workers, FindParent(w)
  PROVE  AllowInv'
<1> USE DEF InfoInv
<1>0. PICK p \in Paths : p = call[w].path
  BY RequestType DEF FindParent
<1> DEFINE d == Parent(p)
           f == FindPath(d)
           checked == f.found /\ ParentCheck(w, f.st)
<1>1. /\ pc[w] = "parent" /\ UNCHANGED <<mapVars, confVars>>
      /\ \/ Refuse(w)
         \/ fi[w] # NoId /\ GiveHandle(w, fi[w])
         \/ /\ TRUE \in Shown(d, checked) /\ fi[w] = NoId
            /\ Goto(w, IF call[w].op \in {"open", "create"} THEN "create" ELSE "set")
  <2>1. PICK passes \in Shown(d, checked) : IF passes THEN ParentPasses(w) ELSE Refuse(w)
    BY <1>0 DEF FindParent
  <2> QED BY <1>0, <2>1 DEF FindParent, ParentPasses
<1>2. StatsStill
  BY <1>1 DEF StatsStill, mapVars
<1>3. CASE Refuse(w) \/ GiveHandle(w, fi[w])
  <2>1. Answer(w)
    BY <1>3 DEF Refuse, GiveHandle
  <2>2. AllowOK(w)'
    BY <2>1, AnswerType, IdleAllowed
  <2> QED BY <1>1, <1>2, <2>1, <2>2, AnswerType, StillAllowed
<1>4. CASE call[w].op \in {"open", "create"} /\ TRUE \in Shown(d, checked) /\ fi[w] = NoId /\ Goto(w, "create")
  <2>1. call' = call /\ pc'[w] = "create" /\ \A v \in Workers \ {w} : pc'[v] = pc[v]
    BY <1>4, GotoType
  <2>2. ASSUME Config, LiveDir(p)
        PROVE  Allowed("x", RuleAt(d).stat, call[w].uid) /\ Allowed("w", RuleAt(d).stat, call[w].uid)
    <3>1. d \in InMap /\ ~Dead(d) /\ StatAt(d) = RuleAt(d).stat
      BY <2>2 DEF LiveDir, Dead, StatAt
    <3>2. f = Hit(RuleAt(d).stat)
      BY <2>2, <3>1, FoundRule
    <3>3. f.st = RuleAt(d).stat
      BY <3>2 DEF Hit
    <3>3a. ParentCheck(w, f.st)
      BY <1>4, <3>1, Zenon DEF Shown
    <3>4. Creates(w)
      BY <1>4 DEF Creates
    <3> QED BY <3>3, <3>3a, <3>4 DEF ParentCheck
  <2>3. (LiveDir(p)' <=> LiveDir(p)) /\ RuleAt(d)' = RuleAt(d)
    BY <1>1 DEF mapVars, LiveDir, InMap, RuleAt
  <2>4. ASSUME Config, LiveDir(p)'
        PROVE  Allowed("x", RuleAt(d).stat, call[w].uid)' /\ Allowed("w", RuleAt(d).stat, call[w].uid)'
    BY <2>1, <2>2, <2>3, <2>4 DEF Allowed
  <2>5. Config => AllowOK(w)'
    BY <1>0, <2>1, <2>4 DEF AllowOK
  <2> QED BY <1>1, <1>2, <2>1, <2>5, StillAllowed
<1>5. CASE call[w].op \notin {"open", "create"} /\ Goto(w, "set")
  <2>1. call' = call /\ pc'[w] = "set" /\ \A v \in Workers \ {w} : pc'[v] = pc[v]
    BY <1>5, GotoType
  <2>2. InMap' = InMap /\ RuleAt(p)' = RuleAt(p)
    BY <1>1 DEF mapVars, InMap, RuleAt
  <2>3. Config /\ call[w].op \in {"chmod", "chown"} =>
           p \in InMap /\ (RuleAt(p) # Freed => IsOwner(RuleAt(p).stat, call[w].uid))
    BY <1>0, <1>1 DEF AllowInv, AllowOK
  <2>4. Config /\ call[w].op \in {"chmod", "chown"} =>
           (p \in InMap)' /\ (RuleAt(p)' # Freed => IsOwner(RuleAt(p).stat, call[w].uid)')
    BY <2>1, <2>2, <2>3 DEF IsOwner
  <2>5. Config => AllowOK(w)'
    BY <1>0, <2>1, <2>4 DEF AllowOK
  <2> QED BY <1>1, <1>2, <2>1, <2>5, StillAllowed
<1> QED BY <1>1, <1>3, <1>4, <1>5

\* The end of an addition changes one rule, and nothing of its stat but the size.
LEMMA EndAddRule ==
  ASSUME TypeOK, NEW a \in Adders, EndAdd(a), rules' # rules
  PROVE  \E i \in Ids : rules[i] # Freed /\ \E r : r.stat = rules[i].stat /\ rules' = [rules EXCEPT ![i] = r]
<1> DEFINE i == adding[a].id
<1>1. i \in Ids /\ rules[i] # Freed /\ rules' = [rules EXCEPT ![i].AccumSize = Added(a), ![i].LastTime = "now"]
  BY DEF EndAdd, TypeOK
<1>2. rules[i] \in Rule
  BY <1>1 DEF TypeOK
<1>3. rules' = [rules EXCEPT ![i] = [rules[i] EXCEPT !.AccumSize = Added(a), !.LastTime = "now"]]
  BY <1>1, <1>2 DEF TypeOK, Rule
<1>4. [rules[i] EXCEPT !.AccumSize = Added(a), !.LastTime = "now"].stat = rules[i].stat
  BY <1>2 DEF Rule
<1> QED BY <1>1, <1>3, <1>4

LEMMA EndAddStats ==
  ASSUME TypeOK, NEW a \in Adders, EndAdd(a)
  PROVE  StatsStill
<1>1. CASE rules' = rules
  BY <1>1 DEF StatsStill, EndAdd
<1>2. CASE rules' # rules
  BY <1>2, EndAddRule, OneStatStill DEF EndAdd
<1> QED BY <1>1, <1>2

\* fsync, utimens and the end of a write change times and sizes only.
LEMMA GoingStats ==
  ASSUME InfoInv, NEW w \in Workers, Fsync(w) \/ SetTimespec(w) \/ WriteEnd(w)
  PROVE  StatsStill
<1> USE DEF InfoInv
<1>1. CASE Fsync(w)
  <2>1. IdOf(w) \in Ids /\ rules[IdOf(w)] # Freed
    BY <1>1, IdOfType DEF Fsync
  <2>2. rules[IdOf(w)] \in Rule
    BY <2>1 DEF TypeOK
  <2>3. rules' = [rules EXCEPT ![IdOf(w)] = [rules[IdOf(w)] EXCEPT !.LastTime = "now"]] /\ UNCHANGED RuleMap
    BY <1>1 DEF Fsync
  <2>4. [rules[IdOf(w)] EXCEPT !.LastTime = "now"].stat = rules[IdOf(w)].stat
    BY <2>2 DEF Rule
  <2> QED BY <2>1, <2>3, <2>4, OneStatStill
<1>2. CASE SetTimespec(w)
  <2>1. UNCHANGED RuleMap
    BY <1>2 DEF SetTimespec
  <2>2. CASE rules' = rules
    BY <2>1, <2>2 DEF StatsStill
  <2>3. CASE rules' # rules
    <3>1. PICK i : /\ call[w].path \in InMap /\ i = RuleMap[call[w].path] /\ rules[i] # Freed
                   /\ rules' = [rules EXCEPT ![i] = [rules[i] EXCEPT !.LastTime = "given"]]
      BY <1>2, <2>3 DEF SetTimespec, RuleAt
    <3>2. i \in Ids /\ rules[i] \in Rule
      BY <3>1 DEF InMap, TypeOK
    <3>3. [rules[i] EXCEPT !.LastTime = "given"].stat = rules[i].stat
      BY <3>2 DEF Rule
    <3> QED BY <2>1, <3>1, <3>2, <3>3, OneStatStill
  <2> QED BY <2>2, <2>3
<1>3. CASE WriteEnd(w)
  BY <1>3, EndAddStats DEF WriteEnd, Adders
<1> QED BY <1>1, <1>2, <1>3

LEMMA StillChanges ==
  ASSUME TypeOK, StatsStill, made' = made
  PROVE  ChangeAllowed
<1>1. \A p \in InMap : RuleMap[p] \in Ids
  BY DEF InMap, TypeOK
<1> QED BY <1>1 DEF StatsStill, ChangeAllowed, RuleAt

LEMMA ServeAllowed ==
  ASSUME InfoInv, AllowInv, Serve
  PROVE  AllowInv'
<1> USE DEF InfoInv
<1>1. PICK w \in Workers : Locking(w) \/ Going(w)
  BY DEF Serve
<1>2. CASE FindFile(w) \/ FindParent(w) \/ SetAttribute(w) \/ CreateInsert(w)
  BY <1>2, FindFileAllowed, FindParentAllowed, SetAttributeAllowed, CreateAllowed
<1>3. CASE FindToOpen(w) \/ FindToCreate(w) \/ TakeHandle(w)
  <2>1. /\ UNCHANGED <<mapVars, confVars>> /\ call[w].op \in {"open", "create"}
        /\ Answer(w) \/ Goto(w, "handle") \/ Goto(w, "parent")
    BY <1>3 DEF FindToOpen, FindToCreate, TakeHandle, CallInv, CallOK
  <2>2. StatsStill
    BY <2>1 DEF StatsStill, mapVars
  <2>3. CASE Answer(w)
    BY <2>1, <2>2, <2>3, AnswerType, IdleAllowed, StillAllowed
  <2>4. CASE Goto(w, "handle") \/ Goto(w, "parent")
    <3>1. call' = call /\ pc'[w] \in {"handle", "parent"} /\ \A v \in Workers \ {w} : pc'[v] = pc[v]
      BY <2>4, GotoType
    <3>2. AllowOK(w)'
      BY <2>1, <3>1 DEF AllowOK
    <3> QED BY <2>1, <2>2, <3>1, <3>2, StillAllowed
  <2> QED BY <2>1, <2>3, <2>4
<1>4. CASE Look(w) \/ CreateNothing(w) \/ UseFreed(w) \/ Release(w) \/ StartPlugin(w)
  <2>1. UNCHANGED confVars /\ Answer(w)
    BY <1>4 DEF Look, CreateNothing, UseFreed, Release, StartPlugin, GiveHandle, Refuse
  <2>2. StatsStill
    BY <1>4, StartPluginStats DEF Look, CreateNothing, UseFreed, Release, StatsStill, mapVars
  <2> QED BY <2>1, <2>2, AnswerType, IdleAllowed, StillAllowed
<1>5. CASE BeginWalk(w) \/ Write(w)
  <2>1. UNCHANGED <<mapVars, confVars>> /\ (Answer(w) \/ Goto(w, "walk") \/ Goto(w, "add"))
    BY <1>5 DEF BeginWalk, Write
  <2>2. pc'[w] \in {"idle", "walk", "add"} /\ \A v \in Workers \ {w} : pc'[v] = pc[v] /\ call'[v] = call[v]
    BY <2>1, AnswerType, GotoType
  <2>3. StatsStill
    BY <2>1 DEF StatsStill, mapVars
  <2> QED BY <2>1, <2>2, <2>3, IdleAllowed, StillAllowed
<1>6. CASE Fsync(w) \/ SetTimespec(w) \/ WriteEnd(w)
  <2>1. UNCHANGED <<RuleMap, confVars>> /\ Answer(w)
    BY <1>6 DEF Fsync, SetTimespec, WriteEnd, EndAdd
  <2>2. StatsStill
    BY <1>6, GoingStats
  <2> QED BY <2>1, <2>2, AnswerType, IdleAllowed, StillAllowed
<1> QED BY <1>1, <1>2, <1>3, <1>4, <1>5, <1>6 DEF Locking, Going

LEMMA OthersAllowed ==
  ASSUME InfoInv, AllowInv, TimerAdd \/ TimerEnd \/ Ask \/ CleanRules \/ UNCHANGED ruleVars
  PROVE  AllowInv'
<1> USE DEF InfoInv
<1>1. CASE TimerAdd \/ TimerEnd \/ UNCHANGED ruleVars
  <2>1. UNCHANGED <<RuleMap, confVars, call, pc>>
    BY <1>1 DEF TimerAdd, TimerEnd, EndAdd, ruleVars, mapVars, callVars
  <2>2. StatsStill
    BY <1>1, <2>1, EndAddStats DEF TimerAdd, TimerEnd, Adders, StatsStill, ruleVars, mapVars
  <2>3. CASE Config
    <3>1. DirsKept /\ \A p \in Paths : OwnerKept(p)
      BY <2>2, StatsStillKept
    <3>2. ASSUME NEW v \in Workers PROVE AllowOK(v)'
      <4>1. ASSUME pc[v] \in {"parent", "set"} PROVE OwnerKept(call[v].path)
        <5>1. PICK p \in Paths : p = call[v].path
          BY <4>1, RequestType
        <5>2. call'[v].path = call[v].path
          BY <2>1
        <5> QED BY <3>1, <5>1, <5>2 DEF OwnerKept
      <4> QED BY <2>1, <2>3, <3>1, <4>1, AllowStays DEF AllowInv
    <3> QED BY <3>2 DEF AllowInv
  <2>4. CASE ~Config
    BY <2>1, <2>4 DEF AllowInv, confVars
  <2> QED BY <2>3, <2>4
<1>2. CASE Ask
  <2>1. PICK w \in Workers, r \in Requests : Arrive(w, r)
    BY <1>2 DEF Ask
  <2>2. /\ UNCHANGED <<mapVars, confVars>> /\ pc'[w] = FirstStep(r) /\ call'[w] = r
        /\ \A v \in Workers \ {w} : pc'[v] = pc[v] /\ call'[v] = call[v]
    BY <2>1 DEF Arrive, TypeOK
  <2>3. FirstStep(r) \in {"use", "set", "find"} /\ (FirstStep(r) = "set" => r.op \notin {"chmod", "chown"})
    BY DEF FirstStep
  <2>4. AllowOK(w)'
    BY <2>2, <2>3 DEF AllowOK
  <2>5. StatsStill
    BY <2>2 DEF StatsStill, mapVars
  <2> QED BY <2>2, <2>4, <2>5, StillAllowed
<1>3. CASE CleanRules
  <2>1. ~Config'
    BY <1>3 DEF CleanRules, CleanConfig, CleanMode, CleanFree, CleanClear, LockInv
  <2> QED BY <2>1 DEF AllowInv
<1> QED BY <1>1, <1>2, <1>3

LEMMA LoadAllowed ==
  ASSUME InfoInv, LoadRules, \A w \in Workers : ~Busy(w)
  PROVE  AllowInv'
<1>1. \A w \in Workers : pc'[w] = "idle"
  BY DEF LoadRules, callVars, InfoInv, CallInv, CallOK
<1> QED BY <1>1, IdleAllowed DEF AllowInv

LEMMA InitAllowed == Init => AllowInv
BY DEF Init, AllowInv

\* Whoever makes a rule, or changes what stat shows of one, is allowed to.
LEMMA ServeChanges ==
  ASSUME InfoInv, AllowInv, Serve
  PROVE  ChangeAllowed
<1> USE DEF InfoInv
<1>1. PICK w \in Workers : Locking(w) \/ Going(w)
  BY DEF Serve
<1>2. CASE CreateInsert(w)
  <2>1. PICK p \in Paths : p = call[w].path
    BY <1>2, RequestType DEF CreateInsert
  <2> DEFINE d == Parent(p)
  <2>2. /\ made' = made + 1
        /\ RuleMap' = [RuleMap EXCEPT ![p] = made'] /\ pc[w] = "create" /\ TRUE \in HasParentRule(p) /\ Config
    BY <1>2, <2>1 DEF CreateInsert
  <2>2a. PICK plugin \in BOOLEAN : rules' = [rules EXCEPT ![made'] = NewRule(w, plugin)]
    BY <1>2, InsertType
  <2>3. call[w].op \in {"create", "open"}
    BY <2>2 DEF CallInv, CallOK, Creating
  <2>4. ~Dead(d) => Allowed("x", RuleAt(d).stat, call[w].uid) /\ Allowed("w", RuleAt(d).stat, call[w].uid)
    <3>1. ~Dead(d) => LiveDir(p)
      BY <2>2 DEF HasParentRule, Shown, Dead, LiveDir
    <3> QED BY <2>1, <2>2, <3>1 DEF AllowInv, AllowOK
  <2>5. RuleMap'[p] = made'
    BY <2>2 DEF TypeOK
  <2>6. \A q \in InMap : RuleMap[q] \in Ids /\ RuleMap[q] # made'
    BY <2>2 DEF InMap, TypeOK, MapInv, Ids
  <2>7. \A q \in InMap : rules'[RuleMap[q]] = RuleAt(q)
    BY <2>2a, <2>6 DEF RuleAt, TypeOK
  <2> QED BY <2>1, <2>3, <2>4, <2>5, <2>7 DEF ChangeAllowed
<1>3. CASE SetAttribute(w)
  <2>1. PICK p \in Paths : p = call[w].path
    BY <1>3, RequestType DEF SetAttribute
  <2>2. made' = made
    BY <1>3 DEF SetAttribute
  <2>3. ASSUME NEW q \in InMap, RuleAt(q) # Freed, rules'[RuleMap[q]].stat # RuleAt(q).stat
        PROVE  call[w].op \in {"chmod", "chown"} /\ call[w].path = q /\ IsOwner(RuleAt(q).stat, call[w].uid)
    <3>1. rules' # rules
      BY <2>3 DEF RuleAt
    <3>2. /\ p \in InMap /\ RuleAt(p) # Freed /\ Config /\ pc[w] = "set"
          /\ rules' = [rules EXCEPT ![RuleMap[p]] = Changed(rules[RuleMap[p]], call[w])]
          /\ call[w].op \in {"chmod", "chown", "truncate"}
      BY <1>3, <2>1, <3>1 DEF SetAttribute, Dead
    <3>3. RuleMap[p] \in Ids /\ RuleMap[q] \in Ids /\ q \in Paths
      BY <3>2 DEF InMap, TypeOK
    <3>4. RuleMap[q] = RuleMap[p]
      BY <2>3, <3>2, <3>3 DEF RuleAt, TypeOK
    <3>5. q = p
      BY <3>2, <3>4 DEF MapInv
    <3>6. RuleAt(p) \in Rule
      BY <3>2, <3>3 DEF RuleAt, TypeOK
    <3>7. call[w].op # "truncate"
      <4>1. Changed(RuleAt(p), call[w]).stat # RuleAt(p).stat
        BY <2>3, <3>2, <3>3, <3>5 DEF RuleAt, TypeOK
      <4> QED BY <3>6, <4>1 DEF Changed, Rule
    <3> QED BY <2>1, <3>2, <3>5, <3>7 DEF AllowInv, AllowOK
  <2> QED BY <2>2, <2>3 DEF ChangeAllowed
<1>4. CASE Fsync(w) \/ SetTimespec(w) \/ WriteEnd(w)
  <2>1. made' = made /\ StatsStill
    BY <1>4, GoingStats DEF Fsync, SetTimespec, WriteEnd, EndAdd
  <2> QED BY <2>1, StillChanges, ZenonT(40)
<1>5. CASE \/ Look(w) \/ FindFile(w) \/ FindToOpen(w) \/ TakeHandle(w) \/ FindToCreate(w) \/ FindParent(w)
           \/ CreateNothing(w) \/ BeginWalk(w) \/ Write(w) \/ UseFreed(w) \/ Release(w)
  <2>1. UNCHANGED mapVars
    BY <1>5 DEF Look, FindFile, FindToOpen, TakeHandle, FindToCreate, FindParent, CreateNothing, BeginWalk,
       Write, UseFreed, Release, mapVars
  <2> QED BY <2>1, StillChanges DEF StatsStill, mapVars
<1>6. CASE StartPlugin(w)
  <2>1. made' = made /\ StatsStill
    BY <1>6, StartPluginStats DEF StartPlugin
  <2> QED BY <2>1, StillChanges, ZenonT(40)
<1> QED BY <1>1, <1>2, <1>3, <1>4, <1>5, <1>6 DEF Locking, Going

LEMMA OthersChange ==
  ASSUME InfoInv, TimerAdd \/ TimerEnd \/ Ask \/ CleanRules \/ UNCHANGED ruleVars
  PROVE  ChangeAllowed
<1> USE DEF InfoInv
<1>1. CASE TimerEnd
  BY <1>1, EndAddStats, StillChanges DEF TimerEnd, EndAdd, Adders
<1>2. CASE CleanFree
  <2>1. made' = made /\ \A i \in Ids : rules'[i] # Freed => rules'[i] = rules[i]
    BY <1>2 DEF CleanFree
  <2>2. \A p \in InMap : RuleMap[p] \in Ids
    BY DEF InMap, TypeOK
  <2> QED BY <2>1, <2>2 DEF ChangeAllowed, RuleAt
<1>3. CASE TimerAdd \/ Ask \/ CleanConfig \/ CleanMode \/ CleanClear \/ UNCHANGED ruleVars
  <2>1. UNCHANGED <<rules, made>>
    BY <1>3 DEF TimerAdd, Ask, Arrive, CleanConfig, CleanMode, CleanClear, ruleVars, mapVars
  <2> QED BY <2>1 DEF ChangeAllowed, RuleAt
<1> QED BY <1>1, <1>2, <1>3 DEF CleanRules

\* Loading makes the first rules.
LEMMA LoadChanges ==
  ASSUME InfoInv, LoadRules
  PROVE  ChangeAllowed
<1>1. made = 0
  BY DEF LoadRules
<1>2. InMap = {}
  BY <1>1 DEF InfoInv, MapInv, TypeOK, InMap, Ids, NoId
<1> QED BY <1>1, <1>2 DEF ChangeAllowed

-----------------------------------------------------------------------------
(* The invariant.                                                          *)

\* Somebody may have a file open, or the timeup thread a value to put out.
Used == mounted \/ ~Unused \/ adding[Timer] # NoAdd

\* The rules have been cleaned.
Gone == ~Config /\ \A i \in Ids : rules[i] = Freed

Starting == Parts \cup {"mount"}

\* Until fuse_main has mounted, nobody uses anything and nothing ends.
StartInv ==
  main \in Starting =>
    /\ ~Used /\ cleaning = "no"
    /\ caller = "none" /\ ~exit_lockval
    /\ children => main = "mount"

\* Clean has a caller, and goes through its steps once.
CallerInv ==
  /\ exit_lockval \/ main = "clean" => caller # "none"
  /\ main \in {"join", "stop", "lock", "close", "unlock", "members", "exited"} => exit_lockval

\* What the timeup thread has in hand is there until it has been joined; an
\* Initialize that failed may leave it running, with nothing to do.
TimeupInv ==
  /\ adding[Timer] # NoAdd => thread["timeup"] = "run" /\ rules[adding[Timer].id] # Freed
  /\ exit_lockval /\ main # "join" => thread["timeup"] # "run"
  /\ Used /\ thread["timeup"] = "run" => main \in {"serve", "clean", "join"} /\ {"k2hash", "epoll"} \subseteq has

\* The parts that Initialize has taken so far.
HasInv ==
  /\ main \in Starting \ {"fdcache"} => "epoll" \in has
  /\ main \in {"timeup", "pool", "k2hash", "ctp", "trans", "plugins", "mount"} => Config /\ "pipes" \in has
  /\ main \in {"ctp", "trans", "plugins", "mount"} => "k2hash" \in has

\* The parts that Clean has given back so far.
EndInv ==
  exit_lockval =>
    /\ main \notin {"join", "stop"} => "pipes" \notin has /\ ~children
    /\ main \notin {"join", "stop", "lock", "close"} => has = {} /\ thread["fdwatch"] # "run"
    /\ main \notin {"join", "stop", "lock", "close", "undo"} => Gone
    /\ main \notin {"join", "stop", "lock", "close", "undo", "unlock"} => ~conf_lockval
    /\ main = "exited" => thread["plugwatch"] # "run"

MainInv == StartInv /\ CallerInv /\ TimeupInv /\ HasInv /\ EndInv

DaemonInv == DaemonTypeOK /\ InfoInv /\ PlugInv /\ MainInv

\* The plugins that run have their rules and pipes, if RunPlugins never
\* fails half way.
ChildInv ==
  children => Config /\ "pipes" \in has /\ main \in {"mount", "serve", "clean", "delete", "join", "stop"}

-----------------------------------------------------------------------------
(* Steps that leave the rules and the workers alone.                       *)

LEMMA RulesAside ==
  ASSUME UNCHANGED ruleVars
  PROVE  /\ Unused' <=> Unused
         /\ Gone' <=> Gone
         /\ Config' = Config /\ cleaning' = cleaning
         /\ adding' = adding /\ rules' = rules
         /\ TypeOK' <=> TypeOK
BY DEF ruleVars, mapVars, confVars, callVars, sizeVars, past, Unused, Busy, Gone, TypeOK

\* The types of what is not in RuleMap.
MainTypeOK ==
  /\ main \in Parts \cup CleanSteps \cup {"mount", "serve", "clean", "delete", "members", "exited"}
  /\ caller \in {"none", "signal", "destroy", "delete"}
  /\ conf_lockval \in BOOLEAN /\ exit_lockval \in BOOLEAN /\ run_thread \in BOOLEAN
  /\ thread \in [Threads -> {"none", "run", "exit", "lost"}]
  /\ has \subseteq Things
  /\ children \in BOOLEAN /\ mounted \in BOOLEAN /\ fusermount \in BOOLEAN
  /\ signals \in 0 .. MaxSignals

\* Initialize and fuse_main, but for the loading of the rules.
LEMMA InitializeKeeps ==
  ASSUME DaemonInv, Initialize, ~InitRules
  PROVE  MainTypeOK' /\ MainInv'
<1> USE DEF DaemonInv, MainInv
<1>1. main \in Starting \ {"mount"} /\ main' \in Starting /\ main' # "fdcache"
  BY DEF Initialize, InitFdCache, InitPluginMan, InitTimeup, InitTransfer, InitPlugins, MainAt, Starting, Parts
<1>2. UNCHANGED <<ruleVars, caller, exit_lockval, mountVars>>
  BY DEF Initialize, InitFdCache, InitPluginMan, InitTimeup, InitTransfer, InitPlugins, lockVars
<1>3. MainTypeOK'
  <2>1. has' \subseteq Things
    BY DEF Initialize, InitFdCache, InitPluginMan, InitTimeup, InitTransfer, InitPlugins, DaemonTypeOK, Things
  <2>2. thread' \in [Threads -> {"none", "run", "exit", "lost"}]
    BY DEF Initialize, InitFdCache, InitPluginMan, InitTimeup, InitTransfer, InitPlugins, DaemonTypeOK
  <2>3. conf_lockval' \in BOOLEAN /\ run_thread' \in BOOLEAN /\ children' \in BOOLEAN
    BY DaemonAssumption DEF Initialize, InitFdCache, InitPluginMan, InitTimeup, InitTransfer, InitPlugins, DaemonTypeOK,
       lockVars
  <2> QED BY <1>1, <1>2, <2>1, <2>2, <2>3 DEF DaemonTypeOK, MainTypeOK, Starting, mountVars
<1>4. StartInv' /\ CallerInv'
  BY <1>1, <1>2, RulesAside DEF Initialize, InitFdCache, InitPluginMan, InitTimeup, InitTransfer, InitPlugins, MainAt,
     StartInv, CallerInv, Used, mountVars, Starting, Parts
<1>5. TimeupInv'
  BY <1>1, <1>2, RulesAside DEF StartInv, TimeupInv, Used, mountVars
<1>6. HasInv'
  BY <1>1, <1>2, RulesAside DEF Initialize, InitFdCache, InitPluginMan, InitTimeup, InitTransfer, InitPlugins, MainAt,
     HasInv, Starting, Parts
<1>7. EndInv'
  BY <1>1, <1>2 DEF StartInv, EndInv
<1> QED BY <1>3, <1>4, <1>5, <1>6, <1>7

LEMMA FailureKeeps ==
  ASSUME DaemonInv, NEW s \in Parts, InitFails(s)
  PROVE  MainTypeOK' /\ MainInv'
<1> USE DEF DaemonInv, MainInv
<1>1. main \in Starting /\ main' \in {"undo", "delete"}
  BY DEF InitFails, MainAt, Starting
<1>2. UNCHANGED <<ruleVars, caller, exit_lockval, run_thread, thread, mountVars>>
  BY DEF InitFails
<1>3. MainTypeOK'
  <2>1. has' \subseteq Things
    BY DEF InitFails, DaemonTypeOK, Things
  <2> QED BY <1>1, <1>2, <2>1 DEF InitFails, DaemonTypeOK, MainTypeOK, CleanSteps, mountVars
<1>4. StartInv' /\ CallerInv' /\ HasInv' /\ EndInv'
  BY <1>1, <1>2 DEF StartInv, CallerInv, HasInv, EndInv, Starting, Parts
<1>5. TimeupInv'
  BY <1>1, <1>2, RulesAside DEF StartInv, TimeupInv, Used, mountVars
<1> QED BY <1>3, <1>4, <1>5

LEMMA MountKeeps ==
  ASSUME DaemonInv, MountDone \/ MountFails
  PROVE  MainTypeOK' /\ MainInv'
<1> USE DEF DaemonInv, MainInv
<1>1. main = "mount" /\ main \in Starting /\ main' \in {"serve", "delete"}
  BY DEF MountDone, MountFails, MainAt, Starting
<1>2. UNCHANGED <<ruleVars, caller, lockVars, run_thread, has, children, fusermount, signals>>
  BY DEF MountDone, MountFails, mountVars
<1>3. MainTypeOK'
  <2>1. thread' \in [Threads -> {"none", "run", "exit", "lost"}]
    BY DEF MountDone, MountFails, DaemonTypeOK
  <2> QED BY <1>1, <1>2, <2>1, ZenonT(40) DEF MountDone, MountFails, DaemonTypeOK, MainTypeOK, lockVars, mountVars
<1>4. StartInv' /\ CallerInv' /\ HasInv' /\ EndInv'
  BY <1>1, <1>2 DEF StartInv, CallerInv, HasInv, EndInv, Starting, Parts, lockVars
<1>5. TimeupInv'
  <2>1. MountFails => mounted' = mounted
    BY DEF MountFails, mountVars
  <2>2. ~Used /\ ~exit_lockval /\ {"k2hash", "epoll"} \subseteq has
    BY <1>1 DEF StartInv, HasInv
  <2>3. main' = "serve" \/ MountFails
    BY DEF MountDone, MainAt
  <2> QED BY <1>2, <2>1, <2>2, <2>3, RulesAside DEF TimeupInv, Used, lockVars
<1> QED BY <1>3, <1>4, <1>5

-----------------------------------------------------------------------------
(* Unmounting, signals, and the steps of Clean.                            *)

LEMMA OutsideKeeps ==
  ASSUME DaemonInv, Unmount \/ Fusermount \/ SignalAgain
  PROVE  MainTypeOK' /\ MainInv'
<1> USE DEF DaemonInv, MainInv
<1>1. UNCHANGED <<ruleVars, main, caller, lockVars, run_thread, thread, has, children>>
  BY DEF Unmount, Fusermount, SignalAgain
<1>2. (mounted' => mounted) /\ mounted' \in BOOLEAN /\ fusermount' \in BOOLEAN
  <2>1. mounted \in BOOLEAN /\ fusermount \in BOOLEAN
    BY DEF DaemonTypeOK
  <2>2. CASE Unmount
    BY <2>1, <2>2 DEF Unmount
  <2>3. CASE Fusermount
    BY <2>1, <2>3 DEF Fusermount
  <2>4. CASE SignalAgain
    BY <2>1, <2>4 DEF SignalAgain
  <2> QED BY <2>2, <2>3, <2>4
<1>3. MainTypeOK'
  <2>1. signals' \in 0 .. MaxSignals
    BY DaemonAssumption DEF Unmount, Fusermount, SignalAgain, DaemonTypeOK
  <2> QED BY <1>1, <1>2, <2>1 DEF DaemonTypeOK, MainTypeOK, lockVars
<1>4. Used' => Used
  BY <1>1, <1>2, RulesAside DEF Used
<1>5. StartInv' /\ CallerInv'
  BY <1>1, <1>4, RulesAside DEF StartInv, CallerInv, lockVars
<1>6. TimeupInv' /\ HasInv' /\ EndInv'
  BY <1>1, <1>4, RulesAside DEF TimeupInv, HasInv, EndInv, lockVars
<1> QED BY <1>3, <1>5, <1>6

\* Clean is called.
LEMMA CallKeeps ==
  ASSUME DaemonInv, LoopEnds \/ Signal \/ Delete
  PROVE  MainTypeOK' /\ MainInv'
<1> USE DEF DaemonInv, MainInv
<1>1. /\ main \in {"serve", "delete"} /\ main' = "clean" /\ caller' \in {"signal", "destroy", "delete"}
      /\ UNCHANGED <<ruleVars, lockVars, run_thread, thread, has, children, mounted>>
  BY DEF LoopEnds, Signal, Delete, MainAt, mountVars
<1>2. MainTypeOK'
  BY <1>1, DaemonAssumption DEF LoopEnds, Signal, Delete, DaemonTypeOK, MainTypeOK, lockVars, mountVars
<1>3. Used' <=> Used
  BY <1>1, RulesAside DEF Used
<1>4. StartInv' /\ CallerInv'
  BY <1>1 DEF StartInv, CallerInv, Starting, Parts, lockVars
<1>5. TimeupInv' /\ HasInv' /\ EndInv'
  BY <1>1, <1>3, RulesAside DEF TimeupInv, HasInv, EndInv, lockVars, Starting, Parts
<1> QED BY <1>2, <1>4, <1>5

LEMMA ReturnType ==
  ASSUME DaemonInv, exit_lockval, Return
  PROVE  main' \in {"serve", "delete", "members"} /\ fusermount' \in BOOLEAN
BY DEF DaemonInv, DaemonTypeOK, MainInv, CallerInv, Return, Back

\* The steps of Clean but K2hFtInfo::Clean, and the end of the destructor.
LEMMA CleanMainKeeps ==
  ASSUME DaemonInv, \/ CleanAgain \/ CleanBegin \/ JoinTimeup \/ StopPlugins
                    \/ LockConf \/ CloseParts \/ CleanEnd \/ Members
  PROVE  MainTypeOK' /\ MainInv'
<1> USE DEF DaemonInv, MainInv
<1>1. /\ main \in {"clean", "join", "stop", "lock", "close", "unlock", "members"}
      /\ UNCHANGED <<ruleVars, caller, mounted, signals>>
      /\ exit_lockval' /\ (main # "clean" => exit_lockval)
  BY DEF CleanAgain, CleanBegin, JoinTimeup, StopPlugins, LockConf, CloseParts, CleanEnd, Members, MainAt, lockVars,
     mountVars, CallerInv
<1>2. CASE CleanAgain \/ CleanEnd
  <2>1. exit_lockval /\ main' \in {"serve", "delete", "members"} /\ fusermount' \in BOOLEAN
    BY <1>1, <1>2, ReturnType DEF CleanAgain, CleanEnd
  <2>2. UNCHANGED <<exit_lockval, run_thread, thread, has, children>> /\ (conf_lockval' = conf_lockval \/ ~conf_lockval')
    BY <1>2 DEF CleanAgain, CleanEnd, lockVars
  <2>3. MainTypeOK'
    BY <1>1, <1>2, <2>1, <2>2 DEF CleanAgain, CleanEnd, DaemonTypeOK, MainTypeOK, lockVars
  <2>4. StartInv' /\ CallerInv' /\ HasInv'
    BY <1>1, <2>1, <2>2 DEF StartInv, CallerInv, HasInv, Starting, Parts
  <2>5. TimeupInv'
    <3>1. Used' <=> Used
      BY <1>1, RulesAside DEF Used
    <3> QED BY <1>1, <1>2, <2>1, <2>2, <3>1, RulesAside DEF CleanAgain, CleanEnd, TimeupInv
  <2>6. EndInv'
    BY <1>1, <1>2, <2>1, <2>2, RulesAside DEF CleanAgain, CleanEnd, EndInv, lockVars
  <2> QED BY <2>3, <2>4, <2>5, <2>6
<1>3. CASE CleanBegin \/ JoinTimeup \/ StopPlugins \/ LockConf \/ CloseParts \/ Members
  <2>1. /\ main' \in {"join", "stop", "lock", "close", "undo", "exited"} /\ UNCHANGED mountVars
        /\ thread'["timeup"] = thread["timeup"]
    BY <1>3 DEF CleanBegin, JoinTimeup, StopPlugins, LockConf, CloseParts, Members, MainAt, DaemonTypeOK, Threads
  <2>2. MainTypeOK'
    <3>1. has' \subseteq Things
      BY <1>3 DEF CleanBegin, JoinTimeup, StopPlugins, LockConf, CloseParts, Members, DaemonTypeOK, Things
    <3>2. thread' \in [Threads -> {"none", "run", "exit", "lost"}]
      BY <1>3 DEF CleanBegin, JoinTimeup, StopPlugins, LockConf, CloseParts, Members, DaemonTypeOK
    <3>3. conf_lockval' \in BOOLEAN /\ exit_lockval' \in BOOLEAN /\ run_thread' \in BOOLEAN /\ children' \in BOOLEAN
      BY <1>3 DEF CleanBegin, JoinTimeup, StopPlugins, LockConf, CloseParts, Members, DaemonTypeOK, lockVars
    <3> QED BY <1>1, <2>1, <3>1, <3>2, <3>3 DEF DaemonTypeOK, MainTypeOK, mountVars, CleanSteps
  <2>3. StartInv' /\ CallerInv' /\ HasInv'
    BY <1>1, <2>1 DEF StartInv, CallerInv, HasInv, Starting, Parts
  <2>4. TimeupInv'
    <3>1. Used' <=> Used
      BY <1>1, RulesAside DEF Used
    <3>2. CASE CleanBegin
      BY <1>1, <2>1, <3>1, <3>2, RulesAside DEF CleanBegin, MainAt, TimeupInv
    <3>3. CASE ~CleanBegin
      <4>1. thread["timeup"] # "run"
        BY <1>1, <1>3, <3>3 DEF JoinTimeup, StopPlugins, LockConf, CloseParts, Members, MainAt, TimeupInv
      <4> QED BY <2>1, <3>1, <4>1, <1>1, RulesAside DEF TimeupInv
    <3> QED BY <3>2, <3>3
  <2>5. EndInv'
    <3>1. CASE CleanBegin \/ JoinTimeup
      BY <3>1 DEF CleanBegin, JoinTimeup, MainAt, EndInv
    <3>2. CASE StopPlugins \/ LockConf
      BY <1>1, <3>2 DEF StopPlugins, LockConf, MainAt, EndInv
    <3>3. CASE CloseParts
      <4>1. has' = {}
        BY <1>1, <3>3 DEF CloseParts, MainAt, EndInv, DaemonTypeOK, Things
      <4>2. thread'["fdwatch"] # "run" /\ ~children' /\ main' = "undo"
        BY <1>1, <3>3 DEF CloseParts, MainAt, EndInv, DaemonTypeOK, Threads
      <4> QED BY <4>1, <4>2 DEF EndInv
    <3>4. CASE Members
      <4>1. /\ has' = {} /\ ~children' /\ main' = "exited" /\ ~conf_lockval'
            /\ thread'["fdwatch"] # "run" /\ thread'["plugwatch"] # "run"
        BY <1>1, <3>4 DEF Members, MainAt, EndInv, DaemonTypeOK, Threads, lockVars
      <4>2. Gone'
        BY <1>1, <3>4, RulesAside DEF Members, MainAt, EndInv
      <4> QED BY <4>1, <4>2 DEF EndInv
    <3> QED BY <1>3, <3>1, <3>2, <3>3, <3>4
  <2> QED BY <2>2, <2>3, <2>4, <2>5
<1> QED BY <1>2, <1>3

LEMMA TimeupExitsKeeps ==
  ASSUME DaemonInv, TimeupExits
  PROVE  MainTypeOK' /\ MainInv'
<1> USE DEF DaemonInv, MainInv
<1>1. /\ UNCHANGED <<ruleVars, main, caller, lockVars, run_thread, has, children, mountVars>>
      /\ thread'["timeup"] = "exit" /\ adding[Timer] = NoAdd
      /\ \A t \in Threads \ {"timeup"} : thread'[t] = thread[t]
  BY DEF TimeupExits, DaemonTypeOK, Threads
<1>2. MainTypeOK'
  BY <1>1 DEF TimeupExits, DaemonTypeOK, MainTypeOK, lockVars, mountVars
<1>3. Used' <=> Used
  BY <1>1, RulesAside DEF Used, mountVars
<1>4. StartInv' /\ CallerInv' /\ HasInv'
  BY <1>1, <1>3, RulesAside DEF StartInv, CallerInv, HasInv, lockVars
<1>5. TimeupInv' /\ EndInv'
  BY <1>1, <1>3, RulesAside DEF TimeupInv, EndInv, lockVars, Threads
<1> QED BY <1>2, <1>4, <1>5

-----------------------------------------------------------------------------
(* The rules, the clients and the workers, and the timeup thread.          *)

LEMMA InitRulesKeeps ==
  ASSUME DaemonInv, InitRules
  PROVE  InfoInv' /\ PlugInv' /\ MainTypeOK' /\ MainInv'
<1> USE DEF DaemonInv, MainInv
<1>1. /\ main = "rules" /\ main' = "timeup" /\ main \in Starting /\ LoadRules
      /\ has' = has \cup {"pipes"} /\ UNCHANGED <<caller, lockVars, run_thread, thread, children, mountVars>>
  BY DEF InitRules, MainAt, Starting, Parts
<1>2. ~Used /\ cleaning = "no" /\ handles = {} /\ \A w \in Workers : ~Busy(w)
  BY <1>1 DEF StartInv, Used, Unused
<1>3. InfoInv' /\ PlugInv'
  BY <1>1, <1>2, LoadKeeps, LoadPlug
<1>4. Config' /\ cleaning' = cleaning /\ adding' = adding /\ (Unused' <=> Unused)
  BY <1>1 DEF LoadRules, sizeVars, callVars, Unused, Busy
<1>5. MainTypeOK'
  BY <1>1 DEF DaemonTypeOK, MainTypeOK, Parts, Things, lockVars, mountVars
<1>6. StartInv' /\ CallerInv' /\ TimeupInv'
  BY <1>1, <1>4 DEF StartInv, CallerInv, TimeupInv, Used, lockVars, mountVars
<1>7. HasInv' /\ EndInv'
  BY <1>1, <1>4 DEF StartInv, HasInv, EndInv, Starting, Parts, lockVars
<1> QED BY <1>3, <1>5, <1>6, <1>7

LEMMA CleanInfoKeeps ==
  ASSUME DaemonInv, CleanInfo
  PROVE  InfoInv' /\ PlugInv' /\ MainTypeOK' /\ MainInv'
<1> USE DEF DaemonInv, MainInv
<1>1. /\ main = "undo" /\ main' \in {"undo", "unlock", "delete"} /\ CleanRules
      /\ main' # "undo" => cleaning = "clear" /\ (main' = "unlock" <=> exit_lockval)
      /\ UNCHANGED <<caller, lockVars, run_thread, thread, has, children, mountVars>>
  BY DEF CleanInfo
<1>2. InfoInv' /\ PlugInv'
  BY <1>1, CleanKeeps, OthersPlug
<1>3. adding' = adding /\ (Unused' <=> Unused)
  BY <1>1 DEF CleanRules, CleanConfig, CleanMode, CleanFree, CleanClear, sizeVars, callVars, Unused, Busy
<1>4. main' # "undo" => Gone'
  <2>1. SUFFICES ASSUME cleaning = "clear" PROVE Gone'
    BY <1>1
  <2>2. CleanClear
    BY <1>1, <2>1 DEF CleanRules, CleanConfig, CleanMode, CleanFree
  <2>3. ~Config /\ \A i \in Ids : rules[i] = Freed
    BY <2>1 DEF InfoInv, LockInv, MapInv
  <2> QED BY <2>2, <2>3 DEF CleanClear, Gone
<1>5. MainTypeOK'
  BY <1>1 DEF DaemonTypeOK, MainTypeOK, CleanSteps, lockVars, mountVars
<1>6. StartInv' /\ CallerInv' /\ HasInv'
  BY <1>1 DEF StartInv, CallerInv, HasInv, Starting, Parts, lockVars
<1>7. TimeupInv'
  <2>1. Used' <=> Used
    BY <1>1, <1>3 DEF Used, mountVars
  <2>2. adding[Timer] = NoAdd
    BY <1>1 DEF TimeupInv, Used
  <2> QED BY <1>1, <1>3, <2>1, <2>2 DEF TimeupInv, lockVars
<1>8. EndInv'
  BY <1>1, <1>4 DEF EndInv, lockVars
<1> QED BY <1>2, <1>5, <1>6, <1>7, <1>8

\* Those who serve, and the timeup thread, find the rules as they were.
LEMMA ServingMeans ==
  ASSUME DaemonInv, Ask_ \/ Serve_ \/ Timeup
  PROVE  /\ InfoInv' /\ PlugInv' /\ Used
         /\ UNCHANGED confVars
         /\ Gone => Gone'
         /\ adding'[Timer] # NoAdd => thread["timeup"] = "run" /\ rules'[adding'[Timer].id] # Freed
<1> USE DEF DaemonInv, MainInv
<1>1. adding[Timer] # NoAdd => adding[Timer].id \in Ids /\ thread["timeup"] = "run" /\ rules[adding[Timer].id] # Freed
  <2>1. adding[Timer] \in {NoAdd} \cup [id : Ids, old : Nat]
    BY DEF DaemonTypeOK, TypeOK, Adders
  <2> QED BY <2>1 DEF TimeupInv
<1>2. CASE Ask_
  <2>1. Ask /\ mounted
    BY <1>2 DEF Ask_
  <2>2. InfoInv' /\ PlugInv' /\ Used
    BY <2>1, AskKeeps, OthersPlug DEF Used
  <2>3. UNCHANGED <<confVars, rules, adding>>
    BY <2>1 DEF Ask, Arrive, mapVars, sizeVars
  <2> QED BY <1>1, <2>2, <2>3 DEF Gone, confVars
<1>3. CASE Serve_
  <2>1. Serve
    BY <1>3 DEF Serve_
  <2>2. InfoInv' /\ PlugInv'
    BY <2>1, ServeKeeps, ServePlug
  <2>3. /\ \A i \in Ids : ~Config /\ rules[i] = Freed => rules'[i] = Freed
        /\ adding[Timer] # NoAdd /\ rules[adding[Timer].id] # Freed => rules'[adding[Timer].id] # Freed
        /\ UNCHANGED confVars
        /\ adding'[Timer] = adding[Timer]
        /\ \E w \in Workers : Busy(w)
    BY <2>1, ServeRules
  <2>4. Used
    BY <2>3 DEF Used, Unused
  <2> QED BY <1>1, <2>2, <2>3, <2>4 DEF Gone, confVars
<1>4. CASE Timeup /\ TimerAdd
  <2>1. PICK h \in handles : h.id # NoId /\ BeginAdd(Timer, h.id)
    BY <1>4 DEF TimerAdd
  <2>2. h.id \in Ids /\ Used
    BY <2>1 DEF DaemonTypeOK, TypeOK, Used, Unused
  <2>3. adding'[Timer].id = h.id /\ rules[h.id] # Freed
    BY <2>1 DEF BeginAdd, DaemonTypeOK, TypeOK, Adders
  <2>4. UNCHANGED <<confVars, rules>> /\ thread["timeup"] = "run"
    BY <1>4 DEF Timeup, TimerAdd, mapVars
  <2>5. InfoInv' /\ PlugInv'
    BY <1>4, TimerAddKeeps, OthersPlug
  <2> QED BY <2>2, <2>3, <2>4, <2>5 DEF Gone, confVars
<1>5. CASE Timeup /\ TimerEnd
  <2>1. Timer \in Adders /\ EndAdd(Timer) /\ TypeOK
    BY <1>5 DEF TimerEnd, Adders, DaemonTypeOK
  <2>2. SameRules
    BY <1>5, <2>1, EndAddType DEF TimerEnd, past
  <2>3. adding'[Timer] = NoAdd /\ Used /\ UNCHANGED confVars
    BY <1>5, <2>1 DEF TimerEnd, EndAdd, TypeOK, Used
  <2>4. InfoInv' /\ PlugInv'
    BY <1>5, TimerEndKeeps, OthersPlug
  <2> QED BY <2>2, <2>3, <2>4 DEF Gone, SameRules, confVars
<1> QED BY <1>2, <1>3, <1>4, <1>5 DEF Timeup

LEMMA ServingKeeps ==
  ASSUME DaemonInv, Ask_ \/ Serve_ \/ Timeup
  PROVE  InfoInv' /\ PlugInv' /\ MainTypeOK' /\ MainInv'
<1> USE DEF DaemonInv, MainInv
<1>1. UNCHANGED mainVars
  BY DEF Ask_, Serve_, Timeup
<1>2. MainTypeOK'
  BY <1>1 DEF mainVars, lockVars, mountVars, DaemonTypeOK, MainTypeOK
<1>3. StartInv' /\ CallerInv'
  BY <1>1, ServingMeans DEF mainVars, lockVars, StartInv, CallerInv
<1>4. TimeupInv'
  BY <1>1, ServingMeans DEF mainVars, lockVars, TimeupInv
<1>5. HasInv' /\ EndInv'
  BY <1>1, ServingMeans DEF mainVars, lockVars, confVars, HasInv, EndInv
<1> QED BY <1>2, <1>3, <1>4, <1>5, ServingMeans

-----------------------------------------------------------------------------
(* The theorems.                                                           *)

LEMMA InitMeans == DaemonInit => DaemonInv /\ ChildInv
<1> SUFFICES ASSUME DaemonInit PROVE DaemonInv /\ ChildInv
  OBVIOUS
<1>1. InfoInv /\ PlugInv
  BY InitInfo, InitPlug DEF DaemonInit
<1>2. TypeOK
  BY <1>1 DEF InfoInv
<1>3. MainTypeOK
  <2>1. signals \in 0 .. MaxSignals /\ has \subseteq Things
    BY DaemonAssumption DEF DaemonInit
  <2>2. thread \in [Threads -> {"none", "run", "exit", "lost"}] /\ main \in Parts
    BY DEF DaemonInit, Parts
  <2>3. conf_lockval = FALSE /\ exit_lockval = FALSE /\ run_thread = FALSE /\ children = FALSE /\ mounted = FALSE
        /\ fusermount = FALSE /\ caller = "none"
    BY DEF DaemonInit
  <2> QED BY <2>1, <2>2, <2>3 DEF MainTypeOK
<1>4. ~Used /\ cleaning = "no"
  BY DEF DaemonInit, Init, Used, Unused, Busy, Adders
<1>5. MainInv /\ ChildInv
  BY <1>4 DEF DaemonInit, MainInv, StartInv, CallerInv, TimeupInv, HasInv, EndInv, ChildInv, Used
<1> QED BY <1>1, <1>2, <1>3, <1>5 DEF DaemonInv, DaemonTypeOK, MainTypeOK

\* The main thread, the outside and the timeup thread, where they leave the
\* rules alone.
MainAside ==
  \/ (Initialize /\ ~InitRules) \/ (\E s \in Parts : InitFails(s)) \/ MountDone \/ MountFails
  \/ Unmount \/ Fusermount \/ SignalAgain
  \/ LoopEnds \/ Signal \/ Delete
  \/ CleanAgain \/ CleanBegin \/ JoinTimeup \/ StopPlugins \/ LockConf \/ CloseParts \/ CleanEnd \/ Members
  \/ TimeupExits

LEMMA NextSplit == DaemonNext => MainAside \/ InitRules \/ CleanInfo \/ Ask_ \/ Serve_ \/ Timeup
BY DEF DaemonNext, MainGoes, CleanMain, MainAside, Initialize

LEMMA AsideLeavesRules == MainAside => UNCHANGED ruleVars
BY DEF MainAside, Initialize, InitFdCache, InitPluginMan, InitTimeup, InitTransfer, InitPlugins, InitFails, MountDone,
   MountFails, Unmount, Fusermount, SignalAgain, LoopEnds, Signal, Delete, CleanAgain, CleanBegin, JoinTimeup,
   StopPlugins, LockConf, CloseParts, CleanEnd, Members, TimeupExits

LEMMA AsideMainKeeps ==
  ASSUME DaemonInv, MainAside
  PROVE  InfoInv' /\ PlugInv' /\ MainTypeOK' /\ MainInv'
<1>1. InfoInv' /\ PlugInv'
  BY AsideLeavesRules, StutterKeeps, OthersPlug DEF DaemonInv
<1>2. CASE \/ Initialize /\ ~InitRules
           \/ \E s \in Parts : InitFails(s)
           \/ MountDone \/ MountFails
  BY <1>1, <1>2, InitializeKeeps, FailureKeeps, MountKeeps
<1>3. CASE Unmount \/ Fusermount \/ SignalAgain \/ LoopEnds \/ Signal \/ Delete
  BY <1>1, <1>3, OutsideKeeps, CallKeeps
<1>4. CASE \/ CleanAgain \/ CleanBegin \/ JoinTimeup \/ StopPlugins \/ LockConf \/ CloseParts \/ CleanEnd \/ Members
           \/ TimeupExits
  BY <1>1, <1>4, CleanMainKeeps, TimeupExitsKeeps
<1> QED BY <1>2, <1>3, <1>4 DEF MainAside

LEMMA NextKeeps ==
  ASSUME DaemonInv, [DaemonNext]_allVars
  PROVE  DaemonInv'
<1>1. CASE DaemonNext
  <2>1. InfoInv' /\ PlugInv' /\ MainTypeOK' /\ MainInv'
    BY <1>1, NextSplit, AsideMainKeeps, InitRulesKeeps, CleanInfoKeeps, ServingKeeps
  <2>2. TypeOK'
    BY <2>1 DEF InfoInv
  <2> QED BY <2>1, <2>2 DEF DaemonInv, DaemonTypeOK, MainTypeOK
<1>2. CASE UNCHANGED allVars
  <2>1. UNCHANGED ruleVars /\ UNCHANGED mainVars
    BY <1>2 DEF allVars
  <2>2. InfoInv' /\ PlugInv'
    BY <2>1, StutterKeeps, OthersPlug DEF DaemonInv
  <2>3. MainTypeOK'
    BY <2>1 DEF mainVars, lockVars, mountVars, DaemonInv, DaemonTypeOK, MainTypeOK
  <2>4. TypeOK'
    BY <2>2 DEF InfoInv
  <2>5. Used' <=> Used
    BY <2>1, RulesAside DEF Used, mainVars, mountVars
  <2>6. MainInv'
    BY <2>1, <2>5, RulesAside DEF mainVars, lockVars, mountVars, DaemonInv, MainInv, StartInv, CallerInv, TimeupInv,
       HasInv, EndInv
  <2> QED BY <2>2, <2>3, <2>4, <2>6 DEF DaemonInv, DaemonTypeOK, MainTypeOK
<1> QED BY <1>1, <1>2

LEMMA ChildKeeps ==
  ASSUME "plugins" \notin Failures, DaemonInv, ChildInv, [DaemonNext]_allVars
  PROVE  ChildInv'
<1> USE DEF DaemonInv, MainInv
<1>1. CASE MainAside
  <2>1. Config' = Config
    BY <1>1, AsideLeavesRules, RulesAside
  <2>2. CASE \/ Initialize /\ ~InitRules
             \/ \E s \in Parts : InitFails(s)
             \/ MountDone \/ MountFails
    BY <2>1, <2>2 DEF Initialize, InitFdCache, InitPluginMan, InitTimeup, InitTransfer, InitPlugins, InitFails, MountDone,
       MountFails, MainAt, ChildInv, StartInv, HasInv, Starting, Parts
  <2>3. CASE Unmount \/ Fusermount \/ SignalAgain \/ LoopEnds \/ Signal \/ Delete \/ TimeupExits
    BY <2>1, <2>3 DEF Unmount, Fusermount, SignalAgain, LoopEnds, Signal, Delete, TimeupExits, MainAt, ChildInv
  <2>4. CASE CleanAgain \/ CleanEnd
    <3>1. exit_lockval /\ main \notin {"join", "stop"} /\ children' = children
      BY <2>4 DEF CleanAgain, CleanEnd, CallerInv
    <3> QED BY <3>1 DEF EndInv, ChildInv
  <2>5. CASE CleanBegin \/ JoinTimeup \/ StopPlugins \/ LockConf \/ CloseParts \/ Members
    BY <2>1, <2>5 DEF CleanBegin, JoinTimeup, StopPlugins, LockConf, CloseParts, Members, MainAt, ChildInv
  <2> QED BY <1>1, <2>2, <2>3, <2>4, <2>5 DEF MainAside
<1>2. CASE InitRules \/ CleanInfo
  BY <1>2 DEF InitRules, CleanInfo, MainAt, ChildInv
<1>3. CASE Ask_ \/ Serve_ \/ Timeup \/ UNCHANGED allVars
  <2>1. UNCHANGED mainVars /\ Config' = Config
    BY <1>3, ServingMeans, RulesAside DEF Ask_, Serve_, Timeup, allVars, confVars
  <2> QED BY <2>1 DEF ChildInv, mainVars
<1> QED BY <1>1, <1>2, <1>3, NextSplit

\* No step of the program miscounts a size.
LEMMA SizeKeeps ==
  ASSUME DaemonInv, SizeInv, [DaemonNext]_allVars
  PROVE  SizeInv'
<1> USE DEF DaemonInv
<1>1. CASE MainAside \/ UNCHANGED allVars
  <2>1. UNCHANGED ruleVars
    BY <1>1, AsideLeavesRules DEF allVars
  <2> QED BY <2>1, OthersSize
<1>2. CASE InitRules
  BY <1>2, LoadSize DEF InitRules
<1>3. CASE CleanInfo \/ Ask_ \/ Timeup
  BY <1>3, OthersSize DEF CleanInfo, Ask_, Timeup
<1>4. CASE Serve_
  BY <1>4, ServeSize DEF Serve_
<1> QED BY <1>1, <1>2, <1>3, <1>4, NextSplit

LEMMA AllowKeeps ==
  ASSUME DaemonInv, AllowInv, [DaemonNext]_allVars
  PROVE  AllowInv' /\ ChangeAllowed
<1> USE DEF DaemonInv, MainInv
<1>1. CASE MainAside \/ UNCHANGED allVars
  <2>1. UNCHANGED ruleVars
    BY <1>1, AsideLeavesRules DEF allVars
  <2> QED BY <2>1, OthersAllowed, OthersChange
<1>2. CASE InitRules
  <2>1. LoadRules /\ main = "rules" /\ main \in Starting
    BY <1>2 DEF InitRules, MainAt, Starting, Parts
  <2>2. \A w \in Workers : ~Busy(w)
    BY <2>1 DEF StartInv, Used, Unused
  <2> QED BY <2>1, <2>2, LoadAllowed, LoadChanges
<1>3. CASE CleanInfo \/ Ask_ \/ Timeup
  BY <1>3, OthersAllowed, OthersChange DEF CleanInfo, Ask_, Timeup
<1>4. CASE Serve_
  BY <1>4, ServeAllowed, ServeChanges DEF Serve_
<1> QED BY <1>1, <1>2, <1>3, <1>4, NextSplit

\* Every variable has its type, those of the rules and those of the main
\* thread.
THEOREM DaemonTypesCorrect == DaemonSpec => []DaemonTypeOK
<1>1. DaemonInv /\ [DaemonNext]_allVars => DaemonInv'
  BY NextKeeps
<1>2. DaemonInv => DaemonTypeOK
  BY DEF DaemonInv
<1> QED BY InitMeans, <1>1, <1>2, PTL DEF DaemonSpec

\* From the open of a file on, until Clean takes the rules away, its handle
\* is the address of the rule that its path has, and nobody has freed that
\* rule but where its plugin could not be started: fuse callbacks may use it
\* without prule_lockval.
THEOREM HandlesStay == DaemonSpec => []HandleStays
<1>1. DaemonInv /\ [DaemonNext]_allVars => DaemonInv'
  BY NextKeeps
<1>2. DaemonInv => HandleStays
  BY InfoMeans DEF DaemonInv
<1> QED BY InitMeans, <1>1, <1>2, PTL DEF DaemonSpec

\* FindPath, ReadDir and the setters follow what the map holds under
\* prule_lockval: it is no address that Clean has freed, nor that of the
\* rule of another path.  The only addresses without a rule are those of
\* files whose plugin could not be started.
THEOREM MapStaysLive == DaemonSpec => []MapIsLive
<1>1. DaemonInv /\ [DaemonNext]_allVars => DaemonInv'
  BY NextKeeps
<1>2. DaemonInv => MapIsLive
  BY InfoMeans DEF DaemonInv
<1> QED BY InitMeans, <1>1, <1>2, PTL DEF DaemonSpec

\* What readdir lists in a directory is what getattr and open find there,
\* with the same attributes, whoever creates, changes or cleans files.
THEOREM ListingsAgree == DaemonSpec => []ListingAgrees
BY ListingMeans, PTL

\* However workers, the timeup thread and truncations interleave in the
\* additions to AccumSize: a value that went through Processing since the
\* last truncation counts at most once, unless it was under way then, and it
\* counts if it met no other one.
THEOREM SizesCount == DaemonSpec => []SizeBounded
<1>1. DaemonInv /\ SizeInv /\ [DaemonNext]_allVars => DaemonInv' /\ SizeInv'
  BY NextKeeps, SizeKeeps
<1>2. SizeInv => SizeBounded
  BY DEF SizeInv
<1>3. DaemonInit => SizeInv
  BY InitSize DEF DaemonInit
<1> QED BY InitMeans, <1>1, <1>2, <1>3, PTL DEF DaemonSpec

\* A rule is made only for somebody who may write and search its directory
\* at that moment, and its mode and owner are changed only by its owner of
\* that moment, although each was checked under an earlier lock.
THEOREM ChangesAllowed == DaemonSpec => ChangedByAllowed
<1>1. DaemonInv /\ AllowInv /\ [DaemonNext]_allVars => DaemonInv' /\ AllowInv' /\ [ChangeAllowed]_ruleVars
  BY NextKeeps, AllowKeeps
<1>2. DaemonInit => AllowInv
  BY InitAllowed DEF DaemonInit
<1> QED BY InitMeans, <1>1, <1>2, PTL DEF DaemonSpec, ChangedByAllowed

\* Clean takes nothing away from the timeup thread in the middle of a value,
\* nor the rules and pipes of plugins that run.
THEOREM UsersFirst ==
  ASSUME "plugins" \notin Failures
  PROVE  DaemonSpec => []UsersGoFirst
<1>1. DaemonInv /\ ChildInv /\ [DaemonNext]_allVars => DaemonInv' /\ ChildInv'
  BY NextKeeps, ChildKeeps
<1>2. DaemonInv /\ ChildInv => UsersGoFirst
  BY DEF DaemonInv, MainInv, TimeupInv, Used, ChildInv, UsersGoFirst
<1> QED BY InitMeans, <1>1, <1>2, PTL DEF DaemonSpec

\* Whichever part Initialize fails to get, and whoever calls Clean: if the
\* main thread comes to its exit, all that was taken has been given back.
THEOREM NothingIsLeft == DaemonSpec => []NothingLeft
<1>1. DaemonInv /\ [DaemonNext]_allVars => DaemonInv'
  BY NextKeeps
<1>2. DaemonInv => NothingLeft
  BY DEF DaemonInv, MainInv, CallerInv, TimeupInv, EndInv, Gone, NothingLeft, Threads
<1> QED BY InitMeans, <1>1, <1>2, PTL DEF DaemonSpec

=============================================================================
