----------------------------- MODULE LineConduit -----------------------------
(***************************************************************************)
(* What k2hftfuse promises for the lines written to its files, without     *)
(* buffers, stacks, batches and threads: a line that a process has         *)
(* finished is accepted; from then on it is pending until it is put out    *)
(* to its file's output, or given up (the rule rejects it, or the output   *)
(* fails).  Each line once.  Nothing is promised about the order between   *)
(* lines that are pending at the same time.                                *)
(***************************************************************************)
EXTENDS Naturals, Sequences

CONSTANTS
  Files,     \* file handles
  Procs,     \* writing processes
  MaxLines   \* [Procs -> Nat]: FairSpec is about lines 1 .. MaxLines[p]

VARIABLES
  accepted,  \* [Files -> [Procs -> Nat]]: how many lines were finished
  pending,   \* accepted lines not settled yet
  emitted,   \* [Files -> sequence of lines]: what was put out
  given_up   \* lines rejected or lost to an error

vars == <<accepted, pending, emitted, given_up>>

LineOf(f, p, n) == [file |-> f, pid |-> p, no |-> n]

Init ==
  /\ accepted = [f \in Files |-> [p \in Procs |-> 0]]
  /\ pending = {}
  /\ emitted = [f \in Files |-> <<>>]
  /\ given_up = {}

\* p finishes its next line on f, and the line is taken or rejected.
Accept(f, p) ==
  LET l == LineOf(f, p, accepted[f][p] + 1)
  IN  /\ accepted' = [accepted EXCEPT ![f][p] = @ + 1]
      /\ \/ pending' = pending \cup {l} /\ UNCHANGED given_up
         \/ given_up' = given_up \cup {l} /\ UNCHANGED pending
      /\ UNCHANGED emitted

Emit(l) ==
  /\ l \in pending
  /\ pending' = pending \ {l}
  /\ emitted' = [emitted EXCEPT ![l.file] = Append(@, l)]
  /\ UNCHANGED <<accepted, given_up>>

GiveUp(L) ==
  /\ L # {}
  /\ L \subseteq pending
  /\ pending' = pending \ L
  /\ given_up' = given_up \cup L
  /\ UNCHANGED <<accepted, emitted>>

Next ==
  \/ \E f \in Files, p \in Procs : Accept(f, p)
  \/ \E l \in pending : Emit(l)
  \/ \E L \in SUBSET pending : GiveUp(L)

Spec == Init /\ [][Next]_vars

\* No line stays pending for ever.
FairSpec ==
  /\ Spec
  /\ \A f \in Files, p \in Procs : \A n \in 1 .. MaxLines[p] :
       LET l == LineOf(f, p, n) IN WF_vars(Emit(l) \/ GiveUp({l}))
=============================================================================
