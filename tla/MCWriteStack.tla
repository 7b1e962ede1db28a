---------------------------- MODULE MCWriteStack ----------------------------
(* Instances of WriteStack for TLC. *)
EXTENDS WriteStack, TLC

CONSTANTS f1, f2, p1, p2, o1, o2

\* Two writers of one file, each with its own descriptor.
OneFile    == [o \in {o1, o2} |-> f1]
PrivateFds == (o1 :> {p1}) @@ (o2 :> {p2})
\* The release of o1 comes with the pid of its writer, that of o2 with any.
OwnOrAny   == (o1 :> {p1}) @@ (o2 :> {p1, p2})

\* One writer with two files.
TwoFiles   == (o1 :> f1) @@ (o2 :> f2)
OneWriter  == [o \in {o1, o2} |-> {p1}]
\* One descriptor that both processes inherited.
OneOpen    == [o \in {o1} |-> f1]
SharedFd   == [o \in {o1} |-> {p1, p2}]

\* How many lines each process finishes.
TwoAndOne  == (p1 :> 2) @@ (p2 :> 1)
OneEach    == [p \in {p1, p2} |-> 1]
OneLine    == [p \in {p1} |-> 1]
=============================================================================
