------------------------------ MODULE MCDaemon ------------------------------
(* Instances of Daemon for TLC: the mount point, a directory with a rule,  *)
(* a file in it, and a directory that is only on the way to another rule.  *)
EXTENDS Daemon, TLC

CONSTANTS w1, w2, root, ann, bob, g

D == <<"d">>
DF == <<"d", "f">>
DN == <<"d", "n">>
M == <<"m">>
ME == <<"m", "e">>
MX == <<"m", "x">>
T == <<"t">>
MEY == <<"m", "e", "y">>
DNZ == <<"d", "n", "z">>
InOrder == <<D, DF, DN, DNZ, M, ME, MEY, MX, T>>
AllPaths == {InOrder[k] : k \in DOMAIN InOrder}
OrderOf == [p \in AllPaths |-> CHOOSE k \in DOMAIN InOrder : InOrder[k] = p]

Rwx == {"u", "g", "o"} \X {"r", "w", "x"}
Private == {"u"} \X {"r", "w"}
Closed == Rwx \ {<<"g", "w">>, <<"o", "w">>}

StatOf(d, m, u) == [dir |-> d, mode |-> m, uid |-> u, gid |-> g]
\* The size of a directory is that of a page.
RuleOf(st, pl) ==
  [stat |-> st, plugin |-> pl, AccumSize |-> IF st.dir THEN 4 ELSE 0, LastTime |-> "now"]

TwoRules == <<[path |-> D, rule |-> RuleOf(StatOf(TRUE, Rwx, root), TRUE)],
              [path |-> DF, rule |-> RuleOf(StatOf(FALSE, Private, ann), FALSE)],
              [path |-> ME, rule |-> RuleOf(StatOf(TRUE, Closed, root), FALSE)]>>
ClosedMount == StatOf(TRUE, Closed, root)
OpenMount == StatOf(TRUE, Rwx, root)
EveryG == [u \in {root, ann, bob} |-> g]
NoMember == {}

Req(o, p, u) == [op |-> o, path |-> p, uid |-> u]
Fun(o, p, u, k, v) == Req(o, p, u) @@ (k :> v)

Several == {
  Req("look", DF, bob),
  Fun("chmod", DF, bob, "mode", Rwx),
  Fun("chown", DF, root, "owner", bob) @@ ("group" :> -1), Req("utimens", DF, ann),
  Req("truncate", DF, ann), Req("write", DF, ann), Req("fsync", DF, ann), Req("release", DF, ann),
  Fun("open", DF, ann, "mode", Private), Fun("create", DN, bob, "mode", Private),
  Fun("create", MX, root, "mode", Private), Fun("create", MEY, bob, "mode", Private),
  Fun("create", MEY, root, "mode", Private),
  \* About the file whose plugin may fail, and below it.
  Fun("open", DN, bob, "mode", Private), Fun("chmod", DN, bob, "mode", Rwx),
  Fun("create", DNZ, root, "mode", Private)}
\* One file right under the mount point, and one that is only looked at.
TopOnly == {Fun("create", T, bob, "mode", Private), Req("look", ME, ann)}
\* A file that is opened, and may be closed.
OpenClose == {Fun("open", DF, ann, "mode", Private), Req("release", DF, ann)}
=============================================================================
