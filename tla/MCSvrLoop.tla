----------------------------- MODULE MCSvrLoop -----------------------------
(* Instances of SvrLoop for TLC. *)
EXTENDS SvrLoop

\* Text on both sides, to a file.
Text == [binmode |-> FALSE, limit |-> 0, deny |-> {}, svrbin |-> FALSE, format |-> "none",
         file |-> TRUE, plugin |-> FALSE, trans |-> FALSE, fails |-> FALSE]

Binary  == [Text EXCEPT !.binmode = TRUE, !.svrbin = TRUE]
Limited == [Text EXCEPT !.limit = 3, !.format = "header", !.fails = TRUE]
Trimmed == [Text EXCEPT !.deny = {"CR"}, !.format = "trim", !.plugin = TRUE, !.fails = TRUE]
Both    == [Text EXCEPT !.format = "trim", !.trans = TRUE]
OnlyTrans == [Text EXCEPT !.file = FALSE, !.trans = TRUE]
\* The two programs disagree on the mode; binary mode with a format.
Mixed   == [Text EXCEPT !.binmode = TRUE, !.format = "header"]
Refuses == [Binary EXCEPT !.format = "header"]

AllConfs == {Text, Binary, Limited, Trimmed, Both, OnlyTrans, Mixed, Refuses}
=============================================================================
