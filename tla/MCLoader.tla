------------------------------ MODULE MCLoader ------------------------------
(* Configurations for Loader: paths d, d/f, d/g and g under the mount point. *)
EXTENDS Loader

AllWords ==
  {"", "?", "yes", "no", "mem", "temp", "file", "good", "bad", "allow", "deny", "single", "long", "p", "q", "cat", "tee",
   "d", "d/f", "g", "d/", "d/g", "/disk/", "/disk/f", "/none/f"}
AllTargets == {"d", "d/f", "g"}
Parents == [p \in {"d", "d/f", "d/g", "g"} |-> IF p \in {"d/f", "d/g"} THEN "d" ELSE ""]
Out(under, path, slash) == [under |-> under, path |-> path, slash |-> slash]
AllOutputs ==
  [o \in {"", "d/", "d/g", "g", "/disk/", "/disk/f", "/none/f"} |->
     CASE o = "d/" -> Out(TRUE, "d", TRUE)
       [] o = "/disk/" -> Out(FALSE, "/disk", TRUE)
       [] o \in {"/disk/f", "/none/f"} -> Out(FALSE, o, FALSE)
       [] OTHER -> Out(TRUE, o, FALSE)]
CanMake == {"/disk", "/disk/f"}

\* Main sections.
Mains == <<
  <<>>,
  <<<<"K2HTYPE", "file">>, <<"K2HFILE", "p">>, <<"K2HINIT", "no">>>>,
  <<<<"K2HFILE", "p">>>>,
  <<<<"K2HFILE", "p">>, <<"K2HTYPE", "temp">>, <<"K2HFULLMAP", "no">>>>,
  <<<<"K2HTYPE", "?">>, <<"BINTRANS", "no">>, <<"BINTRANS", "yes">>, <<"CHECKED", "good">>>>,
  <<<<"BINTRANS", "?">>, <<"CHECKED", "bad">>>> >>

\* Rules.
Bodies == <<
  <<<<"TARGET", "d">>, <<"TRUNS", "yes">>, <<"OUTPUTFILE", "/disk/">>, <<"ALLOW", "p">>, <<"DENY", "">>, <<"ALLOW", "q">>>>,
  <<<<"TARGET", "d/f">>, <<"OUTPUTFILE", "d/g">>, <<"DEFAULTALL", "allow">>, <<"DENY", "q">>, <<"ALLOW", "">>, <<"DENY", "p">>>>,
  <<<<"TARGET", "g">>, <<"PLUGIN", "cat">>, <<"OUTPUTFILE", "/disk/f">>, <<"DEFAULTALL", "?">>, <<"DENY", "p">>>>,
  <<<<"PLUGIN", "cat">>, <<"TARGET", "g">>, <<"PLUGIN", "tee">>, <<"OUTPUTFILE", "d/">>, <<"DEFAULTALL", "allow">>>>,
  <<<<"TARGET", "d">>, <<"TARGET", "d/f">>, <<"PLUGIN", "">>, <<"ALLOW", "?">>, <<"ALLOW", "long">>, <<"OUTPUTFILE", "/none/f">>>>,
  <<<<"TARGET", "g">>, <<"PLUGIN", "tee">>, <<"TRUNS", "yes">>, <<"TRUNS", "no">>, <<"OUTPUTFILE", "g">>>>,
  <<<<"TARGET", "d/f">>, <<"DEFAULTALL", "allow">>, <<"DENY", "p">>, <<"DENY", "?">>, <<"DENY", "">>, <<"OUTPUTFILE", "g">>>>,
  <<<<"TARGET", "g">>, <<"DENY", "single">>, <<"DEFAULTALL", "allow">>>> >>

Group(dir, rules) == [dir |-> dir, rules |-> rules]
OneGroup == {<<Group(x, <<Bodies[i]>>)>> : x \in BOOLEAN, i \in DOMAIN Bodies}
OneArray == {<<Group(x, <<Bodies[i], Bodies[j]>>)>> : x \in BOOLEAN, i, j \in DOMAIN Bodies}
TwoGroups == {f \o s : f, s \in OneGroup}

Doc(m, last, twice, groups) == [main |-> Mains[m], main_last |-> last, twice |-> twice, groups |-> groups]

AllDocs ==
  {Doc(m, last, FALSE, gs) : m \in DOMAIN Mains, last \in BOOLEAN, gs \in {<<>>} \cup OneArray \cup TwoGroups}
    \cup {Doc(m, FALSE, TRUE, gs) : m \in DOMAIN Mains, gs \in OneGroup}

\* A rule of the sample configuration: lines with one of two patterns go out.
Sample ==
  LET rule == <<<<"TARGET", "d/f">>, <<"DEFAULTALL", "deny">>, <<"ALLOW", "p">>, <<"ALLOW", "q">>>>
  IN  {Doc(1, FALSE, FALSE, <<Group(FALSE, <<rule>>)>>)}
=============================================================================
