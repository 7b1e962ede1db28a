------------------------------- MODULE Loader -------------------------------
(***************************************************************************)
(* The configuration: K2hFtInfo::LoadIni and LoadYaml (k2hftinfo.cc).      *)
(*                                                                         *)
(* Two loaders read the same configuration in two forms.  An INI file is a *)
(* list of lines: sections, each with its keys up to the next section.  In *)
(* YAML and JSON the rules are arrays inside of the main section, and the  *)
(* loader follows the events of libyaml with a function per level.  Both   *)
(* fill in the members and RuleMap as they read, give each plugin to the   *)
(* plugin manager at once, and call Clean when something is wrong.         *)
(*                                                                         *)
(* Abstractions.  The keys that only store a number are left out; those    *)
(* that refuse a bad value are one key, "CHECKED".  A value is a member of *)
(* a small set, "?" one that the loaders warn of and skip.  A pattern with *)
(* more than two strings is "long", one with a single string that is a     *)
(* list in YAML is "single".  In YAML a key and its value are one event,   *)
(* and a list of patterns is the key once for each.  Every rule has a      *)
(* TARGET, sections of other programs are left out, and libyaml finds      *)
(* nothing wrong with the file.                                            *)
(***************************************************************************)
EXTENDS Integers, Sequences, FiniteSets, SequencesExt

CONSTANTS
  Docs,      \* configurations, whatever the form
  Words,     \* the values of keys
  Targets,   \* the values of TARGET, paths under the mount point
  Outputs,   \* [values of OUTPUTFILE -> [under, path, slash]]
  ParentOf,  \* [paths -> paths], get_parent_dirpath
  Makeable   \* paths outside whose directories and files can be made

NoPlugin == 0
MainKeys == {"K2HTYPE", "K2HFILE", "K2HFULLMAP", "K2HINIT", "BINTRANS", "CHECKED"}
RuleKeys == {"TARGET", "TRUNS", "OUTPUTFILE", "PLUGIN", "DEFAULTALL", "ALLOW", "DENY"}

Groups == [dir : BOOLEAN, rules : Seq(Seq(RuleKeys \X Words))]
Documents == [main : Seq(MainKeys \X Words), main_last : BOOLEAN, twice : BOOLEAN, groups : Seq(Groups)]

ASSUME DocAssumption ==
  \A d \in Docs :
    /\ d \in Documents
    /\ \A g \in DOMAIN d.groups : \A r \in DOMAIN d.groups[g].rules :
         LET targets == {i \in DOMAIN d.groups[g].rules[r] : d.groups[g].rules[r][i][1] = "TARGET"}
         IN  targets # {} /\ \A i \in targets : d.groups[g].rules[r][i][2] \in Targets

VARIABLES
  doc, form,              \* the configuration and how it is written down
  rest,                   \* the lines or events that are still to be read
  at,                     \* the function or loop the loader is in
  set_main_sec,
  members,                \* IsMemType, K2hFilePath, IsInitialize, IsFullmap, IsBinaryMode
  RuleMap,
  is_dir_rule, pTmpRule, AllowMatchs, DenyMatchs,
  stop_plugin,            \* the plugin manager's list; a plugin is a place in it
  freed,                  \* plugins that are in the list and deleted
  Config, result

inputVars == <<doc, form>>
sectionVars == <<is_dir_rule, pTmpRule, AllowMatchs, DenyMatchs>>
keptVars == <<members, RuleMap, stop_plugin, freed>>
vars == <<inputVars, rest, at, set_main_sec, sectionVars, keptVars, Config, result>>

-----------------------------------------------------------------------------
(* The two forms of a configuration.                                       *)

Mark(t) == [t |-> t, key |-> "", value |-> ""]
Items(s) == [i \in DOMAIN s |-> [t |-> "item", key |-> s[i][1], value |-> s[i][2]]]
Kind(dir) == IF dir THEN "dir" ELSE "rule"
MainSec(d) == <<Mark("main")>> \o Items(d.main)
Again(d, s) == IF d.twice THEN s ELSE <<>>

IniRuleText(dir, items) == <<Mark(Kind(dir))>> \o Items(items)
IniGroupText(g) == FlattenSeq([r \in DOMAIN g.rules |-> IniRuleText(g.dir, g.rules[r])])

AsIni(d) ==
  LET rules == FlattenSeq([n \in DOMAIN d.groups |-> IniGroupText(d.groups[n])])
  IN  (IF d.main_last THEN rules \o MainSec(d) ELSE MainSec(d) \o rules) \o Again(d, MainSec(d))

YamlRuleText(items) == <<Mark("{")>> \o Items(items) \o <<Mark("}")>>
YamlGroupText(g) ==
  <<Mark(Kind(g.dir))>> \o FlattenSeq([r \in DOMAIN g.rules |-> YamlRuleText(g.rules[r])]) \o <<Mark("]")>>

AsYaml(d) ==
  LET rules == FlattenSeq([n \in DOMAIN d.groups |-> YamlGroupText(d.groups[n])])
  IN  <<Mark("main")>>
        \o (IF d.main_last THEN rules \o Items(d.main) ELSE Items(d.main) \o rules)
        \o <<Mark("}")>> \o Again(d, MainSec(d) \o <<Mark("}")>>)

NewRule == [TargetPath |-> "", dir |-> FALSE, IsTransfer |-> FALSE, OutputPath |-> "",
            pPlugin |-> NoPlugin, DefaultDenyAll |-> TRUE, MatchingList |-> <<>>]
NoMembers == [mem |-> TRUE, file |-> "", init |-> TRUE, fullmap |-> TRUE, binary |-> FALSE]
NoRules == [t \in {} |-> NewRule]

Init ==
  /\ doc \in Docs
  /\ form \in {"ini", "yaml"}
  /\ rest = IF form = "ini" THEN AsIni(doc) ELSE AsYaml(doc)
  /\ at = "top"
  /\ set_main_sec = FALSE
  /\ members = NoMembers
  /\ RuleMap = NoRules
  /\ is_dir_rule = FALSE
  /\ pTmpRule = NewRule
  /\ AllowMatchs = <<>>
  /\ DenyMatchs = <<>>
  /\ stop_plugin = <<>>
  /\ freed = {}
  /\ Config = FALSE
  /\ result = "loading"

-----------------------------------------------------------------------------
(* What one key does, in both loaders.                                     *)

Flag(old, value) == IF value \in {"yes", "no"} THEN value = "yes" ELSE old

MainValue(m, key, value) ==
  CASE key = "K2HTYPE" /\ value = "mem"  -> [m EXCEPT !.mem = TRUE, !.file = ""]
    [] key = "K2HTYPE" /\ value = "temp" -> [m EXCEPT !.mem = FALSE, !.file = ""]
    [] key = "K2HTYPE" /\ value = "file" -> [m EXCEPT !.mem = FALSE]
    [] key = "K2HFILE"    -> [m EXCEPT !.file = value]
    [] key = "K2HFULLMAP" -> [m EXCEPT !.fullmap = Flag(@, value)]
    [] key = "K2HINIT"    -> [m EXCEPT !.init = Flag(@, value)]
    [] key = "BINTRANS"   -> [m EXCEPT !.binary = Flag(@, value)]
    [] OTHER -> m

\* A number that is too small, or a k2hdtor library that is not there.
IsRefused(key, value) == key = "CHECKED" /\ value = "bad"

\* The check of the main values.
MembersAgree(m) ==
  /\ ~(m.mem /\ m.file # "")
  /\ m.file = "" => m.init /\ m.fullmap

\* TARGET, TRUNS, OUTPUTFILE and DEFAULTALL.
RuleValue(r, key, value) ==
  CASE key = "TARGET"     -> [r EXCEPT !.TargetPath = value]
    [] key = "TRUNS"      -> [r EXCEPT !.IsTransfer = Flag(@, value)]
    [] key = "OUTPUTFILE" -> [r EXCEPT !.OutputPath = value]
    [] key = "DEFAULTALL" /\ value = "deny"  -> [r EXCEPT !.DefaultDenyAll = TRUE]
    [] key = "DEFAULTALL" /\ value = "allow" -> [r EXCEPT !.DefaultDenyAll = FALSE]
    [] OTHER -> r

\* PLUGIN: a second one deletes the first, which stays in the list of the
\* plugin manager; one that AddPluginInfo refuses ("") is deleted at once.
PluginKey(value) ==
  /\ freed' = freed \cup ({pTmpRule.pPlugin} \ {NoPlugin})
  /\ IF value = ""
       THEN /\ pTmpRule' = [pTmpRule EXCEPT !.pPlugin = NoPlugin]
            /\ UNCHANGED stop_plugin
       ELSE /\ stop_plugin' = Append(stop_plugin, value)
            /\ pTmpRule' = [pTmpRule EXCEPT !.pPlugin = Len(stop_plugin) + 1]

\* The patterns that build_k2hft_match_pattern makes of one value.
Patterns(value) == IF value \in {"?", "long"} THEN <<>> ELSE <<value>>

\* Mutant of MatchingList: the patterns of the other kind are not dropped.
MatchingListBoth(deny_all, allow, deny) == allow \o deny

\* Of the patterns, only those count that make an exception to the default.
MatchingList(deny_all, allow, deny) == IF deny_all THEN allow ELSE deny

Finished == [pTmpRule EXCEPT !.dir = is_dir_rule,
               !.MatchingList = MatchingList(pTmpRule.DefaultDenyAll, AllowMatchs, DenyMatchs)]

PutRule(map, r) == [t \in DOMAIN map \cup {r.TargetPath} |-> IF t = r.TargetPath THEN r ELSE map[t]]

PluginsOf(map) == {map[t].pPlugin : t \in DOMAIN map} \ {NoPlugin}

\* Mutant of SetRule: the rule that is overwritten is deleted, with its plugin.
SetRuleDeletes ==
  /\ RuleMap' = PutRule(RuleMap, Finished)
  /\ freed' = freed \cup (PluginsOf(RuleMap) \ PluginsOf(RuleMap'))
  /\ UNCHANGED <<members, stop_plugin>>

\* The end of a rule: a rule of the same target is overwritten, and stays in
\* memory, where nobody finds it any more.
SetRule ==
  /\ RuleMap' = PutRule(RuleMap, Finished)
  /\ UNCHANGED <<members, stop_plugin, freed>>

\* InitializeOutputFiles: an output outside of the mount point can be made, and
\* one under it is the target of a rule or lies in the directory of one.
OutputFound(map, r) ==
  LET o == Outputs[r.OutputPath]
      as_dir == r.dir /\ o.slash
  IN  CASE r.OutputPath = "" -> TRUE
        [] r.OutputPath # "" /\ ~o.under -> o.path \in Makeable /\ (o.slash => r.dir)
        [] as_dir /\ o.under ->
             \E t \in DOMAIN map : o.path = IF map[t].dir THEN t ELSE ParentOf[t]
        [] OTHER ->
             /\ ~o.slash
             /\ \E t \in DOMAIN map : t = IF map[t].dir THEN ParentOf[o.path] ELSE o.path

InitializeOutputFiles(map) == \A t \in DOMAIN map : OutputFound(map, map[t])

\* CheckBinaryMode
WithoutMatching(map) == [t \in DOMAIN map |-> [map[t] EXCEPT !.MatchingList = <<>>]]
CheckBinaryMode(map) == IF members.binary THEN WithoutMatching(map) ELSE map

\* Mutant of Clean: the map keeps the deleted rules.
CleanKeepsRules ==
  /\ members' = [NoMembers EXCEPT !.binary = members.binary]
  /\ freed' = freed \cup PluginsOf(RuleMap)
  /\ UNCHANGED <<RuleMap, stop_plugin>>

\* K2hFtInfo::Clean deletes the rules with their plugins; IsBinaryMode stays.
Clean ==
  /\ members' = [NoMembers EXCEPT !.binary = members.binary]
  /\ RuleMap' = NoRules
  /\ freed' = freed \cup PluginsOf(RuleMap)
  /\ UNCHANGED stop_plugin

-----------------------------------------------------------------------------
(* Steps of either loader.                                                 *)

Next1(t) == rest # <<>> /\ Head(rest).t = t
Key == Head(rest).key
Value == Head(rest).value
Read == rest' = Tail(rest)

Fail ==
  /\ Clean
  /\ at' = "end"
  /\ result' = "false"
  /\ UNCHANGED <<inputVars, rest, set_main_sec, sectionVars, Config>>

Load ==
  /\ Config' = TRUE
  /\ at' = "end"
  /\ result' = "true"
  /\ UNCHANGED <<inputVars, rest, set_main_sec, sectionVars>>

\* A key of the main section.
MainKey ==
  /\ ~IsRefused(Key, Value)
  /\ members' = MainValue(members, Key, Value)
  /\ Read
  /\ UNCHANGED <<inputVars, at, set_main_sec, sectionVars, RuleMap, stop_plugin, freed, Config, result>>

\* A key of a rule, but for ALLOW and DENY.
RuleKey ==
  /\ Key \notin {"ALLOW", "DENY"}
  /\ Read
  /\ IF Key = "PLUGIN"
       THEN PluginKey(Value)
       ELSE pTmpRule' = RuleValue(pTmpRule, Key, Value) /\ UNCHANGED <<stop_plugin, freed>>
  /\ UNCHANGED <<inputVars, at, set_main_sec, is_dir_rule, AllowMatchs, DenyMatchs, members, RuleMap,
                 Config, result>>

NewSection(to) ==
  /\ at' = to
  /\ pTmpRule' = NewRule
  /\ AllowMatchs' = <<>>
  /\ DenyMatchs' = <<>>

-----------------------------------------------------------------------------
(* LoadIni.                                                                *)

IniMain ==
  /\ at = "top" /\ Next1("main") /\ ~set_main_sec
  /\ at' = "main"
  /\ set_main_sec' = TRUE
  /\ Read
  /\ UNCHANGED <<inputVars, sectionVars, keptVars, Config, result>>

IniSecondMain == at = "top" /\ Next1("main") /\ set_main_sec /\ Fail

IniMainKey == at = "main" /\ Next1("item") /\ MainKey

IniMainRefused == at = "main" /\ Next1("item") /\ IsRefused(Key, Value) /\ Fail

IniMainEnd ==
  /\ at = "main" /\ ~Next1("item")
  /\ IF members.mem /\ members.file # ""
       THEN Fail
       ELSE at' = "top" /\ UNCHANGED <<inputVars, rest, set_main_sec, sectionVars, keptVars, Config, result>>

IniRule ==
  /\ at = "top" /\ \E dir \in BOOLEAN : Next1(Kind(dir)) /\ is_dir_rule' = dir
  /\ NewSection("rule")
  /\ Read
  /\ UNCHANGED <<inputVars, set_main_sec, keptVars, Config, result>>

IniRuleKey == at = "rule" /\ Next1("item") /\ RuleKey

IniRuleAcl ==
  /\ at = "rule" /\ Next1("item") /\ Key \in {"ALLOW", "DENY"}
  /\ IF Key = "ALLOW"
       THEN AllowMatchs' = AllowMatchs \o Patterns(Value) /\ UNCHANGED DenyMatchs
       ELSE DenyMatchs' = DenyMatchs \o Patterns(Value) /\ UNCHANGED AllowMatchs
  /\ Read
  /\ UNCHANGED <<inputVars, at, set_main_sec, is_dir_rule, pTmpRule, keptVars, Config, result>>

IniRuleEnd ==
  /\ at = "rule" /\ ~Next1("item")
  /\ SetRule
  /\ at' = "top"
  /\ UNCHANGED <<inputVars, rest, set_main_sec, sectionVars, Config, result>>

IniEnd ==
  /\ at = "top" /\ rest = <<>>
  /\ IF MembersAgree(members) /\ InitializeOutputFiles(RuleMap)
       THEN Load /\ RuleMap' = CheckBinaryMode(RuleMap) /\ UNCHANGED <<members, stop_plugin, freed>>
       ELSE Fail

LoadIni ==
  /\ form = "ini"
  /\ \/ IniMain \/ IniSecondMain \/ IniMainKey \/ IniMainRefused \/ IniMainEnd
     \/ IniRule \/ IniRuleKey \/ IniRuleAcl \/ IniRuleEnd \/ IniEnd

-----------------------------------------------------------------------------
(* LoadYaml.                                                               *)

\* LoadYamlTopLevel: is_set_main is never set, and a second section is read.
YamlMain ==
  /\ at = "top" /\ Next1("main")
  /\ at' = "main"
  /\ Read
  /\ UNCHANGED <<inputVars, set_main_sec, sectionVars, keptVars, Config, result>>

YamlMainKey == at = "main" /\ Next1("item") /\ MainKey

YamlMainRefused == at = "main" /\ Next1("item") /\ IsRefused(Key, Value) /\ Fail

YamlMainEnd ==
  /\ at = "main" /\ Next1("}")
  /\ IF MembersAgree(members)
       THEN /\ at' = "top"
            /\ Read
            /\ UNCHANGED <<inputVars, set_main_sec, sectionVars, keptVars, Config, result>>
       ELSE Fail

\* LoadYamlMainSec clears the key before it looks which of the two it was, and
\* calls LoadYamlRuleSec with is_dir_rule FALSE.
YamlRules ==
  /\ at = "main" /\ \E dir \in BOOLEAN : Next1(Kind(dir))
  /\ at' = "group"
  /\ is_dir_rule' = FALSE
  /\ Read
  /\ UNCHANGED <<inputVars, set_main_sec, pTmpRule, AllowMatchs, DenyMatchs, keptVars, Config, result>>

YamlRule ==
  /\ at = "group" /\ Next1("{")
  /\ NewSection("rule")
  /\ Read
  /\ UNCHANGED <<inputVars, set_main_sec, is_dir_rule, keptVars, Config, result>>

YamlRuleKey == at = "rule" /\ Next1("item") /\ RuleKey

\* LoadYamlAclOneValue takes two strings of a list, and its end must follow.
NotTwo == {"single", "long"}

\* LoadYamlRuleSec clears the key before it looks which of the two it was, and
\* LoadYamlAclPart puts every pattern into DenyMatchs.
YamlRuleAcl ==
  /\ at = "rule" /\ Next1("item") /\ Key \in {"ALLOW", "DENY"} /\ Value \notin NotTwo
  /\ DenyMatchs' = DenyMatchs \o Patterns(Value)
  /\ Read
  /\ UNCHANGED <<inputVars, at, set_main_sec, is_dir_rule, pTmpRule, AllowMatchs, keptVars, Config, result>>

\* The load fails with such a list.
YamlAclRefused ==
  /\ at = "rule" /\ Next1("item") /\ Key \in {"ALLOW", "DENY"} /\ Value \in NotTwo
  /\ Fail

YamlRuleEnd ==
  /\ at = "rule" /\ Next1("}")
  /\ SetRule
  /\ at' = "group"
  /\ Read
  /\ UNCHANGED <<inputVars, set_main_sec, sectionVars, Config, result>>

\* The outputs are looked at for the rules so far; when one is not found, Clean
\* is called and the loader goes on as if nothing had happened.
YamlRulesEnd ==
  /\ at = "group" /\ Next1("]")
  /\ IF InitializeOutputFiles(RuleMap)
       THEN RuleMap' = CheckBinaryMode(RuleMap) /\ UNCHANGED <<members, stop_plugin, freed>>
       ELSE Clean
  /\ at' = "main"
  /\ Read
  /\ UNCHANGED <<inputVars, set_main_sec, sectionVars, Config, result>>

YamlEnd == at = "top" /\ rest = <<>> /\ Load /\ UNCHANGED keptVars

LoadYaml ==
  /\ form = "yaml"
  /\ \/ YamlMain \/ YamlMainKey \/ YamlMainRefused \/ YamlMainEnd \/ YamlRules \/ YamlRule
     \/ YamlRuleKey \/ YamlRuleAcl \/ YamlAclRefused \/ YamlRuleEnd \/ YamlRulesEnd \/ YamlEnd

Next == LoadIni \/ LoadYaml

Spec == Init /\ [][Next]_vars

-----------------------------------------------------------------------------
(* What a configuration means.                                             *)

Positions(items, key, values) == {i \in DOMAIN items : items[i][1] = key /\ items[i][2] \in values}

Greatest(I) == CHOOSE i \in I : \A j \in I : j <= i

\* The last value of a key that means something.
LastValue(items, key, values, default) ==
  LET I == Positions(items, key, values)
  IN  IF I = {} THEN default ELSE items[Greatest(I)][2]

Values(items, key) == {items[i][2] : i \in {j \in DOMAIN items : items[j][1] = key}}
AnyValue(items, key, default) == LastValue(items, key, Values(items, key), default)
IsYes(items, key, default) == LastValue(items, key, {"yes", "no"}, default) = "yes"

\* A file counts if no other type of k2hash is named behind it.
MeantFile(items) ==
  LET clears == Positions(items, "K2HTYPE", {"mem", "temp"})
  IN  AnyValue([i \in DOMAIN items |-> IF \E j \in clears : j > i THEN <<"", "">> ELSE items[i]], "K2HFILE", "")

MeantMembers(items) ==
  [mem |-> LastValue(items, "K2HTYPE", {"mem", "temp", "file"}, "mem") = "mem",
   file |-> MeantFile(items),
   init |-> IsYes(items, "K2HINIT", "yes"), fullmap |-> IsYes(items, "K2HFULLMAP", "yes"),
   binary |-> IsYes(items, "BINTRANS", "no")]

\* The patterns of ALLOW or DENY that mean something, in order.
MeantPatterns(items, key) ==
  FlattenSeq([i \in DOMAIN items |->
                IF items[i][1] = key /\ items[i][2] \notin {"?", "long"} THEN <<items[i][2]>> ELSE <<>>])

MeantRule(dir, items, binary) ==
  LET deny_all == LastValue(items, "DEFAULTALL", {"allow", "deny"}, "deny") = "deny"
  IN  [TargetPath |-> AnyValue(items, "TARGET", ""), dir |-> dir,
       IsTransfer |-> IsYes(items, "TRUNS", "no"), OutputPath |-> AnyValue(items, "OUTPUTFILE", ""),
       pPlugin |-> AnyValue(items, "PLUGIN", ""), DefaultDenyAll |-> deny_all,
       MatchingList |-> IF binary THEN <<>> ELSE MeantPatterns(items, IF deny_all THEN "ALLOW" ELSE "DENY")]

\* The places of the rules in the first n groups, and their order.
Places(d, n) == UNION {{g} \X DOMAIN d.groups[g].rules : g \in 1 .. n}
Before(p, q) == p[1] < q[1] \/ (p[1] = q[1] /\ p[2] < q[2])

RuleAt(d, p, binary) == MeantRule(d.groups[p[1]].dir, d.groups[p[1]].rules[p[2]], binary)

\* Of several rules for a target the last one counts.
RulesAt(d, places, binary) ==
  LET for(t) == {p \in places : RuleAt(d, p, binary).TargetPath = t}
      last(t) == CHOOSE p \in for(t) : \A q \in for(t) : ~Before(p, q)
  IN  [t \in {RuleAt(d, p, binary).TargetPath : p \in places} |-> RuleAt(d, last(t), binary)]

MeantRules(d, n) == RulesAt(d, Places(d, n), MeantMembers(d.main).binary)

MayLoad(d) ==
  /\ ~d.twice
  /\ "bad" \notin Values(d.main, "CHECKED")
  /\ MembersAgree(MeantMembers(d.main))
  /\ InitializeOutputFiles(MeantRules(d, Len(d.groups)))

\* The rules that were loaded, with the plugins by name.
Loaded ==
  [t \in DOMAIN RuleMap |->
     [RuleMap[t] EXCEPT !.pPlugin = IF @ = NoPlugin THEN "" ELSE stop_plugin[@]]]

AsMeant ==
  IF MayLoad(doc)
    THEN result = "true" /\ members = MeantMembers(doc.main) /\ Loaded = MeantRules(doc, Len(doc.groups))
    ELSE result = "false" /\ DOMAIN RuleMap = {} /\ ~Config

\* The outputs are found in the rules of the arrays so far.
FoundSoFar(d) == \A n \in DOMAIN d.groups : InitializeOutputFiles(MeantRules(d, n))

\* Configurations without what LoadYaml does otherwise.
Plain(d) ==
  /\ ~d.twice
  /\ FoundSoFar(d)
  /\ d.main_last => ~MeantMembers(d.main).binary
  /\ \A g \in DOMAIN d.groups :
       /\ ~d.groups[g].dir
       /\ \A r \in DOMAIN d.groups[g].rules :
            LET items == d.groups[g].rules[r]
            IN  Values(items, "ALLOW") \subseteq {"?"} /\ Values(items, "DENY") \cap NotTwo = {}

\* Whatever the order of sections and keys, repeated, unknown and wrong ones
\* included, the members and the rules are what the configuration says: for
\* each target those of its last rule, with the patterns that make an exception
\* to its default, in order.  A configuration that says something impossible is
\* refused, and leaves no rule behind.  LoadYaml does the same without directory
\* rules, ALLOW, lists that have not two strings, a second main section and outputs that
\* only a later array makes valid.
LoadMatchesReference == result # "loading" /\ (form = "ini" \/ Plain(doc)) => AsMeant

\* A rule names this plugin, and another one behind it.
Replaced(d, plugin) ==
  \E g \in DOMAIN d.groups : \E r \in DOMAIN d.groups[g].rules :
    LET items == d.groups[g].rules[r]
    IN  \E i, j \in DOMAIN items : i < j /\ items[i] = <<"PLUGIN", plugin>> /\ items[j][1] = "PLUGIN"

\* Plugins are deleted while rules are read, by a second PLUGIN and by a Clean
\* after which LoadYaml goes on.  Whatever was deleted, the plugin of a rule in
\* RuleMap has not been and belongs to no other rule: lines are given to it, and
\* Clean deletes it with its rule.  The plugin manager keeps the pointer to every
\* plugin it was given and starts each when the load is over; after LoadIni, and
\* after LoadYaml for the configurations above, the deleted ones among them are
\* some that another PLUGIN of the same rule has replaced, and no others.
PluginsLive ==
  /\ \A t \in DOMAIN RuleMap : RuleMap[t].pPlugin \notin freed
  /\ \A t, u \in DOMAIN RuleMap :
       RuleMap[t].pPlugin = RuleMap[u].pPlugin => t = u \/ RuleMap[t].pPlugin = NoPlugin
  /\ result = "true" /\ (form = "ini" \/ Plain(doc)) => \A k \in freed : Replaced(doc, stop_plugin[k])

\* "ALLOW  allowed rule, rule is static string or regex" and "K2HFTFUSE_RULE_DIR"
\* (tests/k2hftfuse_test_slave.yaml): the YAML form means what the INI form does.
YamlMatchesReference == form = "yaml" /\ result # "loading" => AsMeant
=============================================================================
