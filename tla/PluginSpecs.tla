------------------------------ MODULE PluginSpecs ------------------------------
(* The specs of a small CLI and of plugins for it, and the files and settings of a start. A file cut
   short by an install is empty, or does not parse. *)
EXTENDS Sequences

Noun(n, as) == [noun |-> n, aliases |-> as, sound |-> TRUE]
Command(v, n) == [verb |-> v, noun |-> n, kind |-> "ok"]
SpecOf(m, hiddenOne, bin, ns, cs) ==
  [module |-> m, hidden |-> hiddenOne, core |-> FALSE, binary |-> bin, nouns |-> ns, commands |-> cs]

registry == Noun("registry", {"reg"})
list == Command("list", "registry")

(* A builtin with an alias, and a hidden one. *)
Builtins == <<
  SpecOf("core", FALSE, FALSE, <<Noun("pipeline", {"pl"})>>,
         <<Command("list", "pipeline"), Command("get", "pipeline"), [Command("get", "step") EXCEPT !.kind = "dev"]>>),
  SpecOf("rt", TRUE, FALSE, <<Noun("test", {"tt"})>>, <<Command("list", "test")>>) >>

KnownPlugins == {SpecOf("har", FALSE, FALSE, <<registry, Noun("artifact", {})>>, <<list>>)}

(* The plugin that the binary knows: sound, without a noun of the newer binary, with a command that
   does not pass, and with an empty one. *)
HarSpecs ==
  {SpecOf("har", FALSE, TRUE, <<registry>>, <<list, Command("get", "registry")>>),
   SpecOf("har", FALSE, TRUE, <<registry>>, <<list, [list EXCEPT !.kind = "bad", !.verb = "get"]>>),
   SpecOf("har", FALSE, TRUE, <<registry>>, <<[list EXCEPT !.kind = "nil"]>>)}

(* Others: nouns and aliases over those of the binary or of that plugin, noun after noun that is not
   valid, a repeated command, a reserved field. *)
AntSpecs ==
  {SpecOf("ant", FALSE, TRUE, <<Noun("pl", {})>>, <<Command("list", "pl")>>),
   SpecOf("ant", FALSE, TRUE, <<Noun("ant", {"pipeline"})>>, <<Command("list", "ant")>>),
   SpecOf("ant", FALSE, TRUE, <<Noun("ant", {"reg"}), [Noun("nest", {}) EXCEPT !.sound = FALSE]>>, <<Command("list", "ant")>>),
   SpecOf("ant", FALSE, TRUE, <<Noun("ant", {})>>, <<Command("list", "ant"), Command("list", "ant")>>),
   SpecOf("ant", FALSE, TRUE, <<Noun("ant", {}), Noun("nest", {"ant"})>>, <<>>),
   SpecOf("ant", FALSE, TRUE, <<>>, <<Command("list", "pipeline")>>),
   [SpecOf("ant", FALSE, TRUE, <<Noun("ant", {})>>, <<>>) EXCEPT !.core = TRUE]}

(* Sound ones: with a binary, without, hidden, with another verb for a noun of the binary, with the
   noun of the plugin above, and with the names of modules of the binary. *)
SoundSpecs ==
  {SpecOf("zed", FALSE, b, <<Noun("zed", {"z"})>>, <<Command("list", "zed")>>) : b \in BOOLEAN}
  \cup {SpecOf("zed", TRUE, TRUE, <<Noun("zed", {"z"})>>, <<Command("list", "zed")>>),
        SpecOf("zed", FALSE, TRUE, <<>>, <<Command("delete", "pipeline"), [Command("list", "pipeline") EXCEPT !.kind = "dev", !.verb = "move"]>>),
        SpecOf("zed", FALSE, TRUE, <<registry>>, <<list>>),
        SpecOf("zed", FALSE, TRUE, <<>>, <<Command("list", "pl")>>),
        SpecOf("rt", FALSE, TRUE, <<Noun("test", {})>>, <<Command("list", "test")>>),
        SpecOf("core", FALSE, TRUE, <<Noun("zed", {})>>, <<Command("list", "zed")>>)}

ModuleNames == <<"ant", "bad", "core", "har", "rt", "zed">>

SpecFiles ==
  {[state |-> "ok", spec |-> s] : s \in HarSpecs \cup AntSpecs \cup SoundSpecs}
  \cup {[state |-> st, spec |-> SpecOf("bad", FALSE, TRUE, <<Noun("zed", {})>>, <<>>)] :
          st \in {"irregular", "empty", "oversized", "unreadable", "unparsable"}}

Settings ==
  {[list |-> [set |-> s, modules |-> {"zed"}], beta |-> b, harness |-> h, saved |-> {"rt"}] :
     s \in BOOLEAN, b \in {"", "0", "1"}, h \in BOOLEAN}
  \cup {[list |-> [set |-> FALSE, modules |-> {}], beta |-> "", harness |-> FALSE, saved |-> {}]}
=============================================================================
