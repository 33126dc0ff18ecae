------------------------------ MODULE PluginSystem ------------------------------
(* Plugins from both sides: processes that install them and the CLI itself, and a start of the CLI over
   the specs that it finds. What a start sees of an install, whole or cut short, is one of the files that
   Homes has, so a behaviour is one of the two. *)
EXTENDS Install, Sequences

CONSTANTS Embedded, Shipped, Homes, Sorted, MaxHomes, Configs \* of Registry

VARIABLES
  starts, \* whether the CLI starts, or installs run
  config, home, todo, part, k, nouns, aliases, commands, metas, hidden, owned, result, answer

R == INSTANCE Registry

startVars == <<config, home, todo, part, k, nouns, aliases, commands, metas, hidden, owned, result, answer>>

Specs ==
  [module : STRING, hidden : BOOLEAN, core : BOOLEAN, binary : BOOLEAN,
   nouns : Seq([noun : STRING, aliases : SUBSET STRING, sound : BOOLEAN]),
   commands : Seq([verb : STRING, noun : STRING, kind : {"ok", "bad", "dev", "nil"}])]

(* Nothing is asked of the files of the home directory but their types. The specs of the binary have no
   binary of their own, no name twice, and no command that hides behind an alias: in the 16 files of
   pkg/spec only "auth env" has an alias for its noun, and auth has no command for "environment". *)
ASSUME SpecAssumption ==
  LET builtins == {Embedded[i] : i \in DOMAIN Embedded} IN
  /\ MaxHomes \in Nat /\ Sorted \in Seq(STRING) /\ Embedded \in Seq(Specs)
  /\ \A h \in Homes : h.spec \in Specs /\ \E i \in DOMAIN Sorted : Sorted[i] = h.spec.module
  /\ \A s \in builtins : /\ ~s.binary
                         /\ \A m \in DOMAIN s.nouns : s.nouns[m].noun \notin s.nouns[m].aliases
                         /\ \A c \in DOMAIN s.commands : ~R!Shadowed(s.commands[c], builtins)
  /\ \A i, j \in DOMAIN Embedded : \A m \in DOMAIN Embedded[i].nouns, l \in DOMAIN Embedded[j].nouns :
       <<i, m>> # <<j, l>> => R!Names(Embedded[i].nouns[m]) \cap R!Names(Embedded[j].nouns[l]) = {}

PluginsInit ==
  \/ starts = TRUE /\ R!Init /\ latest = 1 /\ bin = None /\ Init
  \/ starts = FALSE /\ Init /\ config = (CHOOSE c \in Configs : TRUE) /\ home = <<>> /\ R!Init

PluginsNext ==
  /\ UNCHANGED starts
  /\ \/ starts /\ R!Next /\ UNCHANGED vars
     \/ ~starts /\ Next /\ UNCHANGED startVars

(* A process that was started runs; requests end by their timeouts. *)
PluginsSpec == PluginsInit /\ [][PluginsNext]_<<starts, vars, startVars>> /\ \A p \in Procs : WF_vars(Run(p))

-----------------------------------------------------------------------------
(* Fields keep their types. A start answers the commands of the binary, and those of sound plugins, whatever the other specs are
   (LoadHomeSpecs: one bad spec is skipped). *)
StartServes == R!TypeOK /\ R!EmbeddedStand /\ R!SoundSpecsServe
=============================================================================
