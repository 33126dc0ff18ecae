------------------------------- MODULE Registry -------------------------------
(* The start of the CLI: the spec files of the binary, then those of installed plugins, become
   modules, nouns and commands of one registry, one entry at a time, and a line that the user
   types is answered from it. A file of ~/.harness/spec is not trusted: it is checked as a whole
   before its first entry, and what the check does not see is found while entries are made.

   A spec is [module, hidden, core, binary, nouns, commands]: nouns are [noun, aliases, sound] (the
   fields of a sound noun are valid), commands are [verb, noun, kind], where "bad" commands do not
   pass validateSpec, "dev" ones are of a development build and "nil" ones are empty entries.
   Variants and pairs of nouns, suggestions and the functions that commands name are left out. *)
EXTENDS Naturals, Sequences, FiniteSets

CONSTANTS
  Embedded,  \* the specs of the binary, in their order
  Shipped,   \* the specs of plugins that the binary knows and does not register
  Homes,     \* what a file of ~/.harness/spec can be: [state, spec]
  Sorted,    \* the names of all modules, in their order
  MaxHomes,  \* bound on their number
  Configs    \* what enables a hidden module: [list, beta, harness, saved]

VARIABLES
  config,   \* environment, profiles and configuration of this start
  home,     \* the files of ~/.harness/spec, sorted
  todo,     \* specs to load: [state, spec, trusted]
  part,     \* what is next of the first of them: "file", "nouns", "meta", "commands"
  k,        \* its next noun or command
  nouns,    \* noun |-> [aliases, module]
  aliases,  \* alias |-> noun
  commands, \* sequence of [verb, noun, module, external]
  metas,    \* module |-> it dispatches to a binary
  hidden,   \* hidden modules that were seen
  owned,    \* noun or alias of a plugin |-> the plugin
  result,   \* module of a home spec |-> "loaded", "disabled", "skipped", "refused", "broken"
  answer    \* to what the user typed: <<>> before it is answered

registered == <<nouns, aliases, commands, metas, hidden>>
vars == <<config, home, todo, part, k, nouns, aliases, commands, metas, hidden, owned, result, answer>>

none == <<>>
With(f, x, y) == [z \in DOMAIN f \cup {x} |-> IF z = x THEN y ELSE f[z]]

Position(m) == CHOOSE i \in DOMAIN Sorted : Sorted[i] = m

(* The modules of home specs are the names of their files, so they differ, and are sorted by them. *)
Init ==
  /\ config \in Configs
  /\ home \in {h \in UNION {[1..n -> Homes] : n \in 0..MaxHomes} :
                 \A i, j \in DOMAIN h : i < j => Position(h[i].spec.module) < Position(h[j].spec.module)}
  /\ todo = [i \in DOMAIN Embedded |-> [state |-> "ok", spec |-> Embedded[i], trusted |-> TRUE]]
              \o [i \in DOMAIN home |-> [state |-> home[i].state, spec |-> home[i].spec, trusted |-> FALSE]]
  /\ part = "file" /\ k = 1
  /\ nouns = none /\ aliases = none /\ commands = <<>> /\ metas = none /\ hidden = {} /\ owned = none
  /\ result = none /\ answer = <<>>

-----------------------------------------------------------------------------
(* What is loaded, and what is refused as a whole. *)

IsModuleEnabled(m) ==
  IF config.list.set THEN m \in config.list.modules
  ELSE \/ config.beta = "1"
       \/ config.beta # "0" /\ config.harness
       \/ m \in config.saved

Names(nd) == {nd.noun} \cup nd.aliases
Taken == DOMAIN nouns \cup DOMAIN aliases
IsRegistered(c) == \E i \in DOMAIN commands : commands[i].verb = c.verb /\ commands[i].noun = c.noun

(* Mutant of Conflicts: aliases are not looked at. *)
ConflictsOfNouns(s) == \E i \in DOMAIN s.nouns : s.nouns[i].noun \in DOMAIN nouns

(* The first way in which nouns and commands of s collide, with the registry or with each other. *)
Conflicts(s) ==
  \/ \E i \in DOMAIN s.nouns : Names(s.nouns[i]) \cap Taken # {} \/ s.nouns[i].noun \in s.nouns[i].aliases
  \/ \E i, j \in DOMAIN s.nouns : i < j /\ Names(s.nouns[i]) \cap Names(s.nouns[j]) # {}
  \/ \E i \in DOMAIN s.commands : s.commands[i].kind # "nil" /\ IsRegistered(s.commands[i])
  \/ \E i, j \in DOMAIN s.commands :
       /\ i < j /\ "nil" \notin {s.commands[i].kind, s.commands[j].kind}
       /\ s.commands[i].verb = s.commands[j].verb /\ s.commands[i].noun = s.commands[j].noun

current == Head(todo)
(* The plugins' nouns are recorded between the binary's specs and the home directory's. *)
PluginsAreDue == owned = none /\ Shipped # {} /\ \A i \in DOMAIN todo : ~todo[i].trusted

(* The first spec is done with, as r says; only home specs have a result. *)
Done(r) ==
  /\ todo' = Tail(todo) /\ part' = "file" /\ k' = 1
  /\ result' = IF current.trusted THEN result ELSE With(result, current.spec.module, r)

(* An error in a home spec is a warning, and the next one is loaded. *)
GiveUp(r) == ~current.trusted /\ Done(r)

(* A home spec whose module is registered, that is no regular file of a sensible size, cannot be read
   or parsed, or may not say what it says, changes nothing. *)
SkipSpec ==
  /\ todo # <<>> /\ part = "file" /\ ~current.trusted /\ ~PluginsAreDue
  /\ \/ current.spec.module \in DOMAIN metas
     \/ current.state \in {"irregular", "empty", "oversized", "unreadable", "unparsable"}
  /\ GiveUp("skipped")
  /\ UNCHANGED <<config, home, registered, owned, answer>>

(* The file is parsed: a hidden module is noted, and loaded only when enabled. *)
OpenSpec ==
  LET s == current.spec IN
  /\ todo # <<>> /\ part = "file" /\ ~PluginsAreDue
  /\ current.trusted \/ (s.module \notin DOMAIN metas /\ current.state = "ok")
  /\ hidden' = IF s.hidden THEN hidden \cup {s.module} ELSE hidden
  /\ \/ s.hidden /\ ~IsModuleEnabled(s.module) /\ Done("disabled")
     \/ /\ ~s.hidden \/ IsModuleEnabled(s.module)
        /\ \/ ~current.trusted /\ (s.core \/ Conflicts(s)) /\ GiveUp("refused")
           \/ /\ current.trusted \/ ~(s.core \/ Conflicts(s))
              /\ part' = "nouns" /\ k' = 1 /\ UNCHANGED <<todo, result>>
  /\ UNCHANGED <<config, home, nouns, aliases, commands, metas, owned, answer>>

-----------------------------------------------------------------------------
(* Its entries, in order: nouns, the module, commands. The specs of the binary have no entry that
   fails: the build checks them. *)

CanRegisterNoun(nd) == nd.noun \notin DOMAIN nouns /\ nd.sound /\ nd.aliases \cap Taken = {}

RegisterNoun ==
  /\ todo # <<>> /\ part = "nouns" /\ k \in DOMAIN current.spec.nouns
  /\ LET nd == current.spec.nouns[k] IN
     \/ /\ CanRegisterNoun(nd)
        /\ nouns' = With(nouns, nd.noun, [aliases |-> nd.aliases, module |-> current.spec.module])
        /\ aliases' = [a \in DOMAIN aliases \cup nd.aliases |-> IF a \in nd.aliases THEN nd.noun ELSE aliases[a]]
        /\ k' = k + 1
        /\ UNCHANGED <<todo, part, result>>
     \/ ~CanRegisterNoun(nd) /\ GiveUp("broken") /\ UNCHANGED <<nouns, aliases>>
  /\ UNCHANGED <<config, home, commands, metas, hidden, owned, answer>>

(* The module is noted before its commands, which look up its binary. *)
SetModuleMeta ==
  /\ todo # <<>> /\ part = "nouns" /\ k \notin DOMAIN current.spec.nouns
  /\ metas' = With(metas, current.spec.module, current.spec.binary)
  /\ part' = "commands" /\ k' = 1
  /\ UNCHANGED <<config, home, todo, nouns, aliases, commands, hidden, owned, result, answer>>

(* Whether commands of m go to a binary, as far as m is known. *)
IsPluginModule(m) == m \in DOMAIN metas /\ metas[m]

CanRegisterCommand(c) == c.kind = "ok" /\ ~IsRegistered(c)

RegisterCommand ==
  /\ todo # <<>> /\ part = "commands" /\ k \in DOMAIN current.spec.commands
  /\ LET c == current.spec.commands[k] IN
     \/ c.kind = "dev" /\ k' = k + 1 /\ UNCHANGED <<todo, part, result, commands>>
     \/ /\ CanRegisterCommand(c)
        /\ commands' = Append(commands, [verb |-> c.verb, noun |-> c.noun, module |-> current.spec.module,
                                         external |-> IsPluginModule(current.spec.module)])
        /\ k' = k + 1
        /\ UNCHANGED <<todo, part, result>>
     \/ c.kind # "dev" /\ ~CanRegisterCommand(c) /\ GiveUp("broken") /\ UNCHANGED commands
  /\ UNCHANGED <<config, home, nouns, aliases, metas, hidden, owned, answer>>

EndSpec ==
  /\ todo # <<>> /\ part = "commands" /\ k \notin DOMAIN current.spec.commands
  /\ Done("loaded")
  /\ UNCHANGED <<config, home, registered, owned, answer>>

(* The nouns of the plugins the binary knows; those of a hidden one only when it is enabled. *)
RecordPluginNouns ==
  /\ PluginsAreDue
  /\ LET Of(x) == {p \in Shipped : ~(p.hidden /\ ~IsModuleEnabled(p.module))
                                     /\ \E i \in DOMAIN p.nouns : x \in Names(p.nouns[i])}
         All == UNION {UNION {Names(p.nouns[i]) : i \in DOMAIN p.nouns} : p \in Shipped}
     IN owned' = [x \in {y \in All : Of(y) # {}} |-> (CHOOSE p \in Of(x) : TRUE).module]
  /\ UNCHANGED <<config, home, todo, part, k, registered, result, answer>>

-----------------------------------------------------------------------------
(* The user's line. *)

(* A noun is typed by its name or by an alias; commands are looked for in the order they were made. *)
NamesOf(n) == {n} \cup (IF n \in DOMAIN nouns THEN nouns[n].aliases ELSE {})
Matches(v, n) == {i \in DOMAIN commands : commands[i].verb = v /\ n \in NamesOf(commands[i].noun)}

UnknownNoun(v, n) ==
  LET noun == IF n \in DOMAIN aliases THEN aliases[n] ELSE n IN
  IF noun \notin DOMAIN nouns /\ noun \in DOMAIN owned THEN <<"install", owned[noun]>>
  ELSE IF noun \in DOMAIN nouns THEN <<"not supported">> ELSE <<"not valid">>

Answer(v, n) ==
  IF Matches(v, n) = {} THEN UnknownNoun(v, n)
  ELSE LET c == commands[CHOOSE i \in Matches(v, n) : \A j \in Matches(v, n) : i <= j]
       IN <<IF c.external THEN "plugin" ELSE "builtin", c.module, c.noun>>

Lines == {<<c.verb, n>> : c \in UNION {{s.commands[i] : i \in DOMAIN s.commands} :
                                         s \in {Embedded[j] : j \in DOMAIN Embedded} \cup {h.spec : h \in Homes}},
                          n \in DOMAIN nouns \cup DOMAIN aliases \cup DOMAIN owned \cup {"unknown"}}

Execute ==
  /\ todo = <<>> /\ ~PluginsAreDue /\ answer = <<>>
  /\ \E l \in Lines : answer' = Answer(l[1], l[2])
  /\ UNCHANGED <<config, home, todo, part, k, registered, owned, result>>

Next == SkipSpec \/ OpenSpec \/ RegisterNoun \/ SetModuleMeta \/ RegisterCommand \/ EndSpec
          \/ RecordPluginNouns \/ Execute

Spec == Init /\ [][Next]_vars

-----------------------------------------------------------------------------
Started == todo = <<>> /\ ~PluginsAreDue

AllNames(s) == UNION {Names(s.nouns[i]) : i \in DOMAIN s.nouns}
AllCommands(s) == {<<s.commands[i].verb, s.commands[i].noun>> : i \in {j \in DOMAIN s.commands : s.commands[j].kind # "nil"}}

(* Fields of the registry have their types, and it never holds more than the specs say. *)
TypeOK ==
  /\ part \in {"file", "nouns", "commands"} /\ k \in Nat \ {0}
  /\ \A a \in DOMAIN aliases : aliases[a] \in DOMAIN nouns /\ a \in nouns[aliases[a]].aliases
  /\ \A n \in DOMAIN nouns : nouns[n].aliases \subseteq DOMAIN aliases
  /\ \A i \in DOMAIN commands : commands[i].module \in DOMAIN metas
  /\ DOMAIN result \subseteq {home[i].spec.module : i \in DOMAIN home}

(* Whatever home specs hold, a command of the binary whose module is on is reached by its noun and
   by each of its aliases, and these names are nobody's else (LoadSpecs: "Embedded specs always win"). *)
EmbeddedStand ==
  Started => \A i \in DOMAIN Embedded :
    LET s == Embedded[i] IN
    (~s.hidden \/ IsModuleEnabled(s.module)) =>
      /\ \A n \in AllNames(s) \cap DOMAIN nouns : nouns[n].module = s.module
      /\ \A c \in DOMAIN s.commands, m \in DOMAIN s.nouns :
        (s.commands[c].kind = "ok" /\ s.commands[c].noun = s.nouns[m].noun) =>
          \A n \in Names(s.nouns[m]) :
             Answer(s.commands[c].verb, n) = <<"builtin", s.module, s.commands[c].noun>>

(* The command c may be hidden among ss: its noun is an alias of a noun that has a command of the same
   verb, which is found first if it was added first. Conflicts does not look for it. *)
Shadowed(c, ss) ==
  \E s, t \in ss : \E i \in DOMAIN s.commands, j \in DOMAIN t.nouns :
    /\ s.commands[i].verb = c.verb /\ s.commands[i].noun = t.nouns[j].noun
    /\ c.noun \in t.nouns[j].aliases

(* What a spec declares is sound: nothing of it can fail but by a collision. *)
IsSound(s) ==
  /\ ~s.core
  /\ \A i \in DOMAIN s.nouns : s.nouns[i].sound /\ s.nouns[i].noun \notin s.nouns[i].aliases
  /\ \A i, j \in DOMAIN s.nouns : i # j => Names(s.nouns[i]) \cap Names(s.nouns[j]) = {}
  /\ \A i \in DOMAIN s.commands : s.commands[i].kind = "ok"
  /\ \A i, j \in DOMAIN s.commands : i # j => s.commands[i] # s.commands[j]
Apart(s, t) == AllNames(s) \cap AllNames(t) = {} /\ AllCommands(s) \cap AllCommands(t) = {}

(* A home spec that is sound, shares no name with another spec, and hides behind no alias. *)
Fit(i) ==
  LET s == home[i].spec
      others == {Embedded[j] : j \in DOMAIN Embedded} \cup {home[j].spec : j \in DOMAIN home \ {i}}
  IN /\ home[i].state = "ok" /\ IsSound(s) /\ (s.hidden => IsModuleEnabled(s.module))
     /\ \A t \in others : t.module # s.module /\ Apart(s, t)
     /\ \A c \in DOMAIN s.commands : ~Shadowed(s.commands[c], {s} \cup others)

(* It is loaded, whatever is wrong with the others (LoadHomeSpecs: "A single bad plugin spec must not
   take down the whole CLI"), and each of its commands is answered by its own module: by the plugin's
   binary when it has one, even though commands learn that from the metadata of a module that is being
   loaded. *)
SoundSpecsServe ==
  Started => \A i \in DOMAIN home :
    LET s == home[i].spec IN
    Fit(i) => /\ result[s.module] = "loaded"
              /\ \A c \in AllCommands(s) :
                   Answer(c[1], c[2]) = <<IF s.binary THEN "plugin" ELSE "builtin", s.module, c[2]>>
=============================================================================
