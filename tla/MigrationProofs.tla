--------------------------- MODULE MigrationProofs ---------------------------
(***************************************************************************)
(* Theorems about Migration, for every job tree of the four levels, every   *)
(* concurrency and every content of the destination.                        *)
(***************************************************************************)
EXTENDS Migration, FiniteSetTheorems, TLAPS

(***************************************************************************)
(* What a step does to the engines: take a slot, go on, leave, or open an   *)
(* engine of its own.  The invariants of the engines only look at these.    *)
(***************************************************************************)
Ready(j) == state[j] \in Busy /\ (state[j] = "wait" => \A i \in Children(j) : state[i] = "done")

Moves(j) ==
  \/ state[j] = "pre" /\ Goto(j, "migrate")
  \/ \E s \in {"lookup", "append", "post"} : Goto(j, s)

Quits(j) == \E failed \in BOOLEAN : Leave(j, failed)

Opens(j) ==
  /\ j \in Nodes /\ state[j] = "migrate"
  /\ \E known \in SUBSET Children(j) :
       state' = [i \in Jobs |-> IF i = j THEN "wait"
                                ELSE IF i \in known THEN "done"
                                ELSE IF i \in Children(j) THEN "queued" ELSE state[i]]
  /\ UNCHANGED <<slots, errs>>

EngineStep(j) == Acquire(j) \/ (Ready(j) /\ (Moves(j) \/ Quits(j))) \/ Opens(j)

\* Every action of a job is one of the four.
LEMMA StepShape ==
  ASSUME NEW j \in Jobs, JobStep(j)
  PROVE  EngineStep(j)
<1> USE DEF EngineStep, Ready, Moves, Quits, Busy, Steps
<1>1. CASE Acquire(j)     BY <1>1
<1>2. CASE Pre(j)         BY <1>2 DEF Pre, PreSkips, PreTags, Fails
<1>3. CASE Expand(j)
  <2>1. \A known \in Existing(j) : known \subseteq Children(j)
    BY DEF Existing
  <2>2. CASE Leave(j, TRUE)
    BY <1>3, <2>2 DEF Expand
  <2>3. CASE \E known \in Existing(j) :
               /\ state' = [i \in Jobs |-> IF i = j THEN "wait"
                                           ELSE IF i \in known THEN "done"
                                           ELSE IF i \in Children(j) THEN "queued" ELSE state[i]]
               /\ UNCHANGED <<slots, errs>>
    BY <1>3, <2>1, <2>3 DEF Expand, Opens
  <2> QED BY <1>3, <2>2, <2>3 DEF Expand
<1>4. CASE Join(j)        BY <1>4 DEF Join
<1>5. CASE Skipped(j)     BY <1>5 DEF Skipped
<1>6. CASE MigrateFile(j) BY <1>6 DEF MigrateFile, Fails
<1>7. CASE MigrateLeaf(j) BY <1>7 DEF MigrateLeaf
<1>8. CASE MigrateGo(j)   BY <1>8 DEF MigrateGo
<1>9. CASE Lookup(j)      BY <1>9 DEF Lookup
<1>10. CASE ReadFiles(j)  BY <1>10 DEF ReadFiles
<1>11. CASE AppendFile(j) BY <1>11 DEF AppendFile
<1>12. CASE Post(j)       BY <1>12 DEF Post
<1> QED BY <1>1, <1>2, <1>3, <1>4, <1>5, <1>6, <1>7, <1>8, <1>9, <1>10, <1>11, <1>12 DEF JobStep

(***************************************************************************)
(* The engines nest.                                                        *)
(***************************************************************************)
EngineTypes ==
  /\ state \in [Jobs -> Steps]
  /\ slots \in [Owners -> SUBSET Jobs] /\ errs \in [Owners -> SUBSET Jobs]
  /\ \A e \in Owners : errs[e] \subseteq Children(e)

\* Only a node waits, and a job is untouched until the job above it expands.
Nested ==
  /\ NestedBusy
  /\ \A j \in Jobs : state[j] = "wait" => j \in Nodes
  /\ \A j \in Jobs \ Registries :
       state[Parent[j]] \in {"none", "queued", "pre", "migrate"} => state[j] = "none"

\* Every job but a registry was created by a job of another level.
LEMMA ParentIsJob ==
  /\ Root \notin Jobs /\ \A j \in Registries : Parent[j] = Root
  /\ \A j \in Jobs \ Registries : Parent[j] \in Jobs /\ Parent[j] # j /\ Parent[j] # Root
  BY JobTree DEF Jobs

\* At the start no engine is open.
LEMMA InitNested == Init => EngineTypes /\ Nested
  BY ParentIsJob DEF Init, EngineTypes, Nested, NestedBusy, Busy, Steps, Jobs

\* A job that enters an engine, or leaves it, changes that engine alone.
LEMMA EngineOf ==
  ASSUME NEW f \in [Owners -> SUBSET Jobs], NEW j \in Jobs
  PROVE  /\ [f EXCEPT ![Parent[j]] = @ \cup {j}] \in [Owners -> SUBSET Jobs]
         /\ [f EXCEPT ![Parent[j]] = @ \ {j}] \in [Owners -> SUBSET Jobs]
         /\ \A e \in Owners : f[e] \subseteq Children(e) => [f EXCEPT ![Parent[j]] = @ \cup {j}][e] \subseteq Children(e)
BY DEF Children

\* A step opens an engine only under a job that waits for it, and a job leaves only when its children have.
LEMMA StepNested ==
  ASSUME EngineTypes, Nested, NEW j \in Jobs, EngineStep(j)
  PROVE  EngineTypes' /\ Nested'
<1> USE ParentIsJob DEF EngineTypes, Nested, NestedBusy, Busy, Steps
<1>1. CASE Acquire(j)
  <2>1. state[j] = "queued" /\ state' = [state EXCEPT ![j] = "pre"]
    BY <1>1 DEF Acquire
  <2>2. UNCHANGED errs /\ slots' = [slots EXCEPT ![Parent[j]] = @ \cup {j}]
    BY <1>1 DEF Acquire
  <2>3. EngineTypes'
    <3>1. state' \in [Jobs -> Steps]
      BY <2>1
    <3> HIDE DEF Nested, NestedBusy, Busy, Steps
    <3>2. slots' \in [Owners -> SUBSET Jobs]
      BY <2>2, EngineOf
    <3> QED BY <2>2, <3>1, <3>2
  <2>4. Nested'
    BY <2>1
  <2> QED BY <2>3, <2>4
<1>2. CASE Ready(j) /\ Moves(j)
  BY <1>2 DEF Ready, Moves, Goto, Children
<1>3. CASE Ready(j) /\ Quits(j)
  <2>1. PICK failed \in BOOLEAN : Leave(j, failed)
    BY <1>3 DEF Quits
  <2>2. state' = [state EXCEPT ![j] = "done"]
    BY <2>1 DEF Leave
  <2>3. EngineTypes'
    <3> HIDE DEF Nested, NestedBusy, Busy
    <3>1. slots' \in [Owners -> SUBSET Jobs]
      BY <2>1, EngineOf DEF Leave
    <3>2. errs' = errs \/ errs' = [errs EXCEPT ![Parent[j]] = @ \cup {j}]
      BY <2>1 DEF Leave
    <3>3. errs' \in [Owners -> SUBSET Jobs] /\ \A e \in Owners : errs'[e] \subseteq Children(e)
      BY <3>2, EngineOf
    <3> QED BY <2>2, <3>1, <3>3
  <2>4. Nested'
    BY <1>3, <2>2 DEF Ready, Children
  <2> QED BY <2>3, <2>4
<1>4. CASE Opens(j)
  <2>1. PICK known \in SUBSET Children(j) :
          state' = [i \in Jobs |-> IF i = j THEN "wait"
                                   ELSE IF i \in known THEN "done"
                                   ELSE IF i \in Children(j) THEN "queued" ELSE state[i]]
    BY <1>4 DEF Opens
  <2>2. /\ \A i \in Children(j) : i \in Jobs \ Registries /\ i # j /\ Parent[i] = j
        /\ \A i \in Children(j) : state[i] = "none"
    BY <1>4 DEF Opens, Children
  <2>3. \A i \in Jobs :
          /\ i = j => state'[i] = "wait"
          /\ i \in Children(j) => state'[i] \in {"queued", "done"}
          /\ i \notin Children(j) \cup {j} => state'[i] = state[i]
    BY <2>1, <2>2
  <2>4. EngineTypes'
    BY <1>4, <2>1 DEF Opens
  <2>5. \A i \in Jobs \ Registries :
          \/ Parent[i] = j
          \/ Parent[i] \in Children(j) /\ state[i] = "none" /\ i \notin Children(j) \cup {j}
          \/ Parent[i] \notin Children(j) \cup {j} /\ i \notin Children(j)
    BY <1>4, <2>2 DEF Opens
  <2>6. NestedBusy'
    BY <1>4, <2>2, <2>3, <2>5 DEF Opens, Children
  <2>7. \A i \in Jobs : state'[i] = "wait" => i \in Nodes
    BY <1>4, <2>3 DEF Opens
  <2>8. \A i \in Jobs \ Registries :
          state'[Parent[i]] \in {"none", "queued", "pre", "migrate"} => state'[i] = "none"
    BY <1>4, <2>2, <2>3, <2>5 DEF Opens
  <2> QED BY <2>4, <2>6, <2>7, <2>8
<1> QED BY <1>1, <1>2, <1>3, <1>4 DEF EngineStep

\* So the engines nest at all times.
LEMMA AlwaysNested == Spec => [](EngineTypes /\ Nested)
<1>1. Init => EngineTypes /\ Nested
  BY InitNested
<1>2. EngineTypes /\ Nested /\ [Next]_vars => (EngineTypes /\ Nested)'
  <2> SUFFICES ASSUME EngineTypes, Nested, [Next]_vars  PROVE (EngineTypes /\ Nested)'
    OBVIOUS
  <2>1. CASE \E j \in Jobs : JobStep(j)
    BY <2>1, StepShape, StepNested
  <2>2. CASE Finish \/ UNCHANGED vars
    BY <2>2 DEF Finish, vars, engineVars, EngineTypes, Nested, NestedBusy
  <2> QED BY <2>1, <2>2 DEF Next
<1> QED BY <1>1, <1>2, PTL DEF Spec

\* NestedBusy, whatever the tree: no level runs ahead of the one above it.
THEOREM EnginesNest == Spec => []NestedBusy
<1>1. EngineTypes /\ Nested => NestedBusy
  BY DEF Nested
<1> QED BY <1>1, AlwaysNested, PTL

(***************************************************************************)
(* The semaphores.                                                          *)
(***************************************************************************)
BoundInv ==
  \A e \in Owners :
    /\ slots[e] = {j \in Children(e) : state[j] \in Busy}
    /\ IsFiniteSet(slots[e]) /\ Cardinality(slots[e]) <= Concurrency

\* At the start no slot is taken, and no job is busy.
LEMMA InitBound == Init => BoundInv
<1> SUFFICES ASSUME Init, NEW e \in Owners
    PROVE /\ slots[e] = {} /\ {j \in Children(e) : state[j] \in Busy} = {}
          /\ IsFiniteSet({}) /\ Cardinality({}) <= Concurrency
  BY DEF BoundInv
<1> QED BY FS_EmptySet, JobTree DEF Init, Children, Busy, Steps

\* What a slot more or less makes of a finite set of at most Concurrency jobs.
LEMMA OneMore ==
  ASSUME NEW S, IsFiniteSet(S), Cardinality(S) < Concurrency, NEW x
  PROVE  IsFiniteSet(S \cup {x}) /\ Cardinality(S \cup {x}) <= Concurrency
<1>1. IsFiniteSet(S \cup {x}) /\ Cardinality(S \cup {x}) \in {Cardinality(S), Cardinality(S) + 1}
  BY FS_AddElement
<1>2. Cardinality(S) \in Nat
  BY FS_CardinalityType
<1> QED BY <1>1, <1>2, JobTree

\* Giving a slot back leaves the rest within the bound.
LEMMA OneLess ==
  ASSUME NEW S, IsFiniteSet(S), Cardinality(S) <= Concurrency, NEW x
  PROVE  IsFiniteSet(S \ {x}) /\ Cardinality(S \ {x}) <= Concurrency
<1>1. IsFiniteSet(S \ {x}) /\ Cardinality(S \ {x}) \in {Cardinality(S), Cardinality(S) - 1}
  BY FS_RemoveElement
<1>2. Cardinality(S) \in Nat
  BY FS_CardinalityType
<1> QED BY <1>1, <1>2, JobTree

\* Every step keeps the slots of an engine those of its busy jobs, and within the bound.
LEMMA StepBound ==
  ASSUME EngineTypes, Nested, BoundInv, NEW j \in Jobs, EngineStep(j)
  PROVE  BoundInv'
<1> SUFFICES ASSUME NEW e \in Owners
    PROVE /\ slots'[e] = {i \in Children(e) : state'[i] \in Busy}
          /\ IsFiniteSet(slots'[e]) /\ Cardinality(slots'[e]) <= Concurrency
  BY DEF BoundInv
<1> USE DEF EngineTypes
<1>0. /\ slots[e] = {i \in Children(e) : state[i] \in Busy}
      /\ IsFiniteSet(slots[e]) /\ Cardinality(slots[e]) <= Concurrency
  BY DEF BoundInv
<1>1. CASE Acquire(j)
  <2>1. /\ state' = [state EXCEPT ![j] = "pre"]
        /\ slots' = [slots EXCEPT ![Parent[j]] = @ \cup {j}]
        /\ Cardinality(slots[Parent[j]]) < Concurrency
    BY <1>1 DEF Acquire
  <2>2. CASE e = Parent[j]
    <3>1. slots'[e] = slots[e] \cup {j}
      BY <2>1, <2>2
    <3>2. slots'[e] = {i \in Children(e) : state'[i] \in Busy}
      BY <1>0, <2>1, <2>2, <3>1 DEF Children, Busy, Steps
    <3>3. Cardinality(slots[e]) < Concurrency
      BY <2>1, <2>2
    <3> HIDE DEF EngineTypes
    <3>4. IsFiniteSet(slots[e] \cup {j}) /\ Cardinality(slots[e] \cup {j}) <= Concurrency
      BY <1>0, <3>3, OneMore
    <3> QED BY <3>1, <3>2, <3>4
  <2>3. CASE e # Parent[j]
    <3>1. slots'[e] = slots[e]
      BY <2>1, <2>3
    <3>2. slots'[e] = {i \in Children(e) : state'[i] \in Busy}
      BY <1>0, <2>1, <2>3, <3>1 DEF Children
    <3> QED BY <1>0, <3>1, <3>2
  <2> QED BY <2>2, <2>3
<1>2. CASE Ready(j) /\ Moves(j)
  <2>1. state[j] \in Busy /\ UNCHANGED slots
    BY <1>2 DEF Ready, Moves, Goto
  <2>2. \E s \in Busy : state' = [state EXCEPT ![j] = s]
    BY <1>2 DEF Moves, Goto, Busy, Steps
  <2>3. {i \in Children(e) : state'[i] \in Busy} = {i \in Children(e) : state[i] \in Busy}
    BY <2>1, <2>2 DEF Children
  <2> QED BY <1>0, <2>1, <2>3
<1>3. CASE Ready(j) /\ Quits(j)
  <2>1. /\ state' = [state EXCEPT ![j] = "done"]
        /\ slots' = [slots EXCEPT ![Parent[j]] = @ \ {j}]
    BY <1>3 DEF Quits, Leave
  <2>2. CASE e = Parent[j]
    <3>1. slots'[e] = slots[e] \ {j}
      BY <2>1, <2>2
    <3>2. slots'[e] = {i \in Children(e) : state'[i] \in Busy}
      BY <1>0, <2>1, <2>2, <3>1 DEF Children, Busy, Steps
    <3>3. IsFiniteSet(slots[e] \ {j}) /\ Cardinality(slots[e] \ {j}) <= Concurrency
      BY <1>0, OneLess
    <3> QED BY <3>1, <3>2, <3>3
  <2>3. CASE e # Parent[j]
    <3>1. slots'[e] = slots[e]
      BY <2>1, <2>3
    <3>2. slots'[e] = {i \in Children(e) : state'[i] \in Busy}
      BY <1>0, <2>1, <2>3, <3>1 DEF Children
    <3> QED BY <1>0, <3>1, <3>2
  <2> QED BY <2>2, <2>3
<1>4. CASE Opens(j)
  \* the jobs it creates were not past a semaphore, and are not yet
  <2>1. UNCHANGED slots /\ state[j] = "migrate"
    BY <1>4 DEF Opens
  <2>2. \A i \in Children(j) : i \in Jobs \ Registries /\ state[i] = "none"
    BY <2>1, ParentIsJob DEF Nested, Children
  <2>3. \A i \in Jobs : state'[i] \in Busy <=> state[i] \in Busy
    BY <1>4, <2>1, <2>2 DEF Opens, Busy, Steps
  <2>4. {i \in Children(e) : state'[i] \in Busy} = {i \in Children(e) : state[i] \in Busy}
    BY <2>3 DEF Children
  <2> QED BY <1>0, <2>1, <2>4
<1> QED BY <1>1, <1>2, <1>3, <1>4 DEF EngineStep

\* EngineBounded for every tree and concurrency: a slot is held by exactly the jobs
\* past their semaphore, and no path out of a step keeps one.
THEOREM EnginesBounded == Spec => []EngineBounded
<1>1. Init => BoundInv
  BY InitBound
<1>2. EngineTypes /\ Nested /\ BoundInv /\ [Next]_vars => BoundInv'
  <2> SUFFICES ASSUME EngineTypes, Nested, BoundInv, [Next]_vars  PROVE BoundInv'
    OBVIOUS
  <2>1. CASE \E j \in Jobs : JobStep(j)
    BY <2>1, StepShape, StepBound
  <2>2. CASE Finish \/ UNCHANGED vars
    <3>1. UNCHANGED <<state, slots>>
      BY <2>2 DEF Finish, vars, engineVars
    <3> QED BY <3>1 DEF BoundInv
  <2> QED BY <2>1, <2>2 DEF Next
<1>3. BoundInv => EngineBounded
  BY DEF BoundInv, EngineBounded
<1> QED BY <1>1, <1>2, <1>3, AlwaysNested, PTL DEF Spec

(***************************************************************************)
(* The end of Run.                                                          *)
(***************************************************************************)
\* Run returns after its registries.
Waited ==
  /\ exit \in {"none", "ok", "failed", "crashed"}
  /\ exit \in {"ok", "failed"} => \A r \in Registries : state[r] = "done"

\* When every registry is done no job of any level runs or waits to run.
LEMMA AllQuiet ==
  ASSUME EngineTypes, Nested, \A r \in Registries : state[r] = "done"
  PROVE  \A j \in Jobs : state[j] \notin Busy \cup {"queued"}
<1> USE DEF Nested, NestedBusy, Busy, Steps
<1>1. \A j \in Jobs \ Registries : state[Parent[j]] # "wait" => state[j] \notin Busy \cup {"queued"}
  OBVIOUS
<1>2. \A p \in Packages : state[p] \notin Busy \cup {"queued"}
  BY <1>1, JobTree DEF Jobs
<1>3. \A v \in Versions : state[v] \notin Busy \cup {"queued"}
  BY <1>1, <1>2, JobTree DEF Jobs
<1>4. \A a \in Artifacts : state[a] \notin Busy \cup {"queued"}
  BY <1>1, <1>3, JobTree DEF Jobs
<1> QED BY <1>2, <1>3, <1>4 DEF Jobs

\* A job steps only between its queueing and its end, and at most crashes the exit.
LEMMA StepExit ==
  ASSUME NEW j \in Jobs, JobStep(j)
  PROVE  /\ exit # "crashed" /\ exit' \in {exit, "crashed"}
         /\ state[j] \in Busy \cup {"queued"}
<1>1. exit # "crashed"
  BY DEF JobStep
<1>2. state[j] \in Busy \cup {"queued"}
  BY StepShape DEF EngineStep, Acquire, Ready, Opens, Busy, Steps
<1>3. exit' \in {exit, "crashed"}
  BY DEF JobStep, Acquire, Pre, Expand, Ensure, Join, Skipped, MigrateFile, MigrateLeaf, MigrateGo,
         Lookup, ReadFiles, AppendFile, Post, dryVars
<1> QED BY <1>1, <1>2, <1>3

\* NothingAfterRun for every tree: no file is moved, recorded or listed once the
\* command reports its result.
THEOREM QuietAfterRun == Spec => NothingAfterRun
<1>1. Init => Waited
  BY DEF Init, Waited
<1>2. EngineTypes /\ Nested /\ Waited /\ [Next]_vars
        => Waited' /\ [exit # "none" => UNCHANGED <<dest, stats, listed>>]_vars
  <2> SUFFICES ASSUME EngineTypes, Nested, Waited, [Next]_vars
      PROVE  Waited' /\ [exit # "none" => UNCHANGED <<dest, stats, listed>>]_vars
    OBVIOUS
  <2>1. CASE \E j \in Jobs : JobStep(j)
    <3>1. PICK j \in Jobs : JobStep(j)
      BY <2>1
    <3>2. exit = "none" /\ exit' \in {exit, "crashed"}
      BY <3>1, StepExit, AllQuiet DEF Waited
    <3> QED BY <3>2 DEF Waited
  <2>2. CASE exit = "none" /\ Finish
    BY <2>2 DEF Finish, Waited, engineVars
  <2>3. CASE UNCHANGED vars
    BY <2>3 DEF vars, engineVars, Waited
  <2> QED BY <2>1, <2>2, <2>3 DEF Next
<1> QED BY <1>1, <1>2, AlwaysNested, PTL DEF Spec, NothingAfterRun

(***************************************************************************)
(* The rows of the result.                                                  *)
(***************************************************************************)
NoRow    == <<>>
Rows     == {NoRow, <<"success">>, <<"skip">>, <<"fail">>}
Untouched == {"none", "queued", "pre"}

\* The destination holds a file of a's path, or of its base name in its version.
Held(a) == \E f \in Stored : Uri[f] = Uri[a] \/ (Parent[f] = Parent[a] /\ Base[f] = Base[a])

\* What a row says: moved, or there already.
TrueRow(c, s) ==
  /\ s = "success" => IF c \in Oci THEN TagsOf(c) \subseteq dest \cup orphans ELSE c \in dest
  /\ s = "skip" => IF c \in Oci THEN TagsOf(c) = {} ELSE IF c \in Artifacts THEN Held(c) ELSE c \in dest

\* A job's coordinate has a row only once the job is past Pre, and while it is about to migrate
\* only if it will be skipped; a tag once its image is past Pre: whoever writes a row writes
\* the first.
RowInv ==
  /\ dest \subseteq Content
  /\ stats \in [Rowed -> Rows]
  /\ \A c \in Rowed, s \in Statuses : stats[c] = <<s>> => TrueRow(c, s)
  /\ \A c \in Coordinates :
       stats[c] # NoRow => state[c] \notin Untouched /\ (state[c] = "migrate" => c \in skip)
  /\ \A t \in Tags : stats[t] # NoRow => state[Parent[t]] \notin Untouched

\* What a step does to the rows: nothing, one row for the job that steps, a skip for jobs it
\* does not create, or a skip for tags of the image that steps.
Grows == dest \subseteq dest' /\ orphans \subseteq orphans'

NoRowStep == UNCHANGED <<stats, skip>> /\ Grows

OwnRow(j) ==
  /\ j \in Coordinates /\ state[j] \in {"pre", "migrate"} /\ (state[j] = "migrate" => j \notin skip)
  /\ Grows /\ skip \subseteq skip' /\ skip' \subseteq skip \cup {j}
  /\ \E s \in Statuses : stats' = [stats EXCEPT ![j] = Append(@, s)] /\ TrueRow(j, s)'
  /\ Goto(j, "post") \/ (Goto(j, "migrate") /\ j \in skip')

SkipRows(j) ==
  /\ UNCHANGED <<skip, dest, orphans>>
  /\ \E known \in SUBSET (Children(j) \cap Artifacts) :
       /\ state[j] = "migrate" /\ \A i \in known : Held(i) /\ state'[i] = "done"
       /\ stats' = [c \in Rowed |-> IF c \in known THEN Append(stats[c], "skip") ELSE stats[c]]

TagRows(j) ==
  /\ j \in Oci /\ state[j] = "pre" /\ Goto(j, "migrate")
  /\ UNCHANGED <<skip, dest, orphans>>
  /\ \E known \in SUBSET (TagsOf(j) \cap dest) :
       stats' = [c \in Rowed |-> IF c \in known THEN Append(stats[c], "skip") ELSE stats[c]]

\* The levels are disjoint: a coordinate is no node, an artifact no package, a tag no job.
LEMMA Levels ==
  /\ Coordinates \subseteq Jobs /\ Nodes \subseteq Jobs
  /\ \A c \in Coordinates : c \notin Nodes /\ c \notin Registries
  /\ \A a \in Artifacts : a \notin Leaf /\ a \notin GoVersions /\ a \notin Nodes /\ a \notin Oci
  /\ \A j \in Nodes : j \notin Leaf /\ j \notin GoVersions
  /\ \A v \in GoVersions : v \notin Registries
  /\ Artifacts \subseteq Coordinates /\ Leaf \subseteq Coordinates
  /\ \A t \in Tags : t \notin Jobs /\ t \notin Coordinates /\ t \notin Oci /\ Parent[t] \in Oci
  /\ Oci \subseteq Coordinates /\ Content \cap Oci = {}
  /\ Rowed = Coordinates \cup Tags
  BY JobTree DEF Coordinates, Jobs, Nodes, Rowed, Content

\* A file that the destination holds is held.
LEMMA OwnIsHeld == \A a \in Artifacts \cap dest : Held(a)
  BY DEF Held, Stored

\* What is true of a row stays true while the destination and the orphans grow.
LEMMA TrueStays ==
  ASSUME Grows, NEW c, NEW s, TrueRow(c, s)
  PROVE  TrueRow(c, s)'
<1>1. Held(c) => Held(c)'
  BY DEF Grows, Held, Stored
<1> QED BY <1>1 DEF Grows, TrueRow

\* What a version skips by its index, or by its lookup, are files of it that are held.
LEMMA KnownHeld ==
  ASSUME NEW j \in Jobs, NEW known \in Existing(j)
  PROVE  known \in SUBSET (Children(j) \cap Artifacts) /\ \A a \in known : Held(a)
<1>1. j \in Versions => Children(j) \subseteq Artifacts
  BY JobTree DEF Children, Jobs
<1>2. CASE known = {}
  BY <1>2
<1>3. CASE known = {a \in Children(j) : \E f \in Stored : Uri[f] = Uri[a]} /\ j \in Versions
  BY <1>1, <1>3 DEF Held
<1>4. CASE known = {a \in Children(j) : \E f \in StoredOf(j) : Base[f] = Base[a]} /\ j \in Versions
  BY <1>1, <1>4 DEF Held, StoredOf, Children
<1> QED BY <1>2, <1>3, <1>4 DEF Existing

\* A whole transfer writes one row, and a true one.
LEMMA TransferRow ==
  ASSUME NEW j \in Coordinates \ Oci, Transfer(j), UNCHANGED orphans
  PROVE  Grows /\ \E s \in Statuses : stats' = [stats EXCEPT ![j] = Append(@, s)] /\ TrueRow(j, s)'
<1>1. Grows
  BY DEF Transfer, Grows
<1>2. \A a \in Artifacts : a \in dest' => Held(a)'
  BY DEF Held, Stored
<1>3. CASE Record(j, "success") /\ j \in dest'
  BY <1>1, <1>3 DEF Record, Statuses, TrueRow
<1>4. CASE Record(j, "skip") /\ j \in dest'
  BY <1>1, <1>2, <1>4 DEF Record, Statuses, TrueRow
<1>5. CASE Record(j, "fail")
  BY <1>1, <1>5 DEF Record, Statuses, TrueRow
<1> QED BY <1>3, <1>4, <1>5 DEF Transfer

\* So does the copy of an image.
LEMMA CopyRow ==
  ASSUME NEW j \in Oci, CopyTags(j)
  PROVE  Grows /\ \E s \in Statuses : stats' = [stats EXCEPT ![j] = Append(@, s)] /\ TrueRow(j, s)'
<1>1. PICK copied \in SUBSET TagsOf(j), gone \in SUBSET TagsOf(j) :
        /\ dest' = dest \cup copied /\ orphans' = orphans \cup (gone \ dest')
        /\ \/ TagsOf(j) \subseteq dest' \cup gone /\ Record(j, "success")
           \/ TagsOf(j) = {} /\ Record(j, "skip")
           \/ Record(j, "fail")
  BY DEF CopyTags
<1>2. Grows
  BY <1>1 DEF Grows
<1>3. CASE TagsOf(j) \subseteq dest' \cup gone /\ Record(j, "success")
  <2>1. TagsOf(j)' \subseteq dest' \cup orphans'
    BY <1>1, <1>3 DEF TagsOf
  <2> QED BY <1>2, <1>3, <2>1 DEF Record, Statuses, TrueRow
<1>4. CASE TagsOf(j) = {} /\ Record(j, "skip")
  BY <1>2, <1>4 DEF Record, Statuses, TrueRow, TagsOf
<1>5. CASE Record(j, "fail")
  BY <1>2, <1>5 DEF Record, Statuses, TrueRow
<1> QED BY <1>1, <1>3, <1>4, <1>5

\* A step records nothing, a row of its own job, the skips of what the job lists, or
\* those of its tags.
LEMMA RowShape ==
  ASSUME EngineTypes, Nested, RowInv, NEW j \in Jobs, JobStep(j)
  PROVE  NoRowStep \/ OwnRow(j) \/ SkipRows(j) \/ TagRows(j)
<1>0. UNCHANGED statVars => NoRowStep
  BY DEF statVars, NoRowStep, Grows
<1>1. CASE Acquire(j)     BY <1>0, <1>1 DEF Acquire
<1>2. CASE Pre(j)
  <2>1. CASE PreSkips(j)
    <3>1. j \in dest /\ j \in Coordinates \ Oci
      BY <2>1, Levels DEF PreSkips, RowInv
    <3>2. TrueRow(j, "skip")'
      BY <2>1, <3>1, OwnIsHeld DEF PreSkips, TrueRow, Held, Stored
    <3> QED BY <1>2, <2>1, <3>1, <3>2 DEF Pre, PreSkips, OwnRow, Record, Statuses, Grows
  <2>2. CASE PreTags(j)
    BY <1>2, <2>2 DEF Pre, PreTags, TagRows
  <2>3. CASE UNCHANGED statVars
    BY <1>0, <2>3
  <2> QED BY <1>2, <2>1, <2>2, <2>3 DEF Pre, Fails
<1>3. CASE Expand(j)
  <2>1. CASE \E known \in Existing(j) :
               /\ state' = [i \in Jobs |-> IF i = j THEN "wait"
                                           ELSE IF i \in known THEN "done"
                                           ELSE IF i \in Children(j) THEN "queued" ELSE state[i]]
               /\ stats' = [c \in Rowed |-> IF c \in known THEN Append(stats[c], "skip") ELSE stats[c]]
               /\ UNCHANGED <<slots, errs, skip, dest, orphans>>
    <3>1. PICK known \in Existing(j) :
               /\ state' = [i \in Jobs |-> IF i = j THEN "wait"
                                           ELSE IF i \in known THEN "done"
                                           ELSE IF i \in Children(j) THEN "queued" ELSE state[i]]
               /\ stats' = [c \in Rowed |-> IF c \in known THEN Append(stats[c], "skip") ELSE stats[c]]
               /\ UNCHANGED <<slots, errs, skip, dest, orphans>>
      BY <2>1
    <3>2. known \in SUBSET (Children(j) \cap Artifacts) /\ \A a \in known : Held(a)
      BY KnownHeld
    <3>3. \A i \in known : i \in Jobs /\ i # j
      BY <3>2, ParentIsJob DEF Children
    <3>4. \A i \in known : state'[i] = "done"
      BY <3>1, <3>3
    <3>5. state[j] = "migrate"
      BY <1>3 DEF Expand
    <3> QED BY <3>1, <3>2, <3>4, <3>5 DEF SkipRows
  <2>2. CASE UNCHANGED statVars
    BY <1>0, <2>2
  <2> QED BY <1>3, <2>1, <2>2 DEF Expand
<1>4. CASE Join(j)        BY <1>0, <1>4 DEF Join
<1>5. CASE Skipped(j)     BY <1>0, <1>5 DEF Skipped
<1>6. CASE MigrateFile(j)
  <2>1. CASE Transfer(j) /\ Goto(j, "post") /\ UNCHANGED <<skip, orphans, dryVars>>
    <3>1. j \in Coordinates \ Oci /\ state[j] = "migrate" /\ j \notin skip
      BY <1>6, Levels DEF MigrateFile, Coordinates
    <3> QED BY <2>1, <3>1, TransferRow DEF OwnRow
  <2>2. CASE Fails(j)
    BY <1>0, <2>2 DEF Fails
  <2> QED BY <1>6, <2>1, <2>2 DEF MigrateFile
<1>7. CASE MigrateLeaf(j)
  <2>0. /\ j \in Coordinates /\ state[j] = "migrate" /\ j \notin skip
        /\ Goto(j, "post")
    BY <1>7 DEF MigrateLeaf, Coordinates
  <2>1. CASE j \notin Oci /\ Transfer(j) /\ UNCHANGED <<skip, orphans>>
    BY <2>0, <2>1, TransferRow DEF OwnRow
  <2>2. CASE j \in Oci /\ CopyTags(j) /\ UNCHANGED skip
    BY <2>0, <2>2, CopyRow DEF OwnRow
  <2>3. CASE UNCHANGED statVars
    BY <1>0, <2>3
  <2> QED BY <1>7, <2>1, <2>2, <2>3 DEF MigrateLeaf
<1>8. CASE MigrateGo(j)   BY <1>8 DEF MigrateGo, NoRowStep, Grows
<1>9. CASE Lookup(j)      BY <1>0, <1>9 DEF Lookup
<1>10. CASE ReadFiles(j)  BY <1>0, <1>10 DEF ReadFiles
<1>11. CASE AppendFile(j) BY <1>0, <1>11 DEF AppendFile
<1>12. CASE Post(j)       BY <1>0, <1>12 DEF Post
<1> QED BY <1>1, <1>2, <1>3, <1>4, <1>5, <1>6, <1>7, <1>8, <1>9, <1>10, <1>11, <1>12 DEF JobStep

\* No job goes back: only the job that steps passes Pre.
LEMMA StepForward ==
  ASSUME EngineTypes, Nested, NEW j \in Jobs, EngineStep(j), NEW c \in Jobs, state[c] \notin Untouched
  PROVE  state'[c] \notin Untouched /\ (state'[c] = "migrate" => state[c] = "migrate")
<1> USE DEF EngineTypes, Untouched
<1>1. CASE Acquire(j)
  BY <1>1 DEF Acquire
<1>2. CASE Ready(j) /\ Moves(j)
  BY <1>2 DEF Moves, Goto
<1>3. CASE Ready(j) /\ Quits(j)
  BY <1>3 DEF Quits, Leave
<1>4. CASE Opens(j)
  <2>1. \A i \in Children(j) : i \in Jobs \ Registries /\ state[i] = "none"
    BY <1>4, ParentIsJob DEF Opens, Nested, Children
  <2> QED BY <1>4, <2>1 DEF Opens
<1> QED BY <1>1, <1>2, <1>3, <1>4 DEF EngineStep

\* The rows that a list of skips adds were empty before, and are true.
LEMMA ListedRows ==
  ASSUME EngineTypes, Nested, RowInv, NEW j \in Jobs, JobStep(j), Grows,
         \A c \in Rowed : stats'[c] = stats[c] \/ (stats'[c] = <<"skip">> /\ TrueRow(c, "skip")'),
         \A c \in Coordinates : stats'[c] # stats[c] => state'[c] = "done",
         \A t \in Tags : stats'[t] # stats[t] => state'[Parent[t]] \notin Untouched,
         stats' \in [Rowed -> Rows], dest' \subseteq Content, skip \subseteq skip'
  PROVE  RowInv'
<1>1. \A c \in Jobs :
        state[c] \notin Untouched => state'[c] \notin Untouched /\ (state'[c] = "migrate" => state[c] = "migrate")
  BY StepShape, StepForward
<1>2. ASSUME NEW c \in Rowed, NEW s \in Statuses, stats'[c] = <<s>>
      PROVE  TrueRow(c, s)'
  <2>1. CASE stats'[c] = stats[c]
    BY <1>2, <2>1, TrueStays DEF RowInv
  <2>2. CASE stats'[c] = <<"skip">> /\ TrueRow(c, "skip")'
    <3>1. s = "skip"
      BY <1>2, <2>2
    <3> QED BY <2>2, <3>1
  <2> QED BY <2>1, <2>2
<1>3. ASSUME NEW c \in Coordinates, stats'[c] # NoRow
      PROVE  state'[c] \notin Untouched /\ (state'[c] = "migrate" => c \in skip')
  BY <1>1, <1>3, Levels DEF RowInv, Untouched
<1>4. ASSUME NEW t \in Tags, stats'[t] # NoRow
      PROVE  state'[Parent[t]] \notin Untouched
  BY <1>1, <1>4, Levels DEF RowInv
<1> QED BY <1>2, <1>3, <1>4 DEF RowInv

\* The destination only takes what it can hold.
LEMMA StepContent ==
  ASSUME RowInv, NEW j \in Jobs, JobStep(j)
  PROVE  dest' \subseteq Content
<1>0. dest \subseteq Content
  BY DEF RowInv
<1>1. CASE MigrateGo(j)
  <2>1. Children(j) \subseteq Artifacts
    BY <1>1, JobTree DEF MigrateGo, Children, Jobs
  <2>2. Artifacts \subseteq Content
    BY Levels DEF Content, Coordinates
  <2> QED BY <1>0, <1>1, <2>1, <2>2 DEF MigrateGo
<1>2. CASE Transfer(j) /\ j \in Coordinates \ Oci
  BY <1>0, <1>2 DEF Transfer, Content
<1>3. CASE CopyTags(j)
  BY <1>0, <1>3 DEF CopyTags, TagsOf, Content
<1>4. CASE UNCHANGED dest
  BY <1>0, <1>4
<1>5. CASE MigrateFile(j)
  <2>1. j \in Coordinates \ Oci
    BY <1>5, Levels DEF MigrateFile, Coordinates
  <2> QED BY <1>2, <1>4, <1>5, <2>1 DEF MigrateFile, Fails, statVars
<1>6. CASE MigrateLeaf(j)
  <2>1. j \in Coordinates
    BY <1>6 DEF MigrateLeaf, Coordinates
  <2> QED BY <1>2, <1>3, <1>4, <1>6, <2>1 DEF MigrateLeaf, statVars
<1>7. CASE ~MigrateGo(j) /\ ~MigrateFile(j) /\ ~MigrateLeaf(j)
  BY <1>4, <1>7
     DEF JobStep, Acquire, Pre, PreSkips, PreTags, Fails, Expand, Join, Skipped, Lookup, ReadFiles, AppendFile,
         Post, statVars
<1> QED BY <1>1, <1>5, <1>6, <1>7

\* No step writes a second row for a coordinate, or one that is not true.
LEMMA StepRows ==
  ASSUME EngineTypes, Nested, RowInv, NEW j \in Jobs, JobStep(j)
  PROVE  RowInv'
<1>0. dest' \subseteq Content
  BY StepContent
<1>1. \A c \in Jobs :
        state[c] \notin Untouched => state'[c] \notin Untouched /\ (state'[c] = "migrate" => state[c] = "migrate")
  BY StepShape, StepForward
<1>2. CASE NoRowStep
  BY <1>0, <1>2, ListedRows DEF NoRowStep, RowInv
<1>3. CASE OwnRow(j)
  <2>1. stats[j] = NoRow /\ j \in Coordinates /\ j \in Rowed /\ j \notin Tags
    BY <1>3, Levels DEF OwnRow, RowInv, Untouched, Rowed
  <2>2. PICK s \in Statuses : stats' = [stats EXCEPT ![j] = Append(@, s)] /\ TrueRow(j, s)'
    BY <1>3 DEF OwnRow
  <2>3. Append(NoRow, s) = <<s>>
    BY DEF NoRow
  <2>4. stats' = [stats EXCEPT ![j] = <<s>>]
    BY <2>1, <2>2, <2>3
  <2>5. stats' \in [Rowed -> Rows]
    BY <2>4 DEF RowInv, Rows, Statuses
  <2>6. state'[j] \notin Untouched /\ (state'[j] = "migrate" => j \in skip')
    BY <1>3 DEF OwnRow, Goto, EngineTypes, Untouched
  <2>7. stats'[j] = <<s>> /\ \A c \in Rowed \ {j} : stats'[c] = stats[c]
    BY <2>1, <2>4 DEF RowInv
  <2>8. Grows /\ skip \subseteq skip'
    BY <1>3 DEF OwnRow
  <2>9. ASSUME NEW c \in Rowed, NEW x \in Statuses, stats'[c] = <<x>>
        PROVE  TrueRow(c, x)'
    <3>1. CASE c = j
      <4>1. x = s
        BY <2>7, <2>9, <3>1
      <4> QED BY <2>2, <3>1, <4>1
    <3>2. CASE c # j
      BY <2>7, <2>8, <2>9, <3>2, TrueStays DEF RowInv
    <3> QED BY <3>1, <3>2
  <2>10. ASSUME NEW c \in Coordinates, stats'[c] # NoRow
         PROVE  state'[c] \notin Untouched /\ (state'[c] = "migrate" => c \in skip')
    BY <1>1, <2>6, <2>7, <2>8, <2>10, Levels DEF RowInv
  <2>11. ASSUME NEW t \in Tags, stats'[t] # NoRow
         PROVE  state'[Parent[t]] \notin Untouched
    BY <1>1, <2>1, <2>7, <2>11, Levels DEF RowInv
  <2> QED BY <1>0, <2>5, <2>9, <2>10, <2>11 DEF RowInv
<1>4. CASE SkipRows(j)
  <2>1. PICK known \in SUBSET (Children(j) \cap Artifacts) :
          /\ state[j] = "migrate" /\ \A i \in known : Held(i) /\ state'[i] = "done"
          /\ stats' = [c \in Rowed |-> IF c \in known THEN Append(stats[c], "skip") ELSE stats[c]]
    BY <1>4 DEF SkipRows
  <2>2. \A i \in known : i \in Jobs \ Registries /\ state[i] = "none" /\ i \in Coordinates /\ i \notin Oci
    BY <2>1, ParentIsJob, Levels DEF Children, Nested, Coordinates
  <2>3. \A i \in known : stats[i] = NoRow /\ i \in Rowed /\ i \notin Tags
    BY <2>2, Levels DEF RowInv, Untouched
  <2>4. Append(NoRow, "skip") = <<"skip">>
    BY DEF NoRow
  <2>5. stats' = [c \in Rowed |-> IF c \in known THEN <<"skip">> ELSE stats[c]]
    BY <2>1, <2>3, <2>4
  <2>6. stats' \in [Rowed -> Rows]
    BY <2>5 DEF RowInv, Rows
  <2>7. UNCHANGED <<skip, dest, orphans>> /\ Grows
    BY <1>4 DEF SkipRows, Grows
  <2>8. \A i \in known : TrueRow(i, "skip")'
    BY <2>1, <2>2, <2>7 DEF TrueRow, Held, Stored
  <2>9. \A c \in Rowed : IF c \in known THEN stats'[c] = <<"skip">> ELSE stats'[c] = stats[c]
    BY <2>5
  <2>10. \A t \in Tags : t \notin known /\ t \in Rowed
    BY <2>3, Levels
  <2>11. \A c \in Coordinates : c \in Rowed
    BY Levels
  <2> QED BY <1>0, <2>1, <2>6, <2>7, <2>8, <2>9, <2>10, <2>11, ListedRows
<1>5. CASE TagRows(j)
  <2>1. PICK known \in SUBSET (TagsOf(j) \cap dest) :
          stats' = [c \in Rowed |-> IF c \in known THEN Append(stats[c], "skip") ELSE stats[c]]
    BY <1>5 DEF TagRows
  <2>2. j \in Oci /\ state[j] = "pre" /\ state'[j] = "migrate" /\ UNCHANGED <<skip, dest, orphans>>
    BY <1>5 DEF TagRows, Goto, EngineTypes
  <2>3. \A t \in known : t \in Tags /\ Parent[t] = j /\ t \in dest /\ t \in Rowed
    BY <2>1, Levels DEF TagsOf
  <2>4. \A t \in known : stats[t] = NoRow
    BY <2>2, <2>3 DEF RowInv, Untouched
  <2>5. Append(NoRow, "skip") = <<"skip">>
    BY DEF NoRow
  <2>6. stats' = [c \in Rowed |-> IF c \in known THEN <<"skip">> ELSE stats[c]]
    BY <2>1, <2>4, <2>5
  <2>7. stats' \in [Rowed -> Rows]
    BY <2>6 DEF RowInv, Rows
  <2>8. \A c \in Rowed : IF c \in known THEN stats'[c] = <<"skip">> ELSE stats'[c] = stats[c]
    BY <2>6
  <2>9. \A t \in known : t \notin Oci /\ t \notin Artifacts
    BY <2>3, Levels DEF Jobs
  <2>10. \A t \in known : TrueRow(t, "skip")'
    BY <2>2, <2>3, <2>9 DEF TrueRow
  <2>11. \A c \in Coordinates : c \notin known /\ c \in Rowed
    BY <2>3, Levels
  <2>12. \A t \in Tags : stats'[t] # stats[t] => state'[Parent[t]] \notin Untouched
    BY <2>2, <2>3, <2>8, Levels DEF Untouched
  <2>13. Grows
    BY <2>2 DEF Grows
  <2> QED BY <1>0, <2>2, <2>7, <2>8, <2>10, <2>11, <2>12, <2>13, ListedRows
<1> QED BY <1>2, <1>3, <1>4, <1>5, RowShape

\* So the rows are honest at all times.
LEMMA AlwaysRows == Spec => []RowInv
<1>1. Init => RowInv
  <2>1. \A s \in Statuses : NoRow # <<s>>
    BY DEF NoRow
  <2> QED BY <2>1, Levels DEF Init, RowInv, Rows, NoRow
<1>2. EngineTypes /\ Nested /\ RowInv /\ [Next]_vars => RowInv'
  <2> SUFFICES ASSUME EngineTypes, Nested, RowInv, [Next]_vars  PROVE RowInv'
    OBVIOUS
  <2>1. CASE \E j \in Jobs : JobStep(j)
    BY <2>1, StepRows
  <2>2. CASE Finish \/ UNCHANGED vars
    <3>1. UNCHANGED <<state, skip, stats, dest, orphans>>
      BY <2>2 DEF Finish, vars, engineVars, statVars
    <3> QED BY <3>1 DEF RowInv, TrueRow, Held, Stored
  <2> QED BY <2>1, <2>2 DEF Next
<1> QED BY <1>1, <1>2, AlwaysNested, PTL DEF Spec

\* OneHonestRow for every tree and every content of the destination.
THEOREM RowsAreHonest == Spec => []OneHonestRow
<1>1. RowInv => OneHonestRow
  <2> SUFFICES ASSUME RowInv  PROVE OneHonestRow
    OBVIOUS
  <2>1. ASSUME NEW c \in Rowed  PROVE Len(stats[c]) <= 1
    <3>1. stats[c] \in Rows
      BY DEF RowInv
    <3>2. CASE stats[c] = <<>>
      BY <3>2
    <3>3. ASSUME NEW s, stats[c] = <<s>>  PROVE Len(stats[c]) <= 1
      BY <3>3
    <3> QED BY <3>1, <3>2, <3>3 DEF Rows, NoRow
  <2>2. \A c \in Rowed : /\ stats[c] = <<"success">> => TrueRow(c, "success")
                         /\ stats[c] = <<"skip">> => TrueRow(c, "skip")
    BY DEF RowInv, Statuses
  <2>3. /\ \A c \in (Coordinates \ Oci) \cup Tags : c \in Rowed /\ c \notin Oci
        /\ \A c \in (Leaf \ Oci) \cup Tags : c \in Rowed /\ c \notin Oci /\ c \notin Artifacts
        /\ \A a \in Artifacts : a \in Rowed /\ a \notin Oci
        /\ \A p \in Oci : p \in Rowed
    BY Levels DEF Coordinates, Jobs
  <2>t. \A c : /\ TrueRow(c, "success") /\ c \notin Oci => c \in dest
               /\ TrueRow(c, "success") /\ c \in Oci => TagsOf(c) \subseteq dest \cup orphans
               /\ TrueRow(c, "skip") /\ c \in Oci => TagsOf(c) = {}
               /\ TrueRow(c, "skip") /\ c \in Artifacts \ Oci => Held(c)
               /\ TrueRow(c, "skip") /\ c \notin Artifacts \cup Oci => c \in dest
    BY DEF TrueRow
  <2>4. \A c \in (Coordinates \ Oci) \cup Tags : stats[c] = <<"success">> => c \in dest
    BY <2>2, <2>3, <2>t
  <2>5. \A c \in (Leaf \ Oci) \cup Tags : stats[c] = <<"skip">> => c \in dest
    BY <2>2, <2>3, <2>t
  <2>6. \A a \in Artifacts : stats[a] = <<"skip">> => Held(a)
    BY <2>2, <2>3, <2>t
  <2>7. \A p \in Oci : /\ stats[p] = <<"success">> => TagsOf(p) \subseteq dest \cup orphans
                       /\ stats[p] = <<"skip">> => TagsOf(p) = {}
    BY <2>2, <2>3, <2>t
  <2> QED BY <2>1, <2>4, <2>5, <2>6, <2>7, Zenon DEF OneHonestRow, Held
<1> QED BY <1>1, AlwaysRows, PTL

(***************************************************************************)
(* No selected file drops out.                                              *)
(***************************************************************************)
Sent(j)  == j \in errs[Parent[j]]
Ended    == {"post", "done"}

\* A job that ended left a row, an error, or children that all ended; a registry that ended
\* sent an error if it got one.
EndInv ==
  /\ \A j \in Jobs : state[j] \in {"lookup", "append"} => j \in Artifacts /\ dryRun
  /\ \A a \in Artifacts :
       ~dryRun /\ Parent[a] \notin GoVersions /\ state[a] \in Ended => stats[a] # NoRow \/ Sent(a)
  /\ \A j \in Nodes : state[j] \in Ended => Sent(j) \/ \A i \in Children(j) : state[i] = "done"
  /\ \A r \in Registries : state[r] \in Ended => Sent(r) \/ errs[r] = {}
  /\ \A c \in skip : c \in Coordinates /\ stats[c] # NoRow

\* The error of a job that leaves with one is on an errCh that somebody reads.
LEMMA LeaveSends ==
  ASSUME EngineTypes, Nested, NEW j \in Jobs, state[j] \in Busy, Leave(j, TRUE)
  PROVE  Sent(j)' /\ state'[j] = "done"
<1>1. Parent[j] \in Owners
  BY ParentIsJob DEF Nested, NestedBusy, Owners
<1> QED BY <1>1 DEF Leave, Sent, EngineTypes

\* A step adds errors and rows and takes none back, and a done job stays done.
LEMMA Monotone ==
  ASSUME EngineTypes, Nested, RowInv, NEW j \in Jobs, JobStep(j)
  PROVE  /\ \A i \in Jobs : Sent(i) /\ Parent[i] \in Owners => Sent(i)'
         /\ \A c \in Coordinates : stats[c] # NoRow => stats'[c] # NoRow
         /\ \A i \in Jobs : state[i] = "done" => state'[i] = "done"
<1>1. EngineStep(j)
  BY StepShape
<1>2. \A i \in Jobs : Sent(i) /\ Parent[i] \in Owners => Sent(i)'
  BY <1>1 DEF EngineStep, Acquire, Moves, Goto, Quits, Leave, Opens, Sent, EngineTypes
<1>3. \A i \in Jobs : state[i] = "done" => state'[i] = "done"
  <2>1. CASE Acquire(j)
    BY <2>1 DEF Acquire, EngineTypes
  <2>2. CASE Ready(j) /\ Moves(j)
    BY <2>2 DEF Ready, Busy, Moves, Goto, EngineTypes
  <2>3. CASE Ready(j) /\ Quits(j)
    BY <2>3 DEF Quits, Leave, EngineTypes
  <2>4. CASE Opens(j)
    <3>1. \A i \in Children(j) : state[i] = "none"
      BY <2>4, ParentIsJob DEF Opens, Nested, Children
    <3> QED BY <2>4, <3>1 DEF Opens
  <2> QED BY <1>1, <2>1, <2>2, <2>3, <2>4 DEF EngineStep
<1>4. \A c \in Coordinates : stats[c] # NoRow => stats'[c] # NoRow
  <2>1. CASE NoRowStep
    BY <2>1 DEF NoRowStep
  <2>2. CASE OwnRow(j)
    <3>1. stats[j] = NoRow
      BY <2>2 DEF OwnRow, RowInv, Untouched
    <3> QED BY <2>2, <3>1, Levels DEF OwnRow, RowInv
  <2>3. CASE SkipRows(j)
    <3>1. \A i \in Children(j) : state[i] = "none"
      BY <2>3, ParentIsJob DEF SkipRows, Nested, Children
    <3>2. \A c \in Coordinates : stats[c] # NoRow => c \notin Children(j)
      BY <3>1 DEF RowInv, Untouched
    <3> QED BY <2>3, <3>2, Levels DEF SkipRows
  <2>4. CASE TagRows(j)
    BY <2>4, Levels DEF TagRows, TagsOf
  <2> QED BY <2>1, <2>2, <2>3, <2>4, RowShape
<1> QED BY <1>2, <1>3, <1>4

\* A job's error goes to the engine that runs it, and to no other.
LEMMA StepErrs ==
  ASSUME EngineTypes, Nested, NEW j \in Jobs, JobStep(j), NEW e \in Owners, Parent[j] # e
  PROVE  errs'[e] = errs[e]
  BY StepShape DEF EngineStep, Acquire, Moves, Goto, Quits, Leave, Opens, EngineTypes

\* How the job that steps may end.
OwnEnd(j) ==
  /\ state'[j] \in {"lookup", "append"} => j \in Artifacts /\ dryRun
  /\ j \in Artifacts /\ ~dryRun /\ state'[j] \in Ended => stats'[j] # NoRow \/ Sent(j)'
  /\ j \in Nodes /\ state'[j] \in Ended => Sent(j)' \/ \A i \in Children(j) : state'[i] = "done"
  /\ j \in Registries /\ state'[j] \in Ended => Sent(j)' \/ errs'[j] = {}

\* A step of one job keeps its own part of the invariant.
LEMMA StepOwnEnd ==
  ASSUME EngineTypes, Nested, RowInv, EndInv, NEW j \in Jobs, JobStep(j)
  PROVE  OwnEnd(j)
<1> USE DEF OwnEnd, Ended
<1>0. ASSUME NEW s \in Steps, state' = [state EXCEPT ![j] = s]
      PROVE  state'[j] = s
  BY <1>0 DEF EngineTypes
<1>a. ASSUME state[j] \in Busy, Leave(j, TRUE)
      PROVE  OwnEnd(j)
  BY <1>a, LeaveSends
<1>1. CASE Acquire(j)     BY <1>0, <1>1 DEF Acquire, Steps
<1>2. CASE Pre(j)         BY <1>0, <1>2, <1>a DEF Pre, PreSkips, PreTags, Goto, Fails, Steps, Busy
<1>3. CASE Expand(j)
  <2>1. CASE Leave(j, TRUE)
    BY <1>3, <1>a, <2>1 DEF Expand, Steps, Busy
  <2>2. CASE \E known \in Existing(j) :
               state' = [i \in Jobs |-> IF i = j THEN "wait"
                                        ELSE IF i \in known THEN "done"
                                        ELSE IF i \in Children(j) THEN "queued" ELSE state[i]]
    BY <2>2
  <2> QED BY <1>3, <2>1, <2>2 DEF Expand
<1>4. CASE Join(j)
  <2>1. CASE Leave(j, TRUE)
    BY <1>4, <1>a, <2>1 DEF Join, Steps, Busy
  <2>2. CASE Goto(j, "post")
    <3>1. state'[j] = "post" /\ \A i \in Children(j) : i \in Jobs /\ i # j
      BY <1>0, <1>4, <2>2, ParentIsJob DEF Goto, Steps, Children, Join
    <3>2. \A i \in Children(j) : state'[i] = "done"
      BY <1>4, <2>2, <3>1 DEF Join, Goto, EngineTypes
    <3>3. j \notin Artifacts
      BY <1>4, Levels DEF Join, Nested
    <3>4. j \in Registries => errs'[j] = {}
      <4>1. "done" # "post"
        OBVIOUS
      <4> QED BY <1>0, <1>4, <2>2, <4>1, <3>1 DEF Join, Goto, Leave, EngineTypes
    <3> QED BY <3>1, <3>2, <3>3, <3>4
  <2> QED BY <1>4, <2>1, <2>2 DEF Join
<1>5. CASE Skipped(j)
  <2>1. state'[j] = "post" /\ j \in Coordinates /\ stats'[j] # NoRow
    BY <1>0, <1>5 DEF Skipped, Goto, Steps, EndInv, statVars
  <2> QED BY <2>1, Levels
<1>6. CASE MigrateFile(j)
  <2>1. j \in Artifacts /\ j \notin Nodes
    BY <1>6, Levels DEF MigrateFile
  <2>2. CASE Transfer(j) /\ Goto(j, "post")
    <3>1. PICK s \in Statuses : Record(j, s)
      BY <2>2 DEF Transfer, Statuses
    <3>2. stats[j] = NoRow /\ stats' = [stats EXCEPT ![j] = Append(@, s)]
      BY <1>6, <3>1, <2>1, Levels DEF MigrateFile, Record, RowInv, Untouched
    <3>3. stats'[j] = <<s>>
      BY <2>1, <3>2, Levels DEF RowInv, NoRow
    <3>4. state'[j] = "post"
      BY <1>0, <2>2 DEF Goto, Steps
    <3> QED BY <2>1, <3>3, <3>4, Levels DEF NoRow
  <2>3. CASE Fails(j)
    BY <1>6, <1>a, <2>3 DEF MigrateFile, Fails, Steps, Busy
  <2> QED BY <1>6, <2>2, <2>3 DEF MigrateFile
<1>7. CASE MigrateLeaf(j)
  <2>1. j \in Leaf /\ j \in Coordinates /\ state'[j] = "post"
    BY Levels, <1>0, <1>7 DEF MigrateLeaf, Goto, Steps
  <2> QED BY <2>1, Levels
<1>8. CASE MigrateGo(j)
  <2>1. j \in GoVersions /\ state'[j] \in {"post", "done"}
    BY <1>0, <1>8 DEF MigrateGo, Goto, Leave, Steps
  <2> QED BY <2>1, Levels
<1>9. CASE Lookup(j)      BY <1>0, <1>9 DEF Lookup, Goto, Steps
<1>10. CASE ReadFiles(j)  BY <1>0, <1>10 DEF ReadFiles, Goto, Steps, EndInv
<1>11. CASE AppendFile(j)
  <2>1. j \in Artifacts /\ j \in Coordinates /\ dryRun /\ state'[j] = "post"
    BY Levels, <1>0, <1>11 DEF AppendFile, Goto, Steps, EndInv
  <2> QED BY <2>1, Levels
<1>12. CASE Post(j)
  <2>0. j \in Artifacts => Parent[j] \notin GoVersions
    BY <1>12, Levels, ParentIsJob, JobTree DEF Post, Nested, NestedBusy, Busy, Steps, Nodes, Jobs
  <2>1. state[j] = "post" /\ state'[j] = "done" /\ UNCHANGED <<errs, stats>>
    BY <1>0, <1>12 DEF Post, Leave, Steps, statVars
  <2>2. \A i \in Children(j) : state[i] = "done" => state'[i] = "done"
    BY Monotone DEF Children
  <2> QED BY <2>0, <2>1, <2>2 DEF EndInv, Sent
<1> QED BY <1>1, <1>2, <1>3, <1>4, <1>5, <1>6, <1>7, <1>8, <1>9, <1>10, <1>11, <1>12 DEF JobStep

\* The other jobs: at most created by the step, or, if the destination has it, given a
\* row in place of a job.
LEMMA StepOthers ==
  ASSUME EngineTypes, Nested, RowInv, NEW j \in Jobs, JobStep(j), NEW i \in Jobs, i # j
  PROVE  \/ state'[i] = state[i]
         \/ state'[i] = "queued"
         \/ state'[i] = "done" /\ i \in Coordinates /\ stats'[i] # NoRow
<1> USE DEF EngineTypes
<1>1. CASE Expand(j)
  <2>1. CASE \E known \in Existing(j) :
               /\ state' = [c \in Jobs |-> IF c = j THEN "wait"
                                           ELSE IF c \in known THEN "done"
                                           ELSE IF c \in Children(j) THEN "queued" ELSE state[c]]
               /\ stats' = [c \in Rowed |-> IF c \in known THEN Append(stats[c], "skip") ELSE stats[c]]
    <3>1. PICK known \in Existing(j) :
               /\ state' = [c \in Jobs |-> IF c = j THEN "wait"
                                           ELSE IF c \in known THEN "done"
                                           ELSE IF c \in Children(j) THEN "queued" ELSE state[c]]
               /\ stats' = [c \in Rowed |-> IF c \in known THEN Append(stats[c], "skip") ELSE stats[c]]
      BY <2>1
    <3>2. i \in known => i \in Artifacts /\ Parent[i] = j
      BY <3>1, KnownHeld DEF Children
    <3>3. i \in known => state[i] = "none" /\ i \in Coordinates
      BY <1>1, <3>2, ParentIsJob DEF Expand, Nested, Coordinates, Jobs
    <3>4. i \in known => i \in Rowed /\ stats[i] = NoRow
      BY <3>3, Levels DEF RowInv, Untouched
    <3>5. Append(NoRow, "skip") # NoRow
      BY DEF NoRow
    <3> QED BY <3>1, <3>3, <3>4, <3>5
  <2>2. CASE Leave(j, TRUE)
    BY <2>2 DEF Leave
  <2> QED BY <1>1, <2>1, <2>2 DEF Expand
<1>2. CASE ~Expand(j)
  <2>1. \E s : state' = [state EXCEPT ![j] = s]
    BY <1>2 DEF JobStep, Acquire, Pre, PreSkips, PreTags, Fails, Goto, Leave, Join, Skipped, MigrateFile,
                MigrateLeaf, MigrateGo, Lookup, ReadFiles, AppendFile, Post
  <2> QED BY <2>1
<1> QED BY <1>1, <1>2

\* A step of one job keeps every job's part of it.
LEMMA StepEnd ==
  ASSUME EngineTypes, Nested, RowInv, EndInv, NEW j \in Jobs, JobStep(j)
  PROVE  EndInv'
<1>1. OwnEnd(j)
  BY StepOwnEnd
<1>2. \A i \in Jobs : i # j =>
        \/ state'[i] = state[i]
        \/ state'[i] = "queued"
        \/ state'[i] = "done" /\ i \in Coordinates /\ stats'[i] # NoRow
  BY StepOthers
<1>3. \A i \in Jobs : state'[i] \in {"lookup", "append"} => i \in Artifacts /\ dryRun
  BY <1>1, <1>2 DEF OwnEnd, EndInv
<1>4. ASSUME NEW a \in Artifacts, ~dryRun, Parent[a] \notin GoVersions, state'[a] \in Ended
      PROVE  stats'[a] # NoRow \/ Sent(a)'
  <2>1. a \in Jobs /\ a \in Coordinates /\ Parent[a] \in Owners
    BY <1>4, JobTree DEF Jobs, Coordinates, Owners, Nodes
  <2>2. CASE a = j
    BY <1>1, <1>4, <2>2 DEF OwnEnd
  <2>3. CASE a # j /\ state'[a] = state[a]
    BY <1>4, <2>1, <2>3, Monotone DEF EndInv
  <2>4. CASE a # j /\ state'[a] # state[a]
    BY <1>2, <1>4, <2>1, <2>4 DEF Ended
  <2> QED BY <2>2, <2>3, <2>4
<1>5. ASSUME NEW i \in Nodes, state'[i] \in Ended
      PROVE  Sent(i)' \/ \A c \in Children(i) : state'[c] = "done"
  <2>1. i \in Jobs /\ i \notin Coordinates /\ Parent[i] \in Owners
    BY Levels, JobTree DEF Jobs, Owners, Nodes
  <2>2. CASE i = j
    BY <1>1, <1>5, <2>2 DEF OwnEnd
  <2>3. CASE i # j
    <3>1. state'[i] = state[i]
      BY <1>2, <1>5, <2>1, <2>3 DEF Ended
    <3> QED BY <1>5, <2>1, <3>1, Monotone DEF EndInv, Children
  <2> QED BY <2>2, <2>3
<1>6. \A c \in skip' : c \in Coordinates /\ stats'[c] # NoRow
  <2>1. CASE UNCHANGED skip
    BY <2>1, Monotone DEF EndInv
  <2>2. CASE OwnRow(j)
    <3>1. stats[j] = NoRow /\ j \in Coordinates
      BY <2>2 DEF OwnRow, RowInv, Untouched
    <3>2. stats'[j] # NoRow
      BY <2>2, <3>1, Levels DEF OwnRow, RowInv, NoRow
    <3> QED BY <2>2, <3>1, <3>2, Monotone DEF OwnRow, EndInv
  <2> QED BY <2>1, <2>2, RowShape DEF NoRowStep, SkipRows, TagRows
<1>7. ASSUME NEW r \in Registries, state'[r] \in Ended
      PROVE  Sent(r)' \/ errs'[r] = {}
  <2>1. r \in Jobs /\ r \notin Coordinates /\ Parent[r] \in Owners
    BY JobTree DEF Jobs, Coordinates, Owners, Nodes
  <2>2. CASE r = j
    BY <1>1, <1>7, <2>2 DEF OwnEnd
  <2>3. CASE r # j
    <3>1. state'[r] = state[r]
      BY <1>2, <1>7, <2>1, <2>3 DEF Ended
    <3>2. errs'[r] = errs[r]
      <4>1. ASSUME Parent[j] = r  PROVE FALSE
        <5>1. state[j] \in Busy \cup {"queued"}
          BY StepExit
        <5>2. j \in Jobs \ Registries
          BY <2>1, <4>1, ParentIsJob
        <5>3. state[Parent[j]] = "wait"
          BY <5>1, <5>2 DEF Nested, NestedBusy
        <5> QED BY <1>7, <3>1, <4>1, <5>3 DEF Ended
      <4>2. r \in Owners
        BY <2>1, JobTree DEF Owners, Nodes
      <4> QED BY <4>1, <4>2, StepErrs
    <3>3. Sent(r) \/ errs[r] = {}
      BY <1>7, <3>1 DEF EndInv
    <3>4. Sent(r) => Sent(r)'
      BY <2>1, Monotone
    <3> QED BY <3>2, <3>3, <3>4
  <2> QED BY <2>2, <2>3
<1>8. dryRun' = dryRun
  BY DEF JobStep
<1> QED BY <1>3, <1>4, <1>5, <1>6, <1>7, <1>8 DEF EndInv

\* So every job's end is accounted for, and Run waits for all of them.
LEMMA AlwaysEnded == Spec => [](EndInv /\ Waited)
<1>1. Init => EndInv /\ Waited
  BY DEF Init, EndInv, Waited, Ended, Jobs, Nodes
<1>2. EngineTypes /\ Nested /\ RowInv /\ EndInv /\ Waited /\ [Next]_vars => (EndInv /\ Waited)'
  <2> SUFFICES ASSUME EngineTypes, Nested, RowInv, EndInv, Waited, [Next]_vars
      PROVE  (EndInv /\ Waited)'
    OBVIOUS
  <2>1. CASE \E j \in Jobs : JobStep(j)
    <3>1. EndInv'
      BY <2>1, StepEnd
    <3>2. exit = "none" /\ exit' \in {exit, "crashed"}
      BY <2>1, StepExit, AllQuiet DEF Waited
    <3> QED BY <3>1, <3>2 DEF Waited
  <2>2. CASE exit = "none" /\ Finish
    BY <2>2 DEF Finish, engineVars, statVars, EndInv, Sent, Waited
  <2>3. CASE UNCHANGED vars
    BY <2>3 DEF vars, engineVars, statVars, EndInv, Sent, Waited
  <2> QED BY <2>1, <2>2, <2>3 DEF Next
<1> QED BY <1>1, <1>2, AlwaysNested, AlwaysRows, PTL DEF Spec

\* NoFileForgotten for every tree: a file that is not in the result was below, or was
\* itself, a job whose error was sent.
THEOREM FilesAccounted == Spec => []NoFileForgotten
<1>1. EngineTypes /\ EndInv /\ Waited => NoFileForgotten
  <2> SUFFICES ASSUME EndInv, Waited, exit \in {"ok", "failed"}, ~dryRun, NEW a \in Artifacts,
                      Parent[a] \notin GoVersions, stats[a] = <<>>, ~Sent(a),
                      ~Sent(Parent[a]), ~Sent(Parent[Parent[a]])
      PROVE  Sent(Parent[Parent[Parent[a]]])
    BY DEF NoFileForgotten, Sent
  <2> DEFINE v == Parent[a]
             p == Parent[v]
             r == Parent[p]
  <2>1. /\ v \in Nodes /\ a \in Children(v)
        /\ p \in Nodes /\ v \in Children(p)
        /\ r \in Registries /\ r \in Nodes /\ p \in Children(r)
    BY JobTree DEF Nodes, Children, Jobs
  <2>2. state[r] = "done"
    BY <2>1 DEF Waited
  <2>3. SUFFICES ASSUME ~Sent(r) PROVE FALSE
    OBVIOUS
  <2>4. state[p] = "done"
    BY <2>1, <2>2, <2>3 DEF EndInv, Ended
  <2>5. state[v] = "done"
    BY <2>1, <2>4 DEF EndInv, Ended
  <2>6. state[a] = "done"
    BY <2>1, <2>5 DEF EndInv, Ended
  <2> QED BY <2>6 DEF EndInv, Ended, NoRow
<1> QED BY <1>1, AlwaysNested, AlwaysEnded, PTL

\* FailuresReachTheExit for every tree: an error or a panic of a package is passed on by its
\* registry, and after Run read the rows and the errors no job can add one that it misses.
THEOREM FailuresReported == Spec => []FailuresReachTheExit
<1>1. Init => FailuresReachTheExit
  BY DEF Init, FailuresReachTheExit
<1>2. EngineTypes /\ Nested /\ EndInv /\ Waited /\ FailuresReachTheExit /\ [Next]_vars => FailuresReachTheExit'
  <2> SUFFICES ASSUME EngineTypes, Nested, EndInv, Waited, FailuresReachTheExit, [Next]_vars
      PROVE  FailuresReachTheExit'
    OBVIOUS
  <2>1. CASE \E j \in Jobs : JobStep(j)
    <3>1. exit = "none" /\ exit' \in {exit, "crashed"}
      BY <2>1, StepExit, AllQuiet DEF Waited
    <3> QED BY <3>1 DEF FailuresReachTheExit
  <2>2. CASE exit = "none" /\ Finish
    <3>1. SUFFICES ASSUME exit' = "ok", ~dryRun
          PROVE  FailedRows' = {} /\ errs'[Root] = {} /\ \A r \in Registries : errs'[r] = {}
      BY <2>2 DEF Finish, FailuresReachTheExit
    <3>2. UNCHANGED <<stats, errs>> /\ errs[Root] = {} /\ FailedRows = {}
      BY <2>2, <3>1 DEF Finish, engineVars, statVars
    <3>3. ASSUME NEW r \in Registries  PROVE errs[r] = {}
      BY <2>2, <3>2, ParentIsJob DEF Finish, EndInv, Ended, Sent
    <3> QED BY <3>2, <3>3 DEF FailedRows
  <2>3. CASE UNCHANGED vars
    BY <2>3 DEF vars, engineVars, statVars, FailuresReachTheExit, FailedRows
  <2> QED BY <2>1, <2>2, <2>3 DEF Next
<1> QED BY <1>1, <1>2, AlwaysNested, AlwaysEnded, PTL DEF Spec

(***************************************************************************)
(* Type correctness.                                                        *)
(***************************************************************************)
DataTypes ==
  /\ dryRun \in BOOLEAN /\ skip \subseteq Coordinates /\ orphans \subseteq Tags
  /\ entries \subseteq Jobs
  /\ listed \in [Versions -> SUBSET Artifacts] /\ seen \in [Artifacts -> SUBSET Artifacts]
  /\ exit \in {"none", "ok", "failed", "crashed"}
  /\ \A j \in Jobs : state[j] \in {"lookup", "append"} => j \in Artifacts

\* Only file jobs look up and append, so the lists of a version hold files.
LEMMA StepDataTypes ==
  ASSUME EngineTypes, Nested, RowInv, DataTypes, NEW j \in Jobs, JobStep(j)
  PROVE  DataTypes'
<1> USE DEF DataTypes
<1>1. exit' \in {"none", "ok", "failed", "crashed"}
  BY StepExit
<1>2. skip' \subseteq Coordinates
  BY RowShape DEF NoRowStep, OwnRow, SkipRows, TagRows
<1>3. entries' \subseteq Jobs
  BY DEF JobStep, Acquire, Pre, PreSkips, PreTags, Fails, Expand, Ensure, Join, Skipped, MigrateFile, MigrateLeaf,
         MigrateGo, Lookup, ReadFiles, AppendFile, Post, dryVars
<1>4. dryRun' \in BOOLEAN /\ orphans' \subseteq Tags
  <2>1. CASE UNCHANGED orphans
    BY <2>1 DEF JobStep
  <2>2. CASE CopyTags(j)
    BY <2>2 DEF JobStep, CopyTags, TagsOf
  <2> QED BY <2>1, <2>2
        DEF JobStep, Acquire, Pre, PreSkips, PreTags, Fails, Expand, Join, Skipped, MigrateFile, MigrateLeaf,
            MigrateGo, Lookup, ReadFiles, AppendFile, Post, statVars
<1>5. listed' \in [Versions -> SUBSET Artifacts] /\ seen' \in [Artifacts -> SUBSET Artifacts]
  <2>1. CASE ReadFiles(j)
    <3>1. j \in Artifacts /\ Parent[j] \in Versions
      BY <2>1, JobTree DEF ReadFiles
    <3> QED BY <2>1, <3>1 DEF ReadFiles
  <2>2. CASE AppendFile(j)
    <3>1. j \in Artifacts /\ Parent[j] \in Versions
      BY <2>2, JobTree DEF AppendFile
    <3> QED BY <2>2, <3>1 DEF AppendFile
  <2>3. CASE UNCHANGED <<listed, seen>>
    BY <2>3
  <2> QED BY <2>1, <2>2, <2>3
        DEF JobStep, Acquire, Pre, PreSkips, PreTags, Fails, Expand, Ensure, Join, Skipped, MigrateFile,
            MigrateLeaf, MigrateGo, Lookup, Post, dryVars
<1>6. \A i \in Jobs : state'[i] \in {"lookup", "append"} => i \in Artifacts
  <2>1. state'[j] \in {"lookup", "append"} => j \in Artifacts
    <3>1. \A s : state' = [state EXCEPT ![j] = s] => state'[j] = s
      BY DEF EngineTypes
    <3>2. CASE Expand(j)
      BY <3>1, <3>2 DEF Expand, Leave
    <3> QED BY <3>1, <3>2
          DEF JobStep, Acquire, Pre, PreSkips, PreTags, Fails, Goto, Leave, Join, Skipped, MigrateFile, MigrateLeaf,
              MigrateGo, Lookup, ReadFiles, AppendFile, Post
  <2> QED BY <2>1, StepOthers
<1> QED BY <1>1, <1>2, <1>3, <1>4, <1>5, <1>6

\* The types of Migration, for every tree.
THEOREM TypeCorrect == Spec => []TypeOK
<1>1. Init => DataTypes
  <2>1. Init => \A j \in Jobs : state[j] \in {"none", "queued"}
    BY DEF Init
  <2> QED BY <2>1 DEF Init, DataTypes
<1>2. EngineTypes /\ Nested /\ RowInv /\ DataTypes /\ [Next]_vars => DataTypes'
  <2> SUFFICES ASSUME EngineTypes, Nested, RowInv, DataTypes, [Next]_vars  PROVE DataTypes'
    OBVIOUS
  <2>1. CASE \E j \in Jobs : JobStep(j)
    BY <2>1, StepDataTypes
  <2>2. CASE Finish \/ UNCHANGED vars
    BY <2>2 DEF Finish, vars, engineVars, statVars, dryVars, DataTypes
  <2> QED BY <2>1, <2>2 DEF Next
<1>3. EngineTypes /\ RowInv /\ DataTypes => TypeOK
  <2>1. Rows \subseteq Seq(Statuses)
    BY DEF Rows, NoRow, Statuses
  <2> QED BY <2>1 DEF EngineTypes, RowInv, DataTypes, TypeOK
<1> QED BY <1>1, <1>2, <1>3, AlwaysNested, AlwaysRows, PTL DEF Spec

(***************************************************************************)
(* Dry runs.                                                                *)
(***************************************************************************)
\* DryRunMutatesOnlyGo for every tree: the branch of the GO versions is the only one that
\* reaches the destination in a dry run.
THEOREM DryRunIsDry == Spec => DryRunMutatesOnlyGo
<1> DEFINE OnlyGo == /\ dest \subseteq dest'
                     /\ \A c \in dest' \ dest : c \in Artifacts /\ Parent[c] \in GoVersions
<1>1. Next => (dryRun => OnlyGo)
  <2> SUFFICES ASSUME dryRun, Next  PROVE OnlyGo
    OBVIOUS
  <2>1. ASSUME NEW j \in Jobs, JobStep(j)  PROVE OnlyGo
    <3>1. CASE MigrateGo(j)
      <4>1. j \in GoVersions /\ \A c \in Children(j) : c \in Artifacts /\ Parent[c] = j
        BY <3>1, JobTree DEF MigrateGo, Children, Jobs
      <4> QED BY <3>1, <4>1 DEF MigrateGo
    <3>2. CASE ~MigrateGo(j)
      <4>1. ~MigrateFile(j)
        BY DEF MigrateFile
      <4>2. UNCHANGED dest
        BY <2>1, <3>2, <4>1
           DEF JobStep, Acquire, Pre, PreSkips, PreTags, Fails, Expand, Join, Skipped, MigrateLeaf, Lookup,
               ReadFiles, AppendFile, Post, statVars
      <4> QED BY <4>2
    <3> QED BY <3>1, <3>2
  <2> QED BY <2>1 DEF Next, Finish, statVars
<1>2. [Next]_vars => [dryRun => OnlyGo]_vars
  BY <1>1
<1> QED BY <1>2, PTL DEF Spec, DryRunMutatesOnlyGo

\* In a dry run a waiting job has its directory; and a file that is past the list of its
\* version is on it, unless a file that is on it had read the list before.
ListInv ==
  dryRun =>
    /\ skip = {}
    /\ \A i \in Jobs : state[i] = "wait" => i \in entries
    /\ \A v \in Versions : \A b \in listed[v] : Parent[b] = v
    /\ \A a \in Artifacts : \A b \in seen[a] : Parent[b] = Parent[a]
    /\ \A a \in Artifacts : state[a] \in Ended =>
         a \in listed[Parent[a]] \/ \E b \in listed[Parent[a]] : b # a /\ a \notin seen[b]

\* A directory is made before a job waits below it, and none is taken away.
LEMMA StepEntries ==
  ASSUME EngineTypes, Nested, ListInv, dryRun, NEW j \in Jobs, JobStep(j)
  PROVE  skip' = {} /\ \A i \in Jobs : state'[i] = "wait" => i \in entries'
<1>1. skip' = {}
  BY DEF ListInv, JobStep, Acquire, Pre, PreSkips, PreTags, Fails, Expand, Join, Skipped, MigrateFile,
         MigrateLeaf, MigrateGo, Lookup, ReadFiles, AppendFile, Post, statVars
<1>2. entries \subseteq entries'
  BY DEF JobStep, Acquire, Pre, PreSkips, PreTags, Fails, Expand, Ensure, Join, Skipped, MigrateFile,
         MigrateLeaf, MigrateGo, Lookup, ReadFiles, AppendFile, Post, dryVars
<1>3. ASSUME NEW i \in Jobs, state'[i] = "wait", state[i] # "wait"  PROVE i \in entries'
  <2>1. Opens(j)
    BY <1>3, StepShape DEF EngineStep, Acquire, Moves, Goto, Quits, Leave, EngineTypes
  <2>2. i = j
    BY <1>3, <2>1 DEF Opens
  <2>3. Expand(j)
    BY <1>3, <2>2
       DEF JobStep, Acquire, Pre, PreSkips, PreTags, Fails, Goto, Leave, Join, Skipped, MigrateFile,
           MigrateLeaf, MigrateGo, Lookup, ReadFiles, AppendFile, Post, EngineTypes
  <2>4. state' # [state EXCEPT ![j] = "done"]
    BY <1>3, <2>2 DEF EngineTypes
  <2>5. Ensure(j)
    BY <2>3, <2>4 DEF Expand, Leave
  <2> QED BY <2>2, <2>5 DEF Ensure
<1> QED BY <1>1, <1>2, <1>3 DEF ListInv

\* The list of a version, and what a job read of it, are files of that version.
LEMMA StepLists ==
  ASSUME dryRun, DataTypes, ListInv, NEW j \in Jobs, JobStep(j)
  PROVE  /\ \A v \in Versions : \A b \in listed'[v] : Parent[b] = v
         /\ \A c \in Artifacts : \A b \in seen'[c] : Parent[b] = Parent[c]
<1>1. CASE AppendFile(j)
  <2>1. /\ j \in Artifacts /\ Parent[j] \in Versions /\ seen' = seen
        /\ listed' = [listed EXCEPT ![Parent[j]] = seen[j] \cup {j}]
    BY <1>1, JobTree DEF AppendFile, DataTypes
  <2> QED BY <2>1 DEF DataTypes, ListInv
<1>2. CASE ReadFiles(j)
  <2>1. /\ j \in Artifacts /\ Parent[j] \in Versions /\ listed' = listed
        /\ seen' = [seen EXCEPT ![j] = listed[Parent[j]]]
    BY <1>2, JobTree DEF ReadFiles, DataTypes
  <2> QED BY <2>1 DEF DataTypes, ListInv
<1>3. CASE UNCHANGED <<listed, seen>>
  BY <1>3 DEF ListInv
<1> QED BY <1>1, <1>2, <1>3
      DEF JobStep, Acquire, Pre, PreSkips, PreTags, Fails, Expand, Ensure, Join, Skipped, MigrateFile,
          MigrateLeaf, MigrateGo, Lookup, Post, dryVars

\* A file gets past the list only by writing itself and what it read.
LEMMA StepList ==
  ASSUME dryRun, EngineTypes, Nested, RowInv, DataTypes, ListInv, NEW j \in Jobs, JobStep(j)
  PROVE  ListInv'
<1> DEFINE OnList(a) == a \in listed[Parent[a]] \/ \E b \in listed[Parent[a]] : b # a /\ a \notin seen[b]
<1> USE DEF Ended
<1>0. ASSUME NEW s, state' = [state EXCEPT ![j] = s]
      PROVE  state'[j] = s /\ \A i \in Jobs \ {j} : state'[i] = state[i]
  BY <1>0 DEF EngineTypes
<1>1. Artifacts \subseteq Jobs /\ \A a \in Artifacts : Parent[a] \in Versions
  BY JobTree DEF Jobs
<1>s. /\ \A v \in Versions : \A b \in listed'[v] : Parent[b] = v
      /\ \A c \in Artifacts : \A b \in seen'[c] : Parent[b] = Parent[c]
  BY StepLists
<1>2. SUFFICES ASSUME NEW a \in Artifacts, state'[a] \in Ended  PROVE OnList(a)'
  BY <1>2, <1>s, StepEntries DEF ListInv
<1>3. CASE AppendFile(j)
  <2>1. j \in Artifacts /\ seen' = seen /\ state' = [state EXCEPT ![j] = "post"]
    BY <1>3 DEF AppendFile, DataTypes, Goto
  <2>2. /\ listed'[Parent[j]] = seen[j] \cup {j}
        /\ \A v \in Versions \ {Parent[j]} : listed'[v] = listed[v]
    BY <1>1, <1>3, <2>1 DEF AppendFile, DataTypes
  <2>3. CASE Parent[a] # Parent[j]
    <3>1. listed'[Parent[a]] = listed[Parent[a]] /\ state'[a] = state[a]
      BY <1>0, <1>1, <2>1, <2>2, <2>3
    <3> QED BY <1>2, <2>1, <3>1 DEF ListInv
  <2>4. CASE Parent[a] = Parent[j] /\ (a = j \/ a \in seen[j])
    BY <2>2, <2>4
  <2>5. CASE Parent[a] = Parent[j] /\ a # j /\ a \notin seen[j]
    BY <2>1, <2>2, <2>5
  <2> QED BY <2>3, <2>4, <2>5
<1>4. CASE ReadFiles(j)
  <2>1. /\ j \in Artifacts /\ listed' = listed
        /\ state' = [state EXCEPT ![j] = "append"]
        /\ seen' = [seen EXCEPT ![j] = listed[Parent[j]]]
    BY <1>4 DEF ReadFiles, Goto, DataTypes
  <2>a. state'[j] = "append" /\ \A i \in Jobs \ {j} : state'[i] = state[i]
    BY <1>0, <2>1
  <2>0. a # j /\ state[a] \in Ended
    BY <1>1, <1>2, <2>a
  <2>2. OnList(a)
    BY <2>0 DEF ListInv
  <2>3. CASE a \in listed[Parent[a]]
    BY <2>1, <2>3
  <2>4. CASE a \notin listed[Parent[a]]
    <3>1. PICK b \in listed[Parent[a]] : b # a /\ a \notin seen[b]
      BY <2>2, <2>4
    <3>2. b \in Artifacts
      BY <1>1, <3>1 DEF DataTypes
    <3>3. Parent[b] = Parent[a] => a \notin seen'[b]
      BY <2>1, <2>4, <3>1, <3>2 DEF DataTypes
    <3>4. b # j => a \notin seen'[b]
      BY <2>1, <3>1, <3>2 DEF DataTypes
    <3>5. Parent[b] = Parent[a]
      BY <1>1, <3>1 DEF ListInv
    <3> QED BY <2>1, <3>1, <3>3, <3>5
  <2> QED BY <2>3, <2>4
<1>5. CASE ~AppendFile(j) /\ ~ReadFiles(j)
  <2>1. UNCHANGED <<listed, seen>>
    BY <1>5 DEF JobStep, Acquire, Pre, PreSkips, PreTags, Fails, Expand, Ensure, Join, Skipped, MigrateFile,
                MigrateLeaf, MigrateGo, Lookup, Post, dryVars
  <2>2. state[a] \in Ended
    <3>1. CASE a # j
      <4>1. CASE Expand(j)
        <5>1. Existing(j) = {{}}
          BY DEF Existing
        <5>2. \/ state' = [i \in Jobs |-> IF i = j THEN "wait"
                                          ELSE IF i \in Children(j) THEN "queued" ELSE state[i]]
              \/ Leave(j, TRUE)
          BY <4>1, <5>1 DEF Expand
        <5> QED BY <1>0, <1>1, <1>2, <3>1, <5>2 DEF Leave
      <4>2. CASE ~Expand(j)
        <5>1. \E s : state' = [state EXCEPT ![j] = s]
          BY <4>2 DEF JobStep, Acquire, Pre, PreSkips, PreTags, Fails, Goto, Leave, Join, Skipped, MigrateFile,
                      MigrateLeaf, MigrateGo, Lookup, ReadFiles, AppendFile, Post
        <5> QED BY <1>0, <1>1, <1>2, <3>1, <5>1
      <4> QED BY <4>1, <4>2
    <3>2. CASE a = j
      <4>1. j \notin Registries /\ j \notin Leaf /\ j \notin Oci /\ j \notin GoVersions /\ j \notin Nodes
        BY <3>2, Levels, JobTree
      <4>2. ~Expand(j) /\ ~MigrateLeaf(j) /\ ~MigrateGo(j) /\ ~MigrateFile(j)
        BY <4>1 DEF Expand, MigrateLeaf, MigrateGo, MigrateFile
      <4>3. ~Join(j) /\ ~Skipped(j)
        BY <4>1 DEF Join, Nested, Skipped, ListInv
      <4>4. ~Acquire(j) /\ ~Pre(j) /\ ~Lookup(j)
        BY <1>0, <1>2, <3>2, <4>1 DEF Acquire, Pre, PreSkips, PreTags, Fails, Lookup, Goto
      <4>5. CASE Post(j)
        BY <3>2, <4>5 DEF Post
      <4> QED BY <1>5, <4>2, <4>3, <4>4, <4>5 DEF JobStep
    <3> QED BY <3>1, <3>2
  <2> QED BY <2>1, <2>2 DEF ListInv
<1> QED BY <1>3, <1>4, <1>5

\* DryRunLosesOnlyToRaces for every tree and every concurrency: a file job of a dry run finds
\* the directories above it, and only a job that read the list before can take a file off it.
THEOREM DryRunListsAll == Spec => []DryRunLosesOnlyToRaces
<1>1. Init => DataTypes /\ ListInv
  <2>1. Init => \A j \in Jobs : state[j] \in {"none", "queued"}
    BY DEF Init
  <2>2. Artifacts \subseteq Jobs
    BY DEF Jobs
  <2> QED BY <2>1, <2>2 DEF Init, DataTypes, ListInv, Ended
<1>2. EngineTypes /\ Nested /\ RowInv /\ DataTypes /\ ListInv /\ [Next]_vars => (DataTypes /\ ListInv)'
  <2> SUFFICES ASSUME EngineTypes, Nested, RowInv, DataTypes, ListInv, [Next]_vars
      PROVE  (DataTypes /\ ListInv)'
    OBVIOUS
  <2>1. CASE \E j \in Jobs : JobStep(j)
    <3>1. PICK j \in Jobs : JobStep(j)
      BY <2>1
    <3>2. DataTypes'
      BY <3>1, StepDataTypes
    <3>3. ListInv'
      <4>1. dryRun' = dryRun
        BY <3>1 DEF JobStep
      <4>2. CASE dryRun
        BY <3>1, <4>2, StepList
      <4> QED BY <4>1, <4>2 DEF ListInv
    <3> QED BY <3>2, <3>3
  <2>2. CASE (exit = "none" /\ Finish) \/ UNCHANGED vars
    <3>1. UNCHANGED <<dryRun, state, slots, skip, dest, orphans, entries, listed, seen>>
      BY <2>2 DEF Finish, vars, engineVars, statVars, dryVars
    <3>2. DataTypes'
      BY <2>2, <3>1 DEF Finish, vars, DataTypes
    <3> QED BY <3>1, <3>2 DEF ListInv
  <2> QED BY <2>1, <2>2 DEF Next
<1>3. EngineTypes /\ Nested /\ ListInv => DryRunLosesOnlyToRaces
  <2> SUFFICES ASSUME EngineTypes, Nested, ListInv, dryRun, NEW a \in Artifacts
      PROVE  /\ state[a] = "lookup" => Above(a) \subseteq {Root} \cup entries /\ Parent[a] \in entries
             /\ state[a] = "done" /\ a \notin errs[Parent[a]] =>
                  \/ a \in listed[Parent[a]]
                  \/ \E b \in listed[Parent[a]] : b # a /\ a \notin seen[b]
    BY DEF DryRunLosesOnlyToRaces
  <2> DEFINE v == Parent[a]
             p == Parent[v]
             r == Parent[p]
  <2>1. v \in Versions /\ p \in Packages /\ r \in Registries
    BY JobTree
  <2>2. /\ a \in Jobs \ Registries /\ v \in Jobs \ Registries /\ p \in Jobs \ Registries /\ r \in Jobs
    BY <2>1, JobTree DEF Jobs
  <2>3. ASSUME state[a] = "lookup"  PROVE {v, p, r} \subseteq entries
    <3>1. state[v] = "wait"
      BY <2>2, <2>3 DEF Nested, NestedBusy, Busy, Steps
    <3>2. state[p] = "wait"
      BY <2>2, <3>1 DEF Nested, NestedBusy, Busy, Steps
    <3>3. state[r] = "wait"
      BY <2>2, <3>2 DEF Nested, NestedBusy, Busy, Steps
    <3> QED BY <2>2, <3>1, <3>2, <3>3 DEF ListInv
  <2> QED BY <2>3 DEF Above, ListInv, Ended
<1> QED BY <1>1, <1>2, <1>3, AlwaysNested, AlwaysRows, PTL DEF Spec
=============================================================================
