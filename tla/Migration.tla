------------------------------ MODULE Migration ------------------------------
(***************************************************************************)
(* "execute registry:migrate": an engine (migrate/engine) runs a job per    *)
(* registry; the migrate step of a registry, package or version builds an   *)
(* engine of its own for the jobs below it.  Every engine has its own       *)
(* semaphore; errors go up through errCh, per-coordinate results through    *)
(* the shared TransferStats.  The adapters are external: the model knows    *)
(* them by the answers the jobs handle.  Filters and selectors are applied  *)
(* beforehand: the jobs below are the selected ones.                        *)
(***************************************************************************)
EXTENDS Naturals, Sequences, FiniteSets

CONSTANTS
  Registries, Packages, Versions, Artifacts,   \* the jobs, by level
  Root,          \* MigrationService.Run, owner of the outermost engine
  Parent,        \* the job whose migrate step created a job; of a tag, its image; of a stranger, its version
  Leaf,          \* packages migrated by one function (OCI, Helm, RPM, ...)
  Oci,           \* those that are Docker or Helm images, copied tag by tag
  Tags,          \* the tags the images have at the source
  GoVersions,    \* versions of a GO registry, created whole by CreateVersion
  Strangers,     \* files of a version that only the destination may hold
  Uri, Base,     \* lower-cased path and base name of a file
  Concurrency    \* config.Concurrency, capacity of every engine's semaphore

Jobs        == Registries \cup Packages \cup Versions \cup Artifacts
Nodes       == (Registries \cup Packages \cup Versions) \ (Leaf \cup GoVersions)
Owners      == {Root} \cup Nodes
Children(e) == {j \in Jobs : Parent[j] = e}
TagsOf(p)   == {t \in Tags : Parent[t] = p}
Coordinates == Artifacts \cup Leaf           \* the jobs FileStats has a row for
Rowed       == Coordinates \cup Tags         \* what it has a row for
Content     == (Coordinates \ Oci) \cup Tags \cup Strangers   \* what a destination holds

ASSUME JobTree ==
  /\ Registries \cap (Packages \cup Versions \cup Artifacts) = {}
  /\ Packages \cap (Versions \cup Artifacts) = {} /\ Versions \cap Artifacts = {}
  /\ Root \notin Jobs /\ Parent \in [Jobs \cup Tags \cup Strangers -> {Root} \cup Jobs]
  /\ \A r \in Registries : Parent[r] = Root
  /\ \A p \in Packages : Parent[p] \in Registries
  /\ \A v \in Versions : Parent[v] \in Packages \ Leaf
  /\ \A a \in Artifacts : Parent[a] \in Versions
  /\ Oci \subseteq Leaf /\ Leaf \subseteq Packages /\ GoVersions \subseteq Versions
  /\ (Tags \cup Strangers) \cap Jobs = {} /\ Tags \cap Strangers = {}
  /\ (\A t \in Tags : Parent[t] \in Oci) /\ \A s \in Strangers : Parent[s] \in Versions
  /\ Concurrency \in Nat \ {0}                          \* <= 0 becomes NumCPU

VARIABLES
  dryRun,   \* config.DryRun, fixed at the start
  state,    \* step each job is in
  slots,    \* per engine, the jobs between acquire and release of sem
  errs,     \* per engine, the jobs that sent on errCh
  skip,     \* jobs with skipMigration
  stats,    \* TransferStats, the statuses recorded per coordinate
  dest,     \* what the destination registry holds
  orphans,  \* tags that a copy passed over: their source manifest is gone
  entries,  \* directories of DryRunStats: registries, packages, versions
  listed,   \* per version, the files of its DryRunVersionEntry
  seen,     \* the Files slice a dry-run file job read before it appends
  exit      \* "none", "ok", "failed", or "crashed" by the Go runtime

engineVars == <<state, slots, errs>>
statVars   == <<skip, stats, dest, orphans>>
dryVars    == <<entries, listed, seen>>
vars == <<dryRun, engineVars, statVars, dryVars, exit>>

Init ==
  /\ dryRun \in BOOLEAN
  /\ state = [j \in Jobs |-> IF j \in Registries THEN "queued" ELSE "none"]
  /\ slots = [e \in Owners |-> {}] /\ errs = [e \in Owners |-> {}]
  /\ skip = {} /\ stats = [c \in Rowed |-> <<>>]
  /\ dest \in SUBSET Content /\ orphans = {}
  /\ entries = {} /\ listed = [v \in Versions |-> {}] /\ seen = [a \in Artifacts |-> {}]
  /\ exit = "none"

(***************************************************************************)
(* Engine.Execute.                                                          *)
(***************************************************************************)
\* Mutant: one semaphore for all the engines.
AcquireShared(j) ==
  /\ state[j] = "queued" /\ Cardinality(UNION {slots[e] : e \in Owners}) < Concurrency
  /\ slots' = [slots EXCEPT ![Parent[j]] = @ \cup {j}]
  /\ state' = [state EXCEPT ![j] = "pre"]
  /\ UNCHANGED <<errs, statVars, dryVars, exit>>

Acquire(j) ==
  /\ state[j] = "queued" /\ Cardinality(slots[Parent[j]]) < Concurrency
  /\ slots' = [slots EXCEPT ![Parent[j]] = @ \cup {j}]
  /\ state' = [state EXCEPT ![j] = "pre"]
  /\ UNCHANGED <<errs, statVars, dryVars, exit>>

\* Mutant: errors are only logged, never sent.
LeaveSilently(j, failed) ==
  /\ state' = [state EXCEPT ![j] = "done"]
  /\ slots' = [slots EXCEPT ![Parent[j]] = @ \ {j}]
  /\ UNCHANGED errs

\* Mutant: all the engines share the outermost errCh.
LeaveToRoot(j, failed) ==
  /\ state' = [state EXCEPT ![j] = "done"]
  /\ slots' = [slots EXCEPT ![Parent[j]] = @ \ {j}]
  /\ errs' = IF failed THEN [errs EXCEPT ![Root] = @ \cup {j}] ELSE errs

\* The job's goroutine returns and gives its slot back; a failed step, or a panic
\* recovered in one, first sends its error.
Leave(j, failed) ==
  /\ state' = [state EXCEPT ![j] = "done"]
  /\ slots' = [slots EXCEPT ![Parent[j]] = @ \ {j}]
  /\ errs' = IF failed THEN [errs EXCEPT ![Parent[j]] = @ \cup {j}] ELSE errs

Goto(j, s) == state' = [state EXCEPT ![j] = s] /\ UNCHANGED <<slots, errs>>

Record(c, status) == stats' = [stats EXCEPT ![c] = Append(@, status)]

Fails(j) == Leave(j, TRUE) /\ UNCHANGED <<statVars, dryVars>>

(***************************************************************************)
(* Pre.                                                                     *)
(***************************************************************************)
\* Mutant: Pre records the skip and forgets skipMigration.
PreOnlyRecords(j) ==
  /\ ~dryRun /\ j \in Coordinates \cap dest
  /\ Record(j, "skip") /\ UNCHANGED skip
  /\ Goto(j, "migrate") /\ UNCHANGED <<dest, orphans, dryVars>>

\* A coordinate already at the destination may be seen there and skipped.
PreSkips(j) ==
  /\ ~dryRun /\ j \in Coordinates \cap dest
  /\ Record(j, "skip") /\ skip' = skip \cup {j}
  /\ Goto(j, "migrate") /\ UNCHANGED <<dest, orphans, dryVars>>

\* Of an image the tags seen there get a row each; all of them are copied all the same.
PreTags(p) ==
  /\ ~dryRun /\ p \in Oci
  /\ \E known \in SUBSET (TagsOf(p) \cap dest) :
       stats' = [c \in Rowed |-> IF c \in known THEN Append(stats[c], "skip") ELSE stats[c]]
  /\ Goto(p, "migrate") /\ UNCHANGED <<skip, dest, orphans, dryVars>>

Pre(j) ==
  /\ state[j] = "pre"
  /\ \/ Goto(j, "migrate") /\ UNCHANGED <<statVars, dryVars>>
     \/ PreSkips(j)
     \/ PreTags(j)
     \/ ~dryRun /\ j \in Registries \cup Oci /\ Fails(j)
  /\ UNCHANGED exit

(***************************************************************************)
(* Migrate, of a job that runs an engine of its own.                        *)
(***************************************************************************)
\* Ancestors of a, whose maps addFileToDryRunDirectory reads on its way.
Above(a) == LET v == Parent[a] IN {Root, Parent[Parent[v]], Parent[v]}

\* EnsureRegistry, EnsurePackage, EnsureVersion: under mu, but a file job that is
\* reading the same map without it makes this a concurrent map access.
Ensure(j) ==
  /\ entries' = IF dryRun THEN entries \cup {j} ELSE entries
  /\ exit' \in {exit} \cup
       IF dryRun /\ j \notin entries /\ \E a \in Artifacts : state[a] = "lookup" /\ Parent[j] \in Above(a)
       THEN {"crashed"} ELSE {}
  /\ UNCHANGED <<listed, seen>>

\* The files the destination holds, of a version or of any.
Stored      == dest \cap (Artifacts \cup Strangers)
StoredOf(v) == {f \in Stored : Parent[f] = v}

\* What a version takes to be at the destination: by the registry's index the files whose
\* path is there; without one, those of the base name of a file of its version; nothing
\* with --overwrite, or when the lookup failed.
Existing(j) ==
  IF j \notin Versions \/ dryRun THEN {{}}
  ELSE {{}, {a \in Children(j) : \E f \in Stored : Uri[f] = Uri[a]},
            {a \in Children(j) : \E f \in StoredOf(j) : Base[f] = Base[a]}}

\* The jobs of the next level are queued; a version records a skip for the files
\* its index, or its lookup, already knows at the destination.
Expand(j) ==
  /\ state[j] = "migrate" /\ j \in Nodes
  /\ \/ /\ Ensure(j)
        /\ \E known \in Existing(j) :
             /\ state' = [i \in Jobs |-> IF i = j THEN "wait"
                                         ELSE IF i \in known THEN "done"
                                         ELSE IF i \in Children(j) THEN "queued" ELSE state[i]]
             /\ stats' = [c \in Rowed |-> IF c \in known THEN Append(stats[c], "skip") ELSE stats[c]]
        /\ UNCHANGED <<slots, errs, skip, dest, orphans>>
     \/ \* the source refuses the listing, a path has no node, or the step panics
        /\ Ensure(j) \/ UNCHANGED <<dryVars, exit>>
        /\ Leave(j, TRUE) /\ UNCHANGED statVars

\* Mutant: the engine returns at the first error instead of after wg.Wait().
JoinFailsFast(j) ==
  /\ state[j] = "wait"
  /\ errs[j] # {} \/ \A i \in Children(j) : state[i] = "done"
  /\ IF j \in Registries /\ errs[j] # {} THEN Leave(j, TRUE) ELSE Goto(j, "post")
  /\ UNCHANGED <<statVars, dryVars, exit>>

\* Mutant: a registry logs the errors of its packages, as a package does those below it.
JoinOnlyLogs(j) ==
  /\ state[j] = "wait" /\ \A i \in Children(j) : state[i] = "done"
  /\ Goto(j, "post")
  /\ UNCHANGED <<statVars, dryVars, exit>>

\* The inner Execute returned.  A registry passes its errors on; a package and a
\* version log them and go on to Post.
Join(j) ==
  /\ state[j] = "wait" /\ \A i \in Children(j) : state[i] = "done"
  /\ IF j \in Registries /\ errs[j] # {} THEN Leave(j, TRUE) ELSE Goto(j, "post")
  /\ UNCHANGED <<statVars, dryVars, exit>>

Post(j) ==
  /\ state[j] = "post" /\ Leave(j, FALSE)
  /\ UNCHANGED <<statVars, dryVars, exit>>

(***************************************************************************)
(* Migrate, of a job that moves content.                                    *)
(***************************************************************************)
Skipped(j) ==
  /\ state[j] = "migrate" /\ j \in skip
  /\ Goto(j, "post") /\ UNCHANGED <<statVars, dryVars, exit>>

\* UploadFile, or the whole copy of a leaf package: stored, refused because it is
\* there, or failed, perhaps after the destination stored it.
Transfer(j) ==
  \/ dest' = dest \cup {j} /\ Record(j, "success")
  \/ j \in dest /\ UNCHANGED dest /\ Record(j, "skip")
  \/ dest' \in {dest, dest \cup {j}} /\ Record(j, "fail")

\* migrateOCI: one row for the image.  It succeeds when no tag failed, though every tag may
\* have been in sync or an orphan and nothing was copied; an image without tags is skipped,
\* or a success of the bulk copy.
CopyTags(p) ==
  \E copied, gone \in SUBSET TagsOf(p) :
    /\ dest' = dest \cup copied /\ orphans' = orphans \cup (gone \ dest')
    /\ \/ TagsOf(p) \subseteq dest' \cup gone /\ Record(p, "success")
       \/ TagsOf(p) = {} /\ Record(p, "skip")
       \/ Record(p, "fail")

\* Mutant: the dry-run check of a file comes after its upload.
MigrateFileAlways(a) ==
  /\ state[a] = "migrate" /\ a \in Artifacts \ skip
  /\ \/ Transfer(a) /\ Goto(a, "post") /\ UNCHANGED <<skip, orphans, dryVars>>
     \/ Fails(a)
  /\ UNCHANGED exit

\* File.Migrate: an error before the upload (download, temporary file, metadata)
\* is returned and leaves no row in the stats.
MigrateFile(a) ==
  /\ ~dryRun /\ state[a] = "migrate" /\ a \in Artifacts \ skip
  /\ \/ Transfer(a) /\ Goto(a, "post") /\ UNCHANGED <<skip, orphans, dryVars>>
     \/ Fails(a)
  /\ UNCHANGED exit

\* Package.Migrate calls migrateOCI, migrateLegacyHelm, ... and drops their error.
\* Some of them, never that of an image, fail without a row in the stats.
MigrateLeaf(p) ==
  /\ state[p] = "migrate" /\ p \in Leaf \ skip
  /\ Ensure(p)
  /\ \/ dryRun /\ UNCHANGED statVars
     \/ ~dryRun /\ p \in Oci /\ CopyTags(p) /\ UNCHANGED skip
     \/ ~dryRun /\ p \notin Oci /\ Transfer(p) /\ UNCHANGED <<skip, orphans>>
     \/ ~dryRun /\ p \notin Oci /\ UNCHANGED statVars
  /\ Goto(p, "post")

\* The GO branch of Version.Migrate downloads every file and creates the version
\* at once; it writes no stats, and does not look at DryRun.
MigrateGo(v) ==
  /\ state[v] = "migrate" /\ v \in GoVersions
  /\ Ensure(v)
  /\ \/ dest' = dest \cup Children(v) /\ Goto(v, "post")
     \/ dest' \in {dest, dest \cup Children(v)} /\ Leave(v, TRUE)
  /\ UNCHANGED <<skip, stats, orphans>>

(***************************************************************************)
(* File.Migrate in a dry run: addFileToDryRunDirectory, without mu.         *)
(***************************************************************************)
Lookup(a) ==
  /\ dryRun /\ state[a] = "migrate" /\ a \in Artifacts
  /\ Goto(a, "lookup")
  /\ UNCHANGED <<statVars, dryVars, exit>>

ReadFiles(a) ==
  /\ state[a] = "lookup"
  /\ seen' = [seen EXCEPT ![a] = listed[Parent[a]]]
  /\ Goto(a, "append")
  /\ UNCHANGED <<statVars, entries, listed, exit>>

\* Mutant: the file list of a version is made anew for every file.
AppendToFresh(a) ==
  /\ state[a] = "append"
  /\ listed' = [listed EXCEPT ![Parent[a]] = {a}]
  /\ Goto(a, "post")
  /\ UNCHANGED <<statVars, entries, seen, exit>>

AppendFile(a) ==
  /\ state[a] = "append"
  /\ listed' = [listed EXCEPT ![Parent[a]] = seen[a] \cup {a}]
  /\ Goto(a, "post")
  /\ UNCHANGED <<statVars, entries, seen, exit>>

(***************************************************************************)
(* The end of MigrationService.Run.                                         *)
(***************************************************************************)
FailedRows == {c \in Rowed : \E i \in DOMAIN stats[c] : stats[c][i] = "fail"}

\* A dry run does not look at the errors; its report, or the result file of a real
\* one, may itself fail to be written.
Finish ==
  /\ \A r \in Registries : state[r] = "done"
  /\ \/ exit' = IF ~dryRun /\ (errs[Root] # {} \/ FailedRows # {}) THEN "failed" ELSE "ok"
     \/ exit' = "failed"
  /\ UNCHANGED <<dryRun, engineVars, statVars, dryVars>>

\* A goroutine would go on after Run returned; only a crash stops them all.
JobStep(j) ==
  /\ exit # "crashed" /\ UNCHANGED dryRun
  /\ \/ Acquire(j) \/ Pre(j) \/ Expand(j) \/ Join(j) \/ Skipped(j) \/ MigrateFile(j)
     \/ MigrateLeaf(j) \/ MigrateGo(j) \/ Lookup(j) \/ ReadFiles(j) \/ AppendFile(j) \/ Post(j)

Next == (\E j \in Jobs : JobStep(j)) \/ (exit = "none" /\ Finish)

\* Goroutines run, and every adapter call returns.
Fairness == (\A j \in Jobs : WF_vars(JobStep(j))) /\ WF_vars(exit = "none" /\ Finish)

Spec == Init /\ [][Next]_vars /\ Fairness

-----------------------------------------------------------------------------
(***************************************************************************)
(* Properties.                                                              *)
(***************************************************************************)
Steps    == {"none", "queued", "pre", "migrate", "wait", "lookup", "append", "post", "done"}
Busy     == Steps \ {"none", "queued", "done"}   \* between acquire and release
Statuses == {"success", "skip", "fail"}

\* The values of the Go variables; an engine's errCh carries only its own jobs' errors.
TypeOK ==
  /\ dryRun \in BOOLEAN
  /\ state \in [Jobs -> Steps]
  /\ slots \in [Owners -> SUBSET Jobs] /\ errs \in [Owners -> SUBSET Jobs]
  /\ \A e \in Owners : errs[e] \subseteq Children(e)
  /\ skip \subseteq Coordinates /\ dest \subseteq Content /\ orphans \subseteq Tags
  /\ stats \in [Rowed -> Seq(Statuses)]
  /\ entries \subseteq Jobs
  /\ listed \in [Versions -> SUBSET Artifacts] /\ seen \in [Artifacts -> SUBSET Artifacts]
  /\ exit \in {"none", "ok", "failed", "crashed"}

\* engine.go:50-60: at most `concurrency` jobs of one engine are past its semaphore,
\* and those are the ones that hold a slot, on every path out of a step.
EngineBounded ==
  \A e \in Owners :
    /\ slots[e] = {j \in Children(e) : state[j] \in Busy}
    /\ Cardinality(slots[e]) <= Concurrency

\* The engines nest: a job below runs only while the job that created it waits in
\* its migrate step, so at most Concurrency subtrees of a node are active.
NestedBusy ==
  \A j \in Jobs \ Registries :
    state[j] \in Busy \cup {"queued"} => state[Parent[j]] = "wait"

\* A coordinate has one row at most over the index, Pre and Migrate, whatever was at the
\* destination, and one that is true: what was moved is there; what was skipped is there, or
\* for a file one of its path, or of its base name in its version (version.go:248-258); an
\* image's tags are there or orphans, and a skipped one has none (package.go:407-427).
OneHonestRow ==
  /\ \A c \in Rowed : Len(stats[c]) <= 1
  /\ \A c \in (Coordinates \ Oci) \cup Tags : stats[c] = <<"success">> => c \in dest
  /\ \A c \in (Leaf \ Oci) \cup Tags : stats[c] = <<"skip">> => c \in dest
  /\ \A a \in Artifacts : stats[a] = <<"skip">> =>
       \E f \in Stored : Uri[f] = Uri[a] \/ (Parent[f] = Parent[a] /\ Base[f] = Base[a])
  /\ \A p \in Oci : /\ stats[p] = <<"success">> => TagsOf(p) \subseteq dest \cup orphans
                    /\ stats[p] = <<"skip">> => TagsOf(p) = {}

\* No selected file drops out: when Run ends, a file has a row, or its own or an
\* ancestor's error was sent on an errCh.
NoFileForgotten ==
  exit \in {"ok", "failed"} /\ ~dryRun =>
    \A a \in Artifacts :
      LET v == Parent[a]   p == Parent[v]   r == Parent[p]
          Sent(j) == j \in errs[Parent[j]]
      IN v \in GoVersions \/ stats[a] # <<>> \/ Sent(a) \/ Sent(v) \/ Sent(p) \/ Sent(r)

\* migration.go:120-131: exit 0 only without a failed row, and without an error or a panic of
\* a registry or of a package.  What the engines below a package return is only logged
\* (package.go:317-319, version.go:333): those errors are left out here.
FailuresReachTheExit ==
  exit = "ok" /\ ~dryRun => FailedRows = {} /\ \A e \in {Root} \cup Registries : errs[e] = {}

\* "a migration with ANY failure fails the process - no opt-out", "(a) engine-level errors
\* (enumeration aborts, job panics) or (b) any per-coordinate StatusFail" (migration.go:120-122).
AnyFailureFails ==
  exit = "ok" /\ ~dryRun => FailedRows = {} /\ \A e \in Owners : errs[e] = {}

\* Nothing is moved, recorded or listed after Run returned: every engine waited for
\* its jobs, and those for theirs.
NothingAfterRun == [][exit # "none" => UNCHANGED <<dest, stats, listed>>]_vars

\* The nested semaphores never wait on one another: Run returns.
Termination == <>(exit # "none")

\* "a dry-run never mutates anything" (migration.go:91).
DryRunNeverMutates == [][dryRun => UNCHANGED dest]_vars

\* A dry run stores nothing but the files of GO versions, which CreateVersion uploads
\* whatever DryRun says (version.go:313), and takes nothing away.
DryRunMutatesOnlyGo ==
  [][dryRun => /\ dest \subseteq dest'
               /\ \A c \in dest' \ dest : c \in Artifacts /\ Parent[c] \in GoVersions]_vars

\* The tree of a dry run (types.go:205-208): a file job finds the directories above it, so it
\* writes no map without mu; and a file whose job ended without an error is listed, unless a
\* file that is listed had read the list before it: two file jobs that append without mu are
\* the one way to lose a file (file.go:582-583).
DryRunLosesOnlyToRaces ==
  dryRun => \A a \in Artifacts :
    LET v == Parent[a]
    IN /\ state[a] = "lookup" => Above(a) \subseteq {Root} \cup entries /\ v \in entries
       /\ state[a] = "done" /\ a \notin errs[v] =>
            a \in listed[v] \/ \E b \in listed[v] : b # a /\ a \notin seen[b]
=============================================================================
