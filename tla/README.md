# Verification of the Harness CLI

TLA+ models of the parts of the Harness CLI (`src/`) whose correctness depends on order: goroutines that
share semaphores, channels and files, commands that run at the same time, signals, timeouts, lost answers and
crashes. TLC checks each model on small instances; TLAPS proves the theorems for every value of the constants.

`harness <verb> <noun>` is one process per command. `cmd/harness` builds the root command, `pkg/registry` turns
the YAML specs of `pkg/spec` into cobra commands, and each ends in a generic endpoint call (`pkg/endpoint`,
`pkg/client`) or in a handler of a module under `modules/`. Processes share the two files under `~/.harness`;
within a process, handlers start goroutines. Everything else they talk to is remote, and external here.

## Inventory

| Component | State | Operations | Interacts with | Hard | What makes it correct |
|---|---|---|---|---|---|
| Push of generic artifacts (`har/push_generic.go`, `multipart.go`) | file and part semaphores, session per file, URL cache, attempts, `errs` | hash, start, upload parts, complete, repair, poll, abort, single put, report | registry and object store by HTTP; signals cancel the context | shared semaphore, first failure cancels the rest, lost answers, signal against acceptance | what is said of a file is what the registry can have done; slots bounded; sessions released |
| Migration (`har/migrate`) | job per registry, package, version, file; engine and semaphore per level; `TransferStats`; dry-run tree | Pre, Migrate, Post, Execute, Run | adapters of two registries | nested engines, panics, shared rows, half-done destinations | bounded and nested engines; one honest row per coordinate; exit code; a dry run is dry |
| Log follower (`pkg/logstream`) | node set, event channel, SSE and blob goroutines | poll, fetch blobs, read streams, write events | execution and log service; the printing loop | order of events, closing a channel with senders, lost streams | per node start, one source, end; no send after close; exit status |
| Artifact download (`har/download_artifact.go`) | list of matches, goroutine pool, temporary files | search by page, plan, download, rename | registry, signals, the file system | catalogue that changes between pages, interrupt, kill | no partial file under its own name; nothing forgotten or said done that is not |
| Profiles (`pkg/auth`, `pkg/config`, `core/auth`) | `config.yaml`, `credentials`, copies in memory | login, SSO, refresh, logout, set, resolve, status | other processes, through the files | unlocked read-edit-write of two files, crash between writes, torn file | a token stays with its account; a login replaces nothing unasked; no change lost |
| Leaf packages (`migratable/package.go`, adapters) | tags, indexes, temporary files, source and destination | list, skip, copy, report | adapters, registries | errors that reach only a log, rows of parts | every failure has a row or an error |
| One run of a command (`rootcmd`, `buildctx.go`, `hbase`, `telemetry`) | handler under way, timer, hooks, exit code, event | run, time out, flush, exit | every handler | a timeout at any step, a lost answer, exits from deep inside | exit 0 is the truth; nothing is left behind; it ends |
| Handlers (`har/push_*`, `pkgmgr_*`, `configure_*`, `ci`, `code`, `pipeline`, `rt`, `iacm`, `vibeapps`, `gitops`, `fme`, `platform`, `core`) | temporary files, a file of the user, what was changed remotely, a remote job | checks, requests, prompts, loops, pools, watches | services, native tools, git | one request of several fails or is answered too late | what is refused has changed nothing; changes point to what is there |
| Login wizard (`core/auth/loginwizard.go`) | step, URL, token, organization, project, command under way | keys, answers | account service, browser | answer after the step was left, Escape | what is saved belongs to one account |
| Install (`core/mgmt/install*.go`, `pkg/release`) | binaries, staging file, plugin specs | resolve, download, unpack, stage, swap, record | releases, other installs | kill during the swap, spec behind the binary | old or new binary, never half; success is installed |
| Start of the CLI (`specloader`, `registry`) | nouns, aliases, modules, commands, plugins | check and load a spec, answer a line | plugins' specs on disk | a bad or colliding plugin, found halfway | builtins and sound plugins answer |
| Screens of `--ui` (`registry/uitableview.go`) | page, rows, cursor, details, history | page, search, open, follow a link, go back | endpoints | fetches that cross, the way back | rows are those that the screen names |
| Log viewer (`pipeline/logviewer*.go`) | selection, logs, streams, polls | select, load, stream, refresh | log service | messages after the selection moved | the panel is about the selected step |
| Firewall (`har/firewall*.go`) | batches, slots, polls, verdicts | parse, evaluate, poll, collect, report | firewall service | a batch that fails, a cancelled context | every dependency has a line; a lost batch fails |
| Coverage (`ci/coverage_*`) | lines, counts, rows | parse, resolve, merge, upload, analyse, wait | coverage service, git | the order and split of reports, files of one name | upload and analysis agree |
| Endpoints and paging (`pkg/endpoint`, `pkg/client`) | page, offset, token | request, preview, next page | endpoints | off by one, totals that change | all rows, once |
| Callback server (`core/auth/sso.go`) | listener, result channel, timer | wait, answer, time out, stop | browser | answer against timeout and Ctrl-C | one result, server always stopped |
| Execution graph, expression environment, formats, tree, selectors | none | pure | specs, handlers | cycles, missing parents | against reference definitions |

`PROJECT.json` lists the same parts with their status, and under `hazards` each place where the code is hard to
test, with the property that covers it.

## Modules

A component has a module with its state and one action per step of the code; where there are theorems, a `Proofs`
module beside it. `Screens`, `Checks` and `PluginSystem` put two or three components that share little side by side,
and a behaviour runs one of them; they state the assumptions on the constants. An `MC` module gives the constants
their small values. Mutated operators (comment "Mutant: ...") stand before the
definitions they change: put in their place, each makes a property fail the way a plausible bug would. They are
used by no action.

### MultipartUpload, Publication

`MultipartUpload` is one `push artifact:generic`. `fpc` and `ppc` are the program counters of the goroutine per file
(`push_generic.go:86`) and per part (`multipart.go:366`), `fileSem` and `partSem` their semaphores. Control follows the
code: a failing part cancels the others of its set (`stopParts`), `JoinParts` orders the errors as `joinPartErrors`
does, `Complete` repairs the parts the registry misses, and any failure after validation aborts (`Fail`, `Abort`). A
signal or `--timeout` cancels the command context at any time (`Cancel`); a second signal, or the second that follows a
timeout, ends the process (`Kill`). `Finalize`, `Expire` and `StoreLoss` are the registry and the object store, which
may do all that the client's handling of answers provides for. Sizes and checksums are abstracted.

`Publication` is what the command promises: content is absent, accepted, published or refused, and the command
says ok only of what is published and "will still be published" only of what was accepted. `PromiseKept` is
that `MultipartUpload` implements it, under the mapping `Promise` from sessions and reports.

### Migration

One job per selected registry, package, version and file, in a tree `Parent`. `state` is the step of each
(`Pre`, `Expand` into an engine, `Join` its `wg.Wait`, `MigrateFile`, `MigrateLeaf`, `MigrateGo`, `Post`);
`slots[e]` the semaphore of the engine of `e` and `errs[e]` its `errCh`. Panics are recovered by the engine
(`engine.go`) and go to `errCh`. `stats` holds the rows by coordinate, `dest` what the destination holds, which
index, `Pre` and `Migrate` each see at another time, by path (`Uri`) or by base name (`Base`, `version.go:248-258`).
A leaf package is one function of `package.go` for one coordinate, though Conan, CRAN, Swift and Composer write a row
per file or version of it; an image has its tags below it (`CopyTags`), of which some may be `orphans`: tags without a
manifest at the source, and whatever else answers 404 on its host. A dry run reads and appends to the file list of a
version in two steps (`ReadFiles`, `AppendFile`), since the code does it without the lock. A directory that is made
meanwhile ends the process (exit "crashed"): Go stops a program that reads and writes a map at once. The slices that
two writers share are taken as copies: an append into the same backing array loses a file just the same.

### LogFollow

`Poller` is the goroutine of `FollowMulti`: it takes snapshots of the execution, fetches nodes that are already
terminal with a goroutine each and sends their events in order, and starts an SSE goroutine for each that runs.
All send on one bounded channel `ch`; `Writer` is `WriteEvents`. The execution moves on its own; a stream may
break or stay open, a lookup or a poll may fail.

### ArtifactDownload

`Search` by pages of a catalogue that may change under way, `Plan`, a loop that takes a slot per match, and a
`Worker` per position: stat, request, copy to a temporary file, rename. Ctrl-C cancels; the process may be
killed. `--flatten`, `--overwrite` and `--dry-run` are all combined. `shrunk` remembers that a match was deleted from
the catalogue during the search: the matches behind it move to pages already read.

### ProfileStore

`config` and `creds` are the two files, `cfg` and `crd` each process's copies. A change is the code's: read the
whole file, edit, write it back in place. A write is two steps, since `os.WriteFile` first empties the file, and
an empty file reads as one without entries. A token is fresh, to be renewed, over, or without a readable expiry
("unread"). Processes run login (by personal access token or SSO), logout, set,
status, refresh, or any other command ("api"), and may be killed between steps, or fail to write. The telemetry
id is minted by the first command. Tokens do not age during a behaviour: each has an age from the start. Of two
writes that overlap, the last to fill the file determines all of it. `disturbed` remembers that two commands
overlapped, or that one was killed or could not write. `MCProfileStore` explores two kinds of behaviours, told apart by
`together`: changes one after the other, or a request beside a login or logout of its profile, cut short anywhere.

### Command, Steps, and the modules of handlers

Most handlers are sequential: checks, requests, prompts, loops, with early returns. What is hard about them is not
their own state but what happens around them: any step may fail, an answer may be lost, `--timeout` may end the
process anywhere. So a handler is written as a program, a sequence of steps in the order of its source, and
`Command` is the machine that runs one, with everything around it. `Steps` names the steps:

- `Check` may find a mistake of the user, `Local` may fail, `Fail` and `Return` do what they say;
- `Get` reads; `Send` and `SendAfter` change the remote side, the latter to something that points to earlier
  changes. With `Free` they do not carry the context of the command: `--timeout` does not cancel them;
- `Opt`, `Either`, `OneOf`, `Loop` are choices by data; `Try`, `Warned`, `Dropped` and `Counted` are what the source
  does with an error: handle it, print it, ignore it, or count it for a summary (`Tally`);
- `Temp`, `Clean`, `WithTemp` and `Finally` are temporary files and defers; `Overwrite`, `RenameOver` write a file of
  the user in place or by rename;
- `Ask` prompts, `Preview` is `--dry-run`, `Watch` polls a remote job.

`PushCommands`, `PackageCommands`, `EndpointCommands`, `CiCommands`, `CodeCommands`, `JobCommands`, `AuthCommands`
and `MigrationJobs` hold the 112 handlers, a definition for each function of the source that one is made of.
In `Command`, `done` and `refs` are what the run has changed remotely and what that points to; a request may be
refused, or done with its answer lost. `owed` says that a change failed, or may have, and nobody has been told.

### Install

`pc[p]` is the step of an install, `fd[p]` the file that it has open. A binary goes to a staging file with a fixed
name and from there by rename to its place; the file moves under those that write it. `recorded` is the version in the
plugin's spec, which is written in place and which later installs go by. `Die` ends a process anywhere; the
new core installs plugins in turn ("install cli").

### Registry, PluginSpecs

A start loads specs one entry at a time: `OpenSpec` checks one as a whole, `RegisterNoun`, `SetModuleMeta` and
`RegisterCommand` make its entries, `GiveUp` is the warning on a bad plugin, which leaves what was made. `Execute`
answers a line. `PluginSpecs` gives a small CLI, and the files that a start can find, those of an install cut short
among them. `PluginSystem` is an install, or a start over such files.

### FirewallScan, LockFiles

`LockFiles` has a parser of each format as the positions of the entries that it takes: what it passes over, what tells
two entries apart, and which of those it sees first (a Go map may give any). `FirewallScan` sorts what was parsed by
name, which leaves versions of one name in any order (`sort.Slice` is not stable), and has the goroutine per batch, the
slots, the two evaluators, the collector and the exit code.

### Coverage

Counters of a line in each of six formats become a type; the path becomes a file of the repository by the rules of
each format; observations of a line are merged, by the upload per report and by the analysis over all, which keeps
its counts by taking back and adding. `Checks` is an audit or a coverage.

### LoginWizard, TableView, LogViewer

Bubble Tea programs: an update makes of `model` and a message the next model and commands, which are in `cmds` until
their answer is a message. Every key and answer may come in any order. `LogViewer` has the execution and the streams'
goroutines in `world`; the pipeline ends on its own (`world.done`), whatever its steps have come to. Fields such as
`upset`, `before`, `pagesCross` or `expected.lags` mark behaviours in which the code does go wrong (below). `Screens` is
one of the three.

## Runs

| Run | Instance | Shows |
|---|---|---|
| multipart_parts | 1 file, 3 parts, 2 slots, 2 attempts, batches of 2 URLs, lost answers, lost parts, bad sizing, signal, timeout, expiry, kill | `SessionSound`: completion only after every acknowledgement, the first cause is reported, sessions released, fallback before any cost; nothing sent after the end; what the command says refines `Publication` |
| multipart_files | 2 files with a session each over 1 part slot, 2 attempts, lost parts, signal, timeout | slots stay bounded and are given back: the command ends |
| migration_run | 1 registry with an image of 1 tag, a leaf package, and a package of 2 versions, 2 files in one and the other GO; a file at the destination that shares a base name; 2 slots; real and dry | rows that are true, no file forgotten, failures of packages and registries reach the exit code, nothing after Run; a dry run stores nothing but GO versions, and loses a file only to a race; Run returns |
| migration_dry_go | the same, 1 slot | a dry run stores the versions of a GO registry |
| migration_exit | the same, 1 slot | a failure that is only logged exits 0 |
| log_follow | 2 nodes, of 2 log units and of none, a channel of 1 event, 1 frame, 1 failed poll | `NodeLog`: bracketed output, one source, all shown at the return; no send after close; the exit is the execution's; the command ends with it |
| download_run | 5 matches, of which three share a base name, one has no URL and one lies outside the directory; pages of 2; 2 slots; 2 changes of the catalogue | `FilesWhole`: no partial file, old ones kept, no litter; `Accounted`: counts, completeness; dry run; end |
| store | 2 commands in turn over 2 profiles; or a request with a login or logout of 1 profile, killed or with a full disk; 2 accounts | each command alone leaves the files in step, and asks before it replaces anything but a session that is over or cannot be read; a token never goes out with another account |
| commands | 112 handlers, each step of which may fail or be timed out, each answer be lost | exit 0 is the truth; what is refused is untouched; no dangling change, no temporary file; an end |
| ci_checks | 4 files in every format of lock file, batches of 2, 1 slot, 2 polls; 3 observations of lines out of 25, 2 modules, 6 formats | an audit is whole, fails if a batch is lost, and ends; upload, analysis and counts agree |
| plugins | 2 installs in turn, 2 versions, a binary lost once; starts over up to 3 of the specs of `PluginSpecs` | no half-written binary, no litter, no silent downgrade, success is installed; builtins and sound plugins answer |
| screens | a wizard over 3 URLs, 3 tokens, 2 accounts; a table of 3 items in pages of 2 with a search and 1 link; a viewer of 2 steps with logs of 2 lines and 2 streams | what is saved, shown and gone back to is what the screen names, but for the behaviours listed under Findings |

Why these bounds are enough to be of use. Two actors are the smallest number that can race, and no guard in these
components counts further than "all", "none" or "one more than the bound". Three parts over two slots make a part wait
while two others fail and succeed. One channel slot makes every send block. Two attempts give a retry that succeeds and
one that is the last. A page of one or two matches puts each match first, last and alone on its page. Commands in turn
start from files with any sessions of one account, of which at most one has aged (`StartsPlain`), so a third adds little
that another start does not. A loop of a handler makes up to two rounds, one that goes well and one that does not, in
either order: a round depends on earlier ones only through `owed`, `counted` and `done`, which keep no number. Three
observations are the least with which a merge is not its own reverse. Three home specs let a bad one stand before,
between and after sound ones. Two versions are what "older", "same" and "newer" need. The theorems below hold without
the bounds.

Bounds in the models: `PartAttempts`, `CompleteAttempts`, `PresignBatch` and `MaxPolls` are constants of the code, made
smaller; `MaxLines`, `MaxErrors` (`LogFollow`), `MaxDrift` (`ArtifactDownload`), `MaxLosses` and `MaxVersion`
(`Install`) bound what the environment does; `MaxActive` bounds the processes of `ProfileStore` that run at the same
time; `Loop` of `Steps` two rounds; `MaxSeen` the observations of `Coverage`, `MaxHomes` the specs of `Registry`;
`MaxDepth`, `MaxPage` and `MaxRunning` (`TableView`) and `MaxStreams` (`LogViewer`) the screens. Symmetry is used for
the names of profiles and accounts and for processes; in no run with a liveness property.

Deadlock is not checked: each model ends when the command does.

### Fairness

`MultipartUpload`: each goroutine that can step does (weak fairness), because the Go scheduler runs it and each
HTTP client has a timeout (`newHTTPClient`, ten minutes for a part, the deadline of the poll). Nothing is
assumed of the registry, signals or the store, so that finishing cannot depend on them. `Migration`: jobs run
and adapter calls return. `LogFollow`: the poller, the writer and the goroutines run; a stream that stays open
is not assumed to end, and neither is the execution: the property speaks of what follows once it is over.
`ArtifactDownload`: handler and workers run, HTTP calls return. `Command`: the main goroutine runs (`Main`); neither
the timer, nor telemetry, nor a remote job is assumed to do anything, and `Ends` speaks of runs whose job ends.
`FirewallScan`: goroutines and collector run, requests end by their timeouts. `Install`: a started process runs, unless
it is killed. The other modules state no liveness.

### Findings

Two runs are expected to fail. `migration_dry_go`: a dry run creates the versions of a GO registry (`version.go:313`),
though `migration.go:91` says that it never mutates anything. `migration_exit`: a job below a package that panics, or
whose version cannot be listed or file downloaded, has no row, its error is only logged (`package.go:316-319`,
`version.go:332-336`), and the process exits 0, though `migration.go:120-122` says that any failure fails it.
`FailuresReachTheExit` is what remains true: failed rows, and the errors of packages and registries. Elsewhere the code
goes wrong in ways that a property has to leave out, by a bound or by name; each is at the line in the hazards or here:

- A session whose sizing is refused is not aborted (`multipart.go:223`); `SessionReleased` is about the others.
- In `MCCommand`, `Known.silent` names the migrations for which a failed job has no row at all.
- Rows of a migration may say more than happened, and `OneHonestRow` is worded for what they mean. A file is skipped for
  any file of its base name in its version when there is no index (`version.go:248-258`). An image is moved with
  nothing copied when its tags were in sync or answered 404 (`package.go:419-423`), skipped when it has no tags
  (`:412-417`), and moved by the bulk copy when it has none.
- A download interrupted between two matches exits 0 (`download_artifact.go:220`), though `src/README.md:871` says
  otherwise.
- Two file jobs of a dry run append to the file list of their version without its lock and lose a file of it
  (`file.go:582-583`), though `types.go:205-208` speaks of concurrent writers, and a job that makes a directory
  meanwhile can stop the process. `DryRunLosesOnlyToRaces` says that a file is lost in no other way.
- What commands keep in turn (`ChangesKept`, `LoginsAsk`) they lose when they overlap, or die between two writes:
  files that are read, edited and written back without a lock. Both speak of behaviours that are not `disturbed`.
- A login replaces a profile unasked when the expiry of its session cannot be read: `IsAccessTokenExpiringSoon` then says
  that it expires soon (`pkg/auth/sso.go:183-189`), though `login.go:251-256` says that such a login asks. `LoginsAsk`
  excuses exactly the sessions that are over and those that cannot be read.
- `EveryMatchDownloaded` is about searches during which no match is deleted (`~shrunk`), since pages are numbered.
- An upload that a signal catches in its complete call is reported as interrupted although the registry took it,
  which `Publication` allows.
- A follower ends a node with whatever status it read last, and prints the zero event of a failed fetch as a start
  marker without a node. A stream that breaks after a line loses the rest (`logstream.go:910`), the status is read again
  after the stream (`:915`), and an empty blob is retried by two machines' clocks (`:366`): not in the model.
- `Known.late`: Debian packages, `--exclude`, `--poll-interval` and the picker after SSO refuse or stop only after a
  change. `Known.torn`: who the caller is may be half written. `Known.litter`: two handlers leave a temporary
  file that cannot be written. `Known.partial`: a wait for coverage at its deadline, and deployments that failed,
  exit 0.
- Of a package with two versions in a lock file, one is audited, in npm's case whichever a Go map gives first
  (`firewall.go:753`); `OneLineForEachPackage` is about names.
- Two installs at once share one staging file and can put a half-written binary in place (`install_plugin.go:618`):
  `Overlap` set to `TRUE` shows it.
- A plugin's spec that fails midway leaves its first entries (`specloader.go:338`), though `registry.go:297` speaks
  of rejecting it whole. A plugin's command whose noun is also
  an alias of another noun that has a command of the same verb shares its name with that command's hidden alias
  (`registry.go:800`), and the one added first answers; `CheckNoConflicts` (`registry.go:304`) does not look for it.
  `Shadowed` names this, and `SoundSpecsServe` is about the other commands.
- The wizard's skip at the list of organizations saves the organization picked before, after Escape and another token
  that of another account (`loginwizard.go:1021-1030`, `login.go:124`), though the key is shown as "save without
  org/project" (`loginwizard.go:801`) and `login.go:136` then says that they are not set. `OneAccount` leaves out the
  organization of that save (`skippedAt`), and of no other.
- Two fetches of pages or details that cross leave the wrong one on the screen (`uitableview.go:782`): `pagesCross`,
  `detailsCross`.
- A page turn that fails keeps its number and the old rows (`uitableview.go:977-983`, `:784-786`), which can still be
  opened and left by a link (`:949-959`); the link counts from the new page (`:1285`), and b leads to another item.
  `CursorIsBack` leaves out lists that were left so, or with crossed fetches (`lags`), and lists that are asked for
  again, by a search or other columns, before the first rows after b.
- `r` in the viewer lets a stream that was given up end the new one (`logviewer.go:657`), and a stream that breaks leaves
  a gap: the steps in `upset`.
- A stream that ends while the last poll still has its step running is opened again by the next poll, key or tab
  (`logviewer.go:786-800`), and its log follows the one already there: every line twice, until `r` drops it. `LogsAreTrue` has
  this in its statement (`before`).

## Theorems

Every theorem is about `Spec` of its component and holds for every value of the constants that its named assumption
allows (`ConstantsOK`, `JobTree`, `StoreConstants`, `FollowConstants`, `InstallAssumption`, `DownloadConstants`,
`ScanAssumption`, `CoverageAssumption`, `SpecAssumption`, `TableAssumption`, `ViewerAssumption`). TLC evaluates each
assumption on the runs of its component, and each property named here was model-checked before it was proved.

`MultipartUploadProofs` (any files, parts, slots, attempts, faults). `TypeCorrect`: the types, strengthened by
`BackoffLeft` (a part backs off only with an attempt left), or `Retry` would leave the bound of `tries`.
`SlotsAlwaysBounded`: `SlotInv` ties each semaphore to the program counters (a slot is held exactly in the
`Holding` states, and only parts of files in their part phase run) and bounds it; without the tie the return of
a slot could not be shown to remove what was added.

The rest of `MultipartUploadProofs` builds on those two. `SessionAlwaysSound` is `SessionSound`, in two layers.
`PhaseInv` says where the session, the owner's flags and the result may stand in each phase of a file's goroutine, so
that an abort is the last thing a file does and a session that is still open has been released. `CauseInv` follows the
errors: a part that ended without one was acknowledged, and a sibling is cancelled only by the command or by a part that
really failed, so the cause reported is never one that the client made itself. `NothingSentOnceEnded` and
`UploadKeepsPromise` follow from the same invariant; the latter is the refinement of `Publication`, whose first state
and steps are matched action by action (most are no step of the promise).

`MigrationProofs` (any tree, concurrency, destination). The argument goes by layers. `StepShape` shows that every
action of a job takes a slot, moves, leaves or opens an engine. `Nested` (a queued or busy job has a parent that
waits) is inductive over these four: `EnginesNest`. With it `BoundInv` (the slots of an engine are its busy
jobs): `EnginesBounded`. `Waited` (after the run all jobs are done or were never created) gives `QuietAfterRun`. `RowInv`
ties the row of a coordinate to its step (no row before it ran, a skip row while it migrates only with `skip` set) and
to the destination (`TrueRow`; `Held`: a path or base name that is there, and nothing is ever taken away):
`RowsAreHonest`. `EndInv` (a done job has a row, sent an error, or all of its children are done; a registry with an
error of a package sent its own) gives `FilesAccounted` and `FailuresReported`. `DryRunIsDry` goes by the actions: only
the branch of GO versions reaches the destination. `DryRunListsAll` holds of any concurrency: by `ListInv` a file whose
job is past its append is listed, or a listed file has read the list without it, and a file job runs only below
directories that were made before (`entries`).

`LogFollowProofs` (any nodes, units, lines, polls, capacity). `Closing` (the channel is closed by a poller that has
waited for every stream) gives `NeverSendsAfterClose`, `Outcome` gives `ExitAlwaysInherited`. `NodeLogAlwaysWhole` needs
`EventInv`, about each node's events in the channel and on the screen at once: nothing before its start (`Starts`),
nothing after its end, and an end only when no goroutine has the node any more (`Ends`), lines of one source only
(`Sources`), and each announced node shown or still in somebody's hands (`Shown`).

`ArtifactDownloadProofs` (any catalogue, page size, concurrency, changes, flags). `Invariant` has a layer for each
stage: the pages read (`Pages`, `Complete`: a match that was not read lies on a page to come, unless one was deleted),
what was planned of them, who holds a slot, what is on disk and what is counted. `FilesAlwaysWhole` follows from `Disk`:
two downloads never own one path, because targets of different matches differ or `--flatten` was refused.
`DownloadAlwaysAccounted` also needs what the loop over the matches leaves out. That is a recursive function; its value
is determined with the least number at which it would be wrong (`Least`, from the well-foundedness of < on the
naturals), which takes the place of an induction.

`PluginSystemProofs` (any processes, releases, losses), for installs that do not overlap (`~Overlap`):
`InstallAlwaysWhole` and `InstallAlwaysCurrent`. Without the hypothesis both are false, of the model and of the code,
since all installs share one staging file. `Holds`, `Places` and `Newer` say what a process has in hand, has put in
place, and why it may replace what was there; `FilesInv` that the recorded version is the one in place unless an install
was cut short.

`StartAlwaysServes`, in the same module, is about any binary and any files at home, sound, broken or colliding, in any
number. `SpecAssumption` asks of the binary's own specs what `pkg/spec` has: names used once, no command behind an
alias. Of the files at home it asks nothing but their types. `RegistryInv` goes by what is still to be loaded (`Lined`:
the queue is the rest of the specs in their order). `NounsInv` and `CommandsInv`: whatever is registered was said by a
spec already read, so a lookup cannot end at something that no spec has. `NounsKept` and `CommandsKept`: of a spec that
was to be loaded nothing is missing, and the binary's commands stand before all others, hence are found first. `FreeInv`
is what keeps the load of a sound spec from failing halfway: once `OpenSpec` has found its names free they stay free
until their turn. A bad spec leaves entries behind, so `NounsInv` speaks of entries made and not of specs loaded.

`ProfileStoreProofs` (any processes, profiles, accounts, faults). `Invariant`: `Types`, that whatever is read from
either file at any time, torn or overwritten, is well-formed; and `Sound(p)`, which ties a process's program counter to
its command and to what it resolved. The part that matters, `TokensKeepTheirAccount`, holds though files overlap because
a personal access token carries its account and the resolution compares it with the profile's; the induction shows no
step sets `auth` without that comparison. For SSO tokens the code makes no such comparison, and nothing is claimed.
`ChangesAlwaysKept` and `LoginsAlwaysAsk` are about any number of commands in turn. A command writes config and
credentials one after the other, so between its steps the files do disagree; `TurnInv` therefore speaks of the files as
the command under way will have written them (`NewConfig`, `NewCreds`), and excuses only the token that it still has to
store or remove (`Under`). `Knows` says that what it read is still what is on disk, and `Asked` carries the consent, or
the reason not to ask (a session that is over or cannot be read), from the prompt to the write, several steps later.

`ChecksProofs` (any lock files and formats, batch size, workers, polls). `AuditAlwaysWhole` follows the lines from the
file to the table. `ParsedOnce`: each parser takes exactly one entry of a locked name, whichever it sees first. `ItemsMeet`
and `ItemsCover`: the batches cut the list without gap or overlap, by the arithmetic of their bounds. `Received`: the
lines collected are those of the batches gathered so far, each once, in whatever order they ended. And `Settled`: a batch
without an answer has set `failed`, or its outcome is still in the channel.

`CoverageAlwaysTrue`, in the same module, is about any repository, diff and reports, in any order and split. `Counted`:
each counter is the number of the lines of its file and type. It needs no sum: a step adds one line or changes its type,
so it moves one element between two sets, and cardinalities follow. `Agreed`: what the analysis says of a line, and what
all uploads and the rows still at hand say together, is the same join (`IsJoin`: the type of which all speak, or
partial), which depends neither on the order of the reports nor on how they are split. `Wanted`: rows are of tracked
files that are not excluded, and with `--patch` of lines of the diff.

`ScreensProofs` (any accounts, lists, pages, steps, logs). `WizardSafety`: the only command that runs is the one the step
waits for, made of what is still on the screen (`Waits`), and from the check of the token on the account is its owner
(`Belongs`). `TableSafety` and `CursorReturns`: what is being fetched is what the screen names
(`PagesFollow`, `DetailsFollow`) until two fetches cross, and each list in the history that was left with the rows of its
page has kept the place of its item (`Restorable`, `Opened`, `Sure`). `ViewerSafety`: a step that is not upset has at most
one reader, of one stream, and its log is what it had when the stream was opened and then a beginning of that stream's
lines (`Held`, `Faithful`); until the execution is over or cannot be read, one poll is under
way or due (`Polled`).

`EnginesBounded` and `EnginesNest` are properties of no run: the first is what a semaphore of any size does, the second
the invariant behind it.

Only model-checked:

- every liveness property, which is out of the prover's reach;
- `ZeroMeansDone`, `RefusedIsUntouched` and `NothingLeftBehind` of `Command`. They are about the 112 programs, which
  have no parameter that a proof could generalise, and not about the machine that runs them: a program that drops an
  error breaks the first. TLC runs each program through every failure.

## Not modelled

Formats, wording and logging; the syntax of coverage reports, lock files and packages; what YAML and JSON bodies hold.
The generated clients (`genapi`) and the scripts that build and install. The expression environment, selectors, filters
and the order of an execution's nodes: pure functions, which handlers call. Commands that are one request and a table
are all `RunEndpointCmd`. Foreign registries, the log service and the object store are modelled by the answers the code
handles. Further, by component: variants and pairs of nouns, suggestions, completion and ids of functions
(`Registry`); the offsets and tokens of pages (`EndpointCommands`); resizing, and the prompt that saves a log, logs of
several units and the capacity of channels (screens); the lines of a log unit and the retry of an empty blob
(`LogFollow`); the arithmetic of part sizes (`MultipartUpload`); the environment and pipeline modes of
authentication (`ProfileStore`), which read no file; the timer and listener of the browser's callback; panics of hooks.

## Plan

Next, in this order:

1. Proofs: conditions on a program that make the properties of `Command` hold of it (every handler of an error tells or
   counts it, no change before the last check), which new handlers could be held to.
2. `OciCopy` (`migratable/package.go:335-600`) composed with `Migration`, as the detail of a leaf package.
3. `Paging` (`pkg/endpoint`): the strategies against a reference definition, the driver over a changing collection.
4. `PartSizing` (`validateSession`, offsets of parts): the parts cover the file exactly.
5. `SsoCallback`: answer, timeout and Ctrl-C; one result, and the server stopped.
6. Operators: execution graph, file tree, selectors, date filters.

Abstract specifications worth stating: `Publication` (done), an atomic replacement of a file (`Install`,
`ArtifactDownload`, `atomicWrite`), a remote job that is watched (`Watch` of `Steps`, `LogFollow`).
