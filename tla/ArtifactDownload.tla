-------------------------- MODULE ArtifactDownload --------------------------
(***************************************************************************)
(* "execute artifact:download": page through the file search of the        *)
(* registry, plan what goes where, and download with a bounded pool of      *)
(* goroutines, each into a temporary file renamed over its target.  The     *)
(* registry may change between two pages; Ctrl-C or SIGTERM cancels what    *)
(* is under way; the process may be killed.                                 *)
(*                                                                          *)
(* An item is the artifact path of a match.  Without --flatten it is        *)
(* written to that path under --dest, with it to its base name.             *)
(***************************************************************************)
EXTENDS Naturals, Sequences, FiniteSets, SequencesExt

CONSTANTS
  Items,        \* artifact paths that match the regex
  Catalog,      \* those the registry has at the start, in the order it lists them
  Base,         \* base name of each, itself a path
  NoUrl,        \* items the API gives no download URL for
  Unsafe,       \* items whose path leaves dest
  Old,          \* paths that exist under dest at the start
  PageSize,
  Concurrency,
  MaxDrift      \* bound on the changes of the catalog during the search

Paths == Items \cup {Base[i] : i \in Items}

ASSUME DownloadConstants ==
  /\ DOMAIN Base = Items /\ NoUrl \subseteq Items /\ Unsafe \subseteq Items /\ Old \subseteq Paths
  /\ Catalog \in Seq(Items) /\ IsInjective(Catalog)
  /\ {"none", "old", "part"} \cap Items = {}
  /\ PageSize \in Nat \ {0} /\ Concurrency \in Nat \ {0} /\ MaxDrift \in Nat

VARIABLES
  flags,       \* flatten, overwrite, dryRun
  catalog, drift,
  shrunk,      \* a match was deleted during the search
  pc,          \* the handler: "search", "plan", "check", "acquire", "wait", "gone"
  page, all,   \* next page, and allFiles
  todo, next,  \* downloadable, and the position the loop is at
  w,           \* the goroutine of each position
  cancelled,   \* bgCtx
  disk,        \* what each path of dest holds: "none", "old", "part" or an item
  temp,        \* positions whose temporary file exists
  downloaded, skipped, errors,
  report,      \* the dry-run report
  ret          \* "none", "ok", "error", or "killed"

registryVars == <<catalog, drift, shrunk>>
searchVars   == <<page, all>>
poolVars     == <<w, downloaded, skipped, errors>>
diskVars     == <<disk, temp>>
vars == <<flags, registryVars, pc, searchVars, todo, next, poolVars, cancelled, diskVars, report, ret>>

Flags == [flatten : BOOLEAN, overwrite : BOOLEAN, dryRun : BOOLEAN]
Positions == 1 .. (Len(Catalog) + MaxDrift)
Out(i) == IF flags.flatten THEN Base[i] ELSE i          \* resolveOutPath
\* Mutant: a goroutine that is done keeps its slot.
ActiveForEver == {p \in Positions : w[p] # "none"}
Active == {p \in Positions : w[p] \in {"stat", "request", "copy", "rename"}}

Init ==
  /\ flags \in Flags
  /\ catalog = Catalog /\ drift = 0 /\ shrunk = FALSE
  /\ pc = "search" /\ page = 0 /\ all = <<>> /\ todo = <<>> /\ next = 1
  /\ w = [p \in Positions |-> "none"] /\ downloaded = 0 /\ skipped = 0 /\ errors = 0
  /\ cancelled = FALSE
  /\ disk = [p \in Paths |-> IF p \in Old THEN "old" ELSE "none"] /\ temp = {}
  /\ report = <<>> /\ ret = "none"

(***************************************************************************)
(* The registry, and the signals.                                           *)
(***************************************************************************)
\* Someone deletes a match, or publishes one, while the search is under way.
Drift ==
  /\ pc = "search" /\ drift < MaxDrift /\ drift' = drift + 1
  /\ \/ \E k \in DOMAIN catalog : catalog' = RemoveAt(catalog, k) /\ shrunk' = TRUE
     \/ \E i \in Items \ ToSet(catalog), k \in 1..(Len(catalog) + 1) :
          catalog' = InsertAt(catalog, k, i) /\ UNCHANGED shrunk
  /\ UNCHANGED <<flags, pc, searchVars, todo, next, poolVars, cancelled, diskVars, report, ret>>

Interrupt ==
  /\ pc # "gone" /\ ~cancelled /\ cancelled' = TRUE
  /\ UNCHANGED <<flags, registryVars, pc, searchVars, todo, next, poolVars, diskVars, report, ret>>

\* kill -9, or power: nothing the code does runs any more.
Kill ==
  /\ pc # "gone" /\ pc' = "gone" /\ ret' = "killed"
  /\ UNCHANGED <<flags, registryVars, searchVars, todo, next, poolVars, cancelled, diskVars, report>>

(***************************************************************************)
(* artifactSearchFiles.                                                     *)
(***************************************************************************)
SearchFails ==
  /\ pc = "search" /\ pc' = "gone" /\ ret' = "error"
  /\ UNCHANGED <<flags, registryVars, searchVars, todo, next, poolVars, cancelled, diskVars, report>>

\* Mutant: pages are counted from one.
PageOfOne(k) == SubSeq(catalog, (k + 1) * PageSize + 1, IF (k + 2) * PageSize < Len(catalog) THEN (k + 2) * PageSize ELSE Len(catalog))

PageOf(k) == SubSeq(catalog, k * PageSize + 1, IF (k + 1) * PageSize < Len(catalog) THEN (k + 1) * PageSize ELSE Len(catalog))

\* A page; the registry may say there is more when there is not.
Search ==
  /\ pc = "search" /\ ~cancelled
  /\ LET items == PageOf(page) IN
     \E hasMore \in IF Len(catalog) > (page + 1) * PageSize THEN {TRUE} ELSE BOOLEAN :
       /\ all' = all \o items
       /\ IF hasMore /\ items # <<>> THEN page' = page + 1 /\ UNCHANGED pc
          ELSE pc' = "plan" /\ UNCHANGED page
  /\ UNCHANGED <<flags, registryVars, todo, next, poolVars, cancelled, diskVars, report, ret>>

(***************************************************************************)
(* The handler, from the filter to the pool.                                *)
(***************************************************************************)
Rejected == NoUrl \cup (IF flags.flatten THEN {} ELSE Unsafe)

Downloadable ==
  LET kept[n \in 0..Len(all)] == IF n = 0 THEN <<>>
                                 ELSE IF all[n] \in Rejected THEN kept[n - 1] ELSE Append(kept[n - 1], all[n])
  IN kept[Len(all)]

Collide(s)   == \E p, q \in DOMAIN s : p # q /\ Base[s[p]] = Base[s[q]]
Begin(s)     == todo' = s /\ pc' = "check" /\ UNCHANGED <<report, ret>>
Stop(r)      == pc' = "gone" /\ ret' = r /\ UNCHANGED todo

\* The report, the collision file and dest may fail to be written.
Plan ==
  /\ pc = "plan"
  /\ LET s == Downloadable IN
     \/ all = <<>> /\ Stop("ok") /\ UNCHANGED report
     \/ all # <<>> /\ s = <<>> /\ Stop("error") /\ UNCHANGED report
     \/ /\ s # <<>> /\ flags.dryRun
        /\ \/ report' = s /\ Stop("ok")
           \/ Stop("error") /\ UNCHANGED report
     \/ s # <<>> /\ ~flags.dryRun /\ flags.flatten /\ Collide(s) /\ Stop("error") /\ UNCHANGED report
     \/ /\ s # <<>> /\ ~flags.dryRun /\ ~(flags.flatten /\ Collide(s))
        /\ Begin(s) \/ (Stop("error") /\ UNCHANGED report)
  /\ UNCHANGED <<flags, registryVars, searchVars, next, poolVars, cancelled, diskVars>>

\* The loop looks at bgCtx, then waits for a slot or for bgCtx.
Check ==
  /\ pc = "check"
  /\ pc' = IF next > Len(todo) \/ cancelled THEN "wait" ELSE "acquire"
  /\ UNCHANGED <<flags, registryVars, searchVars, todo, next, poolVars, cancelled, diskVars, report, ret>>

Launch ==
  /\ pc = "acquire" /\ pc' = "check" /\ Cardinality(Active) < Concurrency
  /\ w' = [w EXCEPT ![next] = "stat"] /\ next' = next + 1
  /\ UNCHANGED <<flags, registryVars, searchVars, todo, downloaded, skipped, errors, cancelled, diskVars, report, ret>>

LaunchStops ==
  /\ pc = "acquire" /\ pc' = "wait" /\ cancelled
  /\ UNCHANGED <<flags, registryVars, searchVars, todo, next, poolVars, cancelled, diskVars, report, ret>>

\* wg.Wait, the summary, and the exit.
Return ==
  /\ pc = "wait" /\ Active = {} /\ pc' = "gone"
  /\ ret' = IF errors > 0 THEN "error" ELSE "ok"
  /\ UNCHANGED <<flags, registryVars, searchVars, todo, next, poolVars, cancelled, diskVars, report>>

(***************************************************************************)
(* The goroutine of a position, and artifactDownloadFile.                   *)
(***************************************************************************)
StepTo(p, s) == pc # "gone" /\ w' = [w EXCEPT ![p] = s]
Fail(p)      == StepTo(p, "done") /\ errors' = errors + 1 /\ UNCHANGED <<downloaded, skipped>>
Same         == UNCHANGED <<flags, registryVars, pc, searchVars, todo, next, cancelled, report, ret>>

\* Mutant: an existing file is not looked for.
StatNever(p) ==
  /\ w[p] = "stat"
  /\ StepTo(p, "request") /\ UNCHANGED <<downloaded, skipped, errors, diskVars>>
  /\ Same

Stat(p) ==
  /\ w[p] = "stat"
  /\ IF ~flags.overwrite /\ disk[Out(todo[p])] # "none"
     THEN StepTo(p, "done") /\ skipped' = skipped + 1 /\ UNCHANGED <<downloaded, errors>>
     ELSE StepTo(p, "request") /\ UNCHANGED <<downloaded, skipped, errors>>
  /\ UNCHANGED diskVars /\ Same

\* The directory, the GET and the temporary file; a cancelled request fails.
Request(p) ==
  /\ w[p] = "request"
  /\ \/ Fail(p) /\ UNCHANGED diskVars
     \/ /\ ~cancelled /\ StepTo(p, "copy") /\ temp' = temp \cup {p}
        /\ UNCHANGED <<disk, downloaded, skipped, errors>>
  /\ Same

\* io.Copy and Close: the body may break off, most of all when it is cancelled.
Copy(p) ==
  /\ w[p] = "copy"
  /\ \/ Fail(p) /\ temp' = temp \ {p} /\ UNCHANGED disk
     \/ StepTo(p, "rename") /\ UNCHANGED <<diskVars, downloaded, skipped, errors>>
  /\ Same

Rename(p) ==
  /\ w[p] = "rename" /\ temp' = temp \ {p}
  /\ \/ Fail(p) /\ UNCHANGED disk
     \/ /\ StepTo(p, "done") /\ downloaded' = downloaded + 1 /\ UNCHANGED <<skipped, errors>>
        /\ disk' = [disk EXCEPT ![Out(todo[p])] = todo[p]]
  /\ Same

Worker(p) == Stat(p) \/ Request(p) \/ Copy(p) \/ Rename(p)
Handler   == Search \/ (cancelled /\ SearchFails) \/ Plan \/ Check \/ Launch \/ LaunchStops \/ Return

Next ==
  \/ Drift \/ Interrupt \/ Kill \/ SearchFails \/ Handler
  \/ \E p \in Positions : Worker(p)

\* The handler and its goroutines run, and every HTTP call returns.
Spec == Init /\ [][Next]_vars /\ WF_vars(Handler) /\ \A p \in Positions : WF_vars(Worker(p))

-----------------------------------------------------------------------------
(***************************************************************************)
(* Properties.                                                              *)
(***************************************************************************)
TypeOK ==
  /\ flags \in Flags /\ drift \in 0..MaxDrift /\ shrunk \in BOOLEAN
  /\ catalog \in Seq(Items) /\ IsInjective(catalog)
  /\ pc \in {"search", "plan", "check", "acquire", "wait", "gone"}
  /\ page \in 0..Len(all) /\ all \in Seq(Items) /\ Len(all) <= Len(Catalog) + MaxDrift
  /\ todo \in Seq(Items) /\ Len(todo) <= Len(all) /\ next \in 1..(Len(todo) + 1)
  /\ w \in [Positions -> {"none", "stat", "request", "copy", "rename", "done"}]
  /\ \A p \in Positions : w[p] # "none" <=> p < next
  /\ cancelled \in BOOLEAN
  /\ disk \in [Paths -> {"none", "old", "part"} \cup Items] /\ temp \subseteq Positions
  /\ ret \in {"none", "ok", "error", "killed"}

Started == todo # <<>>      \* the pool was reached

\* har.spec.yaml:1336: downloads are atomic, so that neither an interrupt nor a kill
\* leaves part of an artifact under its name, nor one artifact under another's.
NoPartialFile ==
  \A f \in Paths : disk[f] \in {"none", "old"} \cup {i \in Items : Out(i) = f}

\* har.spec.yaml:1336: files that already exist locally are skipped; without --overwrite
\* none of them is touched, whatever the goroutines of equal paths do.
OldKept == ~flags.overwrite => \A f \in Old : disk[f] = "old"

\* A run that ends by itself or by an interrupt leaves no temporary file behind.
NoLitter == ret \in {"ok", "error"} => temp = {}

\* The summary is honest: each goroutine counts once, each download counted is on disk,
\* and unless it is interrupted exit 0 says that all that was planned is there.  What
\* --dry-run lists is what a run over the same search would write.
AccountedFor ==
  /\ downloaded + skipped + errors = Cardinality({p \in Positions : w[p] = "done"})
  /\ Cardinality({i \in ToSet(todo) : disk[Out(i)] = i}) <= downloaded
  /\ ret = "ok" /\ Started /\ ~cancelled =>
        \A p \in DOMAIN todo :
          disk[Out(todo[p])] = todo[p] \/ (~flags.overwrite /\ disk[Out(todo[p])] = "old")
  /\ flags.dryRun => todo = <<>> /\ (ret = "ok" /\ all # <<>> => report = Downloadable)

\* The command returns, whatever the registry says of its pages.
Terminates == <>(pc = "gone")

\* har.spec.yaml:1328: "download every match into a local directory".  Only a match that
\* is deleted during the search can make the pages that follow skip another one.
EveryMatchDownloaded ==
  ret = "ok" /\ Started /\ ~cancelled /\ ~shrunk =>
    \A i \in ToSet(Catalog) \ (NoUrl \cup Unsafe) :
      disk[Out(i)] = i \/ (~flags.overwrite /\ disk[Out(i)] = "old")

\* What is on disk: whole files under their own names, old ones kept, nothing temporary at the end
\* (download_artifact.go:217-248, 363-409).
FilesWhole == TypeOK /\ NoPartialFile /\ OldKept /\ NoLitter

\* What is said: the counts are those of the disk, and exit 0 means every match of a registry that
\* kept its matches (download_artifact.go:107-141, 251-361).
Accounted == AccountedFor /\ EveryMatchDownloaded
=============================================================================
