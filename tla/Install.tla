-------------------------------- MODULE Install --------------------------------
(* harness install cli and harness install plugin: a release is resolved, its
   archive downloaded, checked and unpacked in a temporary directory, and the
   binary put in place by a rename. A plugin's grammar is then asked of the
   binary in place and written, with the version, to its spec, which is what
   later runs take for installed.

   Any process may be killed between two steps. The staging file of a binary
   has a fixed name, which all processes share: a process that writes has the
   file open, and the file moves under it when another process renames. *)
EXTENDS Integers, FiniteSets

CONSTANTS
  Procs,      \* processes that install
  MaxVersion, \* bound on the releases
  Overlap,    \* processes may run at the same time
  MaxLosses   \* bound on the times that the user removes the binary

ASSUME InstallAssumption ==
  /\ IsFiniteSet(Procs)
  /\ MaxVersion \in Nat \ {0} /\ MaxLosses \in Nat
  /\ Overlap \in BOOLEAN

Versions == 1..MaxVersion
None == 0
Torn == -1  \* a file cut short, or of two versions
Contents == Versions \cup {None, Torn}

VARIABLES
  core,      \* the harness in the install directory
  bin,       \* the binary of the plugin in ~/.harness/bin
  staging,   \* the file that becomes it: <dest>.new
  recorded,  \* the version in the plugin's spec
  latest,    \* the release that is the newest
  pc,        \* of a process
  job,       \* its command: [what, want, force]
  release,   \* the version it resolved
  got,       \* the binary it unpacked in its temporary directory
  fd,        \* where the file that it writes is linked: "none", "staging", "bin", "spec", "gone"
  warned,    \* it said that plugins may be behind
  cut,       \* a process ended between the rename and the spec, or in the spec
  losses

files == <<core, bin, staging, recorded>>
vars == <<files, latest, pc, job, release, got, fd, warned, cut, losses>>

Jobs ==
  [what : {"cli", "core", "plugin"}, want : Versions \cup {None}, force : BOOLEAN]
  \cup [what : {"url"}, want : Versions, force : {FALSE}]

Ended == {"done", "failed", "dead"}
Working == {p \in Procs : pc[p] \notin Ended \cup {"idle"}}

Init ==
  /\ core = 1 /\ bin \in {None, 1} /\ staging = None /\ recorded = bin /\ latest \in Versions
  /\ pc = [p \in Procs |-> "idle"]
  /\ job = [p \in Procs |-> [what |-> "plugin", want |-> None, force |-> FALSE]]
  /\ release = [p \in Procs |-> None] /\ got = [p \in Procs |-> None]
  /\ fd = [p \in Procs |-> "none"]
  /\ warned = [p \in Procs |-> FALSE]
  /\ cut = FALSE /\ losses = 0

-----------------------------------------------------------------------------
(* The ends of a process. "install cli" runs the new binary for the plugins: when that fails, it warns. *)

Goto(p, l) == pc' = [pc EXCEPT ![p] = l]
InPlugins(p) == job[p].what = "cli" /\ pc[p] \notin {"core resolve", "core decide", "core download", "core stage", "core rename"}

(* The deferred removal of the temporary directory. *)
Close(p) == got' = [got EXCEPT ![p] = None] /\ fd' = [fd EXCEPT ![p] = "none"]

Give(p) ==
  /\ IF InPlugins(p) THEN Goto(p, "done") /\ warned' = [warned EXCEPT ![p] = TRUE]
     ELSE Goto(p, "failed") /\ UNCHANGED warned
  /\ Close(p)

Succeed(p) == Goto(p, "done") /\ Close(p) /\ UNCHANGED warned

Start(p) ==
  /\ pc[p] = "idle" /\ (Overlap \/ Working = {})
  /\ \E j \in Jobs :
       /\ job' = [job EXCEPT ![p] = j]
       /\ Goto(p, CASE j.what \in {"cli", "core"} -> "core resolve" [] j.what = "plugin" -> "resolve" [] OTHER -> "download")
       /\ release' = [release EXCEPT ![p] = IF j.what = "url" THEN j.want ELSE None]
  /\ UNCHANGED <<files, latest, got, fd, warned, cut, losses>>

(* A version newer than the latest has no release. *)
Resolved(p) == IF job[p].want = None \/ InPlugins(p) THEN latest ELSE job[p].want

Resolve(p, from, to) ==
  /\ pc[p] = from
  /\ \/ /\ Resolved(p) <= latest
        /\ release' = [release EXCEPT ![p] = Resolved(p)]
        /\ Goto(p, to) /\ UNCHANGED <<got, fd, warned>>
     \/ Give(p) /\ UNCHANGED release
  /\ UNCHANGED <<files, latest, job, cut, losses>>

(* Mutant of CoreDecide: any release that differs is installed. *)
CoreDecideDiffers(p) ==
  /\ pc[p] = "core decide"
  /\ Goto(p, IF ~job[p].force /\ release[p] = core THEN "plugins" ELSE "core download")
  /\ UNCHANGED <<files, latest, job, release, got, fd, warned, cut, losses>>

-----------------------------------------------------------------------------
(* install cli. The process runs from the install directory, so that its own version is the one in place. *)

CoreDecide(p) ==
  /\ pc[p] = "core decide"
  /\ Goto(p, IF ~job[p].force /\ release[p] <= core THEN "plugins" ELSE "core download")
  /\ UNCHANGED <<files, latest, job, release, got, fd, warned, cut, losses>>

(* Mutant of Download: after a download that fails the release is resolved again. *)
DownloadAgain(p, from, to) ==
  /\ pc[p] = from
  /\ \/ got' = [got EXCEPT ![p] = release[p]] /\ Goto(p, to)
     \/ Goto(p, IF from = "download" THEN "resolve" ELSE "core resolve") /\ UNCHANGED got
  /\ UNCHANGED <<files, latest, job, release, fd, warned, cut, losses>>

(* The archive is fetched and its checksum compared; what differs is refused. *)
Download(p, from, to) ==
  /\ pc[p] = from
  /\ \/ /\ got' = [got EXCEPT ![p] = release[p]]
        /\ Goto(p, to) /\ UNCHANGED <<fd, warned>>
     \/ Give(p)
  /\ UNCHANGED <<files, latest, job, release, cut, losses>>

(* Renamed twice, from the temporary directory and over the old one. *)
CoreStage(p) ==
  /\ pc[p] = "core stage"
  /\ \/ Goto(p, "core rename") /\ UNCHANGED <<got, fd, warned>>
     \/ Give(p)
  /\ UNCHANGED <<files, latest, job, release, cut, losses>>

CoreRename(p) ==
  /\ pc[p] = "core rename"
  /\ \/ core' = got[p] /\ Goto(p, "plugins") /\ Close(p) /\ UNCHANGED warned
     \/ Give(p) /\ UNCHANGED core
  /\ UNCHANGED <<bin, staging, recorded, latest, job, release, cut, losses>>

(* install plugin all, of the plugins that a spec records, unless --core-only was given. *)
Plugins(p) ==
  /\ pc[p] = "plugins"
  /\ IF job[p].what = "cli" /\ recorded \in Versions THEN Goto(p, "resolve") ELSE Goto(p, "done")
  /\ UNCHANGED <<files, latest, job, release, got, fd, warned, cut, losses>>

-----------------------------------------------------------------------------
(* install plugin. *)

(* What is recorded is at least the release, and its binary is there: nothing is done. *)
UpToDate(p) == recorded \in Versions /\ bin # None /\ release[p] <= recorded

Decide(p) ==
  /\ pc[p] = "decide"
  /\ IF UpToDate(p) /\ ~(job[p].force /\ job[p].what = "plugin") THEN Succeed(p)
     ELSE Goto(p, "download") /\ UNCHANGED <<got, fd, warned>>
  /\ UNCHANGED <<files, latest, job, release, cut, losses>>

(* Mutant of OpenStaging: the binary is written in place. *)
OpenInPlace(p) ==
  /\ pc[p] = "open"
  /\ bin' = Torn /\ fd' = [fd EXCEPT ![p] = "bin"] /\ Goto(p, "fill")
  /\ UNCHANGED <<core, staging, recorded, latest, job, release, got, warned, cut, losses>>

(* The name that the binary tells, asked in the temporary directory. *)
Identify(p) ==
  /\ pc[p] = "identify"
  /\ \/ Goto(p, "open") /\ UNCHANGED <<got, fd, warned>>
     \/ Give(p)
  /\ UNCHANGED <<files, latest, job, release, cut, losses>>

OpenStaging(p) ==
  /\ pc[p] = "open"
  /\ \/ staging' = Torn /\ fd' = [fd EXCEPT ![p] = "staging"] /\ Goto(p, "fill") /\ UNCHANGED <<got, warned>>
     \/ staging' = None /\ Give(p)
  /\ UNCHANGED <<core, bin, recorded, latest, job, release, cut, losses>>

(* What the file holds when p has written all: another that writes it too may leave its own end. *)
Written(p) == IF \E q \in Procs \ {p} : fd[q] = fd[p] THEN {got[p], Torn} ELSE {got[p]}

Fill(p) ==
  /\ pc[p] = "fill"
  /\ \/ /\ \E c \in Written(p) :
             /\ staging' = IF fd[p] = "staging" THEN c ELSE staging
             /\ bin' = IF fd[p] = "bin" THEN c ELSE bin
        /\ fd' = [fd EXCEPT ![p] = "none"]
        /\ Goto(p, "rename") /\ UNCHANGED <<got, warned>>
     \/ staging' = None /\ Give(p) /\ UNCHANGED bin
  /\ UNCHANGED <<core, recorded, latest, job, release, cut, losses>>

(* Those that write the file go on writing it at its new place. *)
Rename(p) ==
  /\ pc[p] = "rename"
  /\ \/ /\ staging # None
        /\ bin' = staging /\ staging' = None
        /\ fd' = [q \in Procs |-> CASE fd[q] = "staging" -> "bin" [] fd[q] = "bin" -> "gone" [] OTHER -> fd[q]]
        /\ Goto(p, "grammar") /\ UNCHANGED <<got, warned>>
     \/ staging' = None /\ Give(p) /\ UNCHANGED bin
  /\ UNCHANGED <<core, recorded, latest, job, release, cut, losses>>

(* --spec, of the binary in place. *)
Grammar(p) ==
  /\ pc[p] = "grammar"
  /\ \/ bin \in Versions /\ Goto(p, "spec open") /\ UNCHANGED <<got, fd, warned, cut>>
     \/ Give(p) /\ cut' = TRUE
  /\ UNCHANGED <<files, latest, job, release, losses>>

OpenSpec(p) ==
  /\ pc[p] = "spec open"
  /\ \/ recorded' = Torn /\ fd' = [fd EXCEPT ![p] = "spec"] /\ Goto(p, "spec fill") /\ UNCHANGED <<got, warned, cut>>
     \/ Give(p) /\ cut' = TRUE /\ UNCHANGED recorded
  /\ UNCHANGED <<core, bin, staging, latest, job, release, losses>>

FillSpec(p) ==
  /\ pc[p] = "spec fill"
  /\ \/ \E c \in Written(p) : recorded' = c /\ cut' = (c = Torn) /\ Succeed(p)
     \/ Give(p) /\ cut' = TRUE /\ UNCHANGED recorded
  /\ UNCHANGED <<core, bin, staging, latest, job, release, losses>>

-----------------------------------------------------------------------------
Unrecorded == {"grammar", "spec open", "spec fill"}

Die(p) ==
  /\ p \in Working
  /\ Goto(p, "dead") /\ fd' = [fd EXCEPT ![p] = "none"]
  /\ cut' = (cut \/ pc[p] \in Unrecorded)
  /\ UNCHANGED <<files, latest, job, release, got, warned, losses>>

LoseBinary ==
  /\ losses < MaxLosses /\ bin # None /\ Working = {}
  /\ losses' = losses + 1 /\ bin' = None
  /\ UNCHANGED <<core, staging, recorded, latest, pc, job, release, got, fd, warned, cut>>

Run(p) ==
  \/ Resolve(p, "core resolve", "core decide") \/ CoreDecide(p)
  \/ Download(p, "core download", "core stage") \/ CoreStage(p) \/ CoreRename(p) \/ Plugins(p)
  \/ Resolve(p, "resolve", "decide") \/ Decide(p) \/ Download(p, "download", "identify") \/ Identify(p)
  \/ OpenStaging(p) \/ Fill(p) \/ Rename(p) \/ Grammar(p) \/ OpenSpec(p) \/ FillSpec(p)

Next == (\E p \in Procs : Start(p) \/ Run(p) \/ Die(p)) \/ LoseBinary

(* A process that was started runs; requests end by their timeouts. *)
Spec == Init /\ [][Next]_vars /\ \A p \in Procs : WF_vars(Run(p))

-----------------------------------------------------------------------------
TypeOK ==
  /\ core \in Versions /\ {bin, staging, recorded} \subseteq Contents /\ latest \in Versions
  /\ job \in [Procs -> Jobs] /\ release \in [Procs -> Versions \cup {None}]
  /\ got \in [Procs -> Versions \cup {None}]
  /\ warned \in [Procs -> BOOLEAN]
  /\ fd \in [Procs -> {"none", "staging", "bin", "spec", "gone"}]
  /\ cut \in BOOLEAN /\ losses \in 0..MaxLosses

(* Whoever runs the plugin finds a whole binary or none, whenever installs are killed. *)
NeverHalfWritten == bin # Torn

(* An install that ends well has put the release in place, or found it there: the binary, and the spec that
   says so, unless an earlier one was cut between the two. *)
SuccessIsInstalled ==
  [][\A p \in Procs :
       pc[p] # "done" /\ pc'[p] = "done" /\ ~warned'[p] =>
         IF pc[p] = "plugins" THEN core' >= release[p]
         ELSE cut \/ (bin' \in Versions /\ recorded' = bin' /\ bin' >= release[p])]_vars

(* Without --force or a URL no command puts an older release over a newer one; what a cut install left is
   judged by its spec. *)
NoSilentDowngrade ==
  [][\A p \in Procs :
       \/ /\ pc[p] = "core rename" /\ core' < core
       \/ /\ pc[p] = "rename" /\ bin' # bin /\ bin' # None /\ bin' < bin /\ ~cut
       => job[p].force \/ job[p].what = "url"]_vars

(* The commands that were not killed leave no temporary directory and no staging file. *)
NoLitter ==
  Working = {} => /\ \A p \in Procs : got[p] # None => pc[p] = "dead"
                  /\ staging # None => \E p \in Procs : pc[p] = "dead"

(* Fields keep their types. Whoever runs a plugin finds a whole binary or none, whenever installs are killed, and those that are
   not killed leave nothing else behind (install_plugin.go: staging, renaming, deferred removals). *)
InstallIsWhole == TypeOK /\ NeverHalfWritten /\ NoLitter

(* An install that ends well has the release in place and recorded, and none goes back to an older one
   unasked (install.go, install_plugin.go: what counts as up to date). *)
InstallIsCurrent == SuccessIsInstalled /\ NoSilentDowngrade

(* Every install that is started ends. *)
Ends == \A p \in Procs : pc[p] \notin {"idle"} ~> pc[p] \in Ended
=============================================================================
