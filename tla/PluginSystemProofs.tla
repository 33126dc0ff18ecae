--------------------------- MODULE PluginSystemProofs ---------------------------
(***************************************************************************)
(* Plugins from both sides.                                                 *)
(*                                                                          *)
(* Installs, for every set of processes, every number of releases and every *)
(* number of times that the user removes the binary, as long as they do not *)
(* overlap: those that do can leave a half-written binary, since the        *)
(* staging file has one name for all.                                       *)
(*                                                                          *)
(* A start, for every set of home specs: what the registry holds is what    *)
(* the specs said that are behind it (NounsInv, CommandsInv), of a spec     *)
(* that was to be loaded nothing is missing (NounsKept, CommandsKept), and  *)
(* a noun that is registered finds its names free (FreeInv).                *)
(***************************************************************************)
EXTENDS PluginSystem, SequenceTheorems, TLAPS

(* The steps at which a process has its release unpacked, and those at which it has resolved one. *)
Holding == {"core stage", "core rename", "identify", "open", "fill", "rename"} \cup Unrecorded
Released == Holding \cup {"core decide", "core download", "plugins", "decide", "download"}
Labels == Released \cup Ended \cup {"idle", "core resolve", "resolve"}

Typed == TypeOK /\ pc \in [Procs -> Labels]

Alone == \A p, q \in Working : p = q

(* What a process holds. *)
Holds(p) ==
  /\ got[p] # None => pc[p] \in Holding \cup {"dead"}
  /\ pc[p] \in Holding => got[p] = release[p]
  /\ pc[p] \in Released => release[p] \in Versions
  /\ fd[p] = CASE pc[p] = "fill" -> "staging" [] pc[p] = "spec fill" -> "spec" [] OTHER -> "none"

(* What it has put in place so far. *)
Places(p) ==
  /\ pc[p] = "rename" => staging = got[p]
  /\ pc[p] \in Unrecorded => bin = got[p]
  /\ pc[p] = "plugins" => release[p] <= core

(* Why it replaces what is in place: the release is newer, or it was asked to. *)
Newer(p) ==
  /\ pc[p] \in {"core download", "core stage", "core rename"} /\ ~job[p].force => core < release[p]
  /\ pc[p] \in {"download", "identify", "open", "fill", "rename"} /\ ~job[p].force /\ job[p].what # "url" /\ ~cut
       => bin = None \/ bin < release[p]

(* The files: a staging file is somebody's, and the spec agrees with the binary unless an install was cut. *)
FilesInv ==
  /\ bin # Torn
  /\ staging # None => \E p \in Procs : pc[p] \in {"fill", "rename", "dead"}
  /\ ~cut /\ (\A p \in Procs : pc[p] \notin Unrecorded) => bin = None \/ recorded = bin

InstallInv ==
  /\ Typed /\ Alone /\ FilesInv
  /\ \A p \in Procs : Holds(p) /\ Places(p) /\ Newer(p)

-----------------------------------------------------------------------------
(* A request names a release, or none for the newest. *)
LEMMA JobTypes ==
  ASSUME NEW j \in Jobs
  PROVE  /\ j.what \in {"cli", "core", "plugin", "url"} /\ j.want \in Versions \cup {None} /\ j.force \in BOOLEAN
         /\ j.what = "url" => j.want \in Versions /\ ~j.force
  BY DEF Jobs

(* What TypeOK says, one file at a time. *)
LEMMA TypedFields ==
  ASSUME Typed
  PROVE  /\ core \in Versions /\ bin \in Contents /\ staging \in Contents /\ recorded \in Contents
         /\ latest \in Versions /\ pc \in [Procs -> Labels] /\ job \in [Procs -> Jobs]
         /\ release \in [Procs -> Versions \cup {None}] /\ got \in [Procs -> Versions \cup {None}]
         /\ warned \in [Procs -> BOOLEAN] /\ fd \in [Procs -> {"none", "staging", "bin", "spec", "gone"}]
         /\ cut \in BOOLEAN /\ losses \in 0..MaxLosses
  BY DEF Typed, TypeOK

LEMMA InitInstallInv == Init => InstallInv
<1> SUFFICES ASSUME Init PROVE InstallInv
  OBVIOUS
<1> USE InstallAssumption DEF Init, Versions, None, Torn
<1>1. [what |-> "plugin", want |-> None, force |-> FALSE] \in Jobs
  BY DEF Jobs
<1>2. Typed
  <2>1. 1 \in Versions /\ Versions \subseteq Contents /\ None \in Contents /\ "idle" \in Labels
    BY DEF Contents, Labels
  <2>2. {bin, staging, recorded} \subseteq Contents /\ core \in Versions /\ losses \in 0..MaxLosses
    BY <2>1
  <2>3. /\ job \in [Procs -> Jobs] /\ release \in [Procs -> Versions \cup {None}]
        /\ got \in [Procs -> Versions \cup {None}] /\ pc \in [Procs -> Labels]
    BY <1>1, <2>1
  <2> QED BY <2>2, <2>3 DEF Typed, TypeOK
<1>3. Working = {}
  BY DEF Working
<1>4. \A p \in Procs : pc[p] = "idle" /\ got[p] = None /\ fd[p] = "none"
  OBVIOUS
<1>5. \A p \in Procs : Holds(p) /\ Places(p) /\ Newer(p)
  BY <1>4 DEF Holds, Places, Newer, Holding, Released, Unrecorded
<1> QED BY <1>2, <1>3, <1>5 DEF InstallInv, Alone, FilesInv

(* A process that gives up leaves nothing open and no temporary directory. *)
LEMMA GivesUp ==
  ASSUME Typed, NEW p \in Procs, Give(p)
  PROVE  /\ pc' \in [Procs -> Labels] /\ pc'[p] \in {"done", "failed"} /\ got'[p] = None /\ fd'[p] = "none"
         /\ pc'[p] = "done" => warned'[p]
         /\ \A q \in Procs \ {p} : pc'[q] = pc[q] /\ got'[q] = got[q] /\ fd'[q] = fd[q]
         /\ got' \in [Procs -> Versions \cup {None}] /\ warned' \in [Procs -> BOOLEAN]
         /\ fd' \in [Procs -> {"none", "staging", "bin", "spec", "gone"}]
<1> USE TypedFields DEF Give, Goto, Close
<1>1. {"done", "failed"} \subseteq Labels /\ None \in Versions \cup {None}
  BY DEF Labels, Ended
<1>2. CASE InPlugins(p)
  BY <1>1, <1>2
<1>3. CASE ~InPlugins(p)
  BY <1>1, <1>3
<1> QED BY <1>2, <1>3

(* A process at work touches no other: not where it is, nor what it holds or has open. *)
LEMMA RunTouches ==
  ASSUME Typed, NEW p \in Procs, Run(p) \/ Die(p)
  PROVE  /\ p \in Working /\ UNCHANGED <<latest, job, losses>>
         /\ \A q \in Procs \ {p} :
              /\ pc'[q] = pc[q] /\ got'[q] = got[q] /\ release'[q] = release[q]
              /\ fd[q] = "none" => fd'[q] = "none"
<1>0. DOMAIN pc = Procs /\ DOMAIN got = Procs /\ DOMAIN release = Procs /\ DOMAIN fd = Procs
  BY TypedFields
<1> USE <1>0 DEF Goto, Give, Succeed, Close, Working, Ended, files
<1>1. CASE Die(p)
  BY <1>1 DEF Die
<1>2. CASE Resolve(p, "core resolve", "core decide") \/ Resolve(p, "resolve", "decide")
  BY <1>2 DEF Resolve
<1>3. CASE CoreDecide(p) \/ CoreStage(p) \/ CoreRename(p) \/ Plugins(p)
  BY <1>3 DEF CoreDecide, CoreStage, CoreRename, Plugins
<1>4. CASE Download(p, "core download", "core stage") \/ Download(p, "download", "identify")
  BY <1>4 DEF Download
<1>5. CASE Decide(p) \/ Identify(p) \/ OpenStaging(p)
  BY <1>5 DEF Decide, Identify, OpenStaging
<1>6. CASE Fill(p)
  BY <1>6 DEF Fill
<1>7. CASE Rename(p)
  BY <1>7 DEF Rename
<1>8. CASE Grammar(p) \/ OpenSpec(p) \/ FillSpec(p)
  BY <1>8 DEF Grammar, OpenSpec, FillSpec
<1> QED BY <1>1, <1>2, <1>3, <1>4, <1>5, <1>6, <1>7, <1>8 DEF Run

(* What a process holds and has resolved, after each step of its own. *)
LEMMA RunHolds ==
  ASSUME Typed, NEW p \in Procs, Holds(p), Run(p), \A q \in Procs \ {p} : fd[q] = "none"
  PROVE  Holds(p)' /\ pc' \in [Procs -> Labels] /\ release' \in [Procs -> Versions \cup {None}]
         /\ got' \in [Procs -> Versions \cup {None}] /\ warned' \in [Procs -> BOOLEAN]
         /\ fd' \in [Procs -> {"none", "staging", "bin", "spec", "gone"}]
<1> USE TypedFields
<1> DEFINE Kept == /\ pc' \in [Procs -> Labels] /\ release' \in [Procs -> Versions \cup {None}]
                   /\ got' \in [Procs -> Versions \cup {None}] /\ warned' \in [Procs -> BOOLEAN]
                   /\ fd' \in [Procs -> {"none", "staging", "bin", "spec", "gone"}]
<1>1. CASE Give(p) /\ release' = release
  <2>1. Kept /\ pc'[p] \in {"done", "failed"} /\ got'[p] = None /\ fd'[p] = "none"
    BY <1>1, GivesUp
  <2> QED BY <2>1 DEF Holds, Holding, Released, Unrecorded
<1>2. ASSUME NEW l \in Labels \ {"fill", "spec fill"}, Goto(p, l), UNCHANGED <<release, got, fd, warned>>,
             l \in Holding => pc[p] \in Holding,
             l \in Released => pc[p] \in Released,
             pc[p] \notin {"fill", "spec fill"},
             pc[p] # "dead", pc[p] \in Holding => l \in Holding
      PROVE  Holds(p)' /\ Kept
  <2>1. pc' = [pc EXCEPT ![p] = l] /\ pc'[p] = l /\ Kept
    BY <1>2 DEF Goto
  <2>2. fd[p] = "none" /\ fd'[p] = "none"
    BY <1>2 DEF Holds
  <2>3. got[p] # None => pc[p] \in Holding
    BY <1>2 DEF Holds
  <2> QED BY <1>2, <2>1, <2>2, <2>3 DEF Holds
<1>3. CASE Succeed(p) /\ release' = release
  <2>1. /\ pc' = [pc EXCEPT ![p] = "done"] /\ got' = [got EXCEPT ![p] = None] /\ fd' = [fd EXCEPT ![p] = "none"]
        /\ UNCHANGED warned
    BY <1>3 DEF Succeed, Goto, Close
  <2>2. "done" \in Labels
    BY DEF Labels, Ended
  <2> QED BY <1>3, <2>1, <2>2 DEF Holds, Holding, Released, Unrecorded
<1>4. ASSUME NEW to \in {"core decide", "decide"}, NEW from \in {"core resolve", "resolve"}, Resolve(p, from, to)
      PROVE  Holds(p)' /\ Kept
  <2>1. CASE Give(p) /\ release' = release
    BY <1>1, <2>1
  <2>2. CASE /\ release' = [release EXCEPT ![p] = Resolved(p)] /\ Resolved(p) <= latest
             /\ Goto(p, to) /\ UNCHANGED <<got, fd, warned>>
    <3>1. Resolved(p) \in Versions
      <4>1. job[p].want \in Versions \cup {None}
        BY JobTypes
      <4> QED BY <4>1, InstallAssumption DEF Resolved
    <3>2. to \in Labels
      BY DEF Labels, Released
    <3> QED BY <1>4, <2>2, <3>1, <3>2 DEF Resolve, Goto, Holds, Holding, Released, Unrecorded
  <2> QED BY <1>4, <2>1, <2>2 DEF Resolve
<1>5. ASSUME NEW to \in {"core stage", "identify"}, NEW from \in {"core download", "download"}, Download(p, from, to)
      PROVE  Holds(p)' /\ Kept
  <2>1. CASE Give(p)
    BY <1>1, <1>5, <2>1 DEF Download
  <2>2. CASE got' = [got EXCEPT ![p] = release[p]] /\ Goto(p, to) /\ UNCHANGED <<fd, warned>>
    <3>1. to \in Labels /\ pc[p] = from /\ release' = release
      BY <1>5 DEF Labels, Released, Holding, Download
    <3> QED BY <1>5, <2>2, <3>1 DEF Goto, Holds, Holding, Released, Unrecorded
  <2> QED BY <1>5, <2>1, <2>2 DEF Download
<1>6. CASE CoreDecide(p)
  BY <1>2, <1>6 DEF CoreDecide, Goto, Labels, Released, Holding, Unrecorded
<1>7. CASE CoreStage(p)
  BY <1>1, <1>2, <1>7 DEF CoreStage, Labels, Released, Holding, Unrecorded
<1>8. CASE CoreRename(p)
  <2>1. CASE Give(p)
    BY <1>1, <1>8, <2>1 DEF CoreRename
  <2>2. CASE Goto(p, "plugins") /\ Close(p) /\ UNCHANGED warned
    <3>1. pc[p] = "core rename" /\ release' = release /\ "plugins" \in Labels
      BY <1>8 DEF CoreRename, Labels, Released
    <3> QED BY <2>2, <3>1 DEF Goto, Close, Holds, Holding, Released, Unrecorded
  <2> QED BY <1>8, <2>1, <2>2 DEF CoreRename
<1>9. CASE Plugins(p)
  BY <1>2, <1>9 DEF Plugins, Labels, Ended, Released, Holding, Unrecorded
<1>10. CASE Decide(p)
  BY <1>2, <1>3, <1>10 DEF Decide, Labels, Released, Holding, Unrecorded
<1>11. CASE Identify(p)
  BY <1>1, <1>2, <1>11 DEF Identify, Labels, Released, Holding, Unrecorded
<1>12. CASE OpenStaging(p)
  <2>1. CASE Give(p)
    BY <1>1, <1>12, <2>1 DEF OpenStaging
  <2>2. CASE fd' = [fd EXCEPT ![p] = "staging"] /\ Goto(p, "fill") /\ UNCHANGED <<got, warned>>
    <3>1. pc[p] = "open" /\ release' = release /\ "fill" \in Labels
      BY <1>12 DEF OpenStaging, Labels, Released, Holding
    <3> QED BY <2>2, <3>1 DEF Goto, Holds, Holding, Released, Unrecorded
  <2> QED BY <1>12, <2>1, <2>2 DEF OpenStaging
<1>13. CASE Fill(p)
  <2>1. CASE Give(p)
    BY <1>1, <1>13, <2>1 DEF Fill
  <2>2. CASE fd' = [fd EXCEPT ![p] = "none"] /\ Goto(p, "rename") /\ UNCHANGED <<got, warned>>
    <3>1. pc[p] = "fill" /\ release' = release /\ "rename" \in Labels
      BY <1>13 DEF Fill, Labels, Released, Holding
    <3> QED BY <2>2, <3>1 DEF Goto, Holds, Holding, Released, Unrecorded
  <2> QED BY <1>13, <2>1, <2>2 DEF Fill
<1>14. CASE Rename(p)
  <2>1. CASE Give(p)
    BY <1>1, <1>14, <2>1 DEF Rename
  <2>2. CASE /\ fd' = [q \in Procs |-> CASE fd[q] = "staging" -> "bin" [] fd[q] = "bin" -> "gone" [] OTHER -> fd[q]]
             /\ Goto(p, "grammar") /\ UNCHANGED <<got, warned>>
    <3>1. pc[p] = "rename" /\ release' = release /\ "grammar" \in Labels
      BY <1>14 DEF Rename, Labels, Released, Holding, Unrecorded
    <3>2. \A q \in Procs : fd[q] = "none"
      BY <3>1 DEF Holds
    <3>3. fd' = fd
      BY <2>2, <3>2
    <3> QED BY <2>2, <3>1, <3>3 DEF Goto, Holds, Holding, Released, Unrecorded
  <2> QED BY <1>14, <2>1, <2>2 DEF Rename
<1>15. CASE Grammar(p)
  BY <1>1, <1>2, <1>15 DEF Grammar, Labels, Released, Holding, Unrecorded
<1>16. CASE OpenSpec(p)
  <2>1. CASE Give(p)
    BY <1>1, <1>16, <2>1 DEF OpenSpec
  <2>2. CASE fd' = [fd EXCEPT ![p] = "spec"] /\ Goto(p, "spec fill") /\ UNCHANGED <<got, warned>>
    <3>1. pc[p] = "spec open" /\ release' = release /\ "spec fill" \in Labels
      BY <1>16 DEF OpenSpec, Labels, Released, Holding, Unrecorded
    <3> QED BY <2>2, <3>1 DEF Goto, Holds, Holding, Released, Unrecorded
  <2> QED BY <1>16, <2>1, <2>2 DEF OpenSpec
<1>17. CASE FillSpec(p)
  BY <1>1, <1>3, <1>17 DEF FillSpec
<1> QED
  BY <1>4, <1>5, <1>6, <1>7, <1>8, <1>9, <1>10, <1>11, <1>12, <1>13, <1>14, <1>15, <1>16, <1>17 DEF Run

(* What no other process is in the middle of. *)
Quiet(p) == \A q \in Procs \ {p} : pc[q] \in {"idle", "done", "failed", "dead"} /\ fd[q] = "none"

(* A file that only one process writes holds what that process wrote. *)
LEMMA WrittenWhole ==
  ASSUME NEW p \in Procs, Quiet(p), fd[p] # "none"
  PROVE  Written(p) = {got[p]}
  BY DEF Written, Quiet

(* Giving up before the rename leaves the binary and its spec as they were, and takes the staging file
   away or had none; after it, the install counts as cut. *)
LEMMA GiveKeepsFiles ==
  ASSUME Typed, FilesInv, NEW p \in Procs, Quiet(p), Give(p), UNCHANGED <<core, bin, recorded, release, job>>,
         staging' = None \/ (staging' = staging /\ pc[p] \notin {"fill", "rename"}),
         cut' = cut \/ cut' = TRUE, pc[p] \in Unrecorded => cut' = TRUE, pc[p] # "dead"
  PROVE  FilesInv' /\ Places(p)' /\ Newer(p)'
<1>1. /\ pc'[p] \in {"done", "failed"}
      /\ \A q \in Procs \ {p} : pc'[q] = pc[q]
  BY GivesUp
<1>2. staging' # None => \E q \in Procs : pc'[q] \in {"fill", "rename", "dead"}
  BY <1>1 DEF FilesInv
<1>3. ~cut' /\ (\A q \in Procs : pc'[q] \notin Unrecorded) => bin' = None \/ recorded' = bin'
  BY <1>1 DEF FilesInv, Unrecorded
<1>4. FilesInv'
  BY <1>2, <1>3 DEF FilesInv
<1>5. Places(p)' /\ Newer(p)'
  BY <1>1 DEF Places, Newer, Unrecorded
<1> QED BY <1>4, <1>5

(* A step that changes no file, outside of the rename and what follows it. *)
LEMMA GotoKeepsFiles ==
  ASSUME Typed, FilesInv, NEW p \in Procs, UNCHANGED <<files, cut>>,
         NEW l \in Labels \ (Unrecorded \cup {"fill", "rename"}), Goto(p, l),
         pc[p] \notin Unrecorded \cup {"fill", "rename", "dead"}
  PROVE  FilesInv'
<1>1. pc' = [pc EXCEPT ![p] = l] /\ pc \in [Procs -> Labels]
  BY TypedFields DEF Goto
<1>2. \A q \in Procs : pc[q] \in {"fill", "rename", "dead"} => pc'[q] = pc[q]
  BY <1>1
<1>3. \A q \in Procs : pc[q] \in Unrecorded => pc'[q] = pc[q]
  BY <1>1
<1> QED BY <1>2, <1>3 DEF FilesInv, files

(* A step of a process keeps the files in order, and what the process has put in place. *)
LEMMA RunFiles ==
  ASSUME Typed, FilesInv, NEW p \in Procs, Holds(p), Places(p), Newer(p), Quiet(p), Run(p)
  PROVE  /\ FilesInv' /\ Places(p)' /\ Newer(p)'
         /\ core' \in Versions /\ bin' \in Contents /\ staging' \in Contents /\ recorded' \in Contents
         /\ cut' \in BOOLEAN
<1> DEFINE Sound == /\ FilesInv' /\ Places(p)' /\ Newer(p)'
                    /\ core' \in Versions /\ bin' \in Contents /\ staging' \in Contents /\ recorded' \in Contents
                    /\ cut' \in BOOLEAN
<1> USE TypedFields
<1>0. /\ Versions \subseteq Contents /\ None \in Contents /\ Torn \in Contents /\ None \notin Versions
      /\ Torn \notin Versions /\ Torn # None /\ \A v \in Versions : v \in Int
  BY InstallAssumption DEF Contents, Versions, None, Torn
<1>1. ASSUME UNCHANGED <<files, job, cut, release>>, Give(p),
             pc[p] \notin Unrecorded \cup {"fill", "rename", "dead"}
      PROVE  Sound
  BY <1>1, GiveKeepsFiles DEF files
<1>2. ASSUME Give(p), staging' = None, UNCHANGED <<core, bin, recorded, job, cut, release>>,
             pc[p] \notin Unrecorded \cup {"dead"}
      PROVE  Sound
  BY <1>0, <1>2, GiveKeepsFiles
<1>3. ASSUME Give(p), cut' = TRUE, UNCHANGED <<files, job, release>>, pc[p] \in Unrecorded
      PROVE  Sound
  BY <1>3, GiveKeepsFiles DEF files, Unrecorded
<1>4. ASSUME UNCHANGED <<files, cut>>, NEW l \in Labels \ (Unrecorded \cup {"fill", "rename"}), Goto(p, l),
             pc[p] \notin Unrecorded \cup {"fill", "rename", "dead"}, Newer(p)', l = "plugins" => release'[p] <= core
      PROVE  Sound
  <2>1. FilesInv' /\ pc'[p] = l
    BY <1>4, GotoKeepsFiles DEF Goto
  <2> QED BY <1>4, <2>1 DEF Places, files
<1>5. CASE Resolve(p, "core resolve", "core decide") \/ Resolve(p, "resolve", "decide")
  <2>1. CASE Give(p) /\ UNCHANGED release
    BY <1>1, <1>5, <2>1 DEF Resolve, Unrecorded
  <2>2. CASE Goto(p, "core decide") \/ Goto(p, "decide")
    <3>1. UNCHANGED <<files, cut>> /\ pc[p] \in {"core resolve", "resolve"}
      BY <1>5 DEF Resolve
    <3>2. pc'[p] \in {"core decide", "decide"}
      BY <2>2 DEF Goto
    <3>3. Newer(p)'
      BY <3>2 DEF Newer
    <3>4. "core decide" \in Labels /\ "decide" \in Labels
      BY DEF Labels, Released
    <3> QED BY <1>4, <2>2, <3>1, <3>3, <3>4 DEF Unrecorded
  <2> QED BY <1>5, <2>1, <2>2 DEF Resolve
<1>6. CASE CoreDecide(p)
  <2>1. /\ pc[p] = "core decide" /\ UNCHANGED <<files, cut, release, job>>
        /\ Goto(p, IF ~job[p].force /\ release[p] <= core THEN "plugins" ELSE "core download")
    BY <1>6 DEF CoreDecide
  <2>2. release[p] \in Int /\ core \in Int
    BY <1>0, <2>1 DEF Holds, Released
  <2>3. CASE ~job[p].force /\ release[p] <= core
    <3>1. pc'[p] = "plugins"
      BY <2>1, <2>3 DEF Goto
    <3>2. Newer(p)' /\ "plugins" \in Labels
      BY <3>1 DEF Newer, Labels, Released
    <3> QED BY <1>4, <2>1, <2>3, <3>2 DEF Unrecorded
  <2>4. CASE ~(~job[p].force /\ release[p] <= core)
    <3>1. pc'[p] = "core download"
      BY <2>1, <2>4 DEF Goto
    <3>2. ~job[p].force => core < release[p]
      BY <2>2, <2>4
    <3>3. UNCHANGED <<core, release, job>>
      BY <2>1 DEF files
    <3>4. Newer(p)' /\ "core download" \in Labels
      BY <3>1, <3>2, <3>3 DEF Newer, Labels, Released
    <3> QED BY <1>4, <2>1, <2>4, <3>4 DEF Unrecorded
  <2> QED BY <2>3, <2>4
<1>7. ASSUME NEW from \in {"core download", "download"}, NEW to \in {"core stage", "identify"}, Download(p, from, to),
             from = "download" <=> to = "identify"
      PROVE  Sound
  <2>1. CASE Give(p)
    BY <1>1, <1>7, <2>1 DEF Download, Unrecorded
  <2>2. CASE Goto(p, to)
    <3>1. pc[p] = from /\ pc'[p] = to /\ UNCHANGED <<files, cut, release, job>>
      BY <1>7, <2>2 DEF Goto, Download
    <3>2. Newer(p)' /\ to \in Labels
      BY <1>7, <3>1 DEF Newer, Labels, Released, Holding, files
    <3> QED BY <1>4, <1>7, <2>2, <3>1, <3>2 DEF Unrecorded
  <2> QED BY <1>7, <2>1, <2>2 DEF Download
<1>8. CASE CoreStage(p)
  <2>1. CASE Give(p)
    BY <1>1, <1>8, <2>1 DEF CoreStage, Unrecorded
  <2>2. CASE Goto(p, "core rename")
    <3>1. pc[p] = "core stage" /\ pc'[p] = "core rename" /\ UNCHANGED <<files, cut, release, job>>
      BY <1>8, <2>2 DEF Goto, CoreStage
    <3>2. Newer(p)' /\ "core rename" \in Labels
      BY <3>1 DEF Newer, Labels, Released, Holding, files
    <3> QED BY <1>4, <2>2, <3>1, <3>2 DEF Unrecorded
  <2> QED BY <1>8, <2>1, <2>2 DEF CoreStage
<1>9. CASE CoreRename(p)
  <2>1. CASE Give(p) /\ UNCHANGED core
    BY <1>1, <1>9, <2>1 DEF CoreRename, Unrecorded, files
  <2>2. CASE core' = got[p] /\ Goto(p, "plugins")
    <3>1. pc[p] = "core rename" /\ pc' = [pc EXCEPT ![p] = "plugins"] /\ UNCHANGED <<bin, staging, recorded, cut, release>>
      BY <1>9, <2>2 DEF Goto, CoreRename
    <3>2. core' \in Versions /\ core' = release'[p]
      BY <2>2, <3>1 DEF Holds, Holding, Released
    <3>3. \A q \in Procs : /\ pc[q] \in {"fill", "rename", "dead"} => pc'[q] = pc[q]
                           /\ pc[q] \in Unrecorded => pc'[q] = pc[q]
      BY <3>1 DEF Unrecorded
    <3>4. FilesInv'
      BY <3>1, <3>3 DEF FilesInv
    <3>5. core' \in Int /\ release'[p] <= core' /\ pc'[p] = "plugins"
      <4>1. core' \in Int
        BY <1>0, <3>2
      <4>2. release'[p] = core'
        BY <3>2
      <4>3. release'[p] <= core'
        BY <4>1, <4>2
      <4>4. pc'[p] = "plugins"
        BY <3>1
      <4> QED BY <4>1, <4>3, <4>4
    <3>6. Places(p)' /\ Newer(p)'
      BY <3>5 DEF Places, Newer, Unrecorded
    <3> QED BY <3>1, <3>2, <3>4, <3>6
  <2> QED BY <1>9, <2>1, <2>2 DEF CoreRename
<1>10. CASE Plugins(p)
  <2>1. /\ pc[p] = "plugins" /\ UNCHANGED <<files, cut>>
        /\ Goto(p, "resolve") \/ Goto(p, "done")
    BY <1>10 DEF Plugins
  <2>2. pc'[p] \in {"resolve", "done"} /\ "resolve" \in Labels /\ "done" \in Labels
    BY <2>1 DEF Goto, Labels, Ended
  <2>3. Newer(p)'
    BY <2>2 DEF Newer
  <2> QED BY <1>4, <2>1, <2>2, <2>3 DEF Unrecorded
<1>11. CASE Decide(p)
  <2>1. pc[p] = "decide" /\ UNCHANGED <<files, cut, job, release>> /\ release[p] \in Int
    BY <1>0, <1>11 DEF Decide, Holds, Released
  <2>2. CASE Succeed(p)
    <3>1. Goto(p, "done") /\ pc'[p] = "done" /\ "done" \in Labels
      BY <2>2 DEF Succeed, Goto, Labels, Ended
    <3>2. Newer(p)'
      BY <3>1 DEF Newer
    <3> QED BY <1>4, <2>1, <3>1, <3>2 DEF Unrecorded
  <2>3. CASE Goto(p, "download") /\ ~(UpToDate(p) /\ ~(job[p].force /\ job[p].what = "plugin"))
    <3>1. pc'[p] = "download" /\ "download" \in Labels
      BY <2>3 DEF Goto, Labels, Released
    <3>2. ~job[p].force /\ ~cut => bin = None \/ bin < release[p]
      <4>1. ~cut => bin = None \/ recorded = bin
        BY <2>1 DEF FilesInv, Quiet, Unrecorded
      <4>2. ~job[p].force => ~UpToDate(p)
        BY <2>3
      <4>3. bin # None => bin \in Versions
        BY DEF FilesInv, Contents
      <4> QED BY <1>0, <2>1, <4>1, <4>2, <4>3 DEF UpToDate
    <3>3. Newer(p)'
      BY <2>1, <3>1, <3>2 DEF Newer, files
    <3> QED BY <1>4, <2>1, <2>3, <3>1, <3>3 DEF Unrecorded
  <2> QED BY <1>11, <2>2, <2>3 DEF Decide
<1>12. CASE Identify(p)
  <2>1. CASE Give(p)
    BY <1>1, <1>12, <2>1 DEF Identify, Unrecorded
  <2>2. CASE Goto(p, "open")
    <3>1. pc[p] = "identify" /\ pc'[p] = "open" /\ UNCHANGED <<files, cut, release, job>>
      BY <1>12, <2>2 DEF Goto, Identify
    <3>2. Newer(p)' /\ "open" \in Labels
      BY <3>1 DEF Newer, Labels, Released, Holding, files
    <3> QED BY <1>4, <2>2, <3>1, <3>2 DEF Unrecorded
  <2> QED BY <1>12, <2>1, <2>2 DEF Identify
<1>13. CASE OpenStaging(p)
  <2>1. CASE Give(p) /\ staging' = None
    BY <1>2, <1>13, <2>1 DEF OpenStaging, Unrecorded
  <2>2. CASE Goto(p, "fill") /\ staging' = Torn
    <3>1. pc[p] = "open" /\ pc' = [pc EXCEPT ![p] = "fill"] /\ UNCHANGED <<core, bin, recorded, cut, release, job>>
      BY <1>13, <2>2 DEF Goto, OpenStaging
    <3>2. FilesInv'
      BY <3>1 DEF FilesInv, Unrecorded
    <3>3. Places(p)' /\ Newer(p)'
      BY <3>1 DEF Places, Newer, Unrecorded
    <3> QED BY <1>0, <2>2, <3>1, <3>2, <3>3
  <2> QED BY <1>13, <2>1, <2>2 DEF OpenStaging
<1>14. CASE Fill(p)
  <2>1. CASE Give(p) /\ staging' = None /\ UNCHANGED bin
    BY <1>2, <1>14, <2>1 DEF Fill, Unrecorded
  <2>2. CASE Goto(p, "rename") /\ \E c \in Written(p) :
               /\ staging' = IF fd[p] = "staging" THEN c ELSE staging
               /\ bin' = IF fd[p] = "bin" THEN c ELSE bin
    <3>1. pc[p] = "fill" /\ pc' = [pc EXCEPT ![p] = "rename"] /\ UNCHANGED <<core, recorded, cut, release, job>>
      BY <1>14, <2>2 DEF Goto, Fill
    <3>2. fd[p] = "staging"
      BY <3>1 DEF Holds
    <3>3. staging' = got[p] /\ bin' = bin
      BY <2>2, <3>2, WrittenWhole
    <3>4. got' = got
      BY <1>14, <3>1 DEF Fill, Give, Goto
    <3>5. FilesInv'
      BY <3>1, <3>3 DEF FilesInv, Unrecorded
    <3>6. Places(p)' /\ Newer(p)'
      BY <3>1, <3>3, <3>4 DEF Places, Newer, Unrecorded
    <3> QED BY <1>0, <3>1, <3>3, <3>5, <3>6
  <2> QED BY <1>14, <2>1, <2>2 DEF Fill
<1>15. CASE Rename(p)
  <2>1. CASE Give(p) /\ staging' = None /\ UNCHANGED bin
    BY <1>2, <1>15, <2>1 DEF Rename, Unrecorded
  <2>2. CASE staging # None /\ bin' = staging /\ staging' = None /\ Goto(p, "grammar") /\ UNCHANGED <<got, warned>>
    <3>1. pc[p] = "rename" /\ pc' = [pc EXCEPT ![p] = "grammar"] /\ UNCHANGED <<core, recorded, cut, release, job>>
      BY <1>15, <2>2 DEF Goto, Rename
    <3>2. bin' = got'[p] /\ bin' \in Versions
      BY <2>2, <3>1 DEF Places, Holds, Holding, Released
    <3>3. pc'[p] \in Unrecorded
      BY <3>1 DEF Unrecorded
    <3>4. FilesInv'
      BY <1>0, <2>2, <3>2, <3>3 DEF FilesInv
    <3>5. Places(p)' /\ Newer(p)'
      BY <3>1, <3>2 DEF Places, Newer
    <3> QED BY <1>0, <2>2, <3>1, <3>2, <3>4, <3>5
  <2> QED BY <1>15, <2>1, <2>2 DEF Rename
<1>16. ASSUME NEW l \in {"spec open", "spec fill"}, pc[p] \in Unrecorded, Goto(p, l),
              UNCHANGED <<core, bin, staging, got, cut>>, recorded' \in Contents
       PROVE  Sound
  <2>1. pc' = [pc EXCEPT ![p] = l]
    BY <1>16 DEF Goto
  <2>2. \A q \in Procs : pc[q] \in {"fill", "rename", "dead"} => pc'[q] = pc[q]
    BY <1>16, <2>1 DEF Unrecorded
  <2>3. pc'[p] \in Unrecorded
    BY <2>1 DEF Unrecorded
  <2>4. FilesInv'
    BY <1>16, <2>2, <2>3 DEF FilesInv
  <2>5. Places(p)' /\ Newer(p)'
    BY <1>16, <2>1 DEF Places, Newer, Unrecorded
  <2> QED BY <1>16, <2>4, <2>5
<1>17. CASE Grammar(p)
  <2>1. CASE Give(p) /\ cut' = TRUE
    BY <1>3, <1>17, <2>1 DEF Grammar, Unrecorded
  <2>2. CASE Goto(p, "spec open") /\ UNCHANGED <<got, fd, warned, cut>>
    BY <1>16, <1>17, <2>2 DEF Grammar, Unrecorded, files
  <2> QED BY <1>17, <2>1, <2>2 DEF Grammar
<1>18. CASE OpenSpec(p)
  <2>1. CASE Give(p) /\ cut' = TRUE /\ UNCHANGED recorded
    BY <1>3, <1>18, <2>1 DEF OpenSpec, Unrecorded, files
  <2>2. CASE recorded' = Torn /\ Goto(p, "spec fill") /\ UNCHANGED <<got, warned, cut>>
    BY <1>0, <1>16, <1>18, <2>2 DEF OpenSpec, Unrecorded, files
  <2> QED BY <1>18, <2>1, <2>2 DEF OpenSpec
<1>19. CASE FillSpec(p)
  <2>1. CASE Give(p) /\ cut' = TRUE /\ UNCHANGED recorded
    BY <1>3, <1>19, <2>1 DEF FillSpec, Unrecorded, files
  <2>2. CASE \E c \in Written(p) : recorded' = c /\ cut' = (c = Torn) /\ Succeed(p)
    <3>1. pc[p] = "spec fill" /\ pc' = [pc EXCEPT ![p] = "done"] /\ UNCHANGED <<core, bin, staging>>
      BY <1>19, <2>2 DEF FillSpec, Succeed, Goto
    <3>2. recorded' = got[p] /\ cut' = (got[p] = Torn)
      BY <2>2, <3>1, WrittenWhole DEF Holds
    <3>3. recorded' = bin /\ bin \in Versions /\ cut' \in BOOLEAN
      BY <3>1, <3>2 DEF Places, Holds, Unrecorded, Holding, Released
    <3>4. \A q \in Procs : pc[q] \in {"fill", "rename", "dead"} => pc'[q] = pc[q]
      BY <3>1
    <3>5. FilesInv'
      BY <3>1, <3>3, <3>4 DEF FilesInv
    <3>6. Places(p)' /\ Newer(p)'
      BY <3>1 DEF Places, Newer, Unrecorded
    <3> QED BY <1>0, <3>1, <3>3, <3>5, <3>6
  <2> QED BY <1>19, <2>1, <2>2 DEF FillSpec
<1> QED
  BY <1>5, <1>6, <1>7, <1>8, <1>9, <1>10, <1>11, <1>12, <1>13, <1>14, <1>15, <1>17, <1>18, <1>19 DEF Run

(* When a process is at work, the others are not. *)
LEMMA OthersQuiet ==
  ASSUME InstallInv, NEW p \in Procs, p \in Working
  PROVE  Quiet(p)
<1>1. \A q \in Procs \ {p} : q \notin Working
  BY DEF InstallInv, Alone, Working
<1>2. \A q \in Procs \ {p} : pc[q] \in {"idle", "done", "failed", "dead"}
  BY <1>1 DEF Working, Ended
<1>3. \A q \in Procs \ {p} : fd[q] = "none"
  BY <1>2 DEF InstallInv, Holds
<1> QED BY <1>2, <1>3 DEF Quiet

(* A process that does not work has nothing that a step of another could spoil. *)
LEMMA IdleKeeps ==
  ASSUME NEW q \in Procs, Holds(q), pc[q] \in {"idle", "done", "failed", "dead"},
         pc'[q] = pc[q], got'[q] = got[q], fd'[q] = "none"
  PROVE  Holds(q)' /\ Places(q)' /\ Newer(q)'
  BY DEF Holds, Places, Newer, Holding, Released, Unrecorded

(* Every step keeps the invariant, when a process starts only while no other works. *)
LEMMA StepInstallInv ==
  ASSUME ~Overlap, InstallInv, [Next]_vars
  PROVE  InstallInv'
<1>0. Typed /\ Alone /\ FilesInv /\ \A q \in Procs : Holds(q) /\ Places(q) /\ Newer(q)
  BY DEF InstallInv
<1> USE <1>0, TypedFields
<1>1. ASSUME NEW p \in Procs, Quiet(p), \A q \in Procs \ {p} : pc'[q] = pc[q]
      PROVE  Alone'
  BY <1>1 DEF Alone, Working, Quiet, Ended
<1>2. ASSUME NEW p \in Procs, Run(p) PROVE InstallInv'
  <2>1. /\ p \in Working /\ UNCHANGED <<latest, job, losses>>
        /\ \A q \in Procs \ {p} :
             /\ pc'[q] = pc[q] /\ got'[q] = got[q] /\ release'[q] = release[q]
             /\ fd[q] = "none" => fd'[q] = "none"
    BY <1>2, RunTouches
  <2>2. Quiet(p)
    BY <2>1, OthersQuiet
  <2>3. Holds(p)' /\ pc' \in [Procs -> Labels] /\ release' \in [Procs -> Versions \cup {None}]
        /\ got' \in [Procs -> Versions \cup {None}] /\ warned' \in [Procs -> BOOLEAN]
        /\ fd' \in [Procs -> {"none", "staging", "bin", "spec", "gone"}]
    BY <1>2, <2>2, RunHolds DEF Quiet
  <2>4. /\ FilesInv' /\ Places(p)' /\ Newer(p)'
        /\ core' \in Versions /\ bin' \in Contents /\ staging' \in Contents /\ recorded' \in Contents
        /\ cut' \in BOOLEAN
    BY <1>2, <2>2, RunFiles
  <2>5. ASSUME NEW q \in Procs \ {p} PROVE Holds(q)' /\ Places(q)' /\ Newer(q)'
    BY <2>1, <2>2, IdleKeeps DEF Quiet
  <2>6. Typed'
    BY <2>1, <2>3, <2>4 DEF Typed, TypeOK
  <2>7. Alone'
    BY <1>1, <2>1, <2>2
  <2> QED BY <2>3, <2>4, <2>5, <2>6, <2>7 DEF InstallInv
<1>3. ASSUME NEW p \in Procs, Die(p) PROVE InstallInv'
  <2>1. /\ p \in Working /\ pc' = [pc EXCEPT ![p] = "dead"] /\ fd' = [fd EXCEPT ![p] = "none"]
        /\ cut' = (cut \/ pc[p] \in Unrecorded)
        /\ UNCHANGED <<core, bin, staging, recorded, latest, job, release, got, warned, losses>>
    BY <1>3 DEF Die, Goto, files
  <2>2. Quiet(p)
    BY <2>1, OthersQuiet
  <2>3. "dead" \in Labels /\ cut' \in BOOLEAN
    BY <2>1 DEF Labels, Ended
  <2>4. Typed'
    BY <2>1, <2>3 DEF Typed, TypeOK
  <2>5. Holds(p)' /\ Places(p)' /\ Newer(p)'
    BY <2>1 DEF Holds, Places, Newer, Holding, Released, Unrecorded
  <2>6. ASSUME NEW q \in Procs \ {p} PROVE Holds(q)' /\ Places(q)' /\ Newer(q)'
    BY <2>1, <2>2, IdleKeeps DEF Quiet
  <2>7. FilesInv'
    <3>1. pc'[p] = "dead"
      BY <2>1
    <3>2. ~cut' => ~cut /\ \A q \in Procs : pc[q] \notin Unrecorded
      BY <2>1, <2>2 DEF Quiet, Unrecorded
    <3> QED BY <2>1, <3>1, <3>2 DEF FilesInv
  <2>8. Alone'
    BY <1>1, <2>1, <2>2
  <2> QED BY <2>4, <2>5, <2>6, <2>7, <2>8 DEF InstallInv
<1>4. ASSUME NEW p \in Procs, Start(p) PROVE InstallInv'
  <2>1. PICK j \in Jobs :
          /\ job' = [job EXCEPT ![p] = j]
          /\ Goto(p, CASE j.what \in {"cli", "core"} -> "core resolve" [] j.what = "plugin" -> "resolve" [] OTHER -> "download")
          /\ release' = [release EXCEPT ![p] = IF j.what = "url" THEN j.want ELSE None]
    BY <1>4 DEF Start
  <2>2. /\ pc[p] = "idle" /\ Working = {}
        /\ UNCHANGED <<core, bin, staging, recorded, latest, got, fd, warned, cut, losses>>
    BY <1>4 DEF Start, files
  <2>3. /\ j.what \in {"cli", "core", "plugin", "url"} /\ j.want \in Versions \cup {None} /\ j.force \in BOOLEAN
        /\ j.what = "url" => j.want \in Versions /\ ~j.force
    BY JobTypes
  <2>4. PICK l \in {"core resolve", "resolve", "download"} :
          /\ pc' = [pc EXCEPT ![p] = l]
          /\ l = "download" => j.what = "url"
    BY <2>1, <2>3 DEF Goto
  <2>5. \A q \in Procs : pc[q] \in {"idle", "done", "failed", "dead"}
    BY <2>2 DEF Working, Ended
  <2>6. \A q \in Procs : fd[q] = "none"
    BY <2>5 DEF Holds
  <2>7. Quiet(p)
    BY <2>5, <2>6 DEF Quiet
  <2>8. Typed'
    <3>1. l \in Labels
      BY DEF Labels, Released
    <3>2. job' \in [Procs -> Jobs] /\ release' \in [Procs -> Versions \cup {None}] /\ pc' \in [Procs -> Labels]
      BY <2>1, <2>3, <2>4, <3>1
    <3> QED BY <2>2, <3>2 DEF Typed, TypeOK
  <2>9. Holds(p)'
    <3>1. pc'[p] = l /\ got'[p] = None /\ fd'[p] = "none"
      BY <2>2, <2>4, <2>6 DEF Holds, Holding, Unrecorded
    <3>2. l = "download" => release'[p] \in Versions
      BY <2>1, <2>3, <2>4
    <3> QED BY <3>1, <3>2 DEF Holds, Holding, Released, Unrecorded
  <2>10. Places(p)' /\ Newer(p)'
    <3>1. pc'[p] = l /\ (l = "download" => job'[p].what = "url")
      BY <2>1, <2>4
    <3> QED BY <3>1 DEF Places, Newer, Unrecorded
  <2>11. ASSUME NEW q \in Procs \ {p} PROVE Holds(q)' /\ Places(q)' /\ Newer(q)'
    BY <2>2, <2>4, <2>5, <2>6, IdleKeeps
  <2>12. FilesInv'
    BY <2>2, <2>4, <2>5 DEF FilesInv, Unrecorded
  <2>13. Alone'
    BY <1>1, <2>4, <2>7
  <2> QED BY <2>8, <2>9, <2>10, <2>11, <2>12, <2>13 DEF InstallInv
<1>5. CASE LoseBinary
  <2>1. /\ Working = {} /\ bin' = None /\ losses < MaxLosses /\ losses' = losses + 1
        /\ UNCHANGED <<core, staging, recorded, latest, pc, job, release, got, fd, warned, cut>>
    BY <1>5 DEF LoseBinary
  <2>2. \A q \in Procs : pc[q] \in {"idle", "done", "failed", "dead"}
    BY <2>1 DEF Working, Ended
  <2>3. \A q \in Procs : fd[q] = "none"
    BY <2>2 DEF Holds
  <2>4. \A q \in Procs : Holds(q)' /\ Places(q)' /\ Newer(q)'
    BY <2>1, <2>2, <2>3, IdleKeeps
  <2>5. Typed'
    <3>1. losses' \in 0..MaxLosses /\ bin' \in Contents
      BY <2>1, InstallAssumption DEF Contents
    <3> QED BY <2>1, <3>1 DEF Typed, TypeOK
  <2>6. FilesInv'
    BY <2>1 DEF FilesInv, None, Torn
  <2>7. Alone'
    BY <2>1 DEF Alone, Working
  <2> QED BY <2>4, <2>5, <2>6, <2>7 DEF InstallInv
<1>6. CASE UNCHANGED vars
  <2>1. Typed' /\ Alone'
    BY <1>6 DEF vars, files, InstallInv, Typed, TypeOK, Alone, Working
  <2>2. FilesInv'
    BY <1>6 DEF vars, files, InstallInv, FilesInv
  <2>3. \A p \in Procs : Holds(p)' /\ Places(p)' /\ Newer(p)'
    BY <1>6 DEF vars, files, InstallInv, Holds, Places, Newer
  <2> QED BY <2>1, <2>2, <2>3 DEF InstallInv
<1> QED BY <1>2, <1>3, <1>4, <1>5, <1>6 DEF Next

-----------------------------------------------------------------------------
(* While a process is at work every step is its own. *)
LEMMA OneAtWork ==
  ASSUME ~Overlap, InstallInv, [Next]_vars, NEW p \in Procs, p \in Working
  PROVE  Run(p) \/ Die(p) \/ UNCHANGED vars
<1>1. ASSUME NEW q \in Procs, Run(q) \/ Die(q) PROVE q = p
  <2>1. q \in Working
    BY <1>1, RunTouches DEF InstallInv
  <2> QED BY <2>1 DEF InstallInv, Alone
<1>2. ~LoseBinary /\ \A q \in Procs : ~Start(q)
  BY DEF LoseBinary, Start
<1> QED BY <1>1, <1>2 DEF Next

(* The three steps that end a process well. *)
LEMMA RunDone ==
  ASSUME Typed, NEW p \in Procs, Run(p), pc'[p] = "done", ~warned'[p]
  PROVE  \/ Plugins(p)
         \/ Decide(p) /\ UpToDate(p)
         \/ FillSpec(p) /\ \E c \in Written(p) : recorded' = c
<1>0. pc \in [Procs -> Labels] /\ ~Give(p)
  BY TypedFields, GivesUp
<1>1. ASSUME NEW l, Goto(p, l) PROVE l = "done"
  BY <1>0, <1>1 DEF Goto
<1>2. ~Resolve(p, "core resolve", "core decide") /\ ~Resolve(p, "resolve", "decide")
  BY <1>0, <1>1 DEF Resolve
<1>3. ~CoreDecide(p)
  <2> SUFFICES ASSUME CoreDecide(p) PROVE FALSE
    OBVIOUS
  <2>1. Goto(p, IF ~job[p].force /\ release[p] <= core THEN "plugins" ELSE "core download")
    BY DEF CoreDecide
  <2> QED BY <1>1, <2>1
<1>4. ~Download(p, "core download", "core stage") /\ ~Download(p, "download", "identify")
  BY <1>0, <1>1 DEF Download
<1>5. ~CoreStage(p) /\ ~CoreRename(p) /\ ~Identify(p)
  BY <1>0, <1>1 DEF CoreStage, CoreRename, Identify
<1>6. ~OpenStaging(p) /\ ~Fill(p) /\ ~Rename(p)
  BY <1>0, <1>1 DEF OpenStaging, Fill, Rename
<1>7. ~Grammar(p) /\ ~OpenSpec(p)
  BY <1>0, <1>1 DEF Grammar, OpenSpec
<1>8. Decide(p) => UpToDate(p)
  BY <1>1 DEF Decide
<1>9. FillSpec(p) => \E c \in Written(p) : recorded' = c
  BY <1>0 DEF FillSpec
<1> QED BY <1>2, <1>3, <1>4, <1>5, <1>6, <1>7, <1>8, <1>9 DEF Run

(* The step that ends a process well leaves the release in place and recorded. *)
LEMMA DoneInstalled ==
  ASSUME InstallInv, NEW p \in Procs, Run(p), pc'[p] = "done", ~warned'[p]
  PROVE  IF pc[p] = "plugins" THEN core' >= release[p]
         ELSE cut \/ (bin' \in Versions /\ recorded' = bin' /\ bin' >= release[p])
<1>0. Typed /\ FilesInv /\ Holds(p) /\ Places(p) /\ p \in Working
  BY RunTouches DEF InstallInv
<1>1. Quiet(p)
  BY <1>0, OthersQuiet
<1>2. \A v \in Versions : v \in Int
  BY InstallAssumption DEF Versions
<1>3. CASE Plugins(p)
  <2>1. pc[p] = "plugins" /\ core' = core /\ release[p] <= core /\ core \in Int /\ release[p] \in Int
    <3>1. pc[p] = "plugins" /\ core' = core
      BY <1>3 DEF Plugins, files
    <3> QED BY <1>0, <1>2, <3>1, TypedFields DEF Places, Holds, Released
  <2> QED BY <2>1
<1>4. CASE Decide(p) /\ UpToDate(p)
  <2>1. pc[p] = "decide" /\ UNCHANGED <<bin, recorded>>
    BY <1>4 DEF Decide, files
  <2>2. ~cut => recorded = bin
    BY <1>0, <1>1, <1>4, <2>1 DEF FilesInv, Quiet, Unrecorded, UpToDate
  <2>3. recorded \in Versions /\ release[p] <= recorded /\ release[p] \in Int
    BY <1>0, <1>2, <1>4, <2>1 DEF UpToDate, Holds, Released
  <2>4. recorded >= release[p]
    BY <1>2, <2>3
  <2> QED BY <2>1, <2>2, <2>3, <2>4
<1>5. CASE FillSpec(p) /\ \E c \in Written(p) : recorded' = c
  <2>1. pc[p] = "spec fill" /\ bin' = bin
    BY <1>5 DEF FillSpec
  <2>2. recorded' = got[p]
    BY <1>0, <1>1, <1>5, <2>1, WrittenWhole DEF Holds
  <2>3. bin = got[p] /\ got[p] = release[p] /\ release[p] \in Versions
    BY <1>0, <2>1 DEF Places, Holds, Unrecorded, Holding, Released
  <2>4. release[p] >= release[p]
    BY <1>2, <2>3
  <2> QED BY <2>1, <2>2, <2>3, <2>4
<1> QED BY <1>0, <1>3, <1>4, <1>5, RunDone

(* A rename puts the release in place of what was there, which is older unless the user insisted. *)
LEMMA RenameUpgrades ==
  ASSUME InstallInv, NEW p \in Procs, Run(p) \/ Die(p)
  PROVE  \/ /\ pc[p] = "core rename" /\ core' < core
         \/ /\ pc[p] = "rename" /\ bin' # bin /\ bin' # None /\ bin' < bin /\ ~cut
         => job[p].force \/ job[p].what = "url"
<1>0. Typed /\ FilesInv /\ Holds(p) /\ Places(p) /\ Newer(p)
  BY DEF InstallInv
<1>1. \A v \in Versions : v \in Int /\ v > 0
  BY InstallAssumption DEF Versions
<1>2. core \in Int /\ (bin = None \/ bin \in Versions)
  BY <1>0, <1>1, TypedFields DEF FilesInv, Contents
<1>3. Die(p) => core' = core /\ bin' = bin
  BY DEF Die, files
<1>4. ASSUME pc[p] = "core rename", ~job[p].force PROVE ~(core' < core)
  <2>1. CoreRename(p) \/ Die(p)
    BY <1>4 DEF Run, Resolve, CoreDecide, Download, CoreStage, Plugins, Decide, Identify,
                OpenStaging, Fill, Rename, Grammar, OpenSpec, FillSpec
  <2>2. core' = core \/ core' = release[p]
    BY <1>0, <1>3, <1>4, <2>1 DEF CoreRename, Holds, Holding
  <2>3. core < release[p] /\ release[p] \in Versions
    BY <1>0, <1>4 DEF Newer, Holds, Released, Holding
  <2> QED BY <1>1, <1>2, <2>2, <2>3
<1>5. ASSUME pc[p] = "rename", ~job[p].force, job[p].what # "url", ~cut, bin' # bin, bin' # None
      PROVE  ~(bin' < bin)
  <2>1. Rename(p)
    BY <1>3, <1>5 DEF Run, Resolve, CoreDecide, Download, CoreStage, CoreRename, Plugins, Decide, Identify,
                      OpenStaging, Fill, Grammar, OpenSpec, FillSpec
  <2>2. bin' = staging
    BY <1>5, <2>1 DEF Rename
  <2>3. bin' = release[p] /\ release[p] \in Versions
    BY <1>0, <1>5, <2>2 DEF Places, Holds, Holding, Released
  <2>4. bin = None \/ bin < release[p]
    BY <1>0, <1>5 DEF Newer
  <2> QED BY <1>1, <1>2, <2>3, <2>4 DEF None
<1> QED BY <1>4, <1>5

-----------------------------------------------------------------------------
(* The inductive invariant. *)
LEMMA InstallInvariant ==
  ASSUME ~Overlap
  PROVE  Spec => []InstallInv
<1>1. Init => InstallInv
  BY InitInstallInv
<1>2. InstallInv /\ [Next]_vars => InstallInv'
  BY StepInstallInv
<1> QED BY <1>1, <1>2, PTL DEF Spec

(* Whoever runs a plugin finds a whole binary or none, wherever installs fail or are killed, and those that
   are not killed leave neither a temporary directory nor a staging file (install_plugin.go:600-668). *)
THEOREM InstallAlwaysWhole ==
  ASSUME ~Overlap
  PROVE  Spec => []InstallIsWhole
<1>1. ASSUME InstallInv PROVE InstallIsWhole
  <2>1. TypeOK /\ NeverHalfWritten
    BY <1>1 DEF InstallInv, Typed, FilesInv, NeverHalfWritten
  <2>2. ASSUME Working = {}
        PROVE  /\ \A p \in Procs : got[p] # None => pc[p] = "dead"
               /\ staging # None => \E p \in Procs : pc[p] = "dead"
    <3>1. \A p \in Procs : pc[p] \in {"idle", "done", "failed", "dead"}
      BY <2>2 DEF Working, Ended
    <3> QED BY <1>1, <3>1 DEF InstallInv, Holds, FilesInv, Holding, Unrecorded
  <2> QED BY <2>1, <2>2 DEF InstallIsWhole, NoLitter
<1> QED BY <1>1, InstallInvariant, PTL

(* An install that reports success has its release in place and in its spec, unless an earlier one was cut
   between the two, and without --force or a URL none replaces a newer release (install.go:193-283,
   install_plugin.go: the comparison with what is recorded). *)
THEOREM InstallAlwaysCurrent ==
  ASSUME ~Overlap
  PROVE  Spec => InstallIsCurrent
<1> DEFINE Done == \A p \in Procs :
                     pc[p] # "done" /\ pc'[p] = "done" /\ ~warned'[p] =>
                       IF pc[p] = "plugins" THEN core' >= release[p]
                       ELSE cut \/ (bin' \in Versions /\ recorded' = bin' /\ bin' >= release[p])
           Up == \A p \in Procs :
                   \/ /\ pc[p] = "core rename" /\ core' < core
                   \/ /\ pc[p] = "rename" /\ bin' # bin /\ bin' # None /\ bin' < bin /\ ~cut
                   => job[p].force \/ job[p].what = "url"
<1>1. ASSUME InstallInv, [Next]_vars PROVE [Done]_vars
  <2> SUFFICES ASSUME ~UNCHANGED vars, NEW p \in Procs, pc[p] # "done", pc'[p] = "done", ~warned'[p]
               PROVE  IF pc[p] = "plugins" THEN core' >= release[p]
                      ELSE cut \/ (bin' \in Versions /\ recorded' = bin' /\ bin' >= release[p])
    OBVIOUS
  <2>1. Typed /\ pc \in [Procs -> Labels]
    BY <1>1, TypedFields DEF InstallInv
  <2>2. \A q \in Procs \ {p} : ~Run(q) /\ ~Die(q)
    BY <2>1, RunTouches
  <2>3. ~Die(p) /\ ~LoseBinary
    BY <2>1 DEF Die, LoseBinary, Goto
  <2>4. \A q \in Procs : ~Start(q)
    <3> SUFFICES ASSUME NEW q \in Procs, Start(q) PROVE FALSE
      OBVIOUS
    <3>1. PICK j \in Jobs :
            Goto(q, CASE j.what \in {"cli", "core"} -> "core resolve" [] j.what = "plugin" -> "resolve" [] OTHER -> "download")
      BY DEF Start
    <3>2. PICK l \in {"core resolve", "resolve", "download"} : pc' = [pc EXCEPT ![q] = l]
      BY <3>1, JobTypes DEF Goto
    <3> QED BY <2>1, <3>2
  <2>5. Run(p)
    BY <1>1, <2>2, <2>3, <2>4 DEF Next
  <2> QED BY <1>1, <2>5, DoneInstalled
<1>2. ASSUME InstallInv, [Next]_vars PROVE [Up]_vars
  <2> SUFFICES ASSUME ~UNCHANGED vars, NEW p \in Procs,
                      \/ /\ pc[p] = "core rename" /\ core' < core
                      \/ /\ pc[p] = "rename" /\ bin' # bin /\ bin' # None /\ bin' < bin /\ ~cut
               PROVE  job[p].force \/ job[p].what = "url"
    OBVIOUS
  <2>1. p \in Working
    BY DEF Working, Ended
  <2>2. Run(p) \/ Die(p)
    BY <1>2, <2>1, OneAtWork
  <2> QED BY <1>2, <2>2, RenameUpgrades
<1>3. Spec => [][Done]_vars
  BY <1>1, InstallInvariant, PTL DEF Spec
<1>4. Spec => [][Up]_vars
  BY <1>2, InstallInvariant, PTL DEF Spec
<1> QED BY <1>3, <1>4 DEF InstallIsCurrent, SuccessIsInstalled, NoSilentDowngrade

-----------------------------------------------------------------------------
(* The registry: the invariant of a start. *)


\* The specs of a start in their order: those of the binary, then those of the home directory.
Own == Len(Embedded)
Total == Own + Len(home)
SpecAt(i) == IF i \in 1..Own THEN Embedded[i] ELSE home[i - Own].spec
Item(i) == [state |-> IF i \in 1..Own THEN "ok" ELSE home[i - Own].state, spec |-> SpecAt(i), trusted |-> i \in 1..Own]

\* The one that is loaded, or is next.
at == Total - Len(todo) + 1

Lined ==
  /\ home \in Seq(Homes) /\ \A i, j \in DOMAIN home : i # j => home[i].spec.module # home[j].spec.module
  /\ Len(todo) \in 0..Total /\ todo \in Seq({Item(i) : i \in 1..Total})
  /\ \A i \in DOMAIN todo : todo[i] = Item(at - 1 + i)
  /\ part \in {"file", "nouns", "commands"} /\ k \in Nat \ {0}
  /\ part # "file" => todo # <<>>

\* What has been registered so far, noun by noun and command by command.
NounDone(i, m) ==
  /\ i \in 1..Total /\ m \in DOMAIN SpecAt(i).nouns
  /\ i < at \/ (i = at /\ (part = "commands" \/ (part = "nouns" /\ m < k)))
CommandDone(i, c) ==
  /\ i \in 1..Total /\ c \in DOMAIN SpecAt(i).commands
  /\ i < at \/ (i = at /\ part = "commands" /\ c < k)
MetaDone(i) == i \in 1..Total /\ (i < at \/ (i = at /\ part = "commands"))

NounOf(i, m) == [aliases |-> SpecAt(i).nouns[m].aliases, module |-> SpecAt(i).module]
CommandOf(i, c) == [verb |-> SpecAt(i).commands[c].verb, noun |-> SpecAt(i).commands[c].noun,
                    module |-> SpecAt(i).module, external |-> SpecAt(i).binary]

\* A noun is of a spec, and a name is one noun's.
NounsInv ==
  /\ \A x \in DOMAIN nouns : \E i, m : NounDone(i, m) /\ SpecAt(i).nouns[m].noun = x /\ nouns[x] = NounOf(i, m)
  /\ \A a \in DOMAIN aliases : aliases[a] \in DOMAIN nouns /\ a \in nouns[aliases[a]].aliases
  /\ \A x \in DOMAIN nouns : \A a \in nouns[x].aliases : a \in DOMAIN aliases /\ aliases[a] = x
  /\ DOMAIN nouns \cap DOMAIN aliases = {}

\* The nouns of the spec that is loaded are free for it.
Neat(s) ==
  /\ \A m \in DOMAIN s.nouns : s.nouns[m].noun \notin s.nouns[m].aliases
  /\ \A m, l \in DOMAIN s.nouns : m # l => R!Names(s.nouns[m]) \cap R!Names(s.nouns[l]) = {}
FreeInv ==
  /\ part # "file" => Neat(SpecAt(at))
  /\ part = "nouns" => \A m \in DOMAIN SpecAt(at).nouns : m >= k => R!Names(SpecAt(at).nouns[m]) \cap R!Taken = {}

\* A command is of a spec, whose binary it knows, and no two have the same verb and noun.
CommandsInv ==
  /\ commands \in Seq([verb : STRING, noun : STRING, module : STRING, external : BOOLEAN])
  /\ \A p \in DOMAIN commands :
       /\ \E i, c : CommandDone(i, c) /\ SpecAt(i).commands[c].kind = "ok" /\ commands[p] = CommandOf(i, c)
       /\ commands[p].module \in DOMAIN metas
  /\ \A p, q \in DOMAIN commands : commands[p].verb = commands[q].verb /\ commands[p].noun = commands[q].noun => p = q
  /\ \A x \in DOMAIN metas : \E i : MetaDone(i) /\ SpecAt(i).module = x
  /\ part = "commands" => SpecAt(at).module \in DOMAIN metas /\ metas[SpecAt(at).module] = SpecAt(at).binary

Enabled(s) == ~s.hidden \/ R!IsModuleEnabled(s.module)
Claimed(i) == IF i \in 1..Own THEN Enabled(SpecAt(i)) ELSE R!Fit(i - Own)
OwnCommand(p) == \E j, d : j \in 1..Own /\ d \in DOMAIN SpecAt(j).commands /\ commands[p] = CommandOf(j, d)

\* Nothing is missing of a spec that was to be loaded; commands of the binary are before all others.
NounsKept ==
  \A i, m : NounDone(i, m) /\ i \in 1..Own /\ Enabled(SpecAt(i)) =>
    SpecAt(i).nouns[m].noun \in DOMAIN nouns /\ nouns[SpecAt(i).nouns[m].noun] = NounOf(i, m)
CommandsKept ==
  \A i, c : CommandDone(i, c) /\ Claimed(i) /\ SpecAt(i).commands[c].kind = "ok" =>
    \E p \in DOMAIN commands : /\ commands[p] = CommandOf(i, c)
                               /\ i \in 1..Own => \A q \in 1..p : OwnCommand(q)
ResultInv ==
  /\ DOMAIN result \subseteq {home[h].spec.module : h \in DOMAIN home}
  /\ \A h \in DOMAIN home : R!Fit(h) /\ Own + h < at =>
       home[h].spec.module \in DOMAIN result /\ result[home[h].spec.module] = "loaded"

RegistryInv == Lined /\ NounsInv /\ FreeInv /\ CommandsInv /\ NounsKept /\ CommandsKept /\ ResultInv

-----------------------------------------------------------------------------
\* What is asked of the specs of the binary, a clause at a time.
LEMMA OwnSpecs ==
  /\ Own \in Nat /\ DOMAIN Embedded = 1..Own
  /\ \A i \in 1..Own : Embedded[i] \in Specs /\ ~Embedded[i].binary
  /\ \A i \in 1..Own : \A m \in DOMAIN Embedded[i].nouns : Embedded[i].nouns[m].noun \notin Embedded[i].nouns[m].aliases
  /\ \A i, j \in 1..Own : \A m \in DOMAIN Embedded[i].nouns, l \in DOMAIN Embedded[j].nouns :
       i # j \/ m # l => R!Names(Embedded[i].nouns[m]) \cap R!Names(Embedded[j].nouns[l]) = {}
  /\ \A i \in 1..Own : \A c \in DOMAIN Embedded[i].commands :
       ~R!Shadowed(Embedded[i].commands[c], {Embedded[j] : j \in DOMAIN Embedded})
<1>1. Embedded \in Seq(Specs)
  BY SpecAssumption
<1>2. Own \in Nat /\ DOMAIN Embedded = 1..Own /\ \A i \in 1..Own : Embedded[i] \in Specs
  BY <1>1 DEF Own
<1>3. \A i \in 1..Own : Embedded[i] \in {Embedded[j] : j \in DOMAIN Embedded}
  BY <1>2
<1>4. \A s \in {Embedded[j] : j \in DOMAIN Embedded} :
        /\ ~s.binary
        /\ \A m \in DOMAIN s.nouns : s.nouns[m].noun \notin s.nouns[m].aliases
        /\ \A c \in DOMAIN s.commands : ~R!Shadowed(s.commands[c], {Embedded[j] : j \in DOMAIN Embedded})
  BY SpecAssumption
<1>5. \A i, j \in 1..Own : \A m \in DOMAIN Embedded[i].nouns, l \in DOMAIN Embedded[j].nouns :
        <<i, m>> # <<j, l>> => R!Names(Embedded[i].nouns[m]) \cap R!Names(Embedded[j].nouns[l]) = {}
  BY <1>2, SpecAssumption
<1>6. \A i, j, m, l : i # j \/ m # l => <<i, m>> # <<j, l>>
  OBVIOUS
<1> HIDE DEF Own
<1>7. \A i, j \in 1..Own : \A m \in DOMAIN Embedded[i].nouns, l \in DOMAIN Embedded[j].nouns :
        i # j \/ m # l => R!Names(Embedded[i].nouns[m]) \cap R!Names(Embedded[j].nouns[l]) = {}
  BY <1>5, <1>6, Zenon
<1>8. /\ \A i \in 1..Own : ~Embedded[i].binary
      /\ \A i \in 1..Own : \A m \in DOMAIN Embedded[i].nouns : Embedded[i].nouns[m].noun \notin Embedded[i].nouns[m].aliases
  BY <1>3, <1>4, Zenon
<1>9. \A i \in 1..Own : \A c \in DOMAIN Embedded[i].commands :
        ~R!Shadowed(Embedded[i].commands[c], {Embedded[j] : j \in DOMAIN Embedded})
  BY <1>3, <1>4, Zenon
<1> HIDE DEF R!Shadowed
<1>10. \A i \in 1..Own : Embedded[i] \in Specs /\ ~Embedded[i].binary
  BY <1>2, <1>8, Zenon
<1> QED BY <1>2, <1>7, <1>8, <1>9, <1>10, Zenon

\* The fields of a spec.
LEMMA SpecFields ==
  ASSUME NEW s \in Specs
  PROVE  /\ s.hidden \in BOOLEAN /\ s.core \in BOOLEAN /\ s.binary \in BOOLEAN /\ s.module \in STRING
         /\ DOMAIN s.nouns = 1..Len(s.nouns) /\ Len(s.nouns) \in Nat
         /\ DOMAIN s.commands = 1..Len(s.commands) /\ Len(s.commands) \in Nat
         /\ \A c \in DOMAIN s.commands : s.commands[c] \in [verb : STRING, noun : STRING, kind : {"ok", "bad", "dev", "nil"}]
         /\ \A m \in DOMAIN s.nouns : s.nouns[m] \in [noun : STRING, aliases : SUBSET STRING, sound : BOOLEAN]
<1>1. /\ s.hidden \in BOOLEAN /\ s.core \in BOOLEAN /\ s.binary \in BOOLEAN /\ s.module \in STRING
      /\ s.nouns \in Seq([noun : STRING, aliases : SUBSET STRING, sound : BOOLEAN])
      /\ s.commands \in Seq([verb : STRING, noun : STRING, kind : {"ok", "bad", "dev", "nil"}])
  BY DEF Specs
<1>2. ASSUME NEW S, NEW q \in Seq(S)
      PROVE  DOMAIN q = 1..Len(q) /\ Len(q) \in Nat /\ \A j \in DOMAIN q : q[j] \in S
  OBVIOUS
<1>3. /\ DOMAIN s.nouns = 1..Len(s.nouns) /\ Len(s.nouns) \in Nat
      /\ \A m \in DOMAIN s.nouns : s.nouns[m] \in [noun : STRING, aliases : SUBSET STRING, sound : BOOLEAN]
  BY <1>1, <1>2, Zenon
<1>4. /\ DOMAIN s.commands = 1..Len(s.commands) /\ Len(s.commands) \in Nat
      /\ \A c \in DOMAIN s.commands : s.commands[c] \in [verb : STRING, noun : STRING, kind : {"ok", "bad", "dev", "nil"}]
  BY <1>1, <1>2, Zenon
<1> QED BY <1>1, <1>3, <1>4, Zenon

\* Where a spec comes from.
LEMMA SpecsOf ==
  ASSUME Lined
  PROVE  /\ Total \in Nat /\ Len(home) \in Nat /\ DOMAIN home = 1..Len(home) /\ Total = Own + Len(home)
         /\ \A i \in 1..Own : SpecAt(i) = Embedded[i] /\ SpecAt(i) \in Specs /\ i \in 1..Total
         /\ \A h \in DOMAIN home : /\ SpecAt(Own + h) = home[h].spec /\ home[h].spec \in Specs
                                   /\ Own + h \in 1..Total /\ Own + h \notin 1..Own
         /\ \A i \in (1..Total) \ (1..Own) : i - Own \in DOMAIN home /\ SpecAt(i) = home[i - Own].spec
         /\ \A i \in 1..Total : SpecAt(i) \in Specs
<1>1. home \in Seq(Homes) /\ Own \in Nat
  BY OwnSpecs DEF Lined
<1>2. Len(home) \in Nat /\ DOMAIN home = 1..Len(home) /\ \A h \in DOMAIN home : home[h] \in Homes
  BY <1>1, ElementOfSeq, LenProperties
<1>3. \A h \in DOMAIN home : home[h].spec \in Specs
  BY <1>2, SpecAssumption
<1>4. Total = Own + Len(home) /\ Total \in Nat
  BY <1>1, <1>2 DEF Total
<1> HIDE DEF Own, Total
<1>5. \A i \in 1..Own : SpecAt(i) = Embedded[i] /\ SpecAt(i) \in Specs /\ i \in 1..Total
  BY <1>1, <1>2, <1>4, OwnSpecs DEF SpecAt
<1>6. \A h \in DOMAIN home : Own + h \in 1..Total /\ Own + h \notin 1..Own /\ (Own + h) - Own = h
  BY <1>1, <1>2, <1>4
<1>7. \A h \in DOMAIN home : SpecAt(Own + h) = home[h].spec
  BY <1>6 DEF SpecAt
<1>8. \A i \in (1..Total) \ (1..Own) : i - Own \in DOMAIN home /\ SpecAt(i) = home[i - Own].spec
  BY <1>1, <1>2, <1>4 DEF SpecAt
<1>9. \A i \in 1..Total : SpecAt(i) \in Specs
  BY <1>3, <1>5, <1>8
<1> QED BY <1>2, <1>3, <1>4, <1>5, <1>6, <1>7, <1>8, <1>9

\* The spec that is loaded.
LEMMA Here ==
  ASSUME Lined, todo # <<>>
  PROVE  /\ at \in 1..Total /\ R!current.spec = SpecAt(at) /\ R!current.trusted = (at \in 1..Own) /\ SpecAt(at) \in Specs
         /\ at \in 1..Own \/ (at - Own \in DOMAIN home /\ SpecAt(at) = home[at - Own].spec
                                /\ R!current.state = home[at - Own].state)
<1>1. Total \in Nat /\ Len(todo) \in 0..Total /\ todo \in Seq({Item(i) : i \in 1..Total})
  BY SpecsOf DEF Lined
<1>2. Len(todo) # 0 /\ R!current = todo[1] /\ 1 \in DOMAIN todo
  BY <1>1, EmptySeq, HeadTailProperties, LenProperties DEF R!current
<1> HIDE DEF Total
<1>3. at \in 1..Total /\ at - 1 + 1 = at
  BY <1>1, <1>2 DEF at
<1>4. R!current = Item(at)
  BY <1>2, <1>3 DEF Lined
<1>5. R!current.spec = SpecAt(at) /\ R!current.trusted = (at \in 1..Own)
  BY <1>4 DEF Item
<1>6. at \notin 1..Own => R!current.state = home[at - Own].state
  BY <1>4 DEF Item
<1> QED BY <1>3, <1>5, <1>6, SpecsOf

\* A spec is done with: the next one is loaded.
LEMMA MovesOn ==
  ASSUME Lined, todo # <<>>, NEW r, R!Done(r), UNCHANGED home
  PROVE  Lined' /\ at' = at + 1 /\ part' = "file"
<1>1. Total \in Nat /\ Len(todo) \in 0..Total /\ todo \in Seq({Item(i) : i \in 1..Total})
  BY SpecsOf DEF Lined
<1>2. /\ todo' = Tail(todo) /\ part' = "file" /\ k' = 1
  BY DEF R!Done
<1>3. /\ todo' \in Seq({Item(i) : i \in 1..Total}) /\ Len(todo') = Len(todo) - 1 /\ Len(todo) # 0
      /\ \A i \in 1..Len(todo') : todo'[i] = todo[i + 1]
  BY <1>1, <1>2, HeadTailProperties, EmptySeq
<1>4. Total' = Total /\ \A i : Item(i)' = Item(i)
  BY DEF Total, Item, SpecAt
<1> HIDE DEF Total
<1>5. Len(todo') \in 0..Total' /\ at' = at + 1
  BY <1>1, <1>3, <1>4 DEF at
<1>6. todo' \in Seq({Item(i)' : i \in 1..Total'})
  BY <1>3, <1>4
<1>7. ASSUME NEW i \in DOMAIN todo' PROVE todo'[i] = Item(at - 1 + i)'
  <2>1. i \in 1..Len(todo') /\ i + 1 \in DOMAIN todo /\ at \in Int
    <3>1. DOMAIN todo = 1..Len(todo) /\ DOMAIN todo' = 1..Len(todo') /\ Len(todo) \in Nat /\ Total \in Nat
      BY <1>1, <1>3, LenProperties
    <3>2. i \in 1..Len(todo') /\ Len(todo') = Len(todo) - 1
      BY <1>3, <1>7, <3>1
    <3>3. i + 1 \in 1..Len(todo)
      BY <3>1, <3>2
    <3>4. at \in Int
      BY <3>1 DEF at
    <3> QED BY <3>1, <3>2, <3>3, <3>4
  <2>2. todo'[i] = Item(at - 1 + (i + 1))
    BY <1>3, <2>1 DEF Lined
  <2>3. at - 1 + (i + 1) = at' - 1 + i
    <3>1. at \in Int /\ i \in Int /\ at' = at + 1
      BY <1>5, <2>1
    <3> HIDE DEF at
    <3>2. \A a, j \in Int : a - 1 + (j + 1) = (a + 1) - 1 + j
      OBVIOUS
    <3>3. at - 1 + (i + 1) = (at + 1) - 1 + i
      BY <3>1, <3>2
    <3> QED BY <3>1, <3>3
  <2>4. Item(at - 1 + i)' = Item(at - 1 + (i + 1))
    BY <1>4, <2>3 DEF Item, SpecAt
  <2> QED BY <2>2, <2>4
<1>8. /\ home' \in Seq(Homes) /\ \A i, j \in DOMAIN home' : i # j => home'[i].spec.module # home'[j].spec.module
  BY DEF Lined
<1>9. part' \in {"file", "nouns", "commands"} /\ k' \in Nat \ {0} /\ part' = "file"
  BY <1>2
<1>10. Lined'
  BY <1>5, <1>6, <1>7, <1>8, <1>9 DEF Lined
<1> QED BY <1>2, <1>5, <1>10

-----------------------------------------------------------------------------
LEMMA WithOne ==
  ASSUME NEW f, NEW x, NEW y
  PROVE  /\ DOMAIN R!With(f, x, y) = DOMAIN f \cup {x} /\ R!With(f, x, y)[x] = y
         /\ \A z \in DOMAIN f : z # x => R!With(f, x, y)[z] = f[z]
  BY DEF R!With

\* The specs and what is asked of them stay.
LEMMA SameSpecs ==
  ASSUME UNCHANGED <<config, home>>
  PROVE  /\ Total' = Total /\ \A i : SpecAt(i)' = SpecAt(i)
         /\ \A i, m : NounOf(i, m)' = NounOf(i, m) /\ CommandOf(i, m)' = CommandOf(i, m)
         /\ \A s : Enabled(s)' <=> Enabled(s)
         /\ \A h : R!Fit(h)' <=> R!Fit(h)
         /\ \A i : Claimed(i)' <=> Claimed(i)
<1>1. Total' = Total /\ \A i : SpecAt(i)' = SpecAt(i)
  BY DEF Total, SpecAt
<1>2. \A i, m : NounOf(i, m)' = NounOf(i, m) /\ CommandOf(i, m)' = CommandOf(i, m)
  BY <1>1 DEF NounOf, CommandOf
<1>3. \A s : Enabled(s)' <=> Enabled(s)
  BY DEF Enabled, R!IsModuleEnabled
<1>4. \A m : R!IsModuleEnabled(m)' <=> R!IsModuleEnabled(m)
  BY DEF R!IsModuleEnabled
<1>5. \A h : R!Fit(h)' <=> R!Fit(h)
  <2> SUFFICES ASSUME NEW h PROVE R!Fit(h)' <=> R!Fit(h)
    OBVIOUS
  <2>1. R!IsModuleEnabled(home[h].spec.module)' <=> R!IsModuleEnabled(home[h].spec.module)
    BY DEF R!IsModuleEnabled
  <2> QED BY <2>1, Zenon DEF R!Fit, R!IsModuleEnabled
<1>6. \A i : Claimed(i)' <=> Claimed(i)
  <2> SUFFICES ASSUME NEW i PROVE Claimed(i)' <=> Claimed(i)
    OBVIOUS
  <2>1. Enabled(SpecAt(i))' <=> Enabled(SpecAt(i))
    BY <1>1 DEF Enabled, R!IsModuleEnabled
  <2>2. R!Fit(i - Own)' <=> R!Fit(i - Own)
    BY <1>5 DEF Own
  <2> QED BY <2>1, <2>2 DEF Claimed, Own
<1> QED BY <1>1, <1>2, <1>3, <1>5, <1>6

\* What is said of commands, nouns and results, when more is done.
LEMMA ClosesSpec ==
  ASSUME RegistryInv, todo # <<>>, NEW r, R!Done(r), UNCHANGED <<config, home, nouns, aliases, commands, metas>>,
         \/ ~Claimed(at)
         \/ part = "commands" /\ k \notin DOMAIN SpecAt(at).commands /\ r = "loaded"
  PROVE  RegistryInv'
<1>0. Lined /\ NounsInv /\ FreeInv /\ CommandsInv /\ NounsKept /\ CommandsKept /\ ResultInv
  BY DEF RegistryInv
<1>1. Lined' /\ at' = at + 1 /\ part' = "file"
  BY <1>0, MovesOn
<1>2. /\ Total' = Total /\ \A i : SpecAt(i)' = SpecAt(i)
      /\ \A i, m : NounOf(i, m)' = NounOf(i, m) /\ CommandOf(i, m)' = CommandOf(i, m)
      /\ \A i : Claimed(i)' <=> Claimed(i)
  BY SameSpecs
<1>3. at \in 1..Total /\ Total \in Nat /\ SpecAt(at) \in Specs
  BY <1>0, Here, SpecsOf
<1> HIDE DEF Total, at, SpecAt
<1>4. \A i \in 1..Total : i < at + 1 <=> i < at \/ i = at
  BY <1>3
<1>5. \A i, m : NounDone(i, m) => NounDone(i, m)'
  BY <1>1, <1>2, <1>4 DEF NounDone
<1>6. \A i, m : NounDone(i, m)' => NounDone(i, m) \/ (i = at /\ m \in DOMAIN SpecAt(i).nouns)
  BY <1>1, <1>2, <1>4 DEF NounDone
<1>7. \A i, c : CommandDone(i, c) => CommandDone(i, c)'
  BY <1>1, <1>2, <1>4 DEF CommandDone
<1>8. \A i, c : CommandDone(i, c)' => CommandDone(i, c) \/ (i = at /\ c \in DOMAIN SpecAt(i).commands)
  BY <1>1, <1>2, <1>4 DEF CommandDone
<1>9. \A i : MetaDone(i) => MetaDone(i)'
  BY <1>1, <1>2, <1>4 DEF MetaDone
<1>10. NounsInv'
  BY <1>0, <1>2, <1>5 DEF NounsInv
<1>11. FreeInv'
  BY <1>1 DEF FreeInv
<1>12. CommandsInv'
  BY <1>0, <1>1, <1>2, <1>7, <1>9 DEF CommandsInv
<1>13. NounsKept'
  <2> SUFFICES ASSUME NEW i, NEW m, NounDone(i, m)', i \in 1..Own, Enabled(SpecAt(i))'
               PROVE  SpecAt(i).nouns[m].noun \in DOMAIN nouns /\ nouns[SpecAt(i).nouns[m].noun] = NounOf(i, m)
    BY <1>2 DEF NounsKept, Own
  <2>1. Enabled(SpecAt(i))
    BY <1>2, SameSpecs DEF Enabled, R!IsModuleEnabled
  <2>2. i = at => Claimed(at)
    BY <2>1 DEF Claimed
  <2>3. i = at => part = "commands"
    BY <2>2
  <2>4. NounDone(i, m)
    BY <1>3, <1>6, <2>3 DEF NounDone
  <2> QED BY <1>0, <2>1, <2>4 DEF NounsKept
<1>14. CommandsKept'
  <2> SUFFICES ASSUME NEW i, NEW c, CommandDone(i, c)', Claimed(i)', SpecAt(i).commands[c].kind = "ok"
               PROVE  \E p \in DOMAIN commands : /\ commands[p] = CommandOf(i, c)
                                                 /\ i \in 1..Own => \A q \in 1..p : OwnCommand(q)'
    BY <1>2 DEF CommandsKept, Own
  <2>1. i = at => part = "commands" /\ k \notin DOMAIN SpecAt(at).commands
    BY <1>2
  <2>2. DOMAIN SpecAt(at).commands = 1..Len(SpecAt(at).commands) /\ Len(SpecAt(at).commands) \in Nat
    BY <1>3, SpecFields
  <2>3. k \in Nat \ {0}
    BY <1>0 DEF Lined
  <2>4. CommandDone(i, c)
    BY <1>3, <1>8, <2>1, <2>2, <2>3 DEF CommandDone
  <2>5. \A q : OwnCommand(q)' <=> OwnCommand(q)
    BY <1>2 DEF OwnCommand, Own
  <2> QED BY <1>0, <1>2, <2>4, <2>5 DEF CommandsKept
<1>15. ResultInv'
  <2>1. /\ \A h : R!Fit(h)' <=> R!Fit(h)
        /\ Own \in Nat /\ \A h \in DOMAIN home : h \in Nat /\ Own + h \in 1..Total /\ Own + h \notin 1..Own
    BY <1>0, SpecsOf, SameSpecs, OwnSpecs
  <2> HIDE DEF Own
  <2>2. \A h \in DOMAIN home : Own + h < at + 1 <=> Own + h < at \/ Own + h = at
    BY <1>4, <2>1
  <2>3. CASE at \in 1..Own
    <3>1. result' = result
      BY <1>0, <2>3, Here DEF R!Done
    <3>2. \A h \in DOMAIN home : Own + h # at
      BY <2>1, <2>3
    <3> QED BY <1>0, <1>1, <2>1, <2>2, <3>1, <3>2 DEF ResultInv, Own
  <2>4. CASE at \notin 1..Own
    <3>1. PICK g \in DOMAIN home : g = at - Own /\ SpecAt(at) = home[g].spec
      BY <1>0, <2>4, Here
    <3>2. result' = R!With(result, home[g].spec.module, r)
      BY <1>0, <2>4, <3>1, Here DEF R!Done
    <3>3. \A h \in DOMAIN home : Own + h = at <=> h = g
      BY <1>3, <2>1, <3>1
    <3>4. R!Fit(g) => r = "loaded"
      BY <2>4, <3>1 DEF Claimed
    <3>5. \A h \in DOMAIN home : h # g => home[h].spec.module # home[g].spec.module
      BY <1>0 DEF Lined
    <3>6. /\ DOMAIN result' = DOMAIN result \cup {home[g].spec.module} /\ result'[home[g].spec.module] = r
          /\ \A z \in DOMAIN result : z # home[g].spec.module => result'[z] = result[z]
      <4> DEFINE x == home[g].spec.module
      <4> SUFFICES /\ DOMAIN result' = DOMAIN result \cup {x} /\ result'[x] = r
                   /\ \A z \in DOMAIN result : z # x => result'[z] = result[z]
        OBVIOUS
      <4>1. result' = [z \in DOMAIN result \cup {x} |-> IF z = x THEN r ELSE result[z]]
        BY <3>2 DEF R!With
      <4> HIDE DEF x
      <4> QED BY <4>1
    <3>7. DOMAIN result' \subseteq {home'[h].spec.module : h \in DOMAIN home'}
      BY <1>0, <3>6 DEF ResultInv
    <3>8. ASSUME NEW h \in DOMAIN home, R!Fit(h), Own + h < at + 1
          PROVE  home[h].spec.module \in DOMAIN result' /\ result'[home[h].spec.module] = "loaded"
      <4>1. CASE h = g
        BY <3>4, <3>6, <3>8, <4>1
      <4>2. CASE h # g
        <5>1. home[h].spec.module \in DOMAIN result /\ result[home[h].spec.module] = "loaded"
          BY <1>0, <2>2, <3>3, <3>8, <4>2 DEF ResultInv
        <5> QED BY <3>5, <3>6, <4>2, <5>1
      <4> QED BY <4>1, <4>2
    <3> QED BY <1>1, <2>1, <3>7, <3>8 DEF ResultInv, Own
  <2> QED BY <2>3, <2>4
<1> QED BY <1>1, <1>10, <1>11, <1>12, <1>13, <1>14, <1>15 DEF RegistryInv

-----------------------------------------------------------------------------
\* A home spec that is fit, a clause at a time, over all specs.
LEMMA FitFacts ==
  ASSUME Lined, NEW h \in DOMAIN home, R!Fit(h)
  PROVE  /\ home[h].state = "ok" /\ R!IsSound(home[h].spec) /\ Enabled(home[h].spec)
         /\ \A i \in 1..Total : i # Own + h => SpecAt(i).module # home[h].spec.module /\ R!Apart(home[h].spec, SpecAt(i))
         /\ \A c \in DOMAIN home[h].spec.commands : \A i, j \in 1..Total :
              \A e \in DOMAIN SpecAt(i).commands, m \in DOMAIN SpecAt(j).nouns :
                ~(/\ SpecAt(i).commands[e].verb = home[h].spec.commands[c].verb
                  /\ SpecAt(i).commands[e].noun = SpecAt(j).nouns[m].noun
                  /\ home[h].spec.commands[c].noun \in SpecAt(j).nouns[m].aliases)
<1> DEFINE s == home[h].spec
           others == {Embedded[j] : j \in DOMAIN Embedded} \cup {home[j].spec : j \in DOMAIN home \ {h}}
<1>1. /\ home[h].state = "ok" /\ R!IsSound(s) /\ (s.hidden => R!IsModuleEnabled(s.module))
      /\ \A t \in others : t.module # s.module /\ R!Apart(s, t)
      /\ \A c \in DOMAIN s.commands : ~R!Shadowed(s.commands[c], {s} \cup others)
  BY Zenon DEF R!Fit
<1>2. Enabled(s)
  BY <1>1 DEF Enabled
<1>3. /\ Own \in Nat /\ DOMAIN Embedded = 1..Own /\ DOMAIN home = 1..Len(home) /\ Len(home) \in Nat
      /\ Total = Own + Len(home)
  BY OwnSpecs, SpecsOf
<1> HIDE DEF Own, Total
<1>4. ASSUME NEW i \in 1..Total, i # Own + h PROVE SpecAt(i) \in others
  <2>1. CASE i \in 1..Own
    BY <1>3, <2>1, SpecsOf
  <2>2. CASE i \notin 1..Own
    <3>1. i - Own \in DOMAIN home /\ SpecAt(i) = home[i - Own].spec
      BY <2>2, SpecsOf
    <3>2. i - Own # h
      BY <1>3, <1>4
    <3> QED BY <3>1, <3>2
  <2> QED BY <2>1, <2>2
<1>5. ASSUME NEW i \in 1..Total PROVE SpecAt(i) \in {s} \cup others
  <2>1. SpecAt(Own + h) = s
    BY SpecsOf
  <2> QED BY <1>4, <2>1
<1> HIDE DEF s, others
<1>6. \A i \in 1..Total : i # Own + h => SpecAt(i).module # s.module /\ R!Apart(s, SpecAt(i))
  BY <1>1, <1>4, Zenon
<1>7. ASSUME NEW c \in DOMAIN s.commands, NEW i \in 1..Total, NEW j \in 1..Total,
             NEW e \in DOMAIN SpecAt(i).commands, NEW m \in DOMAIN SpecAt(j).nouns,
             SpecAt(i).commands[e].verb = s.commands[c].verb,
             SpecAt(i).commands[e].noun = SpecAt(j).nouns[m].noun,
             s.commands[c].noun \in SpecAt(j).nouns[m].aliases
      PROVE  FALSE
  <2>1. R!Shadowed(s.commands[c], {s} \cup others)
    BY <1>5, <1>7, Zenon DEF R!Shadowed
  <2> QED BY <1>1, <2>1, Zenon
<1>8. home[h].spec = s
  BY DEF s
<1>9. \A c \in DOMAIN s.commands : \A i, j \in 1..Total :
        \A e \in DOMAIN SpecAt(i).commands, m \in DOMAIN SpecAt(j).nouns :
          ~(/\ SpecAt(i).commands[e].verb = s.commands[c].verb
            /\ SpecAt(i).commands[e].noun = SpecAt(j).nouns[m].noun
            /\ s.commands[c].noun \in SpecAt(j).nouns[m].aliases)
  BY <1>7, Zenon
<1> QED BY <1>1, <1>2, <1>6, <1>8, <1>9, Zenon

\* A name that is taken is one of a noun that was registered.
LEMMA TakenFrom ==
  ASSUME NounsInv, NEW x \in R!Taken
  PROVE  \E i, m : NounDone(i, m) /\ x \in R!Names(SpecAt(i).nouns[m])
<1>1. CASE x \in DOMAIN nouns
  BY <1>1 DEF NounsInv, R!Names
<1>2. CASE x \in DOMAIN aliases
  <2>1. aliases[x] \in DOMAIN nouns /\ x \in nouns[aliases[x]].aliases
    BY <1>2 DEF NounsInv
  <2>2. PICK i, m : NounDone(i, m) /\ nouns[aliases[x]] = NounOf(i, m)
    BY <2>1 DEF NounsInv
  <2>3. x \in SpecAt(i).nouns[m].aliases
    BY <2>1, <2>2 DEF NounOf
  <2> QED BY <2>2, <2>3 DEF R!Names
<1> QED BY <1>1, <1>2 DEF R!Taken

\* A fit spec is not refused, whatever was registered before it.
LEMMA FitOpens ==
  ASSUME Lined, NounsInv, CommandsInv, NEW h \in DOMAIN home, R!Fit(h), at = Own + h, part = "file"
  PROVE  ~home[h].spec.core /\ ~R!Conflicts(home[h].spec) /\ home[h].spec.module \notin DOMAIN metas
<1> DEFINE s == home[h].spec
<1>1. R!IsSound(s) /\ \A i \in 1..Total : i # Own + h => SpecAt(i).module # s.module /\ R!Apart(s, SpecAt(i))
  BY FitFacts
<1>2. s \in Specs
  BY SpecsOf
<1>3. at \in 1..Total /\ Total \in Nat
  BY SpecsOf
<1> HIDE DEF s, Own, Total, at
<1>4. s.module \notin DOMAIN metas
  BY <1>1, <1>3 DEF CommandsInv, MetaDone
<1>5. \A i \in DOMAIN s.nouns : R!Names(s.nouns[i]) \cap R!Taken = {}
  <2> SUFFICES ASSUME NEW l \in DOMAIN s.nouns, NEW x \in R!Names(s.nouns[l]), x \in R!Taken PROVE FALSE
    OBVIOUS
  <2>1. PICK i, m : NounDone(i, m) /\ x \in R!Names(SpecAt(i).nouns[m])
    BY TakenFrom
  <2>2. i \in 1..Total /\ i < at /\ m \in DOMAIN SpecAt(i).nouns
    BY <2>1 DEF NounDone
  <2>3. R!Apart(s, SpecAt(i))
    BY <1>1, <1>3, <2>2
  <2>4. x \in R!AllNames(s) /\ x \in R!AllNames(SpecAt(i))
    BY <2>1, <2>2, Zenon DEF R!AllNames
  <2> QED BY <2>3, <2>4 DEF R!Apart
<1>6. \A c \in DOMAIN s.commands : s.commands[c].kind = "ok"
  BY <1>1 DEF R!IsSound
<1>7. \A c \in DOMAIN s.commands : ~R!IsRegistered(s.commands[c])
  <2> SUFFICES ASSUME NEW c \in DOMAIN s.commands, NEW p \in DOMAIN commands,
                      commands[p].verb = s.commands[c].verb, commands[p].noun = s.commands[c].noun
               PROVE  FALSE
    BY DEF R!IsRegistered
  <2>1. PICK i, d : CommandDone(i, d) /\ SpecAt(i).commands[d].kind = "ok" /\ commands[p] = CommandOf(i, d)
    BY DEF CommandsInv
  <2>2. i \in 1..Total /\ i < at /\ d \in DOMAIN SpecAt(i).commands
    BY <2>1 DEF CommandDone
  <2>3. R!Apart(s, SpecAt(i))
    BY <1>1, <1>3, <2>2
  <2>4. <<s.commands[c].verb, s.commands[c].noun>> = <<SpecAt(i).commands[d].verb, SpecAt(i).commands[d].noun>>
    BY <2>1 DEF CommandOf
  <2>5. "ok" # "nil"
    OBVIOUS
  <2>6. <<s.commands[c].verb, s.commands[c].noun>> \in R!AllCommands(s)
    BY <1>6, <2>5 DEF R!AllCommands
  <2>7. <<SpecAt(i).commands[d].verb, SpecAt(i).commands[d].noun>> \in R!AllCommands(SpecAt(i))
    BY <2>1, <2>2, <2>5 DEF R!AllCommands
  <2> QED BY <2>3, <2>4, <2>6, <2>7 DEF R!Apart
<1>8. \A i, j \in DOMAIN s.commands : i < j => s.commands[i] # s.commands[j] /\ s.commands[i].kind = s.commands[j].kind
  <2>1. DOMAIN s.commands = 1..Len(s.commands) /\ Len(s.commands) \in Nat
    BY <1>2, SpecFields
  <2>2. \A i, j \in DOMAIN s.commands : i < j => i # j
    BY <2>1
  <2> QED BY <1>1, <1>6, <2>2 DEF R!IsSound
<1>9. \A i, j \in DOMAIN s.commands : i < j =>
        ~(s.commands[i].verb = s.commands[j].verb /\ s.commands[i].noun = s.commands[j].noun)
  <2>1. \A c \in DOMAIN s.commands : s.commands[c] \in [verb : STRING, noun : STRING, kind : {"ok", "bad", "dev", "nil"}]
    BY <1>2, SpecFields
  <2>2. ASSUME NEW c \in [verb : STRING, noun : STRING, kind : {"ok", "bad", "dev", "nil"}],
               NEW d \in [verb : STRING, noun : STRING, kind : {"ok", "bad", "dev", "nil"}],
               c.verb = d.verb, c.noun = d.noun, c.kind = d.kind
        PROVE  c = d
    BY <2>2
  <2> QED BY <1>8, <2>1, <2>2
<1>10. \A i, j \in DOMAIN s.nouns : i < j => R!Names(s.nouns[i]) \cap R!Names(s.nouns[j]) = {}
  <2>1. DOMAIN s.nouns = 1..Len(s.nouns) /\ Len(s.nouns) \in Nat
    BY <1>2, SpecFields
  <2>2. \A i, j \in DOMAIN s.nouns : i < j => i # j
    BY <2>1
  <2> QED BY <1>1, <2>2 DEF R!IsSound
<1>11. ~s.core /\ \A i \in DOMAIN s.nouns : s.nouns[i].noun \notin s.nouns[i].aliases
  BY <1>1 DEF R!IsSound
<1>12. ~R!Conflicts(s)
  BY <1>5, <1>7, <1>9, <1>10, <1>11, Zenon DEF R!Conflicts
<1> QED BY <1>4, <1>11, <1>12 DEF s

-----------------------------------------------------------------------------
LEMMA SkipKeeps ==
  ASSUME RegistryInv, R!SkipSpec
  PROVE  RegistryInv'
<1>0. Lined /\ NounsInv /\ CommandsInv
  BY DEF RegistryInv
<1>1. /\ todo # <<>> /\ part = "file" /\ ~R!current.trusted /\ R!Done("skipped")
      /\ UNCHANGED <<config, home, nouns, aliases, commands, metas>>
      /\ \/ R!current.spec.module \in DOMAIN metas
         \/ R!current.state \in {"irregular", "empty", "oversized", "unreadable", "unparsable"}
  BY Zenon DEF R!SkipSpec, R!GiveUp, R!registered
<1>2. PICK h \in DOMAIN home : h = at - Own /\ SpecAt(at) = home[h].spec /\ R!current.state = home[h].state
  BY <1>0, <1>1, Here
<1>3. at \notin 1..Own /\ R!current.spec = home[h].spec /\ at = Own + h
  <2>1. at \notin 1..Own /\ R!current.spec = home[h].spec /\ at \in 1..Total /\ Total \in Nat /\ Own \in Nat
    BY <1>0, <1>1, <1>2, Here, SpecsOf, OwnSpecs
  <2> HIDE DEF at, Own
  <2> QED BY <1>2, <2>1
<1>4. ~R!Fit(h)
  <2> SUFFICES ASSUME R!Fit(h) PROVE FALSE
    OBVIOUS
  <2>1. home[h].state = "ok"
    BY <1>0, FitFacts
  <2>2. home[h].spec.module \notin DOMAIN metas
    BY <1>0, <1>1, <1>3, FitOpens
  <2> QED BY <1>1, <1>2, <1>3, <2>1, <2>2
<1>5. ~Claimed(at)
  BY <1>2, <1>3, <1>4 DEF Claimed
<1> QED BY <1>1, <1>5, ClosesSpec

\* A step that changes nothing but what is next of the spec.
LEMMA StaysIn ==
  ASSUME Lined, UNCHANGED <<home, todo>>, part' \in {"nouns", "commands"}, k' \in Nat \ {0}, todo # <<>>
  PROVE  Lined' /\ at' = at
<1>1. Total' = Total /\ at' = at /\ \A i : Item(i)' = Item(i)
  BY DEF Total, at, Item, SpecAt
<1> QED BY <1>1 DEF Lined

LEMMA OpenKeeps ==
  ASSUME RegistryInv, R!OpenSpec
  PROVE  RegistryInv'
<1> DEFINE s == R!current.spec
<1>0. Lined /\ NounsInv /\ FreeInv /\ CommandsInv /\ NounsKept /\ CommandsKept /\ ResultInv
  BY DEF RegistryInv
<1>1. /\ todo # <<>> /\ part = "file"
      /\ UNCHANGED <<config, home, nouns, aliases, commands, metas>>
      /\ \/ s.hidden /\ ~R!IsModuleEnabled(s.module) /\ R!Done("disabled")
         \/ ~R!current.trusted /\ (s.core \/ R!Conflicts(s)) /\ R!Done("refused")
         \/ /\ R!current.trusted \/ ~R!Conflicts(s)
            /\ part' = "nouns" /\ k' = 1 /\ UNCHANGED <<todo, result>>
  BY Zenon DEF R!OpenSpec, R!GiveUp, s
<1>2. /\ s = SpecAt(at) /\ R!current.trusted = (at \in 1..Own) /\ at \in 1..Total /\ Total \in Nat /\ Own \in Nat
      /\ SpecAt(at) \in Specs
  BY <1>0, <1>1, Here, SpecsOf, OwnSpecs
<1>3. at \notin 1..Own => at - Own \in DOMAIN home /\ SpecAt(at) = home[at - Own].spec /\ at = Own + (at - Own)
  <2>1. at \notin 1..Own => at - Own \in DOMAIN home /\ SpecAt(at) = home[at - Own].spec
    BY <1>0, <1>1, Here
  <2> HIDE DEF at, Own
  <2> QED BY <1>2, <2>1
<1> HIDE DEF s
<1>4. CASE s.hidden /\ ~R!IsModuleEnabled(s.module) /\ R!Done("disabled")
  <2>1. ~Enabled(SpecAt(at))
    BY <1>2, <1>4 DEF Enabled
  <2>2. at \notin 1..Own => ~R!Fit(at - Own)
    BY <1>0, <1>3, <2>1, FitFacts
  <2>3. ~Claimed(at)
    BY <2>1, <2>2 DEF Claimed
  <2> QED BY <1>1, <1>4, <2>3, ClosesSpec
<1>5. CASE ~R!current.trusted /\ (s.core \/ R!Conflicts(s)) /\ R!Done("refused")
  <2>1. ~R!Fit(at - Own)
    BY <1>0, <1>1, <1>2, <1>3, <1>5, FitOpens
  <2>2. ~Claimed(at)
    BY <1>2, <1>5, <2>1 DEF Claimed
  <2> QED BY <1>1, <1>5, <2>2, ClosesSpec
<1>6. CASE (R!current.trusted \/ ~R!Conflicts(s)) /\ part' = "nouns" /\ k' = 1 /\ UNCHANGED <<todo, result>>
  <2>1. Lined' /\ at' = at
    BY <1>0, <1>1, <1>6, StaysIn
  <2>2. /\ Total' = Total /\ \A i : SpecAt(i)' = SpecAt(i)
        /\ \A i, m : NounOf(i, m)' = NounOf(i, m) /\ CommandOf(i, m)' = CommandOf(i, m)
        /\ \A h : R!Fit(h)' <=> R!Fit(h)
        /\ \A i : Claimed(i)' <=> Claimed(i)
    BY <1>1, SameSpecs
  <2>3. DOMAIN s.nouns = 1..Len(s.nouns) /\ Len(s.nouns) \in Nat
    BY <1>2, SpecFields
  <2> HIDE DEF Total, at, SpecAt
  <2>4. \A i, m : NounDone(i, m)' <=> NounDone(i, m)
    BY <1>1, <1>2, <1>6, <2>1, <2>2, <2>3 DEF NounDone
  <2>5. \A i, m : CommandDone(i, m)' <=> CommandDone(i, m)
    BY <1>1, <1>2, <1>6, <2>1, <2>2 DEF CommandDone
  <2>6. \A i : MetaDone(i)' <=> MetaDone(i)
    BY <1>1, <1>2, <1>6, <2>1, <2>2 DEF MetaDone
  <2>7. NounsInv'
    BY <1>0, <1>1, <2>2, <2>4 DEF NounsInv
  <2>8. Neat(s) /\ \A m \in DOMAIN s.nouns : R!Names(s.nouns[m]) \cap R!Taken = {}
    <3>1. CASE at \in 1..Own
      <4>1. s = Embedded[at]
        BY <1>0, <1>2, <3>1, SpecsOf
      <4>2. Neat(s)
        BY <3>1, <4>1, OwnSpecs DEF Neat
      <4>3. ASSUME NEW m \in DOMAIN s.nouns, NEW x \in R!Names(s.nouns[m]), x \in R!Taken PROVE FALSE
        <5>1. PICK i, l : NounDone(i, l) /\ x \in R!Names(SpecAt(i).nouns[l])
          BY <1>0, <4>3, TakenFrom
        <5>2. i < at /\ i \in 1..Own /\ l \in DOMAIN SpecAt(i).nouns
          BY <1>1, <1>2, <3>1, <5>1 DEF NounDone
        <5>3. SpecAt(i) = Embedded[i] /\ i # at
          BY <1>0, <1>2, <5>2, SpecsOf
        <5> QED BY <3>1, <4>1, <4>3, <5>1, <5>2, <5>3, OwnSpecs
      <4> QED BY <4>2, <4>3
    <3>2. CASE at \notin 1..Own
      <4>1. ~R!Conflicts(s)
        BY <1>2, <1>6, <3>2
      <4>2. /\ \A i \in DOMAIN s.nouns : R!Names(s.nouns[i]) \cap R!Taken = {} /\ s.nouns[i].noun \notin s.nouns[i].aliases
            /\ \A i, j \in DOMAIN s.nouns : i < j => R!Names(s.nouns[i]) \cap R!Names(s.nouns[j]) = {}
        BY <4>1, Zenon DEF R!Conflicts
      <4>3. \A i, j \in DOMAIN s.nouns : i # j => R!Names(s.nouns[i]) \cap R!Names(s.nouns[j]) = {}
        <5>1. \A i, j \in DOMAIN s.nouns : i # j => i < j \/ j < i
          BY <2>3
        <5> QED BY <4>2, <5>1
      <4> QED BY <4>2, <4>3 DEF Neat
    <3> QED BY <3>1, <3>2
  <2>9. FreeInv'
    <3>1. R!Taken' = R!Taken
      BY <1>1 DEF R!Taken
    <3> QED BY <1>2, <1>6, <2>1, <2>2, <2>8, <3>1 DEF FreeInv
  <2>10. CommandsInv'
    BY <1>0, <1>1, <1>6, <2>2, <2>5, <2>6 DEF CommandsInv
  <2>11. NounsKept'
    <3>1. \A i : Enabled(SpecAt(i))' <=> Enabled(SpecAt(i))
      BY <1>1, <2>2 DEF Enabled, R!IsModuleEnabled
    <3> QED BY <1>0, <1>1, <2>2, <2>4, <3>1 DEF NounsKept, Own
  <2>12. CommandsKept'
    <3>1. \A q : OwnCommand(q)' <=> OwnCommand(q)
      BY <1>1, <2>2 DEF OwnCommand, Own
    <3> QED BY <1>0, <1>1, <2>2, <2>5, <3>1 DEF CommandsKept, Own
  <2>13. ResultInv'
    BY <1>0, <1>1, <1>6, <2>1, <2>2 DEF ResultInv, Own
  <2> QED BY <2>1, <2>7, <2>9, <2>10, <2>11, <2>12, <2>13 DEF RegistryInv
<1> QED BY <1>1, <1>4, <1>5, <1>6

\* The names of a noun are free when its turn comes, so that only a noun that is not sound is refused.
LEMMA NounKeeps ==
  ASSUME RegistryInv, R!RegisterNoun
  PROVE  RegistryInv'
<1> DEFINE nd == SpecAt(at).nouns[k]
<1>0. Lined /\ NounsInv /\ FreeInv /\ CommandsInv /\ NounsKept /\ CommandsKept /\ ResultInv
  BY DEF RegistryInv
<1>1. /\ todo # <<>> /\ part = "nouns" /\ k \in DOMAIN R!current.spec.nouns
      /\ UNCHANGED <<config, home, commands, metas>>
      /\ \/ /\ R!CanRegisterNoun(R!current.spec.nouns[k])
            /\ nouns' = R!With(nouns, R!current.spec.nouns[k].noun,
                             [aliases |-> R!current.spec.nouns[k].aliases, module |-> R!current.spec.module])
            /\ aliases' = [a \in DOMAIN aliases \cup R!current.spec.nouns[k].aliases |->
                             IF a \in R!current.spec.nouns[k].aliases THEN R!current.spec.nouns[k].noun ELSE aliases[a]]
            /\ k' = k + 1 /\ UNCHANGED <<todo, part, result>>
         \/ /\ ~R!CanRegisterNoun(R!current.spec.nouns[k]) /\ ~R!current.trusted /\ R!Done("broken")
            /\ UNCHANGED <<nouns, aliases>>
  BY Zenon DEF R!RegisterNoun, R!GiveUp
<1>2. /\ R!current.spec = SpecAt(at) /\ R!current.trusted = (at \in 1..Own) /\ at \in 1..Total /\ Total \in Nat
      /\ Own \in Nat /\ SpecAt(at) \in Specs /\ k \in DOMAIN SpecAt(at).nouns /\ k \in Nat \ {0}
  BY <1>0, <1>1, Here, SpecsOf, OwnSpecs DEF Lined
<1>3. at \notin 1..Own => at - Own \in DOMAIN home /\ SpecAt(at) = home[at - Own].spec
  BY <1>0, <1>1, Here
<1>4. /\ R!Names(nd) \cap R!Taken = {} /\ nd.noun \notin nd.aliases
      /\ \A m \in DOMAIN SpecAt(at).nouns : m # k => R!Names(nd) \cap R!Names(SpecAt(at).nouns[m]) = {}
  <2>1. Neat(SpecAt(at)) /\ \A m \in DOMAIN SpecAt(at).nouns : m >= k => R!Names(SpecAt(at).nouns[m]) \cap R!Taken = {}
    BY <1>0, <1>1 DEF FreeInv
  <2>2. k >= k
    BY <1>2
  <2> QED BY <1>2, <2>1, <2>2, Zenon DEF Neat
<1>5. nd.noun \in R!Names(nd) /\ nd.aliases \subseteq R!Names(nd)
  BY DEF R!Names
<1>6. CASE ~R!CanRegisterNoun(nd) /\ ~R!current.trusted /\ R!Done("broken") /\ UNCHANGED <<nouns, aliases>>
  <2>1. ~nd.sound
    BY <1>4, <1>5, <1>6 DEF R!CanRegisterNoun, R!Taken
  <2>2. ~R!Fit(at - Own)
    BY <1>0, <1>2, <1>3, <1>6, <2>1, FitFacts DEF R!IsSound
  <2>3. ~Claimed(at)
    BY <1>2, <1>6, <2>2 DEF Claimed
  <2> QED BY <1>1, <1>6, <2>3, ClosesSpec
<1>7. CASE /\ nouns' = R!With(nouns, nd.noun, NounOf(at, k))
           /\ aliases' = [a \in DOMAIN aliases \cup nd.aliases |-> IF a \in nd.aliases THEN nd.noun ELSE aliases[a]]
           /\ k' = k + 1 /\ UNCHANGED <<todo, part, result>>
  <2>1. Lined' /\ at' = at
    BY <1>0, <1>1, <1>2, <1>7, StaysIn
  <2>2. /\ Total' = Total /\ \A i : SpecAt(i)' = SpecAt(i)
        /\ \A i, m : NounOf(i, m)' = NounOf(i, m) /\ CommandOf(i, m)' = CommandOf(i, m)
        /\ \A h : R!Fit(h)' <=> R!Fit(h)
        /\ \A i : Claimed(i)' <=> Claimed(i)
    BY <1>1, SameSpecs
  <2>3. DOMAIN SpecAt(at).nouns = 1..Len(SpecAt(at).nouns) /\ Len(SpecAt(at).nouns) \in Nat
    BY <1>2, SpecFields
  <2>4. /\ DOMAIN nouns' = DOMAIN nouns \cup {nd.noun} /\ nouns'[nd.noun] = NounOf(at, k)
        /\ \A x \in DOMAIN nouns : x # nd.noun => nouns'[x] = nouns[x]
    <3> DEFINE x == nd.noun
    <3>1. nouns' = [z \in DOMAIN nouns \cup {x} |-> IF z = x THEN NounOf(at, k) ELSE nouns[z]]
      BY <1>7 DEF R!With
    <3> SUFFICES /\ DOMAIN nouns' = DOMAIN nouns \cup {x} /\ nouns'[x] = NounOf(at, k)
                 /\ \A z \in DOMAIN nouns : z # x => nouns'[z] = nouns[z]
      OBVIOUS
    <3> HIDE DEF x
    <3> QED BY <3>1
  <2>5. NounOf(at, k).aliases = nd.aliases
    BY DEF NounOf
  <2> HIDE DEF Total, at, SpecAt, nd, Own
  <2>6. \A i, m : NounDone(i, m)' <=> NounDone(i, m) \/ (i = at /\ m = k)
    <3>1. \A m \in DOMAIN SpecAt(at).nouns : m < k + 1 <=> m < k \/ m = k
      BY <1>2, <2>3
    <3>2. /\ part' = "nouns" /\ k' = k + 1 /\ part = "nouns"
      BY <1>1, <1>7
    <3> QED BY <1>2, <2>1, <2>2, <3>1, <3>2 DEF NounDone
  <2>7. \A i, m : CommandDone(i, m)' <=> CommandDone(i, m)
    BY <1>1, <1>2, <1>7, <2>1, <2>2 DEF CommandDone
  <2>8. \A i : MetaDone(i)' <=> MetaDone(i)
    BY <1>1, <1>2, <1>7, <2>1, <2>2 DEF MetaDone
  <2>9. /\ DOMAIN aliases' = DOMAIN aliases \cup nd.aliases /\ \A a \in nd.aliases : aliases'[a] = nd.noun
        /\ \A a \in DOMAIN aliases \ nd.aliases : aliases'[a] = aliases[a]
    BY <1>7
  <2>10. nd.noun \notin DOMAIN nouns /\ nd.noun \notin DOMAIN aliases /\ nd.aliases \cap DOMAIN nouns = {}
         /\ nd.aliases \cap DOMAIN aliases = {}
    BY <1>4, <1>5 DEF R!Taken
  <2>11. NounsInv'
    <3>1. \A x \in DOMAIN nouns' : \E i, m : NounDone(i, m)' /\ SpecAt(i).nouns[m].noun = x /\ nouns'[x] = NounOf(i, m)
      <4> SUFFICES ASSUME NEW x \in DOMAIN nouns'
                   PROVE  \E i, m : NounDone(i, m)' /\ SpecAt(i).nouns[m].noun = x /\ nouns'[x] = NounOf(i, m)
        OBVIOUS
      <4>1. CASE x = nd.noun
        <5>1. \E i, m : i = at /\ m = k /\ NounDone(i, m)'
          BY <2>6
        <5> QED BY <2>4, <4>1, <5>1 DEF nd
      <4>2. CASE x # nd.noun
        BY <1>0, <2>4, <2>6, <4>2 DEF NounsInv
      <4> QED BY <4>1, <4>2
    <3>2. \A a \in DOMAIN aliases' : aliases'[a] \in DOMAIN nouns' /\ a \in nouns'[aliases'[a]].aliases
      <4>1. \A a \in DOMAIN aliases : aliases[a] \in DOMAIN nouns /\ a \in nouns[aliases[a]].aliases
        BY <1>0 DEF NounsInv
      <4>2. \A a \in nd.aliases : aliases'[a] \in DOMAIN nouns' /\ a \in nouns'[aliases'[a]].aliases
        BY <2>4, <2>5, <2>9
      <4>3. \A a \in DOMAIN aliases \ nd.aliases : aliases'[a] \in DOMAIN nouns' /\ a \in nouns'[aliases'[a]].aliases
        BY <2>4, <2>9, <2>10, <4>1
      <4> QED BY <2>9, <4>2, <4>3
    <3>3. \A x \in DOMAIN nouns' : \A a \in nouns'[x].aliases : a \in DOMAIN aliases' /\ aliases'[a] = x
      <4>1. \A x \in DOMAIN nouns : \A a \in nouns[x].aliases : a \in DOMAIN aliases /\ aliases[a] = x
        BY <1>0 DEF NounsInv
      <4> QED BY <2>4, <2>5, <2>9, <2>10, <4>1
    <3>4. DOMAIN nouns' \cap DOMAIN aliases' = {}
      BY <1>0, <1>4, <2>4, <2>9, <2>10 DEF NounsInv, nd
    <3> QED BY <2>2, <3>1, <3>2, <3>3, <3>4 DEF NounsInv
  <2>12. FreeInv'
    <3>1. R!Taken' = R!Taken \cup R!Names(nd)
      BY <2>4, <2>9 DEF R!Taken, R!Names
    <3>2. Neat(SpecAt(at)) /\ \A m \in DOMAIN SpecAt(at).nouns : m >= k => R!Names(SpecAt(at).nouns[m]) \cap R!Taken = {}
      BY <1>0, <1>1 DEF FreeInv
    <3>3. \A m \in DOMAIN SpecAt(at).nouns : m >= k + 1 => m >= k /\ m # k
      BY <1>2, <2>3
    <3>4. \A m \in DOMAIN SpecAt(at).nouns : m >= k + 1 => R!Names(SpecAt(at).nouns[m]) \cap R!Taken' = {}
      BY <1>4, <3>1, <3>2, <3>3 DEF nd
    <3> QED BY <1>7, <2>1, <2>2, <3>2, <3>4 DEF FreeInv
  <2>13. CommandsInv'
    BY <1>0, <1>1, <1>7, <2>2, <2>7, <2>8 DEF CommandsInv
  <2>14. NounsKept'
    <3>1. \A i : Enabled(SpecAt(i))' <=> Enabled(SpecAt(i))
      BY <1>1, <2>2 DEF Enabled, R!IsModuleEnabled
    <3> SUFFICES ASSUME NEW i, NEW m, NounDone(i, m)', i \in 1..Own, Enabled(SpecAt(i))
                 PROVE  SpecAt(i).nouns[m].noun \in DOMAIN nouns' /\ nouns'[SpecAt(i).nouns[m].noun] = NounOf(i, m)
      BY <2>2, <3>1 DEF NounsKept, Own
    <3>2. CASE i = at /\ m = k
      BY <2>4, <3>2 DEF nd
    <3>3. CASE NounDone(i, m)
      <4>1. SpecAt(i).nouns[m].noun \in DOMAIN nouns /\ nouns[SpecAt(i).nouns[m].noun] = NounOf(i, m)
        BY <1>0, <3>3 DEF NounsKept
      <4> QED BY <2>4, <2>10, <4>1
    <3> QED BY <2>6, <3>2, <3>3
  <2>15. CommandsKept'
    <3>1. \A q : OwnCommand(q)' <=> OwnCommand(q)
      BY <1>1, <2>2 DEF OwnCommand, Own
    <3> QED BY <1>0, <1>1, <2>2, <2>7, <3>1 DEF CommandsKept, Own
  <2>16. ResultInv'
    BY <1>0, <1>1, <1>7, <2>1, <2>2 DEF ResultInv, Own
  <2> QED BY <2>1, <2>11, <2>12, <2>13, <2>14, <2>15, <2>16 DEF RegistryInv
<1> QED BY <1>1, <1>2, <1>6, <1>7 DEF NounOf

LEMMA MetaKeeps ==
  ASSUME RegistryInv, R!SetModuleMeta
  PROVE  RegistryInv'
<1> DEFINE x == SpecAt(at).module
<1>0. Lined /\ NounsInv /\ FreeInv /\ CommandsInv /\ NounsKept /\ CommandsKept /\ ResultInv
  BY DEF RegistryInv
<1>1. /\ todo # <<>> /\ part = "nouns" /\ k \notin DOMAIN R!current.spec.nouns
      /\ metas' = R!With(metas, R!current.spec.module, R!current.spec.binary)
      /\ part' = "commands" /\ k' = 1
      /\ UNCHANGED <<config, home, todo, nouns, aliases, commands, result>>
  BY DEF R!SetModuleMeta
<1>2. /\ R!current.spec = SpecAt(at) /\ at \in 1..Total /\ Total \in Nat /\ Own \in Nat
      /\ SpecAt(at) \in Specs /\ k \in Nat \ {0}
  BY <1>0, <1>1, Here, SpecsOf, OwnSpecs DEF Lined
<1>3. Lined' /\ at' = at
  BY <1>0, <1>1, StaysIn
<1>4. /\ Total' = Total /\ \A i : SpecAt(i)' = SpecAt(i)
      /\ \A i, m : NounOf(i, m)' = NounOf(i, m) /\ CommandOf(i, m)' = CommandOf(i, m)
      /\ \A h : R!Fit(h)' <=> R!Fit(h)
      /\ \A i : Claimed(i)' <=> Claimed(i)
  BY <1>1, SameSpecs
<1>5. /\ DOMAIN SpecAt(at).nouns = 1..Len(SpecAt(at).nouns) /\ Len(SpecAt(at).nouns) \in Nat
      /\ DOMAIN SpecAt(at).commands = 1..Len(SpecAt(at).commands) /\ Len(SpecAt(at).commands) \in Nat
  BY <1>2, SpecFields
<1>6. /\ DOMAIN metas' = DOMAIN metas \cup {x} /\ metas'[x] = SpecAt(at).binary
  <2>1. metas' = [z \in DOMAIN metas \cup {x} |-> IF z = x THEN SpecAt(at).binary ELSE metas[z]]
    BY <1>1, <1>2 DEF R!With
  <2> HIDE DEF x
  <2> QED BY <2>1
<1> HIDE DEF Total, at, SpecAt, Own
<1>7. \A i, m : NounDone(i, m)' <=> NounDone(i, m)
  <2>1. \A m \in DOMAIN SpecAt(at).nouns : m < k
    BY <1>1, <1>2, <1>5
  <2> QED BY <1>1, <1>2, <1>3, <1>4, <2>1 DEF NounDone
<1>8. \A i, m : CommandDone(i, m)' <=> CommandDone(i, m)
  <2>1. \A m \in DOMAIN SpecAt(at).commands : ~(m < 1)
    BY <1>5
  <2> QED BY <1>1, <1>2, <1>3, <1>4, <2>1 DEF CommandDone
<1>9. \A i : MetaDone(i)' <=> MetaDone(i) \/ i = at
  BY <1>1, <1>2, <1>3, <1>4 DEF MetaDone
<1>10. NounsInv'
  BY <1>0, <1>1, <1>4, <1>7 DEF NounsInv
<1>11. FreeInv'
  BY <1>0, <1>1, <1>3, <1>4 DEF FreeInv
<1>12. CommandsInv'
  <2>1. \A y \in DOMAIN metas' : \E i : MetaDone(i)' /\ SpecAt(i).module = y
    BY <1>0, <1>6, <1>9 DEF CommandsInv
  <2>2. SpecAt(at).module \in DOMAIN metas' /\ metas'[SpecAt(at).module] = SpecAt(at).binary
    BY <1>6
  <2>3. \A p \in DOMAIN commands :
          /\ \E i, c : CommandDone(i, c)' /\ SpecAt(i).commands[c].kind = "ok" /\ commands[p] = CommandOf(i, c)
          /\ commands[p].module \in DOMAIN metas'
    BY <1>0, <1>6, <1>8 DEF CommandsInv
  <2> QED BY <1>0, <1>1, <1>3, <1>4, <2>1, <2>2, <2>3 DEF CommandsInv
<1>13. NounsKept'
  <2>1. \A i : Enabled(SpecAt(i))' <=> Enabled(SpecAt(i))
    BY <1>1, <1>4 DEF Enabled, R!IsModuleEnabled
  <2> QED BY <1>0, <1>1, <1>4, <1>7, <2>1 DEF NounsKept, Own
<1>14. CommandsKept'
  <2>1. \A q : OwnCommand(q)' <=> OwnCommand(q)
    BY <1>1, <1>4 DEF OwnCommand, Own
  <2> QED BY <1>0, <1>1, <1>4, <1>8, <2>1 DEF CommandsKept, Own
<1>15. ResultInv'
  BY <1>0, <1>1, <1>3, <1>4 DEF ResultInv, Own
<1> QED BY <1>3, <1>10, <1>11, <1>12, <1>13, <1>14, <1>15 DEF RegistryInv

\* A command of a fit spec is nobody's yet.
LEMMA FitRegisters ==
  ASSUME RegistryInv, NEW h \in DOMAIN home, R!Fit(h), at = Own + h, part = "commands",
         k \in DOMAIN home[h].spec.commands
  PROVE  R!CanRegisterCommand(home[h].spec.commands[k])
<1> DEFINE s == home[h].spec
<1>0. Lined /\ CommandsInv
  BY DEF RegistryInv
<1>1. R!IsSound(s) /\ \A i \in 1..Total : i # Own + h => R!Apart(s, SpecAt(i))
  BY <1>0, FitFacts
<1>2. s \in Specs /\ SpecAt(at) = s /\ k \in DOMAIN s.commands
  BY <1>0, SpecsOf
<1>3. DOMAIN s.commands = 1..Len(s.commands) /\ Len(s.commands) \in Nat
  BY <1>2, SpecFields
<1>4. s.commands[k].kind = "ok"
  BY <1>1, <1>2 DEF R!IsSound
<1>5. ASSUME NEW p \in DOMAIN commands, commands[p].verb = s.commands[k].verb, commands[p].noun = s.commands[k].noun
      PROVE  FALSE
  <2>1. PICK i, d : CommandDone(i, d) /\ SpecAt(i).commands[d].kind = "ok" /\ commands[p] = CommandOf(i, d)
    BY <1>0 DEF CommandsInv
  <2>2. i \in 1..Total /\ d \in DOMAIN SpecAt(i).commands /\ (i # at \/ d < k)
    <3>1. i \in 1..Total /\ d \in DOMAIN SpecAt(i).commands /\ (i < at \/ (i = at /\ d < k))
      BY <2>1 DEF CommandDone
    <3>2. at \in 1..Total /\ Total \in Nat
      BY <1>0, SpecsOf
    <3> HIDE DEF at, Total
    <3> QED BY <3>1, <3>2
  <2>3. SpecAt(i).commands[d].verb = s.commands[k].verb /\ SpecAt(i).commands[d].noun = s.commands[k].noun
    BY <1>5, <2>1 DEF CommandOf
  <2> HIDE DEF s, at, Own, Total
  <2>4. CASE i # at
    <3>1. R!Apart(s, SpecAt(i))
      BY <1>1, <2>2, <2>4
    <3>2. "ok" # "nil"
      OBVIOUS
    <3>3. <<s.commands[k].verb, s.commands[k].noun>> \in R!AllCommands(s)
      BY <1>2, <1>4, <3>2 DEF R!AllCommands
    <3>4. <<SpecAt(i).commands[d].verb, SpecAt(i).commands[d].noun>> \in R!AllCommands(SpecAt(i))
      BY <2>1, <2>2, <3>2 DEF R!AllCommands
    <3> QED BY <2>3, <3>1, <3>3, <3>4 DEF R!Apart
  <2>5. CASE i = at /\ d < k
    <3>1. d \in DOMAIN s.commands /\ d # k
      BY <1>2, <1>3, <2>2, <2>5
    <3>2. s.commands[d] # s.commands[k] /\ s.commands[d].kind = "ok"
      BY <1>1, <1>2, <3>1 DEF R!IsSound
    <3>3. \A c \in DOMAIN s.commands : s.commands[c] \in [verb : STRING, noun : STRING, kind : {"ok", "bad", "dev", "nil"}]
      BY <1>2, SpecFields
    <3>4. ASSUME NEW c \in [verb : STRING, noun : STRING, kind : {"ok", "bad", "dev", "nil"}],
                 NEW e \in [verb : STRING, noun : STRING, kind : {"ok", "bad", "dev", "nil"}],
                 c.verb = e.verb, c.noun = e.noun, c.kind = e.kind
          PROVE  c = e
      BY <3>4
    <3> QED BY <1>2, <1>4, <2>3, <2>5, <3>1, <3>2, <3>3, <3>4
  <2> QED BY <2>2, <2>4, <2>5
<1>6. ~R!IsRegistered(s.commands[k])
  BY <1>5 DEF R!IsRegistered
<1> QED BY <1>4, <1>6 DEF R!CanRegisterCommand

\* A command is added at the end, so that those of the binary stay before all others.
LEMMA CommandKeeps ==
  ASSUME RegistryInv, R!RegisterCommand
  PROVE  RegistryInv'
<1> DEFINE c == SpecAt(at).commands[k]
<1>0. Lined /\ NounsInv /\ FreeInv /\ CommandsInv /\ NounsKept /\ CommandsKept /\ ResultInv
  BY DEF RegistryInv
<1>1. /\ todo # <<>> /\ part = "commands" /\ k \in DOMAIN R!current.spec.commands
      /\ UNCHANGED <<config, home, nouns, aliases, metas>>
      /\ \/ R!current.spec.commands[k].kind = "dev" /\ k' = k + 1 /\ UNCHANGED <<todo, part, result, commands>>
         \/ /\ R!CanRegisterCommand(R!current.spec.commands[k])
            /\ commands' = Append(commands, [verb |-> R!current.spec.commands[k].verb, noun |-> R!current.spec.commands[k].noun,
                                             module |-> R!current.spec.module,
                                             external |-> R!IsPluginModule(R!current.spec.module)])
            /\ k' = k + 1 /\ UNCHANGED <<todo, part, result>>
         \/ /\ R!current.spec.commands[k].kind # "dev" /\ ~R!CanRegisterCommand(R!current.spec.commands[k])
            /\ ~R!current.trusted /\ R!Done("broken") /\ UNCHANGED commands
  BY Zenon DEF R!RegisterCommand, R!GiveUp
<1>2. /\ R!current.spec = SpecAt(at) /\ R!current.trusted = (at \in 1..Own) /\ at \in 1..Total /\ Total \in Nat
      /\ Own \in Nat /\ SpecAt(at) \in Specs /\ k \in DOMAIN SpecAt(at).commands /\ k \in Nat \ {0}
  BY <1>0, <1>1, Here, SpecsOf, OwnSpecs DEF Lined
<1>3. at \notin 1..Own => at - Own \in DOMAIN home /\ SpecAt(at) = home[at - Own].spec /\ at = Own + (at - Own)
  <2>1. at \notin 1..Own => at - Own \in DOMAIN home /\ SpecAt(at) = home[at - Own].spec
    BY <1>0, <1>1, Here
  <2> HIDE DEF at, Own
  <2> QED BY <1>2, <2>1
<1>4. CASE ~R!CanRegisterCommand(c) /\ ~R!current.trusted /\ R!Done("broken") /\ UNCHANGED commands
  <2>1. ~R!Fit(at - Own)
    BY <1>1, <1>2, <1>3, <1>4, FitRegisters
  <2>2. ~Claimed(at)
    BY <1>2, <1>4, <2>1 DEF Claimed
  <2> QED BY <1>1, <1>4, <2>2, ClosesSpec
<1>5. ASSUME k' = k + 1, UNCHANGED <<todo, part, result>>,
             \/ c.kind # "ok" /\ commands' = commands
             \/ R!CanRegisterCommand(c) /\ commands' = Append(commands, CommandOf(at, k))
      PROVE  RegistryInv'
  <2>1. Lined' /\ at' = at
    BY <1>0, <1>1, <1>2, <1>5, StaysIn
  <2>2. /\ Total' = Total /\ \A i : SpecAt(i)' = SpecAt(i)
        /\ \A i, m : NounOf(i, m)' = NounOf(i, m) /\ CommandOf(i, m)' = CommandOf(i, m)
        /\ \A h : R!Fit(h)' <=> R!Fit(h)
        /\ \A i : Claimed(i)' <=> Claimed(i)
    BY <1>1, SameSpecs
  <2>3. DOMAIN SpecAt(at).commands = 1..Len(SpecAt(at).commands) /\ Len(SpecAt(at).commands) \in Nat
    BY <1>2, SpecFields
  <2>4. CommandOf(at, k) \in [verb : STRING, noun : STRING, module : STRING, external : BOOLEAN]
    <3>1. c \in [verb : STRING, noun : STRING, kind : {"ok", "bad", "dev", "nil"}] /\ SpecAt(at).module \in STRING
          /\ SpecAt(at).binary \in BOOLEAN
      BY <1>2, SpecFields
    <3> QED BY <3>1 DEF CommandOf
  <2>5. /\ commands \in Seq([verb : STRING, noun : STRING, module : STRING, external : BOOLEAN])
        /\ \A p, q \in DOMAIN commands : commands[p].verb = commands[q].verb /\ commands[p].noun = commands[q].noun => p = q
    BY <1>0 DEF CommandsInv
  <2>6. DOMAIN commands = 1..Len(commands) /\ Len(commands) \in Nat
    BY <2>5
  <2> HIDE DEF Total, at, SpecAt, c, Own
  <2>7. \A i, d : CommandDone(i, d)' <=> CommandDone(i, d) \/ (i = at /\ d = k)
    <3>1. \A d \in DOMAIN SpecAt(at).commands : d < k + 1 <=> d < k \/ d = k
      BY <1>2, <2>3
    <3>2. /\ part' = "commands" /\ k' = k + 1 /\ part = "commands"
      BY <1>1, <1>5
    <3> QED BY <1>2, <2>1, <2>2, <3>1, <3>2 DEF CommandDone
  <2>8. \A i, m : NounDone(i, m)' <=> NounDone(i, m)
    BY <1>1, <1>2, <1>5, <2>1, <2>2 DEF NounDone
  <2>9. \A i : MetaDone(i)' <=> MetaDone(i)
    BY <1>1, <1>2, <1>5, <2>1, <2>2 DEF MetaDone
  <2>10. /\ commands' \in Seq([verb : STRING, noun : STRING, module : STRING, external : BOOLEAN])
         /\ DOMAIN commands \subseteq DOMAIN commands' /\ \A p \in DOMAIN commands : commands'[p] = commands[p]
         /\ \A p \in DOMAIN commands' \ DOMAIN commands :
              commands'[p] = CommandOf(at, k) /\ p = Len(commands) + 1 /\ c.kind = "ok" /\ ~R!IsRegistered(c)
         /\ c.kind = "ok" => Len(commands) + 1 \in DOMAIN commands'
    <3>1. CASE c.kind # "ok" /\ commands' = commands
      BY <2>5, <3>1
    <3>2. CASE R!CanRegisterCommand(c) /\ commands' = Append(commands, CommandOf(at, k))
      <4>1. c.kind = "ok" /\ ~R!IsRegistered(c)
        BY <3>2 DEF R!CanRegisterCommand
      <4> DEFINE new == CommandOf(at, k)
      <4>2. commands' = Append(commands, new) /\ new \in [verb : STRING, noun : STRING, module : STRING, external : BOOLEAN]
        BY <2>4, <3>2
      <4> HIDE DEF new
      <4>3. /\ commands' \in Seq([verb : STRING, noun : STRING, module : STRING, external : BOOLEAN])
            /\ DOMAIN commands' = 1..(Len(commands) + 1)
            /\ \A p \in 1..Len(commands) : commands'[p] = commands[p]
            /\ commands'[Len(commands) + 1] = new
        BY <2>5, <2>6, <4>2
      <4>4. DOMAIN commands' \ DOMAIN commands = {Len(commands) + 1} /\ DOMAIN commands \subseteq DOMAIN commands'
        BY <2>6, <4>3
      <4> QED BY <2>6, <4>1, <4>3, <4>4 DEF new
    <3> QED BY <1>5, <3>1, <3>2
  <2>11. NounsInv'
    BY <1>0, <1>1, <2>2, <2>8 DEF NounsInv
  <2>12. FreeInv'
    BY <1>0, <1>1, <1>5, <2>1, <2>2 DEF FreeInv
  <2>13. CommandsInv'
    <3>1. \A p \in DOMAIN commands :
            /\ \E i, d : CommandDone(i, d) /\ SpecAt(i).commands[d].kind = "ok" /\ commands[p] = CommandOf(i, d)
            /\ commands[p].module \in DOMAIN metas
      BY <1>0 DEF CommandsInv
    <3>2. CommandOf(at, k).module \in DOMAIN metas
      BY <1>0, <1>1 DEF CommandsInv, CommandOf
    <3>3. \A p \in DOMAIN commands' :
            /\ \E i, d : CommandDone(i, d)' /\ SpecAt(i).commands[d].kind = "ok" /\ commands'[p] = CommandOf(i, d)
            /\ commands'[p].module \in DOMAIN metas
      <4> SUFFICES ASSUME NEW p \in DOMAIN commands'
                   PROVE  /\ \E i, d : CommandDone(i, d)' /\ SpecAt(i).commands[d].kind = "ok" /\ commands'[p] = CommandOf(i, d)
                          /\ commands'[p].module \in DOMAIN metas
        OBVIOUS
      <4>1. CASE p \in DOMAIN commands
        BY <2>7, <2>10, <3>1, <4>1
      <4>2. CASE p \notin DOMAIN commands
        <5>1. \E i, d : i = at /\ d = k /\ CommandDone(i, d)'
          BY <2>7
        <5> QED BY <2>10, <3>2, <4>2, <5>1 DEF c
      <4> QED BY <4>1, <4>2
    <3>4. ASSUME NEW p \in DOMAIN commands', NEW q \in DOMAIN commands',
                 commands'[p].verb = commands'[q].verb, commands'[p].noun = commands'[q].noun
          PROVE  p = q
      <4>1. \A r \in DOMAIN commands : ~(commands[r].verb = c.verb /\ commands[r].noun = c.noun) \/ R!IsRegistered(c)
        BY DEF R!IsRegistered
      <4>2. CommandOf(at, k).verb = c.verb /\ CommandOf(at, k).noun = c.noun
        BY DEF CommandOf, c
      <4> QED BY <2>5, <2>10, <3>4, <4>1, <4>2
    <3>5. \A x \in DOMAIN metas : \E i : MetaDone(i)' /\ SpecAt(i).module = x
      BY <1>0, <2>9 DEF CommandsInv
    <3>6. SpecAt(at).module \in DOMAIN metas /\ metas[SpecAt(at).module] = SpecAt(at).binary
      BY <1>0, <1>1 DEF CommandsInv
    <3> QED BY <1>1, <2>1, <2>2, <2>10, <3>3, <3>4, <3>5, <3>6 DEF CommandsInv
  <2>14. NounsKept'
    <3>1. \A i : Enabled(SpecAt(i))' <=> Enabled(SpecAt(i))
      BY <1>1, <2>2 DEF Enabled, R!IsModuleEnabled
    <3> QED BY <1>0, <1>1, <2>2, <2>8, <3>1 DEF NounsKept, Own
  <2>15. CommandsKept'
    <3>1. \A q \in DOMAIN commands : OwnCommand(q) => OwnCommand(q)'
      <4>1. ASSUME NEW q \in DOMAIN commands, OwnCommand(q) PROVE OwnCommand(q)'
        <5>1. PICK j, d : j \in 1..Own /\ d \in DOMAIN SpecAt(j).commands /\ commands[q] = CommandOf(j, d)
          BY <4>1 DEF OwnCommand
        <5>2. commands'[q] = CommandOf(j, d)
          BY <2>10, <5>1
        <5>3. \E j1, d1 : j1 \in 1..Own /\ d1 \in DOMAIN SpecAt(j1).commands /\ commands'[q] = CommandOf(j1, d1)
          BY <5>1, <5>2
        <5> QED BY <2>2, <5>3 DEF OwnCommand, Own
      <4> QED BY <4>1
    <3> SUFFICES ASSUME NEW i, NEW d, CommandDone(i, d)', Claimed(i), SpecAt(i).commands[d].kind = "ok"
                 PROVE  \E p \in DOMAIN commands' : /\ commands'[p] = CommandOf(i, d)
                                                    /\ i \in 1..Own => \A q \in 1..p : OwnCommand(q)'
      BY <2>2 DEF CommandsKept, Own
    <3>2. CASE CommandDone(i, d)
      <4>1. PICK p \in DOMAIN commands : /\ commands[p] = CommandOf(i, d)
                                         /\ i \in 1..Own => \A q \in 1..p : OwnCommand(q)
        BY <1>0, <3>2 DEF CommandsKept
      <4>2. \A q \in 1..p : q \in DOMAIN commands
        BY <2>6
      <4>3. commands'[p] = CommandOf(i, d) /\ p \in DOMAIN commands'
        BY <2>10, <4>1
      <4>4. i \in 1..Own => \A q \in 1..p : OwnCommand(q)'
        BY <3>1, <4>1, <4>2
      <4> QED BY <4>3, <4>4
    <3>3. CASE i = at /\ d = k
      <4> DEFINE new == Len(commands) + 1
      <4>1. c.kind = "ok"
        BY <3>3 DEF c
      <4>2. new \in DOMAIN commands' /\ new \notin DOMAIN commands
        BY <2>6, <2>10, <4>1
      <4>3. commands'[new] = CommandOf(i, d)
        BY <2>10, <3>3, <4>2
      <4>4. ASSUME i \in 1..Own, NEW q \in 1..new PROVE OwnCommand(q)'
        <5>1. CASE q \in DOMAIN commands
          <6>1. PICK j, e : CommandDone(j, e) /\ commands[q] = CommandOf(j, e)
            BY <1>0, <5>1 DEF CommandsInv
          <6>2. j \in 1..Total /\ e \in DOMAIN SpecAt(j).commands /\ (j < at \/ j = at)
            BY <6>1 DEF CommandDone
          <6>3. j \in 1..Own
            BY <1>2, <3>3, <4>4, <6>2
          <6>4. OwnCommand(q)
            BY <6>1, <6>2, <6>3 DEF OwnCommand
          <6> QED BY <3>1, <5>1, <6>4
        <5>2. CASE q \notin DOMAIN commands
          <6>1. q = new
            BY <2>6, <5>2
          <6>2. \E j1, d1 : j1 \in 1..Own /\ d1 \in DOMAIN SpecAt(j1).commands /\ commands'[q] = CommandOf(j1, d1)
            BY <1>2, <3>3, <4>3, <4>4, <6>1
          <6> QED BY <2>2, <6>2 DEF OwnCommand, Own
        <5> QED BY <5>1, <5>2
      <4> HIDE DEF new
      <4> QED BY <4>2, <4>3, <4>4
    <3> QED BY <2>7, <3>2, <3>3
  <2>16. ResultInv'
    BY <1>0, <1>1, <1>5, <2>1, <2>2 DEF ResultInv, Own
  <2> QED BY <2>1, <2>11, <2>12, <2>13, <2>14, <2>15, <2>16 DEF RegistryInv
<1>6. R!IsPluginModule(SpecAt(at).module) = SpecAt(at).binary
  <2>1. SpecAt(at).module \in DOMAIN metas /\ metas[SpecAt(at).module] = SpecAt(at).binary /\ SpecAt(at).binary \in BOOLEAN
    BY <1>0, <1>1, <1>2, SpecFields DEF CommandsInv
  <2> QED BY <2>1, Zenon DEF R!IsPluginModule
<1>7. CASE c.kind = "dev" /\ k' = k + 1 /\ UNCHANGED <<todo, part, result, commands>>
  BY <1>5, <1>7
<1>8. CASE /\ R!CanRegisterCommand(c) /\ k' = k + 1 /\ UNCHANGED <<todo, part, result>>
           /\ commands' = Append(commands, [verb |-> c.verb, noun |-> c.noun, module |-> SpecAt(at).module,
                                            external |-> R!IsPluginModule(SpecAt(at).module)])
  BY <1>5, <1>6, <1>8 DEF CommandOf
<1> QED BY <1>1, <1>2, <1>4, <1>7, <1>8

LEMMA EndKeeps ==
  ASSUME RegistryInv, R!EndSpec
  PROVE  RegistryInv'
<1>1. /\ todo # <<>> /\ part = "commands" /\ k \notin DOMAIN R!current.spec.commands /\ R!Done("loaded")
      /\ UNCHANGED <<config, home, nouns, aliases, commands, metas>>
  BY DEF R!EndSpec, R!registered
<1>2. R!current.spec = SpecAt(at)
  BY <1>1, Here DEF RegistryInv
<1> QED BY <1>1, <1>2, ClosesSpec

\* The line that the user types, and the nouns of plugins that are not there, change none of this.
LEMMA RestKeeps ==
  ASSUME RegistryInv, UNCHANGED <<config, home, todo, part, k, nouns, aliases, commands, metas, result>>
  PROVE  RegistryInv'
<1>0. Lined /\ NounsInv /\ FreeInv /\ CommandsInv /\ NounsKept /\ CommandsKept /\ ResultInv
  BY DEF RegistryInv
<1>1. /\ Total' = Total /\ at' = at /\ \A i : SpecAt(i)' = SpecAt(i)
      /\ \A i, m : NounOf(i, m)' = NounOf(i, m) /\ CommandOf(i, m)' = CommandOf(i, m)
      /\ \A h : R!Fit(h)' <=> R!Fit(h)
      /\ \A i : Claimed(i)' <=> Claimed(i)
  BY SameSpecs DEF at
<1>2. Lined'
  <2>1. \A i : Item(i)' = Item(i)
    BY DEF Item, SpecAt
  <2> QED BY <1>0, <1>1, <2>1 DEF Lined
<1> HIDE DEF Total, at, SpecAt, Own
<1>3. \A i, m : NounDone(i, m)' <=> NounDone(i, m)
  BY <1>1 DEF NounDone
<1>4. \A i, m : CommandDone(i, m)' <=> CommandDone(i, m)
  BY <1>1 DEF CommandDone
<1>5. \A i : MetaDone(i)' <=> MetaDone(i)
  BY <1>1 DEF MetaDone
<1>6. NounsInv' /\ FreeInv'
  <2>1. R!Taken' = R!Taken
    BY DEF R!Taken
  <2> QED BY <1>0, <1>1, <1>3, <2>1 DEF NounsInv, FreeInv
<1>7. CommandsInv'
  BY <1>0, <1>1, <1>4, <1>5 DEF CommandsInv
<1>8. NounsKept'
  <2>1. \A i : Enabled(SpecAt(i))' <=> Enabled(SpecAt(i))
    BY <1>1 DEF Enabled, R!IsModuleEnabled
  <2> QED BY <1>0, <1>1, <1>3, <2>1 DEF NounsKept, Own
<1>9. CommandsKept'
  <2>1. \A q : OwnCommand(q)' <=> OwnCommand(q)
    BY <1>1 DEF OwnCommand, Own
  <2> QED BY <1>0, <1>1, <1>4, <2>1 DEF CommandsKept, Own
<1>10. ResultInv'
  BY <1>0, <1>1 DEF ResultInv, Own
<1> QED BY <1>2, <1>6, <1>7, <1>8, <1>9, <1>10 DEF RegistryInv

LEMMA StepRegistry == RegistryInv /\ [R!Next]_(R!vars) => RegistryInv'
<1> SUFFICES ASSUME RegistryInv, [R!Next]_(R!vars) PROVE RegistryInv'
  OBVIOUS
<1>1. CASE R!RecordPluginNouns
  BY <1>1, RestKeeps DEF R!RecordPluginNouns, R!registered
<1>2. CASE R!Execute
  BY <1>2, RestKeeps DEF R!Execute, R!registered
<1>3. CASE UNCHANGED R!vars
  BY <1>3, RestKeeps DEF R!vars, R!registered
<1> QED BY <1>1, <1>2, <1>3, SkipKeeps, OpenKeeps, NounKeeps, MetaKeeps, CommandKeeps, EndKeeps, Zenon DEF R!Next

-----------------------------------------------------------------------------
LEMMA InitRegistry == R!Init => RegistryInv
<1> SUFFICES ASSUME R!Init PROVE RegistryInv
  OBVIOUS
<1> DEFINE A == [i \in DOMAIN Embedded |-> [state |-> "ok", spec |-> Embedded[i], trusted |-> TRUE]]
           B == [i \in DOMAIN home |-> [state |-> home[i].state, spec |-> home[i].spec, trusted |-> FALSE]]
<1>1. /\ home \in UNION {[1..n -> Homes] : n \in 0..MaxHomes}
      /\ \A i, j \in DOMAIN home : i < j => R!Position(home[i].spec.module) < R!Position(home[j].spec.module)
      /\ todo = A \o B /\ part = "file" /\ k = 1 /\ nouns = R!none /\ aliases = R!none /\ commands = <<>>
      /\ metas = R!none /\ result = R!none
  BY DEF R!Init
<1>2. PICK n \in Nat : home \in [1..n -> Homes]
  <2>1. MaxHomes \in Nat
    BY SpecAssumption
  <2>2. \E n \in 0..MaxHomes : home \in [1..n -> Homes]
    BY <1>1
  <2>3. 0..MaxHomes \subseteq Nat
    BY <2>1
  <2> QED BY <2>2, <2>3
<1>3. home \in Seq(Homes) /\ Len(home) = n /\ DOMAIN home = 1..n
  BY <1>2
<1>4. Own \in Nat /\ DOMAIN Embedded = 1..Own /\ Total = Own + n
  BY <1>3, OwnSpecs DEF Total
<1>5. \A i, j \in DOMAIN home : i # j => home[i].spec.module # home[j].spec.module
  <2> SUFFICES ASSUME NEW i \in DOMAIN home, NEW j \in DOMAIN home, i < j
               PROVE  home[i].spec.module # home[j].spec.module
    <3>1. \A i, j \in DOMAIN home : i # j => i < j \/ j < i
      BY <1>3
    <3> QED BY <3>1
  <2>1. R!Position(home[i].spec.module) < R!Position(home[j].spec.module)
    BY <1>1
  <2>2. R!Position(home[i].spec.module) \in Nat
    <3>1. home[i] \in Homes
      BY <1>2, <1>3
    <3>2. \E l \in DOMAIN Sorted : Sorted[l] = home[i].spec.module
      BY <3>1, SpecAssumption
    <3>3. R!Position(home[i].spec.module) \in DOMAIN Sorted
      BY <3>2, Zenon DEF R!Position
    <3>4. DOMAIN Sorted \subseteq Nat
      BY SpecAssumption
    <3> QED BY <3>3, <3>4
  <2>3. \A x \in Nat : ~(x < x)
    OBVIOUS
  <2> QED BY <2>1, <2>2, <2>3
<1> HIDE DEF Own, Total
<1>6. /\ A \in Seq({Item(i) : i \in 1..Total}) /\ Len(A) = Own /\ B \in Seq({Item(i) : i \in 1..Total}) /\ Len(B) = n
      /\ \A i \in 1..Own : A[i] = Item(i)
      /\ \A i \in 1..n : B[i] = Item(Own + i)
  <2>0. ASSUME NEW S, NEW m \in Nat, NEW f \in [1..m -> S] PROVE f \in Seq(S) /\ Len(f) = m
    OBVIOUS
  <2>1. ASSUME NEW i \in 1..Own PROVE A[i] = Item(i) /\ i \in 1..Total
    <3>1. i \in 1..Total
      BY <1>2, <1>4
    <3>2. Item(i) = [state |-> "ok", spec |-> Embedded[i], trusted |-> TRUE]
      BY Zenon DEF Item, SpecAt
    <3>3. A[i] = [state |-> "ok", spec |-> Embedded[i], trusted |-> TRUE]
      BY <1>4
    <3> QED BY <3>1, <3>2, <3>3
  <2>2. ASSUME NEW i \in 1..n PROVE B[i] = Item(Own + i) /\ Own + i \in 1..Total
    <3>1. Own + i \in 1..Total /\ Own + i \notin 1..Own /\ (Own + i) - Own = i
      BY <1>2, <1>4
    <3>2. Item(Own + i) = [state |-> home[i].state, spec |-> home[i].spec, trusted |-> FALSE]
      <4> DEFINE j == Own + i
      <4>1. j \notin 1..Own /\ j - Own = i
        BY <3>1
      <4> HIDE DEF j
      <4>2. Item(j) = [state |-> home[j - Own].state, spec |-> home[j - Own].spec, trusted |-> FALSE]
        <5>1. SpecAt(j) = home[j - Own].spec
          BY <4>1 DEF SpecAt
        <5>2. (IF j \in 1..Own THEN "ok" ELSE home[j - Own].state) = home[j - Own].state
          BY <4>1
        <5>3. (j \in 1..Own) = FALSE
          BY <4>1
        <5> QED BY <5>1, <5>2, <5>3, Zenon DEF Item
      <4> QED BY <4>1, <4>2 DEF j
    <3>3. B[i] = [state |-> home[i].state, spec |-> home[i].spec, trusted |-> FALSE]
      BY <1>3
    <3> QED BY <3>1, <3>2, <3>3
  <2>3. A \in [1..Own -> {Item(i) : i \in 1..Total}]
    BY <1>4, <2>1
  <2>4. B \in [1..n -> {Item(i) : i \in 1..Total}]
    BY <1>3, <2>2
  <2> HIDE DEF A, B
  <2>5. /\ A \in Seq({Item(i) : i \in 1..Total}) /\ Len(A) = Own
        /\ B \in Seq({Item(i) : i \in 1..Total}) /\ Len(B) = n
    <3> DEFINE S == {Item(i) : i \in 1..Total}
    <3>1. A \in [1..Own -> S] /\ B \in [1..n -> S]
      BY <2>3, <2>4
    <3> HIDE DEF S
    <3>2. /\ A \in Seq(S) /\ Len(A) = Own /\ B \in Seq(S) /\ Len(B) = n
      BY <1>2, <1>4, <2>0, <3>1
    <3> QED BY <3>2 DEF S
  <2> QED BY <2>1, <2>2, <2>5
<1> HIDE DEF A, B
<1>7. todo \in Seq({Item(i) : i \in 1..Total}) /\ Len(todo) = Total /\ at = 1
  <2>1. todo \in Seq({Item(i) : i \in 1..Total}) /\ Len(todo) = Own + n
    <3> DEFINE S == {Item(i) : i \in 1..Total}
    <3>1. A \in Seq(S) /\ B \in Seq(S)
      BY <1>6
    <3> HIDE DEF S
    <3>2. todo \in Seq(S) /\ Len(todo) = Len(A) + Len(B)
      BY <1>1, <3>1, ConcatProperties
    <3> QED BY <1>6, <3>2 DEF S
  <2> QED BY <1>2, <1>4, <2>1 DEF at
<1>8. ASSUME NEW i \in DOMAIN todo PROVE todo[i] = Item(at - 1 + i)
  <2>1. i \in 1..(Own + n) /\ at - 1 + i = i
    BY <1>2, <1>4, <1>7, <1>8
  <2>2. CASE i \in 1..Own
    <3>1. todo[i] = A[i]
      BY <1>1, <1>2, <1>4, <1>6, <2>2, ConcatProperties
    <3> QED BY <1>6, <2>1, <2>2, <3>1
  <2>3. CASE i \notin 1..Own
    <3>1. i - Own \in 1..n /\ Own + (i - Own) = i
      BY <1>2, <1>4, <2>1, <2>3
    <3>2. todo[i] = B[i - Own]
      BY <1>1, <1>2, <1>4, <1>6, <2>1, <2>3, ConcatProperties
    <3> QED BY <1>6, <2>1, <3>1, <3>2
  <2> QED BY <2>2, <2>3
<1>9. Lined
  BY <1>1, <1>2, <1>3, <1>4, <1>5, <1>7, <1>8 DEF Lined
<1>10. DOMAIN R!none = {} /\ Total \in Nat
  BY <1>2, <1>4 DEF R!none
<1>11. NounsInv /\ FreeInv
  BY <1>1, <1>10 DEF NounsInv, FreeInv
<1>12. CommandsInv
  BY <1>1, <1>10 DEF CommandsInv
<1>13. \A i, m : ~NounDone(i, m) /\ ~CommandDone(i, m)
  BY <1>1, <1>7, <1>10 DEF NounDone, CommandDone
<1>14. NounsKept /\ CommandsKept
  BY <1>13 DEF NounsKept, CommandsKept
<1>15. ResultInv
  <2>1. \A h \in DOMAIN home : ~(Own + h < at)
    BY <1>2, <1>3, <1>4, <1>7
  <2> QED BY <1>1, <1>10, <2>1 DEF ResultInv
<1> QED BY <1>9, <1>11, <1>12, <1>14, <1>15 DEF RegistryInv

-----------------------------------------------------------------------------
\* At the end all specs are behind.
LEMMA AllDone ==
  ASSUME Lined, todo = <<>>
  PROVE  at = Total + 1 /\ (\A i \in 1..Total : i < at) /\ Total \in Nat
<1>1. Total \in Nat /\ Len(todo) = 0
  BY SpecsOf
<1> HIDE DEF Total
<1> QED BY <1>1 DEF at

\* The answer is of the first command that matches.
LEMMA AnswerIs ==
  ASSUME CommandsInv, NEW v, NEW n, NEW p \in R!Matches(v, n), \A q \in R!Matches(v, n) : p <= q
  PROVE  R!Answer(v, n) = <<IF commands[p].external THEN "plugin" ELSE "builtin", commands[p].module, commands[p].noun>>
<1> DEFINE M == R!Matches(v, n)
           first == CHOOSE i \in M : \A j \in M : i <= j
<1>1. M \subseteq Nat /\ M # {}
  <2>1. commands \in Seq([verb : STRING, noun : STRING, module : STRING, external : BOOLEAN])
    BY DEF CommandsInv
  <2>2. DOMAIN commands \subseteq Nat
    BY <2>1
  <2> QED BY <2>2 DEF R!Matches
<1>2. p \in M /\ \A q \in M : p <= q
  OBVIOUS
<1> HIDE DEF M
<1>3. first \in M /\ \A j \in M : first <= j
  BY <1>2, Zenon
<1>4. first = p
  <2>1. first <= p /\ p <= first /\ first \in Nat /\ p \in Nat
    BY <1>1, <1>2, <1>3
  <2> HIDE DEF first
  <2> QED BY <2>1
<1> QED BY <1>1, <1>4, Zenon DEF R!Answer, M, first

\* The names of a noun of the binary are its own.
LEMMA OwnNames ==
  ASSUME Lined, NounsInv, NounsKept, NEW i \in 1..Own, NEW m \in DOMAIN SpecAt(i).nouns, NounDone(i, m), Enabled(SpecAt(i))
  PROVE  LET nd == SpecAt(i).nouns[m] IN
         /\ nd.noun \in DOMAIN nouns /\ nouns[nd.noun] = NounOf(i, m) /\ nd.noun \notin DOMAIN aliases
         /\ \A a \in nd.aliases : a \in DOMAIN aliases /\ aliases[a] = nd.noun /\ a \notin DOMAIN nouns
<1> DEFINE nd == SpecAt(i).nouns[m]
<1>1. nd.noun \in DOMAIN nouns /\ nouns[nd.noun] = NounOf(i, m)
  BY DEF NounsKept
<1>2. nouns[nd.noun].aliases = nd.aliases
  BY <1>1 DEF NounOf
<1> HIDE DEF nd
<1>3. /\ \A a \in nouns[nd.noun].aliases : a \in DOMAIN aliases /\ aliases[a] = nd.noun
      /\ DOMAIN nouns \cap DOMAIN aliases = {}
  BY <1>1 DEF NounsInv
<1> QED BY <1>1, <1>2, <1>3 DEF nd

\* What a command is found by: its noun, or an alias of it, which is no other noun's.
LEMMA FoundBy ==
  ASSUME NounsInv, NEW p \in DOMAIN commands, NEW n \in R!NamesOf(commands[p].noun)
  PROVE  \/ n = commands[p].noun
         \/ n \in DOMAIN aliases /\ aliases[n] = commands[p].noun /\ commands[p].noun \in DOMAIN nouns
              /\ n \in nouns[commands[p].noun].aliases
  BY DEF R!NamesOf, NounsInv

LEMMA EmbeddedAnswers ==
  ASSUME RegistryInv, todo = <<>>, NEW i \in 1..Own, Enabled(SpecAt(i)),
         NEW e \in DOMAIN SpecAt(i).commands, NEW m \in DOMAIN SpecAt(i).nouns, SpecAt(i).commands[e].kind = "ok",
         SpecAt(i).commands[e].noun = SpecAt(i).nouns[m].noun, NEW n \in R!Names(SpecAt(i).nouns[m])
  PROVE  R!Answer(SpecAt(i).commands[e].verb, n) = <<"builtin", SpecAt(i).module, SpecAt(i).commands[e].noun>>
<1> DEFINE c == SpecAt(i).commands[e]
           nd == SpecAt(i).nouns[m]
<1>0. Lined /\ NounsInv /\ FreeInv /\ CommandsInv /\ NounsKept /\ CommandsKept
  BY DEF RegistryInv
<1>1. /\ i \in 1..Total /\ SpecAt(i) = Embedded[i] /\ SpecAt(i).binary = FALSE
  <2>1. i \in 1..Total /\ SpecAt(i) = Embedded[i] /\ SpecAt(i) \in Specs
    BY <1>0, SpecsOf
  <2>2. ~SpecAt(i).binary
    BY <2>1, OwnSpecs
  <2>3. SpecAt(i).binary \in BOOLEAN
    BY <2>1, SpecFields
  <2> QED BY <2>1, <2>2, <2>3, Zenon
<1>2. i < at
  BY <1>0, <1>1, AllDone
<1> HIDE DEF at, Total, Own, SpecAt
<1>3. CommandDone(i, e) /\ NounDone(i, m)
  BY <1>1, <1>2 DEF CommandDone, NounDone
<1>4. Claimed(i)
  BY DEF Claimed
<1>5. PICK p \in DOMAIN commands : commands[p] = CommandOf(i, e) /\ \A q \in 1..p : OwnCommand(q)
  BY <1>0, <1>3, <1>4 DEF CommandsKept
<1>6. commands[p].verb = c.verb /\ commands[p].noun = c.noun /\ commands[p].module = SpecAt(i).module
      /\ commands[p].external = FALSE
  BY <1>1, <1>5 DEF CommandOf
<1>7. /\ nd.noun \in DOMAIN nouns /\ nouns[nd.noun] = NounOf(i, m) /\ nd.noun \notin DOMAIN aliases
      /\ \A a \in nd.aliases : a \in DOMAIN aliases /\ aliases[a] = nd.noun /\ a \notin DOMAIN nouns
  BY <1>0, <1>3, OwnNames
<1>8. c.noun = nd.noun /\ (n = nd.noun \/ n \in nd.aliases)
  BY DEF R!Names
<1>9. p \in R!Matches(c.verb, n)
  <2>1. nouns[nd.noun].aliases = nd.aliases
    BY <1>7 DEF NounOf
  <2>2. n \in R!NamesOf(commands[p].noun)
    BY <1>6, <1>7, <1>8, <2>1, Zenon DEF R!NamesOf
  <2> QED BY <1>5, <1>6, <2>2 DEF R!Matches
<1>10. DOMAIN commands = 1..Len(commands) /\ Len(commands) \in Nat
       /\ \A q, r \in DOMAIN commands : commands[q].verb = commands[r].verb /\ commands[q].noun = commands[r].noun => q = r
  <2>1. commands \in Seq([verb : STRING, noun : STRING, module : STRING, external : BOOLEAN])
    BY <1>0 DEF CommandsInv
  <2> QED BY <1>0, <2>1 DEF CommandsInv
<1> HIDE DEF c, nd
<1>11. ASSUME NEW q \in R!Matches(c.verb, n), ~(p <= q) PROVE FALSE
  <2>1. q \in DOMAIN commands /\ commands[q].verb = c.verb /\ n \in R!NamesOf(commands[q].noun)
    BY <1>11 DEF R!Matches
  <2>2. q \in 1..p /\ q # p
    BY <1>5, <1>10, <1>11, <2>1
  <2>3. commands[q].noun # c.noun
    BY <1>5, <1>6, <1>10, <2>1, <2>2
  <2>4. \/ n = commands[q].noun
        \/ n \in DOMAIN aliases /\ aliases[n] = commands[q].noun
    BY <1>0, <2>1, FoundBy
  <2>5. n \in nd.aliases /\ n = commands[q].noun
    BY <1>7, <1>8, <2>3, <2>4
  <2>6. PICK j, d : j \in 1..Own /\ d \in DOMAIN SpecAt(j).commands /\ commands[q] = CommandOf(j, d)
    BY <1>5, <2>2 DEF OwnCommand
  <2>7. SpecAt(j).commands[d].verb = c.verb /\ SpecAt(j).commands[d].noun = n
    BY <2>1, <2>5, <2>6 DEF CommandOf
  <2>8. SpecAt(j) = Embedded[j] /\ SpecAt(i) = Embedded[i] /\ j \in DOMAIN Embedded /\ i \in DOMAIN Embedded
    BY <1>0, <2>6, SpecsOf, OwnSpecs
  <2>9. R!Shadowed(Embedded[j].commands[d], {Embedded[g] : g \in DOMAIN Embedded})
    <3> DEFINE ss == {Embedded[g] : g \in DOMAIN Embedded}
    <3>1. Embedded[i] \in ss
      BY <2>8
    <3> HIDE DEF ss
    <3>2. /\ e \in DOMAIN Embedded[i].commands /\ m \in DOMAIN Embedded[i].nouns
          /\ Embedded[i].commands[e].verb = Embedded[j].commands[d].verb
          /\ Embedded[i].commands[e].noun = Embedded[i].nouns[m].noun
          /\ Embedded[j].commands[d].noun \in Embedded[i].nouns[m].aliases
      BY <1>8, <2>5, <2>7, <2>8 DEF c, nd
    <3>3. R!Shadowed(Embedded[j].commands[d], ss)
      BY <3>1, <3>2, Zenon DEF R!Shadowed
    <3> QED BY <3>3 DEF ss
  <2>10. ~R!Shadowed(Embedded[j].commands[d], {Embedded[g] : g \in DOMAIN Embedded})
    BY <2>6, <2>8, OwnSpecs
  <2> QED BY <2>9, <2>10
<1>12. R!Answer(c.verb, n) = <<IF commands[p].external THEN "plugin" ELSE "builtin", commands[p].module, commands[p].noun>>
  BY <1>0, <1>9, <1>11, AnswerIs
<1>13. R!Answer(c.verb, n) = <<"builtin", SpecAt(i).module, c.noun>>
  BY <1>6, <1>12
<1> QED BY <1>13 DEF c

LEMMA FitAnswers ==
  ASSUME RegistryInv, todo = <<>>, NEW h \in DOMAIN home, R!Fit(h), NEW e \in DOMAIN home[h].spec.commands
  PROVE  R!Answer(home[h].spec.commands[e].verb, home[h].spec.commands[e].noun)
           = <<IF home[h].spec.binary THEN "plugin" ELSE "builtin", home[h].spec.module, home[h].spec.commands[e].noun>>
<1> DEFINE c == home[h].spec.commands[e]
           i == Own + h
<1>0. Lined /\ NounsInv /\ CommandsInv /\ CommandsKept
  BY DEF RegistryInv
<1>1. SpecAt(i) = home[h].spec /\ i \in 1..Total /\ i \notin 1..Own /\ i - Own = h
  <2>1. SpecAt(i) = home[h].spec /\ i \in 1..Total /\ i \notin 1..Own /\ Own \in Nat /\ h \in Nat
    BY <1>0, SpecsOf, OwnSpecs
  <2> HIDE DEF Own
  <2>2. i - Own = h
    BY <2>1
  <2> QED BY <2>1, <2>2
<1>2. i < at
  BY <1>0, <1>1, AllDone
<1>3. c.kind = "ok"
  BY <1>0, FitFacts DEF R!IsSound
<1>4. Claimed(i)
  BY <1>1 DEF Claimed
<1> HIDE DEF i, at, Total, Own, SpecAt
<1>5. CommandDone(i, e)
  BY <1>1, <1>2 DEF CommandDone
<1>6. PICK p \in DOMAIN commands : commands[p] = CommandOf(i, e)
  BY <1>0, <1>1, <1>3, <1>4, <1>5 DEF CommandsKept
<1>7. commands[p].verb = c.verb /\ commands[p].noun = c.noun /\ commands[p].module = home[h].spec.module
      /\ commands[p].external = home[h].spec.binary
  BY <1>1, <1>6 DEF CommandOf
<1>8. p \in R!Matches(c.verb, c.noun)
  BY <1>6, <1>7 DEF R!Matches, R!NamesOf
<1>9. /\ DOMAIN commands \subseteq Nat
      /\ \A q, r \in DOMAIN commands : commands[q].verb = commands[r].verb /\ commands[q].noun = commands[r].noun => q = r
  <2>1. commands \in Seq([verb : STRING, noun : STRING, module : STRING, external : BOOLEAN])
    BY <1>0 DEF CommandsInv
  <2>2. DOMAIN commands \subseteq Nat
    BY <2>1
  <2> QED BY <1>0, <2>2 DEF CommandsInv
<1> HIDE DEF c
<1>10. ASSUME NEW q \in R!Matches(c.verb, c.noun) PROVE q = p
  <2>1. q \in DOMAIN commands /\ commands[q].verb = c.verb /\ c.noun \in R!NamesOf(commands[q].noun)
    BY DEF R!Matches
  <2>2. CASE commands[q].noun = c.noun
    BY <1>6, <1>7, <1>9, <2>1, <2>2
  <2>3. CASE commands[q].noun \in DOMAIN nouns /\ c.noun \in nouns[commands[q].noun].aliases
    <3>1. PICK j, m : /\ NounDone(j, m) /\ SpecAt(j).nouns[m].noun = commands[q].noun
                      /\ nouns[commands[q].noun] = NounOf(j, m)
      BY <1>0, <2>3 DEF NounsInv
    <3>2. PICK g, d : CommandDone(g, d) /\ commands[q] = CommandOf(g, d)
      BY <1>0, <2>1 DEF CommandsInv
    <3>3. /\ j \in 1..Total /\ m \in DOMAIN SpecAt(j).nouns /\ g \in 1..Total /\ d \in DOMAIN SpecAt(g).commands
      BY <3>1, <3>2 DEF NounDone, CommandDone
    <3>4. c.noun \in SpecAt(j).nouns[m].aliases
      BY <2>3, <3>1 DEF NounOf
    <3>5. SpecAt(g).commands[d].verb = c.verb /\ SpecAt(g).commands[d].noun = SpecAt(j).nouns[m].noun
      BY <2>1, <3>1, <3>2 DEF CommandOf
    <3> QED BY <1>0, <3>3, <3>4, <3>5, FitFacts DEF c
  <2> QED BY <1>0, <2>1, <2>2, <2>3, FoundBy
<1>11. p <= p
  BY <1>6, <1>9
<1>12. R!Answer(c.verb, c.noun) = <<IF commands[p].external THEN "plugin" ELSE "builtin", commands[p].module, commands[p].noun>>
  BY <1>0, <1>8, <1>10, <1>11, AnswerIs
<1> QED BY <1>7, <1>12, Zenon DEF c

LEMMA RegistryHolds == RegistryInv => R!TypeOK /\ R!EmbeddedStand /\ R!SoundSpecsServe
<1> SUFFICES ASSUME RegistryInv PROVE R!TypeOK /\ R!EmbeddedStand /\ R!SoundSpecsServe
  OBVIOUS
<1>0. Lined /\ NounsInv /\ FreeInv /\ CommandsInv /\ NounsKept /\ CommandsKept /\ ResultInv
  BY DEF RegistryInv
<1>1. R!TypeOK
  <2>1. part \in {"file", "nouns", "commands"} /\ k \in Nat \ {0}
    BY <1>0 DEF Lined
  <2>2. /\ \A a \in DOMAIN aliases : aliases[a] \in DOMAIN nouns /\ a \in nouns[aliases[a]].aliases
        /\ \A n \in DOMAIN nouns : nouns[n].aliases \subseteq DOMAIN aliases
    BY <1>0 DEF NounsInv
  <2>3. \A i \in DOMAIN commands : commands[i].module \in DOMAIN metas
    BY <1>0 DEF CommandsInv
  <2>4. DOMAIN result \subseteq {home[i].spec.module : i \in DOMAIN home}
    BY <1>0 DEF ResultInv
  <2> QED BY <2>1, <2>2, <2>3, <2>4 DEF R!TypeOK
<1>2. ASSUME todo = <<>>, NEW i \in DOMAIN Embedded, Enabled(Embedded[i])
      PROVE  /\ \A n \in R!AllNames(Embedded[i]) \cap DOMAIN nouns : nouns[n].module = Embedded[i].module
             /\ \A c \in DOMAIN Embedded[i].commands, m \in DOMAIN Embedded[i].nouns :
                  (Embedded[i].commands[c].kind = "ok" /\ Embedded[i].commands[c].noun = Embedded[i].nouns[m].noun) =>
                    \A n \in R!Names(Embedded[i].nouns[m]) :
                      R!Answer(Embedded[i].commands[c].verb, n) = <<"builtin", Embedded[i].module, Embedded[i].commands[c].noun>>
  <2>1. i \in 1..Own /\ SpecAt(i) = Embedded[i] /\ i \in 1..Total /\ i < at
    BY <1>0, <1>2, OwnSpecs, SpecsOf, AllDone
  <2> HIDE DEF Own, Total, at, SpecAt
  <2>2. ASSUME NEW n \in R!AllNames(Embedded[i]), n \in DOMAIN nouns
        PROVE  nouns[n].module = Embedded[i].module
    <3>1. PICK m \in DOMAIN SpecAt(i).nouns : n \in R!Names(SpecAt(i).nouns[m])
      BY <2>1, <2>2, Zenon DEF R!AllNames
    <3>2. NounDone(i, m)
      BY <2>1 DEF NounDone
    <3>3. n = SpecAt(i).nouns[m].noun /\ nouns[n] = NounOf(i, m)
      BY <1>0, <1>2, <2>1, <2>2, <3>1, <3>2, OwnNames DEF R!Names
    <3> QED BY <2>1, <3>3 DEF NounOf
  <2>3. ASSUME NEW c \in DOMAIN Embedded[i].commands, NEW m \in DOMAIN Embedded[i].nouns,
               Embedded[i].commands[c].kind = "ok", Embedded[i].commands[c].noun = Embedded[i].nouns[m].noun,
               NEW n \in R!Names(Embedded[i].nouns[m])
        PROVE  R!Answer(Embedded[i].commands[c].verb, n) = <<"builtin", Embedded[i].module, Embedded[i].commands[c].noun>>
    BY <1>2, <2>1, <2>3, EmbeddedAnswers
  <2> QED BY <2>2, <2>3
<1>3. R!EmbeddedStand
  BY <1>2, Zenon DEF R!EmbeddedStand, R!Started, Enabled
<1>4. ASSUME todo = <<>>, NEW h \in DOMAIN home, R!Fit(h)
      PROVE  /\ result[home[h].spec.module] = "loaded"
             /\ \A c \in R!AllCommands(home[h].spec) :
                  R!Answer(c[1], c[2]) = <<IF home[h].spec.binary THEN "plugin" ELSE "builtin", home[h].spec.module, c[2]>>
  <2>1. Own + h < at
    BY <1>0, <1>4, SpecsOf, AllDone
  <2>2. result[home[h].spec.module] = "loaded"
    BY <1>0, <1>4, <2>1 DEF ResultInv
  <2>3. ASSUME NEW c \in R!AllCommands(home[h].spec)
        PROVE  R!Answer(c[1], c[2]) = <<IF home[h].spec.binary THEN "plugin" ELSE "builtin", home[h].spec.module, c[2]>>
    <3>1. PICK e \in DOMAIN home[h].spec.commands :
            c = <<home[h].spec.commands[e].verb, home[h].spec.commands[e].noun>>
      BY DEF R!AllCommands
    <3>2. c[1] = home[h].spec.commands[e].verb /\ c[2] = home[h].spec.commands[e].noun
      BY <3>1
    <3> QED BY <1>4, <3>2, FitAnswers
  <2> QED BY <2>2, <2>3
<1>5. R!SoundSpecsServe
  BY <1>4, Zenon DEF R!SoundSpecsServe, R!Started
<1> QED BY <1>1, <1>3, <1>5

-----------------------------------------------------------------------------
(* Both sides *)

\* The one that does not run stays as it is.
LEMMA PluginsInvariant == PluginsSpec => []RegistryInv
<1>1. PluginsInit => RegistryInv
  BY InitRegistry, Zenon DEF PluginsInit
<1>2. RegistryInv /\ [PluginsNext]_<<starts, vars, startVars>> => RegistryInv'
  <2> SUFFICES ASSUME RegistryInv, [PluginsNext]_<<starts, vars, startVars>> PROVE RegistryInv'
    OBVIOUS
  <2>1. R!Next \/ UNCHANGED startVars
    BY Zenon DEF PluginsNext
  <2>2. UNCHANGED startVars => UNCHANGED R!vars
    BY DEF startVars, R!vars, R!registered
  <2>3. [R!Next]_(R!vars)
    BY <2>1, <2>2, Zenon
  <2> QED BY <2>3, StepRegistry
<1> QED BY <1>1, <1>2, PTL DEF PluginsSpec

\* Whatever the files of the home directory hold, the commands of the binary answer by their nouns and by
\* each alias, and those of a sound plugin that shares no name answer by the plugin (loader.go:66-209).
THEOREM StartAlwaysServes == PluginsSpec => []StartServes
<1>1. RegistryInv => StartServes
  BY RegistryHolds DEF StartServes
<1> QED BY <1>1, PluginsInvariant, PTL
=============================================================================
