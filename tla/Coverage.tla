------------------------------- MODULE Coverage -------------------------------
(* Coverage reports become rows: each parser turns the counters of a line into
   a type, the reported path is resolved to a file of the repository, and the
   observations of one line are merged. Two programs do that with code of their
   own: the upload writes the rows of each report, the analysis counts lines
   over all reports and corrects its counts as it goes. Both read the same reports here.

   A path is a sequence of names; what the exclude patterns match is a set of files. *)
EXTENDS Integers, FiniteSets, SequencesExt

CONSTANTS
  Tracked,      \* the files that git knows
  Excluded,     \* those that the exclude patterns match
  Changed,      \* the lines of the diff: pairs of a file and a number
  GoModules,    \* [name |-> path, dir |-> path] of the go.mod files
  Manifests,    \* directories, below the root, of the project files nearest to the report
  Roots,        \* the layouts below which JaCoCo's classes may lie, in their order
  Observations, \* what parsers yield: [path, where, more, format, line, count], where "where" is
                \* "relative", "inside" or "outside" (an absolute path, of the repository or not), "up" (..)
  MaxSeen       \* bound on the observations of a behaviour

VARIABLES
  patch,    \* --patch: only lines of the diff, and no guess at a path
  git,      \* git lists the tracked files
  rows,     \* of the report that is read: (file, line) |-> [type, diff]
  errors,   \* paths of it could not be resolved
  sent,     \* the rows of each report that was uploaded
  lines,    \* of the analysis: (file, line) |-> [type, diff]
  stats,    \* file |-> [hit, partial, miss, patchHit, patchPartial, patchMiss]
  analysis, \* "open", "failed"
  seen      \* number of observations

vars == <<patch, git, rows, errors, sent, lines, stats, analysis, seen>>

none == <<>>

Init ==
  /\ patch \in BOOLEAN /\ git \in BOOLEAN
  /\ rows = none /\ errors = FALSE /\ sent = {}
  /\ lines = none /\ stats = none /\ analysis = "open" /\ seen = 0

-----------------------------------------------------------------------------
(* The type of a line, from the counters of each format. *)

TypeOfCount(n) == IF n > 0 THEN "hit" ELSE "miss"

(* The counts of all blocks that span the line. *)
GotxtLineType(counts) ==
  LET types == {TypeOfCount(n) : n \in counts}
  IN IF types = {"hit", "miss"} THEN "partial" ELSE CHOOSE t \in types : TRUE

CloverLineType(c) ==
  IF c.kind # "cond" THEN TypeOfCount(c.count)
  ELSE IF c.true = 0 /\ c.false = 0 THEN "miss"
  ELSE IF c.true = 0 \/ c.false = 0 THEN "partial" ELSE "hit"

CoberturaLineType(c) ==
  IF c.kind # "branch" THEN TypeOfCount(c.count)
  ELSE IF c.total = 0 \/ c.covered = 0 THEN "miss"
  ELSE IF c.covered = c.total THEN "hit" ELSE "partial"

(* Missed and covered instructions and branches; a line without any is not yielded. *)
JacocoLineType(c) ==
  IF c.mb > 0 \/ c.cb > 0
  THEN IF c.cb = 0 THEN "miss" ELSE IF c.mb = 0 THEN "hit" ELSE "partial"
  ELSE IF c.mi = 0 THEN "hit" ELSE IF c.ci = 0 THEN "miss" ELSE "partial"

LcovLineType(n) == TypeOfCount(n)
CoverallsLineType(n) == TypeOfCount(n)

LineType(o) ==
  CASE o.format = "go" -> GotxtLineType(o.count)
    [] o.format = "clover" -> CloverLineType(o.count)
    [] o.format = "cobertura" -> CoberturaLineType(o.count)
    [] o.format = "jacoco" -> JacocoLineType(o.count)
    [] o.format = "lcov" -> LcovLineType(o.count)
    [] o.format = "coveralls" -> CoverallsLineType(o.count)

(* A faulty merge, by which the first report wins. *)
MergeKeepsFirst(left, right) == left

(* coverageMergeLineType: any disagreement is partial. *)
MergeLineType(left, right) ==
  IF "partial" \in {left, right} \/ left # right THEN "partial" ELSE left

-----------------------------------------------------------------------------
(* The file of a reported path. *)

File(p) == [kind |-> "file", path |-> p]
Skip == [kind |-> "skip", path |-> none]
Ambiguous == [kind |-> "ambiguous", path |-> none]
Unresolved == [kind |-> "error", path |-> none]
NoMatch == [kind |-> "no match", path |-> none]

OneExactMatch(matches) ==
  IF matches = {} THEN NoMatch
  ELSE IF Cardinality(matches) = 1 THEN File(CHOOSE p \in matches : TRUE) ELSE Ambiguous

(* The trie of reversed paths: the tracked files that end with p. *)
PathsForSuffix(p) == {f \in Tracked : IsSuffix(p, f)}

(* The go module of the longest name. *)
MatchGoModule(p) ==
  LET Under(m) == m.dir \o SubSeq(p, Len(m.name) + 1, Len(p))
      fitting == {m \in GoModules : IsPrefix(m.name, p) /\ Under(m) \in Tracked}
      longest == {m \in fitting : \A n \in fitting : Len(n.name) <= Len(m.name)}
  IN OneExactMatch({Under(m) : m \in longest})

MatchManifestPrefixes(p) == OneExactMatch({d \o p : d \in Manifests} \cap Tracked)

(* A path that nothing resolves is stored as it is, unless --patch needs the file. *)
UnresolvedPath(p) == IF patch THEN Unresolved ELSE File(p)

(* What it is stored as: an absolute path outside the repository stays absolute, and is no path of the repository. *)
StoredUnresolvedPath(o) == IF o.where = "outside" THEN <<"/">> \o o.path ELSE o.path

(* A match by the name of the file alone is not taken. *)
UniqueSuffix(p) ==
  LET match == OneExactMatch(PathsForSuffix(p))
  IN IF match.kind = "no match" \/ (match.kind = "file" /\ Len(p) = 1) THEN UnresolvedPath(p) ELSE match

ResolvePath(o) ==
  LET p == o.path
      module == MatchGoModule(p)
      beside == MatchManifestPrefixes(p)
  IN IF ~git \/ o.where = "outside" THEN UnresolvedPath(StoredUnresolvedPath(o))
     ELSE IF p \in Tracked THEN File(p)
     ELSE IF o.where = "inside" THEN UnresolvedPath(p)
     ELSE IF module # NoMatch THEN module
     ELSE IF beside # NoMatch THEN beside
     ELSE IF o.format = "go" /\ Manifests # {} THEN UnresolvedPath(p)
     ELSE UniqueSuffix(p)

DropIfExcluded(choice) == IF choice.path \in Excluded THEN Skip ELSE choice

FinishChoice(choice) ==
  IF choice.kind = "ambiguous" THEN (IF patch THEN Unresolved ELSE Skip) ELSE DropIfExcluded(choice)

(* Candidates in their order: the first that is tracked and not excluded is taken. When there is none
   but an excluded one, the line is left out. *)
FirstTracked(candidates, otherwise) ==
  LET tracked == {i \in DOMAIN candidates : candidates[i] \in Tracked}
      kept == {i \in tracked : candidates[i] \notin Excluded}
  IN IF kept # {} THEN File(candidates[Min(kept)]) ELSE IF tracked # {} THEN Skip ELSE otherwise

(* Cobertura: the sources of the report. *)
SelectSourceCandidates(o) ==
  LET otherwise == FinishChoice(ResolvePath(o))
  IN IF git THEN FirstTracked(o.more, otherwise) ELSE otherwise

(* The only file of a path below a source root of JaCoCo, or the only one that is not excluded. *)
MatchSourceRoot(p) ==
  LET matches == PathsForSuffix(p)
      kept == matches \ Excluded
  IN IF p \in Tracked THEN DropIfExcluded(File(p))
     ELSE IF matches = {} THEN NoMatch
     ELSE IF kept = {} THEN Skip ELSE OneExactMatch(kept)

SelectNamedCandidates(o) ==
  LET first == FirstTracked(o.more, NoMatch)
      below == [i \in DOMAIN Roots |-> MatchSourceRoot(Roots[i] \o o.path)]
      decided == {i \in DOMAIN below : below[i].kind \in {"file", "ambiguous"}}
  IN IF ~git THEN DropIfExcluded(UnresolvedPath(o.path))
     ELSE IF first.kind = "file" THEN first
     ELSE IF decided # {} THEN FinishChoice(below[Min(decided)])
     ELSE IF Skip \in {first} \cup ToSet(below) THEN Skip ELSE FinishChoice(ResolvePath(o))

Select(o) ==
  IF o.where = "up" THEN (IF patch THEN Unresolved ELSE Skip)
  ELSE IF o.more # <<>> /\ o.format = "cobertura" THEN SelectSourceCandidates(o)
  ELSE IF o.more # <<>> THEN SelectNamedCandidates(o)
  ELSE FinishChoice(ResolvePath(o))

-----------------------------------------------------------------------------
(* Rows and counts. *)

Put(f, k, v) == [x \in DOMAIN f \cup {k} |-> IF x = k THEN v ELSE f[x]]

Merged(f, k, line) ==
  IF k \in DOMAIN f
  THEN Put(f, k, [type |-> MergeLineType(f[k].type, line.type), diff |-> f[k].diff \/ line.diff])
  ELSE Put(f, k, line)

(* The upload: one line of the report. *)
WriteRow(k, line) == rows' = IF patch /\ ~line.diff THEN rows ELSE Merged(rows, k, line)

Zero == [hit |-> 0, partial |-> 0, miss |-> 0, patchHit |-> 0, patchPartial |-> 0, patchMiss |-> 0]
PatchCounter == [hit |-> "patchHit", partial |-> "patchPartial", miss |-> "patchMiss"]

AdjustLineCounts(s, line, delta) ==
  [s EXCEPT ![line.type] = @ + delta, ![PatchCounter[line.type]] = IF line.diff THEN @ + delta ELSE @]

(* The analysis: what the line counted for before is taken back first. *)
Accumulate(k, line) ==
  LET s == IF k[1] \in DOMAIN stats THEN stats[k[1]] ELSE Zero
      known == k \in DOMAIN lines
      now == Merged(lines, k, line)[k]
  IN /\ lines' = Merged(lines, k, line)
     /\ stats' = Put(stats, k[1],
          IF known THEN AdjustLineCounts(AdjustLineCounts(s, lines[k], -1), now, 1)
          ELSE AdjustLineCounts(s, line, 1))

ReadLine(o) ==
  /\ analysis = "open" /\ seen < MaxSeen
  /\ seen' = seen + 1
  /\ LET choice == Select(o)
         k == <<choice.path, o.line>>
         line == [type |-> LineType(o), diff |-> k \in Changed]
     IN IF choice.kind = "file"
        THEN WriteRow(k, line) /\ Accumulate(k, line) /\ UNCHANGED errors
        ELSE errors' = (errors \/ choice.kind = "error") /\ UNCHANGED <<rows, lines, stats>>
  /\ UNCHANGED <<patch, git, sent, analysis>>

(* A report with a path that could not be resolved is not uploaded, and ends the analysis. *)
EndReport ==
  /\ analysis = "open" /\ seen > 0
  /\ sent' = IF errors THEN sent ELSE sent \cup {rows}
  /\ analysis' = IF errors THEN "failed" ELSE "open"
  /\ rows' = none /\ errors' = FALSE
  /\ UNCHANGED <<patch, git, lines, stats, seen>>

Next == (\E o \in Observations : ReadLine(o)) \/ EndReport

Spec == Init /\ [][Next]_vars

-----------------------------------------------------------------------------
Types == {"hit", "partial", "miss"}

TypeOK ==
  /\ {patch, git, errors} \subseteq BOOLEAN /\ seen \in 0..MaxSeen /\ analysis \in {"open", "failed"}
  /\ \A f \in sent \cup {rows, lines} : \A k \in DOMAIN f : f[k].type \in Types /\ f[k].diff \in BOOLEAN
  /\ \A p \in DOMAIN stats : \A c \in DOMAIN Zero : stats[p][c] \in 0..MaxSeen

(* The counts of the analysis, kept by adding and taking back, are those of its lines. *)
CountsMatchLines ==
  \A p \in DOMAIN stats, t \in Types :
    LET counted == {k \in DOMAIN lines : k[1] = p /\ lines[k].type = t}
    IN /\ stats[p][t] = Cardinality(counted)
       /\ stats[p][PatchCounter[t]] = Cardinality({k \in counted : lines[k].diff})

(* Whatever the order and the split into reports: what the uploaded rows and those that are read
   say of a line together is what the analysis says of it, of the lines of the diff under --patch. *)
UploadAgreesWithAnalysis ==
  LET all == sent \cup {rows}
      Said(k) == {f[k].type : f \in {g \in all : k \in DOMAIN g}}
      reported == {k \in DOMAIN lines : patch => lines[k].diff}
  IN analysis = "open" /\ ~errors =>
       /\ UNION {DOMAIN f : f \in all} = reported
       /\ \A k \in reported : lines[k].type = IF Cardinality(Said(k)) = 1 THEN CHOOSE t \in Said(k) : TRUE ELSE "partial"

(* No row is of an excluded file; under --patch every row is of a tracked file and of the diff. *)
RowsBelong ==
  \A f \in sent \cup {rows} : \A k \in DOMAIN f :
    /\ k[1] \notin Excluded
    /\ patch => k[1] \in Tracked /\ k \in Changed
=============================================================================
