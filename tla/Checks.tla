--------------------------------- MODULE Checks ---------------------------------
(* The two checks of a build: the audit of its lock file by the firewall, and the coverage of its
   reports. They share nothing, and a behaviour is one of the two. *)
EXTENDS FirewallScan

CONSTANTS Tracked, Excluded, Changed, GoModules, Manifests, Roots, Observations, MaxSeen \* of Coverage

VARIABLES
  covering, \* coverage is read, or a lock file audited
  patch, git, rows, errors, sent, lines, stats, analysis, seen

coverageVars == <<patch, git, rows, errors, sent, lines, stats, analysis, seen>>

Reports == {"go", "clover", "cobertura", "jacoco", "lcov", "coveralls"}

(* A parser yields lines of a known format, candidates in their order, and, for Go, the counts of
   the blocks that span the line, of which there is at least one. *)
ASSUME CoverageAssumption ==
  /\ MaxSeen \in Nat /\ Roots \in Seq(Seq(STRING))
  /\ \A o \in Observations : /\ o.format \in Reports /\ o.more \in Seq(Seq(STRING))
                             /\ o.format = "go" => o.count # {}

C == INSTANCE Coverage

ChecksInit ==
  /\ Init /\ C!Init
  /\ \/ covering = FALSE /\ patch = FALSE /\ git = FALSE
     \/ covering = TRUE /\ lock = (CHOOSE l \in [format : Formats, file : Files] : TRUE) /\ async = FALSE

ChecksNext ==
  /\ UNCHANGED covering
  /\ \/ covering /\ C!Next /\ UNCHANGED vars
     \/ ~covering /\ Next /\ UNCHANGED coverageVars

(* Fairness of the scan (FirewallScan.Fairness), which only an audit runs. *)
ChecksSpec ==
  /\ ChecksInit /\ [][ChecksNext]_<<covering, vars, coverageVars>>
  /\ covering \/ Fairness

-----------------------------------------------------------------------------
(* An audit ends, whatever the firewall answers (the timeouts of its requests, firewallMaxPolls). *)
AuditEnds == covering \/ ScanEnds

(* Fields keep their types; counts, uploaded rows and the analysis say the same of every line, in any order of the reports, and
   speak only of files and lines that were asked for (coverage_analyze.go, coverage_encode.go). *)
CoverageIsTrue == C!TypeOK /\ C!CountsMatchLines /\ C!UploadAgreesWithAnalysis /\ C!RowsBelong
=============================================================================
