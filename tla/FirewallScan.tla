----------------------------- MODULE FirewallScan -----------------------------
(* harness execute registry:firewall_scan: the dependencies of a lock file are
   judged by the firewall of a registry, in batches that goroutines evaluate, with
   one synchronous request each (at most Workers at a time) or, with --async, one
   after the other by a job that is polled. The verdicts are collected from a
   channel in the order in which the batches end, sorted and printed.

   The firewall answers for a part of what it is asked; what it leaves out, and
   the batches that failed, count as UNKNOWN. *)
EXTENDS LockFiles, Sequences, Functions

CONSTANTS
  Files,     \* the lock files: sequences of entries
  Formats,   \* their formats, among Parsers
  BatchSize, \* --batch-size
  Workers,   \* synchronous evaluations at a time
  MaxPolls   \* firewallMaxPolls

ASSUME ScanAssumption ==
  BatchSize \in Nat \ {0} /\ Workers \in Nat \ {0} /\ MaxPolls \in Nat \ {0} /\ Formats \subseteq Parsers
  /\ Files \subseteq Seq([kind : {"locked", "loose", "link", "other"}, name : Nat, version : STRING, section : {"main", "dev"}])

VARIABLES
  lock,      \* the format and the entries of the file
  async,     \* --async
  deps,      \* what was parsed, sorted by name
  batch,     \* of each batch, what its goroutine does: "waiting", "asking", "polling", "sent"
  polls,     \* polls of the job of a batch
  outcomes,  \* channel: outcomes sent and not yet received
  results,   \* the verdicts received
  failed,    \* the first error is remembered
  lost,      \* history: batches without an answer of the firewall
  cancelled, \* the context of the command
  phase,     \* "look", "scan", "print", "exited"
  code       \* exit code, -1 before

input  == <<lock, async>>
pool   == <<batch, polls, outcomes, lost>>
answer == <<results, failed>>
vars   == <<input, deps, pool, answer, cancelled, phase, code>>

Init ==
  /\ lock \in [format : Formats, file : Files]
  /\ async \in BOOLEAN
  /\ deps = <<>> /\ batch = <<>> /\ polls = <<>> /\ outcomes = {} /\ lost = {}
  /\ results = <<>> /\ failed = FALSE /\ cancelled = FALSE
  /\ phase = "look" /\ code = -1

(* sort.Slice by name, which leaves equal names in any order. *)
Sorted(ds) == {s \in Bijection(1..Cardinality(ds), ds) : \A i, j \in DOMAIN s : i < j => s[i].name <= s[j].name}

BatchCount(n) == (n + BatchSize - 1) \div BatchSize

(* The registry is looked up, the name of the file must fit its type, the file must parse and name something. *)
Begin ==
  /\ phase = "look"
  /\ \E ds \in ParseLockFile(lock.format, lock.file) : ds # {} /\ deps' \in Sorted(ds)
  /\ batch' = [b \in 1..BatchCount(Len(deps')) |-> "waiting"]
  /\ polls' = [b \in 1..BatchCount(Len(deps')) |-> 0]
  /\ phase' = "scan"
  /\ UNCHANGED <<input, outcomes, lost, answer, cancelled, code>>

Refuse ==
  /\ phase = "look"
  /\ phase' = "exited" /\ code' = 1
  /\ UNCHANGED <<input, deps, pool, answer, cancelled>>

-----------------------------------------------------------------------------
(* The goroutine of a batch. *)

ItemsOverlap(b) ==
  SubSeq(deps, IF b = 1 THEN 1 ELSE (b - 1) * BatchSize, IF b * BatchSize > Len(deps) THEN Len(deps) ELSE b * BatchSize)
Items(b) == SubSeq(deps, (b - 1) * BatchSize + 1, IF b * BatchSize > Len(deps) THEN Len(deps) ELSE b * BatchSize)

SlotsLeaked == {b \in DOMAIN batch : batch[b] # "waiting"}
Holding == {b \in DOMAIN batch : batch[b] \in {"asking", "polling"}}
Limit == IF async THEN 1 ELSE Workers

Acquire(b) ==
  /\ phase = "scan" /\ batch[b] = "waiting" /\ Cardinality(Holding) < Limit
  /\ batch' = [batch EXCEPT ![b] = "asking"]
  /\ UNCHANGED <<input, deps, polls, outcomes, lost, answer, cancelled, phase, code>>

Unknown(items) == [i \in DOMAIN items |-> [dep |-> items[i], status |-> "UNKNOWN"]]

SendOutcome(b, verdicts, bad) ==
  /\ batch' = [batch EXCEPT ![b] = "sent"]
  /\ outcomes' = outcomes \cup {[index |-> b, results |-> verdicts, bad |-> bad]}

(* The verdicts found for the items among those that the firewall answered, by name and version. *)
Matched(items, answered) ==
  [i \in DOMAIN items |->
     [dep |-> items[i], status |-> IF items[i] \in answered THEN "JUDGED" ELSE "UNKNOWN"]]

Answer(b) ==
  /\ \E answered \in SUBSET Range(Items(b)) : SendOutcome(b, Matched(Items(b), answered), FALSE)
  /\ UNCHANGED lost

FailBatch(b) ==
  /\ SendOutcome(b, Unknown(Items(b)), TRUE)
  /\ lost' = lost \cup {b}

(* While it waits for its turn, a cancelled context ends the batch. *)
Abandon(b) ==
  /\ batch[b] = "waiting" /\ cancelled
  /\ FailBatch(b)
  /\ UNCHANGED <<input, deps, polls, answer, cancelled, phase, code>>

EvaluateSync(b) ==
  /\ batch[b] = "asking" /\ ~async
  /\ \/ ~cancelled /\ Answer(b)
     \/ FailBatch(b)
  /\ UNCHANGED <<input, deps, polls, answer, cancelled, phase, code>>

Initiate(b) ==
  /\ batch[b] = "asking" /\ async
  /\ \/ ~cancelled /\ batch' = [batch EXCEPT ![b] = "polling"] /\ UNCHANGED <<outcomes, lost>>
     \/ FailBatch(b)
  /\ UNCHANGED <<input, deps, polls, answer, cancelled, phase, code>>

(* A poll: done, failed, not answered, or not yet. The wait ends when the context is cancelled. *)
PollStatus(b) ==
  /\ batch[b] = "polling"
  /\ \/ ~cancelled /\ polls[b] < MaxPolls /\ Answer(b) /\ UNCHANGED polls
     \/ FailBatch(b) /\ UNCHANGED polls
     \/ /\ ~cancelled /\ polls[b] < MaxPolls
        /\ polls' = [polls EXCEPT ![b] = @ + 1]
        /\ UNCHANGED <<batch, outcomes, lost>>
  /\ UNCHANGED <<input, deps, answer, cancelled, phase, code>>

-----------------------------------------------------------------------------
(* The caller. *)

Collect ==
  /\ phase = "scan"
  /\ \E o \in outcomes :
       /\ outcomes' = outcomes \ {o}
       /\ results' = results \o o.results
       /\ failed' = (failed \/ o.bad)
  /\ UNCHANGED <<input, deps, batch, polls, lost, cancelled, phase, code>>

(* wg.Wait, then the channel is closed and drained. *)
Drained ==
  /\ phase = "scan" /\ \A b \in DOMAIN batch : batch[b] = "sent"
  /\ outcomes = {}
  /\ phase' = "print"
  /\ UNCHANGED <<input, deps, pool, answer, cancelled, code>>

Finish ==
  /\ phase = "print"
  /\ phase' = "exited"
  /\ code' = IF failed THEN 1 ELSE 0
  /\ UNCHANGED <<input, deps, pool, answer, cancelled>>

Cancel ==
  /\ phase = "scan" /\ ~cancelled
  /\ cancelled' = TRUE
  /\ UNCHANGED <<input, deps, pool, answer, phase, code>>

Goroutine(b) == Acquire(b) \/ Abandon(b) \/ EvaluateSync(b) \/ Initiate(b) \/ PollStatus(b)

Next ==
  \/ Begin \/ Refuse \/ Collect \/ Drained \/ Finish \/ Cancel
  \/ \E b \in DOMAIN batch : Goroutine(b)

(* Every request ends by the timeout of its client, and goroutines run; a job that says "not yet"
   forever is given up after MaxPolls polls. *)
Fairness ==
  /\ WF_vars(Begin \/ Refuse) /\ WF_vars(Collect) /\ WF_vars(Drained) /\ WF_vars(Finish)
  /\ \A b \in 1..4 : WF_vars(b \in DOMAIN batch /\ Goroutine(b))

Spec == Init /\ [][Next]_vars /\ Fairness

-----------------------------------------------------------------------------
TypeOK ==
  /\ lock \in [format : Formats, file : Files] /\ {async, failed, cancelled} \subseteq BOOLEAN
  /\ \A b \in DOMAIN batch : batch[b] \in {"waiting", "asking", "polling", "sent"} /\ polls[b] \in 0..MaxPolls
  /\ lost \subseteq DOMAIN batch
  /\ \A o \in outcomes : o.index \in DOMAIN batch
  /\ \A i \in DOMAIN results : results[i].status \in {"JUDGED", "UNKNOWN"}
  /\ phase \in {"look", "scan", "print", "exited"} /\ code \in {-1, 0, 1}

Shown(p(_)) == {i \in DOMAIN results : p(results[i].dep)}

(* The table has one line for every package that is locked with a version, however the batches ended,
   in whatever order, and whatever the cut of the list into batches. *)
OneLineForEachPackage ==
  phase = "print" =>
    \A i \in DOMAIN lock.file :
      LET e == lock.file[i]
      IN e.kind = "locked" =>
           Cardinality(Shown(LAMBDA d : d.name = e.name
                                        /\ (lock.format = "packages.lock.json" => d.version = e.version))) = 1

(* A scan of which the firewall has not answered every batch does not exit 0. *)
LostBatchFails == code = 0 => lost = {}

(* Fields keep their types, the table of an audit is whole, and an audit without all answers fails,
   however its batches ended (evaluateFirewallBatches, executeRegistryFirewallScanHandler). *)
AuditIsWhole == TypeOK /\ OneLineForEachPackage /\ LostBatchFails

(* The scan ends, whatever the firewall answers. *)
ScanEnds == <>(phase = "exited")
=============================================================================
