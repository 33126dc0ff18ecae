------------------------------ MODULE LogFollow ------------------------------
(***************************************************************************)
(* logstream.FollowMulti ("--follow"): a poller goroutine discovers the     *)
(* nodes of an execution.  Nodes already terminal are fetched as blobs by   *)
(* goroutines of their own and sent in order; a running node gets a         *)
(* goroutine that reads its SSE streams.  All of them send Events on one    *)
(* bounded channel, which WriteEvents prints until the poller closes it.    *)
(* The execution and its log service are external.  Nodes are those that    *)
(* have logs and match the filter; the style is "markers".                  *)
(***************************************************************************)
EXTENDS Naturals, Sequences

CONSTANTS
  Nodes,
  UnitCount,   \* log units of a node, once its executableResponses are all there
  Cap,         \* capacity of ch (256)
  MaxLines,    \* bound on the frames of one SSE stream
  MaxErrors    \* bound on the failed polls

ASSUME FollowConstants ==
  /\ UnitCount \in [Nodes -> Nat] /\ Cap \in Nat \ {0} /\ MaxLines \in Nat /\ MaxErrors \in Nat

VARIABLES
  status,       \* the execution: status of each node,
  pipeline,     \* and of the whole
  pc,           \* the poller goroutine
  todo,         \* newNodes not handled yet
  cur,          \* the one in hand
  nodeStarted,
  snap,         \* statuses the poller saw
  finalStatus,
  pollErrors,
  units,        \* logUnits of a node when it was discovered
  blob,         \* blobResult of a node discovered terminal,
  got,          \* and its EvBlob events not sent yet
  spc,          \* the SSE goroutine of a node
  unit,         \* log units it is done with
  lines,        \* frames read from the stream it is at
  any,          \* anyContent
  endSt,        \* status it ends with
  cancelled,    \* sseCtx
  ch, closed,
  out,          \* what WriteEvents printed of each node
  ret           \* what FollowMulti returned

execVars == <<status, pipeline>>
pollVars == <<pc, todo, cur, nodeStarted, snap, finalStatus, pollErrors, units>>
blobVars == <<blob, got>>
sseVars  == <<spc, unit, lines, any, endSt>>
outVars  == <<out, ret>>
vars == <<execVars, pollVars, blobVars, sseVars, cancelled, ch, closed, outVars>>

Statuses     == {"waiting", "running", "skipped", "ended"}
Terminal(st) == st \in {"skipped", "ended"}     \* IsTerminalStatus, of a node
Outcomes     == {"success", "failed"}           \* and of a pipeline
Event(k, n, st) == [kind |-> k, node |-> n, st |-> st]
Send(e)      == Len(ch) < Cap /\ ch' = Append(ch, e)

\* --follow may attach to an execution at any point.
Init ==
  /\ status \in [Nodes -> Statuses] /\ pipeline \in {"running"} \cup Outcomes
  /\ pc = "poll" /\ todo = {} /\ cur = "none" /\ nodeStarted = {}
  /\ snap = [n \in Nodes |-> "waiting"] /\ finalStatus = "running" /\ pollErrors = 0
  /\ units = [n \in Nodes |-> 0]
  /\ blob = [n \in Nodes |-> "none"] /\ got = [n \in Nodes |-> 0]
  /\ spc = [n \in Nodes |-> "none"] /\ unit = [n \in Nodes |-> 0] /\ lines = [n \in Nodes |-> 0]
  /\ any = [n \in Nodes |-> FALSE] /\ endSt = [n \in Nodes |-> "running"]
  /\ cancelled = FALSE /\ ch = <<>> /\ closed = FALSE
  /\ out = [n \in Nodes |-> <<>>] /\ ret = "none"

(***************************************************************************)
(* The execution.                                                           *)
(***************************************************************************)
\* A node that still runs when the pipeline is over (an abort) may end later.
NodeMoves(n) ==
  /\ \/ status[n] = "waiting" /\ status' \in {[status EXCEPT ![n] = s] : s \in {"running", "skipped"}}
     \/ status[n] = "running" /\ status' = [status EXCEPT ![n] = "ended"]
  /\ UNCHANGED <<pipeline, pollVars, blobVars, sseVars, cancelled, ch, closed, outVars>>

PipelineEnds ==
  /\ pipeline = "running" /\ pipeline' \in Outcomes
  /\ UNCHANGED <<status, pollVars, blobVars, sseVars, cancelled, ch, closed, outVars>>

(***************************************************************************)
(* The poller: pollOnce, and the loop around it.                            *)
(***************************************************************************)
\* FetchExecutionFull failed: logged, and polled again after the sleep.
PollFails ==
  /\ pc = "poll" /\ pollErrors < MaxErrors
  /\ pollErrors' = pollErrors + 1
  /\ UNCHANGED <<execVars, pc, todo, cur, nodeStarted, snap, finalStatus, units, blobVars, sseVars,
                 cancelled, ch, closed, outVars>>

\* The nodes not announced yet that are not waiting; the fetch of the terminal ones
\* starts at once.  A node may not have all its log units yet.
Discover(new) ==
  /\ pc = "poll" /\ pc' = "loop"
  /\ todo' = new /\ nodeStarted' = nodeStarted \cup new
  /\ snap' = [n \in Nodes |-> IF n \in new THEN status[n] ELSE snap[n]]
  /\ finalStatus' = pipeline
  /\ units' \in {u \in [Nodes -> UNION {0..UnitCount[n] : n \in Nodes}] :
                   \A n \in Nodes : IF n \in new THEN u[n] <= UnitCount[n] ELSE u[n] = units[n]}
  /\ blob' = [n \in Nodes |-> IF n \in new /\ Terminal(status[n]) THEN "fetching" ELSE blob[n]]
  /\ UNCHANGED <<execVars, cur, pollErrors, got, sseVars, cancelled, ch, closed, outVars>>

\* Mutant: nodeStarted is not looked at for terminal nodes.
PollAgain == Discover({n \in Nodes : status[n] # "waiting" /\ (n \in nodeStarted => snap[n] = "running" /\ Terminal(status[n]))})

Poll == Discover({n \in Nodes : status[n] # "waiting" /\ n \notin nodeStarted})

\* The marker of the next new node; a running one gets its SSE goroutine.
Announce(n) ==
  /\ pc = "loop" /\ n \in todo
  /\ todo' = todo \ {n}
  /\ IF snap[n] = "skipped" THEN UNCHANGED ch ELSE Send(Event("start", n, snap[n]))
  /\ IF Terminal(snap[n])
     THEN pc' = "blob" /\ cur' = n /\ UNCHANGED spc
     ELSE UNCHANGED <<pc, cur>> /\ spc' = [spc EXCEPT ![n] = IF units[n] = 0 THEN "refetch" ELSE "stream"]
  /\ UNCHANGED <<execVars, nodeStarted, snap, finalStatus, pollErrors, units, blobVars, unit, lines, any,
                 endSt, cancelled, closed, outVars>>

\* FetchAndPrintLogWithRetry for every unit; the first error drops them all.
FetchBlobs(n) ==
  /\ blob[n] = "fetching"
  /\ \/ blob' = [blob EXCEPT ![n] = "error"] /\ UNCHANGED got
     \/ \E k \in 0..units[n] : blob' = [blob EXCEPT ![n] = "ok"] /\ got' = [got EXCEPT ![n] = k]
  /\ UNCHANGED <<execVars, pollVars, sseVars, cancelled, ch, closed, outVars>>

\* The results in the order of the nodes.  After an error the end event sent is the
\* zero Event, of kind EvStart and without a source.
SendBlobs ==
  /\ pc = "blob" /\ blob[cur] \in {"ok", "error"}
  /\ IF got[cur] > 0
     THEN Send(Event("blob", cur, snap[cur])) /\ got' = [got EXCEPT ![cur] = @ - 1] /\ UNCHANGED pc
     ELSE /\ Send(Event(IF blob[cur] = "ok" THEN "end" ELSE "zero", cur, snap[cur]))
          /\ pc' = "loop" /\ UNCHANGED got
  /\ UNCHANGED <<execVars, todo, cur, nodeStarted, snap, finalStatus, pollErrors, units, blob, sseVars,
                 cancelled, closed, outVars>>

\* Mutant: the loop ends with the first poll that finds nothing new.
PollDoneIdle ==
  /\ pc = "loop" /\ todo = {} /\ pc' = "drain"
  /\ UNCHANGED <<execVars, todo, cur, nodeStarted, snap, finalStatus, pollErrors, units, blobVars, sseVars,
                 cancelled, ch, closed, outVars>>

PollDone ==
  /\ pc = "loop" /\ todo = {}
  /\ pc' = IF finalStatus \in Outcomes THEN "drain" ELSE "poll"
  /\ UNCHANGED <<execVars, todo, cur, nodeStarted, snap, finalStatus, pollErrors, units, blobVars, sseVars,
                 cancelled, ch, closed, outVars>>

\* Mutant: the streams are left to end by themselves.
NoCancelSSE ==
  /\ pc = "drain" /\ pc' = "wait" /\ UNCHANGED cancelled
  /\ UNCHANGED <<execVars, todo, cur, nodeStarted, snap, finalStatus, pollErrors, units, blobVars, sseVars,
                 ch, closed, outVars>>

\* SseTerminalDrainDelay is over.
CancelSSE ==
  /\ pc = "drain" /\ pc' = "wait" /\ cancelled' = TRUE
  /\ UNCHANGED <<execVars, todo, cur, nodeStarted, snap, finalStatus, pollErrors, units, blobVars, sseVars,
                 ch, closed, outVars>>

\* Mutant: the channel is closed without wg.Wait().
CloseEarly ==
  /\ pc = "wait" /\ pc' = "gone" /\ closed' = TRUE
  /\ UNCHANGED <<execVars, todo, cur, nodeStarted, snap, finalStatus, pollErrors, units, blobVars, sseVars,
                 cancelled, ch, outVars>>

\* wg.Wait, and close.
Close ==
  /\ pc = "wait" /\ \A n \in Nodes : spc[n] \in {"none", "done"}
  /\ pc' = "gone" /\ closed' = TRUE
  /\ UNCHANGED <<execVars, todo, cur, nodeStarted, snap, finalStatus, pollErrors, units, blobVars, sseVars,
                 cancelled, ch, outVars>>

(***************************************************************************)
(* The SSE goroutine of a node: its units one after the other.              *)
(***************************************************************************)
Frame(n) ==
  /\ spc[n] = "stream" /\ lines[n] < MaxLines
  /\ Send(Event("line", n, snap[n]))
  /\ lines' = [lines EXCEPT ![n] = @ + 1] /\ any' = [any EXCEPT ![n] = TRUE]
  /\ UNCHANGED <<execVars, pollVars, blobVars, spc, unit, endSt, cancelled, closed, outVars>>

StreamReturns(n) ==
  /\ spc[n] = "stream"
  /\ unit' = [unit EXCEPT ![n] = @ + 1] /\ lines' = [lines EXCEPT ![n] = 0]
  /\ spc' = [spc EXCEPT ![n] = IF unit[n] + 1 = units[n] THEN "refetch" ELSE "stream"]
  /\ UNCHANGED <<execVars, pollVars, blobVars, any, endSt, cancelled, ch, closed, outVars>>

\* eof, a connection that is refused, or one that breaks: the error is ignored.
StreamEnds(n)     == ~cancelled /\ StreamReturns(n)
StreamCancelled(n) == cancelled /\ StreamReturns(n)

\* The node is looked up again, for its end; without content its units, as they are
\* now, are fetched as blobs.  When the lookup fails the node ends as it was found.
Refetch(n) ==
  /\ spc[n] = "refetch"
  /\ \/ /\ endSt' = [endSt EXCEPT ![n] = snap[n]]
        /\ spc' = [spc EXCEPT ![n] = "end"] /\ UNCHANGED unit
     \/ /\ endSt' = [endSt EXCEPT ![n] = status[n]]
        /\ spc' = [spc EXCEPT ![n] = IF any[n] THEN "end" ELSE "fallback"]
        /\ \E k \in units[n]..UnitCount[n] : unit' = [unit EXCEPT ![n] = k]
  /\ UNCHANGED <<execVars, pollVars, blobVars, lines, any, cancelled, ch, closed, outVars>>

\* FetchBlobToChannel for each unit left; its error is ignored.
Fallback(n) ==
  /\ spc[n] = "fallback"
  /\ IF unit[n] = 0 THEN spc' = [spc EXCEPT ![n] = "end"] /\ UNCHANGED <<unit, ch>>
     ELSE /\ unit' = [unit EXCEPT ![n] = @ - 1] /\ UNCHANGED spc
          /\ Send(Event("blob", n, endSt[n])) \/ UNCHANGED ch
  /\ UNCHANGED <<execVars, pollVars, blobVars, lines, any, endSt, cancelled, closed, outVars>>

End(n) ==
  /\ spc[n] = "end" /\ Send(Event("end", n, endSt[n]))
  /\ spc' = [spc EXCEPT ![n] = "done"]
  /\ UNCHANGED <<execVars, pollVars, blobVars, unit, lines, any, endSt, cancelled, closed, outVars>>

SSEStep(n) == Frame(n) \/ StreamCancelled(n) \/ Refetch(n) \/ Fallback(n) \/ End(n)

(***************************************************************************)
(* WriteEvents, and the return of FollowMulti.                              *)
(***************************************************************************)
\* The zero Event of a failed blob prints as a start marker without a node.
WriteEvent ==
  /\ ch # <<>> /\ ch' = Tail(ch)
  /\ LET e == Head(ch) IN
     IF e.kind = "zero" THEN UNCHANGED out
     ELSE out' = [out EXCEPT ![e.node] = Append(@, <<e.kind, e.st>>)]
  /\ UNCHANGED <<execVars, pollVars, blobVars, sseVars, cancelled, closed, ret>>

Return ==
  /\ ret = "none" /\ closed /\ ch = <<>>
  /\ ret' = IF finalStatus = "failed" THEN "failed" ELSE "ok"
  /\ UNCHANGED <<execVars, pollVars, blobVars, sseVars, cancelled, ch, closed, out>>

Poller == Poll \/ (\E n \in Nodes : Announce(n)) \/ SendBlobs \/ PollDone \/ CancelSSE \/ Close
Writer == WriteEvent \/ Return

Next ==
  \/ PipelineEnds \/ PollFails \/ Poller \/ Writer
  \/ \E n \in Nodes : NodeMoves(n) \/ FetchBlobs(n) \/ StreamEnds(n) \/ SSEStep(n)

\* Goroutines run, HTTP calls return (the client has a timeout), and a cancelled
\* stream returns; nothing is assumed of the execution or of streams left open.
Fairness ==
  /\ WF_vars(Poller) /\ WF_vars(Writer)
  /\ \A n \in Nodes : WF_vars(FetchBlobs(n)) /\ WF_vars(SSEStep(n))

Spec == Init /\ [][Next]_vars /\ Fairness

-----------------------------------------------------------------------------
(***************************************************************************)
(* Properties.                                                              *)
(***************************************************************************)
TypeOK ==
  /\ status \in [Nodes -> Statuses] /\ snap \in [Nodes -> Statuses] /\ endSt \in [Nodes -> Statuses]
  /\ pipeline \in {"running"} \cup Outcomes /\ finalStatus \in {"running"} \cup Outcomes
  /\ pc \in {"poll", "loop", "blob", "drain", "wait", "gone"}
  /\ todo \subseteq nodeStarted /\ nodeStarted \subseteq Nodes /\ cur \in Nodes \cup {"none"}
  /\ pollErrors \in 0..MaxErrors
  /\ \A n \in Nodes : units[n] \in 0..UnitCount[n] /\ unit[n] \in 0..UnitCount[n] /\ got[n] \in 0..units[n]
  /\ blob \in [Nodes -> {"none", "fetching", "ok", "error"}]
  /\ spc \in [Nodes -> {"none", "stream", "refetch", "fallback", "end", "done"}]
  /\ lines \in [Nodes -> 0..MaxLines] /\ any \in [Nodes -> BOOLEAN]
  /\ cancelled \in BOOLEAN /\ closed \in BOOLEAN /\ Len(ch) <= Cap
  /\ ret \in {"none", "ok", "failed"}

Kinds(n, k) == {i \in DOMAIN out[n] : out[n][i][1] = k}

\* Whatever the interleaving, a node's output is one ">>> started" (none for a skipped
\* node), then its log, then one "<<<" line.
Bracketed ==
  \A n \in Nodes :
    /\ Kinds(n, "start") \subseteq {1} /\ Kinds(n, "end") \subseteq {Len(out[n])}
    /\ out[n] # <<>> /\ snap[n] # "skipped" => 1 \in Kinds(n, "start")

\* A node's log comes from its stream or from its blobs, never from both.
OneSource == \A n \in Nodes : Kinds(n, "line") = {} \/ Kinds(n, "blob") = {}

\* No goroutine can still send when the poller closes the channel.
NoSendAfterClose ==
  closed => pc = "gone" /\ \A n \in Nodes : spc[n] \in {"none", "done"}

\* When FollowMulti returns, every node the last poll saw is in the output with its
\* end, unless its blob could not be fetched.
AllShownAtReturn ==
  ret # "none" =>
    \A n \in Nodes : n \in nodeStarted => blob[n] = "error" \/ Kinds(n, "end") # {}

\* README.md:465: it "exits when the execution reaches a terminal state and inherits
\* the execution's exit status".
ExitInherited == ret # "none" => pipeline \in Outcomes /\ (ret = "failed" <=> pipeline = "failed")

\* README.md:465, its other half: once the execution is over the command returns.
ExitsAtTerminal == pipeline # "running" ~> ret # "none"

\* The log of every node in the output: fields of their types, a start, the lines of one source, an
\* end, all of it shown when the command returns (logstream.go:745-967).
NodeLog == TypeOK /\ Bracketed /\ OneSource /\ AllShownAtReturn
=============================================================================
