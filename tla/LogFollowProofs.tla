---------------------------- MODULE LogFollowProofs ----------------------------
(***************************************************************************)
(* Theorems about LogFollow, for every set of nodes, every number of log    *)
(* units and lines and every capacity of the channel.                       *)
(***************************************************************************)
EXTENDS LogFollow, SequenceTheorems, TLAPS

EventKinds == {"start", "line", "blob", "end", "zero"}
Events     == [kind : EventKinds, node : Nodes, st : Statuses]
Printed    == EventKinds \X Statuses

\* The goroutines of a node that still send for it, and the nodes they left.
Active     == {"stream", "refetch", "fallback", "end"}
Sending(n)  == n \in todo \/ (pc = "blob" /\ cur = n) \/ spc[n] \in Active
Announced(n) == n \in nodeStarted /\ n \notin todo
Finished(n) == n \in nodeStarted /\ ~Sending(n)

\* The types of what is not counted and not a sequence.
Fields ==
  /\ status \in [Nodes -> Statuses] /\ snap \in [Nodes -> Statuses] /\ endSt \in [Nodes -> Statuses]
  /\ pipeline \in {"running"} \cup Outcomes /\ finalStatus \in {"running"} \cup Outcomes
  /\ pc \in {"poll", "loop", "blob", "drain", "wait", "gone"}
  /\ todo \subseteq nodeStarted /\ nodeStarted \subseteq Nodes /\ cur \in Nodes \cup {"none"}
  /\ pollErrors \in 0..MaxErrors
  /\ blob \in [Nodes -> {"none", "fetching", "ok", "error"}]
  /\ spc \in [Nodes -> {"none", "stream", "refetch", "fallback", "end", "done"}]
  /\ lines \in [Nodes -> 0..MaxLines] /\ any \in [Nodes -> BOOLEAN]
  /\ cancelled \in BOOLEAN /\ closed \in BOOLEAN
  /\ ret \in {"none", "ok", "failed"}

\* The log units: a stream has units left, and nothing is known of a node not started.
Counts ==
  /\ units \in [Nodes -> Nat] /\ unit \in [Nodes -> Nat] /\ got \in [Nodes -> Nat]
  /\ \A n \in Nodes :
       /\ units[n] <= UnitCount[n] /\ unit[n] <= UnitCount[n] /\ got[n] <= units[n]
       /\ n \notin nodeStarted => blob[n] = "none" /\ got[n] = 0 /\ spc[n] = "none"
       /\ spc[n] = "stream" => unit[n] < units[n]

\* The channel, and what was printed from it.
Channel == ch \in Seq(Events) /\ Len(ch) <= Cap /\ out \in [Nodes -> Seq(Printed)]

Typed == Fields /\ Counts /\ Channel

\* Which goroutine has a node in hand in each phase of the poller.
Phases ==
  /\ \A n \in Nodes :
       /\ spc[n] # "none" => Announced(n) /\ ~Terminal(snap[n])
       /\ spc[n] = "none" => unit[n] = 0
       /\ any[n] => spc[n] \notin {"none", "fallback"}
       /\ blob[n] = "fetching" => Terminal(snap[n]) /\ (n \in todo \/ (pc = "blob" /\ cur = n))
  /\ pc = "blob" => cur \in Nodes /\ Announced(cur) /\ Terminal(snap[cur])
  /\ pc \notin {"loop", "blob"} => todo = {}

\* The channel is closed once, by a poller that waited for every stream, and the
\* command returns from a channel that is closed and empty.
Closing ==
  /\ closed => pc = "gone"
  /\ pc = "gone" => \A n \in Nodes : spc[n] \in {"none", "done"}
  /\ ret # "none" => closed /\ ch = <<>>

\* The poller leaves its loop only with an outcome, and an outcome stays.
Outcome ==
  /\ finalStatus \in Outcomes => pipeline = finalStatus
  /\ pc \in {"drain", "wait", "gone"} => finalStatus \in Outcomes
  /\ ret # "none" => (ret = "failed" <=> finalStatus = "failed")

\* Only an announced node has events, the first of them its start (none if skipped).
Starts(n) ==
  /\ \A i \in 1..Len(ch) : ch[i].node = n =>
       /\ Announced(n)
       /\ ch[i].kind = "start" <=>
            /\ snap[n] # "skipped" /\ Len(out[n]) = 0
            /\ \A j \in 1..(i - 1) : ch[j].node # n
  /\ Len(out[n]) > 0 => Announced(n)
  /\ Announced(n) /\ snap[n] # "skipped" => Len(out[n]) > 0 \/ \E i \in 1..Len(ch) : ch[i].node = n
  /\ \A i \in 1..Len(out[n]) : out[n][i][1] = "start" <=> i = 1 /\ snap[n] # "skipped"

\* The end of a node, or the zero Event in its place, is the last it sends.
Ends(n) ==
  /\ \A i \in 1..Len(ch) : ch[i].node = n /\ ch[i].kind \in {"end", "zero"} =>
       /\ Finished(n)
       /\ \A j \in (i + 1)..Len(ch) : ch[j].node # n
  /\ \A i \in 1..Len(out[n]) : out[n][i][1] = "end" =>
       /\ i = Len(out[n]) /\ Finished(n)
       /\ \A j \in 1..Len(ch) : ch[j].node # n

HasSent(n, k) ==
  \/ \E i \in 1..Len(ch) : ch[i].node = n /\ ch[i].kind = k
  \/ \E i \in 1..Len(out[n]) : out[n][i][1] = k

\* A finished node has sent its end, or its blob failed.
Shown(n) == Finished(n) => blob[n] = "error" \/ HasSent(n, "end")

\* Lines come from a stream that had content, blobs only where none had.
Sources(n) ==
  /\ HasSent(n, "line") => any[n]
  /\ HasSent(n, "blob") => ~any[n] /\ Announced(n) /\ spc[n] \notin {"stream", "refetch"}

EventInv == \A n \in Nodes : Starts(n) /\ Ends(n) /\ Shown(n) /\ Sources(n)

-----------------------------------------------------------------------------
(***************************************************************************)
(* Types.                                                                   *)
(***************************************************************************)
\* A send appends one event of the node, and only to a channel with room.
LEMMA SendAppends ==
  ASSUME ch \in Seq(Events), Len(ch) <= Cap,
         NEW k \in EventKinds, NEW n \in Nodes, NEW st \in Statuses, Send(Event(k, n, st))
  PROVE  /\ ch' \in Seq(Events) /\ Len(ch') <= Cap /\ Len(ch') = Len(ch) + 1
         /\ \A i \in 1..Len(ch) : ch'[i] = ch[i]
         /\ ch'[Len(ch')].kind = k /\ ch'[Len(ch')].node = n /\ ch'[Len(ch')].st = st
<1>1. Event(k, n, st) \in Events
  BY DEF Event, Events
<1>2. Cap \in Nat
  BY FollowConstants
<1> QED BY <1>1, <1>2, AppendProperties DEF Send, Event

\* The first states have the types, with no node started.
LEMMA InitTyped == Init => Typed
<1> SUFFICES ASSUME Init PROVE Typed
  OBVIOUS
<1> USE FollowConstants DEF Init
<1>0. 0 \in 0..MaxErrors /\ 0 \in 0..MaxLines
  OBVIOUS
<1>1. Fields
  BY <1>0 DEF Fields, Statuses, Outcomes
<1>2. Counts
  BY DEF Counts
<1>3. Channel
  BY EmptySeq DEF Channel
<1> QED BY <1>1, <1>2, <1>3 DEF Typed

\* Every step keeps the types of the plain fields.
LEMMA StepFields ==
  ASSUME Fields, [Next]_vars
  PROVE  Fields'
<1> USE DEF Fields, execVars, pollVars, blobVars, sseVars, outVars
<1>1. CASE PipelineEnds  BY <1>1 DEF PipelineEnds
<1>2. CASE PollFails     BY <1>2, FollowConstants DEF PollFails
<1>3. CASE Poll
  <2>1. PICK new \in SUBSET Nodes : Discover(new)
    BY <1>3 DEF Poll
  <2>2. /\ snap' \in [Nodes -> Statuses] /\ blob' \in [Nodes -> {"none", "fetching", "ok", "error"}]
        /\ todo' \subseteq nodeStarted' /\ nodeStarted' \subseteq Nodes
    BY <2>1 DEF Discover
  <2> QED BY <2>1, <2>2 DEF Discover
<1>4. ASSUME NEW n \in Nodes, Announce(n) PROVE Fields'
  BY <1>4 DEF Announce
<1>5. CASE SendBlobs
  BY <1>5 DEF SendBlobs
<1>6. CASE PollDone \/ CancelSSE \/ Close
  BY <1>6 DEF PollDone, CancelSSE, Close
<1>7. ASSUME NEW n \in Nodes, NodeMoves(n) PROVE Fields'
  BY <1>7 DEF NodeMoves, Statuses
<1>8. ASSUME NEW n \in Nodes, FetchBlobs(n) PROVE Fields'
  BY <1>8 DEF FetchBlobs
<1>9. ASSUME NEW n \in Nodes, Frame(n) PROVE Fields'
  BY <1>9, FollowConstants DEF Frame
<1>10. ASSUME NEW n \in Nodes, StreamReturns(n) PROVE Fields'
  BY <1>10, FollowConstants DEF StreamReturns
<1>11. ASSUME NEW n \in Nodes, Refetch(n) PROVE Fields'
  BY <1>11 DEF Refetch
<1>12. ASSUME NEW n \in Nodes, Fallback(n) PROVE Fields'
  BY <1>12 DEF Fallback
<1>13. ASSUME NEW n \in Nodes, End(n) PROVE Fields'
  BY <1>13 DEF End
<1>14. CASE Writer \/ UNCHANGED vars
  BY <1>14 DEF Writer, WriteEvent, Return, vars
<1> QED BY <1>1, <1>2, <1>3, <1>4, <1>5, <1>6, <1>7, <1>8, <1>9, <1>10, <1>11, <1>12, <1>13, <1>14
        DEF Next, Poller, SSEStep, StreamEnds, StreamCancelled

\* A node gets its units when it is discovered, a stream only while units are left.
LEMMA StepCounts ==
  ASSUME Fields, Counts, Phases, [Next]_vars
  PROVE  Counts'
<1> USE DEF Counts, execVars, pollVars, blobVars, sseVars, outVars
<1>0. /\ blob \in [Nodes -> {"none", "fetching", "ok", "error"}]
      /\ spc \in [Nodes -> {"none", "stream", "refetch", "fallback", "end", "done"}]
      /\ todo \subseteq nodeStarted /\ nodeStarted \subseteq Nodes
      /\ UnitCount \in [Nodes -> Nat]
  BY FollowConstants DEF Fields
<1>1. CASE UNCHANGED <<units, unit, got, spc, blob, nodeStarted>>
  BY <1>1
<1>2. CASE Poll
  <2>1. PICK new \in SUBSET Nodes : Discover(new) /\ new \cap nodeStarted = {}
    BY <1>2 DEF Poll
  <2>2. PICK u \in [Nodes -> UNION {0..UnitCount[n] : n \in Nodes}] :
           /\ units' = u
           /\ \A n \in Nodes : IF n \in new THEN u[n] <= UnitCount[n] ELSE u[n] = units[n]
    BY <2>1 DEF Discover
  <2>3. units' \in [Nodes -> Nat]
    BY <1>0, <2>2
  <2>4. \A n \in Nodes : n \in nodeStarted => units'[n] = units[n] /\ blob'[n] = blob[n]
    BY <2>1, <2>2 DEF Discover
  <2>5. \A n \in Nodes : n \notin nodeStarted' => blob'[n] = blob[n]
    BY <2>1 DEF Discover
  <2>6. \A n \in Nodes : units'[n] <= UnitCount[n]
    BY <2>2
  <2>7. nodeStarted \subseteq nodeStarted' /\ UNCHANGED <<unit, got, spc>>
    BY <2>1 DEF Discover
  <2>8. \A n \in Nodes : n \notin nodeStarted => got[n] = 0 /\ spc[n] = "none"
    OBVIOUS
  <2> QED BY <2>3, <2>4, <2>5, <2>6, <2>7, <2>8
<1>3. ASSUME NEW n \in Nodes, Announce(n) PROVE Counts'
  <2>1. n \in nodeStarted /\ UNCHANGED <<units, unit, got, blob, nodeStarted>>
    BY <1>0, <1>3 DEF Announce
  <2>2. spc' = spc \/ spc' = [spc EXCEPT ![n] = "refetch"] \/ (units[n] # 0 /\ spc' = [spc EXCEPT ![n] = "stream"])
    BY <1>3 DEF Announce
  <2>3. unit[n] = 0
    BY <1>3 DEF Announce, Phases, Announced
  <2> QED BY <1>0, <2>1, <2>2, <2>3
<1>4. CASE SendBlobs
  <2>1. cur \in Nodes /\ cur \in nodeStarted
    BY <1>4 DEF SendBlobs, Phases, Announced
  <2>2. /\ got' \in [Nodes -> Nat] /\ got'[cur] <= got[cur]
        /\ \A n \in Nodes : n # cur => got'[n] = got[n]
    BY <1>4, <2>1 DEF SendBlobs
  <2> QED BY <1>4, <2>1, <2>2 DEF SendBlobs
<1>5. ASSUME NEW n \in Nodes, FetchBlobs(n) PROVE Counts'
  <2>1. /\ got' \in [Nodes -> Nat] /\ got'[n] <= units[n]
        /\ \A m \in Nodes : m # n => got'[m] = got[m] /\ blob'[m] = blob[m]
    BY <1>0, <1>5 DEF FetchBlobs
  <2>2. n \in nodeStarted
    BY <1>5 DEF FetchBlobs
  <2> QED BY <1>5, <2>1, <2>2 DEF FetchBlobs
<1>6. ASSUME NEW n \in Nodes, StreamReturns(n) PROVE Counts'
  <2>1. /\ unit' \in [Nodes -> Nat] /\ unit'[n] = unit[n] + 1
        /\ \A m \in Nodes : m # n => unit'[m] = unit[m] /\ spc'[m] = spc[m]
        /\ spc'[n] = IF unit[n] + 1 = units[n] THEN "refetch" ELSE "stream"
    BY <1>0, <1>6 DEF StreamReturns
  <2>2. unit[n] < units[n] /\ n \in nodeStarted
    BY <1>6 DEF StreamReturns
  <2> QED BY <1>6, <2>1, <2>2, <1>0 DEF StreamReturns
<1>7. ASSUME NEW n \in Nodes, Refetch(n) PROVE Counts'
  <2>1. /\ unit' \in [Nodes -> Nat] /\ unit'[n] <= UnitCount[n]
        /\ \A m \in Nodes : m # n => unit'[m] = unit[m] /\ spc'[m] = spc[m]
        /\ spc'[n] \in {"end", "fallback"}
    BY <1>0, <1>7 DEF Refetch
  <2>2. n \in nodeStarted
    BY <1>7 DEF Refetch
  <2> QED BY <1>7, <2>1, <2>2 DEF Refetch
<1>8. ASSUME NEW n \in Nodes, Fallback(n) PROVE Counts'
  <2>1. /\ unit' \in [Nodes -> Nat] /\ unit'[n] <= unit[n]
        /\ \A m \in Nodes : m # n => unit'[m] = unit[m] /\ spc'[m] = spc[m]
        /\ spc'[n] \in {"end", "fallback"}
    BY <1>0, <1>8 DEF Fallback
  <2>2. n \in nodeStarted
    BY <1>8 DEF Fallback
  <2> QED BY <1>0, <1>8, <2>1, <2>2 DEF Fallback
<1>9. ASSUME NEW n \in Nodes, End(n) PROVE Counts'
  BY <1>0, <1>9 DEF End
<1>10. ASSUME NEW n \in Nodes, NodeMoves(n) \/ Frame(n) PROVE Counts'
  BY <1>1, <1>10 DEF NodeMoves, Frame
<1>11. CASE \/ PipelineEnds \/ PollFails \/ PollDone \/ CancelSSE \/ Close
            \/ Writer \/ UNCHANGED vars
  BY <1>1, <1>11 DEF PipelineEnds, PollFails, PollDone, CancelSSE, Close, Writer, WriteEvent, Return, vars
<1> QED BY <1>2, <1>3, <1>4, <1>5, <1>6, <1>7, <1>8, <1>9, <1>10, <1>11
        DEF Next, Poller, SSEStep, StreamEnds, StreamCancelled

\* Sends stay within the channel's capacity, and only events are printed.
LEMMA StepChannel ==
  ASSUME Fields, Channel, Phases, [Next]_vars
  PROVE  Channel'
<1> USE DEF Channel, outVars
<1>0. /\ snap \in [Nodes -> Statuses] /\ endSt \in [Nodes -> Statuses]
      /\ nodeStarted \subseteq Nodes /\ todo \subseteq nodeStarted
  BY DEF Fields
<1>1. CASE UNCHANGED <<ch, out>>
  BY <1>1
<1>2. ASSUME UNCHANGED out, NEW k \in EventKinds, NEW n \in Nodes, NEW st \in Statuses, Send(Event(k, n, st))
      PROVE  Channel'
  BY <1>2, SendAppends
<1> USE <1>0 DEF EventKinds
<1>3. ASSUME NEW n \in Nodes, Announce(n) PROVE Channel'
  BY <1>1, <1>2, <1>3 DEF Announce
<1>4. CASE SendBlobs
  <2>1. cur \in Nodes
    BY <1>4 DEF SendBlobs, Phases
  <2> QED BY <1>1, <1>2, <1>4, <2>1 DEF SendBlobs
<1>5. ASSUME NEW n \in Nodes, Frame(n) \/ Fallback(n) \/ End(n) PROVE Channel'
  BY <1>1, <1>2, <1>5 DEF Frame, Fallback, End
<1>6. CASE WriteEvent
  <2>1. ch' \in Seq(Events) /\ Len(ch') <= Cap /\ Head(ch) \in Events
    BY <1>6, HeadTailProperties, FollowConstants DEF WriteEvent
  <2>2. CASE Head(ch).kind = "zero"
    BY <1>6, <2>1, <2>2 DEF WriteEvent
  <2>3. CASE Head(ch).kind # "zero"
    <3>1. <<Head(ch).kind, Head(ch).st>> \in Printed /\ Head(ch).node \in Nodes
      BY <2>1 DEF Events, Printed
    <3>2. Append(out[Head(ch).node], <<Head(ch).kind, Head(ch).st>>) \in Seq(Printed)
      BY <3>1, AppendProperties
    <3>3. out' = [out EXCEPT ![Head(ch).node] = Append(@, <<Head(ch).kind, Head(ch).st>>)]
      BY <1>6, <2>3 DEF WriteEvent
    <3> QED BY <2>1, <3>1, <3>2, <3>3
  <2> QED BY <2>2, <2>3
<1>7. ASSUME NEW n \in Nodes, NodeMoves(n) \/ FetchBlobs(n) \/ StreamReturns(n) \/ Refetch(n)
      PROVE  Channel'
  BY <1>1, <1>7 DEF NodeMoves, FetchBlobs, StreamReturns, Refetch
<1>8. CASE PipelineEnds \/ PollFails \/ Poll \/ PollDone \/ CancelSSE \/ Close \/ Return \/ UNCHANGED vars
  BY <1>1, <1>8 DEF PipelineEnds, PollFails, Poll, Discover, PollDone, CancelSSE, Close, Return, vars
<1> QED BY <1>3, <1>4, <1>5, <1>6, <1>7, <1>8
        DEF Next, Poller, Writer, SSEStep, StreamEnds, StreamCancelled

-----------------------------------------------------------------------------
(***************************************************************************)
(* The goroutines and the channel's end.                                    *)
(***************************************************************************)
\* Nothing is in hand before the first poll.
LEMMA InitPhases == Init => Phases /\ Closing /\ Outcome
  BY DEF Init, Phases, Closing, Outcome, Outcomes

\* A node is handed from the poller to its blob or to its stream, never to both.
LEMMA StepPhases ==
  ASSUME Fields, Counts, Phases, [Next]_vars
  PROVE  Phases'
<1> USE DEF Phases, Announced, execVars, pollVars, blobVars, sseVars, outVars
<1>0. /\ spc \in [Nodes -> {"none", "stream", "refetch", "fallback", "end", "done"}]
      /\ any \in [Nodes -> BOOLEAN] /\ unit \in [Nodes -> Nat]
      /\ todo \subseteq nodeStarted /\ nodeStarted \subseteq Nodes /\ snap \in [Nodes -> Statuses]
      /\ blob \in [Nodes -> {"none", "fetching", "ok", "error"}]
  BY DEF Fields, Counts
<1>1. CASE UNCHANGED <<spc, unit, any, todo, nodeStarted, snap, pc, cur, blob>>
  BY <1>1
<1>2. CASE Poll
  <2>1. PICK new \in SUBSET Nodes : Discover(new) /\ new \cap nodeStarted = {}
    BY <1>2 DEF Poll
  <2>2. /\ pc' = "loop" /\ todo' = new /\ nodeStarted' = nodeStarted \cup new
        /\ \A n \in Nodes : n \notin new => snap'[n] = snap[n] /\ blob'[n] = blob[n]
        /\ \A n \in new : snap'[n] = status[n] /\ (blob'[n] = "fetching" => Terminal(status[n]))
        /\ UNCHANGED <<spc, unit, any>>
    <3>1. \A n \in new : blob[n] = "none"
      BY <2>1 DEF Counts
    <3>2. \A n \in new : snap'[n] = status[n] /\ (blob'[n] = "fetching" => Terminal(status[n]))
      BY <2>1, <3>1 DEF Discover, Terminal
    <3>3. \A n \in Nodes : n \notin new => snap'[n] = snap[n] /\ blob'[n] = blob[n]
      BY <2>1 DEF Discover
    <3> QED BY <2>1, <3>2, <3>3 DEF Discover
  <2>3. \A n \in Nodes : spc[n] # "none" => n \notin new
    BY <2>1
  <2>4. pc = "poll" /\ todo = {} /\ \A n \in Nodes : n \notin new => blob'[n] # "fetching"
    BY <2>1, <2>2 DEF Discover
  <2> QED BY <1>0, <2>1, <2>2, <2>3, <2>4
<1>3. ASSUME NEW n \in Nodes, Announce(n) PROVE Phases'
  <2>1. /\ n \in nodeStarted /\ todo' = todo \ {n} /\ pc = "loop"
        /\ UNCHANGED <<nodeStarted, snap, unit, any, blob>>
    BY <1>0, <1>3 DEF Announce
  <2>2. \A m \in Nodes : m # n => spc'[m] = spc[m]
    BY <1>0, <1>3 DEF Announce
  <2>3. spc[n] = "none" /\ ~any[n]
    BY <1>0, <1>3 DEF Announce
  <2>4. CASE Terminal(snap[n])
    <3>1. pc' = "blob" /\ cur' = n /\ UNCHANGED spc
      BY <1>3, <2>4 DEF Announce
    <3> QED BY <1>0, <2>1, <2>3, <2>4, <3>1
  <2>5. CASE ~Terminal(snap[n])
    <3>1. pc' = "loop" /\ spc'[n] \in {"refetch", "stream"}
      BY <1>0, <1>3, <2>1, <2>5 DEF Announce
    <3> QED BY <1>0, <2>1, <2>2, <2>3, <2>5, <3>1
  <2> QED BY <2>4, <2>5
<1>4. CASE SendBlobs
  BY <1>4 DEF SendBlobs
<1>5. CASE PollDone \/ CancelSSE \/ Close
  BY <1>5 DEF PollDone, CancelSSE, Close
<1>6. ASSUME NEW n \in Nodes,
             \/ Frame(n) \/ StreamReturns(n) \/ Refetch(n) \/ Fallback(n) \/ End(n)
      PROVE  Phases'
  <2>1. /\ spc[n] \in Active /\ spc'[n] \in Active \cup {"done"}
        /\ \A m \in Nodes \ {n} : spc'[m] = spc[m] /\ unit'[m] = unit[m] /\ any'[m] = any[m]
        /\ UNCHANGED <<todo, nodeStarted, snap, pc, cur, blob>>
    BY <1>0, <1>6 DEF Frame, StreamReturns, Refetch, Fallback, End, Active
  <2>2. any'[n] => spc'[n] # "fallback"
    BY <1>0, <1>6 DEF Frame, StreamReturns, Refetch, Fallback, End
  <2> QED BY <1>0, <2>1, <2>2 DEF Active
<1>7. ASSUME NEW n \in Nodes, NodeMoves(n) \/ FetchBlobs(n) PROVE Phases'
  BY <1>0, <1>1, <1>7 DEF NodeMoves, FetchBlobs
<1>8. CASE PipelineEnds \/ PollFails \/ Writer \/ UNCHANGED vars
  BY <1>1, <1>8 DEF PipelineEnds, PollFails, Writer, WriteEvent, Return, vars
<1> QED BY <1>2, <1>3, <1>4, <1>5, <1>6, <1>7, <1>8
        DEF Next, Poller, SSEStep, StreamEnds, StreamCancelled

\* Once the channel is closed no goroutine is left that could send, or start one that does.
LEMMA StepClosing ==
  ASSUME Fields, Phases, Closing, [Next]_vars
  PROVE  Closing'
<1> USE DEF Closing, execVars, pollVars, blobVars, sseVars, outVars
<1>0. spc \in [Nodes -> {"none", "stream", "refetch", "fallback", "end", "done"}]
  BY DEF Fields
<1>1. CASE UNCHANGED <<pc, spc, closed, ret, ch>>
  BY <1>1
<1>2. ASSUME NEW n \in Nodes,
             \/ Frame(n) \/ StreamReturns(n) \/ Refetch(n) \/ Fallback(n) \/ End(n)
      PROVE  Closing'
  <2>1. spc[n] \in Active /\ UNCHANGED <<pc, closed, ret>>
    BY <1>2 DEF Frame, StreamReturns, Refetch, Fallback, End, Active
  <2>2. pc # "gone" /\ ~closed /\ ret = "none"
    BY <2>1 DEF Active
  <2> QED BY <2>1, <2>2
<1>3. CASE Poll \/ (\E n \in Nodes : Announce(n)) \/ SendBlobs \/ PollDone \/ CancelSSE \/ Close
  <2>1. pc # "gone" /\ UNCHANGED ret
    BY <1>3 DEF Poll, Discover, Announce, SendBlobs, PollDone, CancelSSE, Close
  <2>2. ~closed /\ ret = "none"
    BY <2>1
  <2>3. (pc' # "gone" /\ UNCHANGED closed) \/ Close
    BY <1>3 DEF Poll, Discover, Announce, SendBlobs, PollDone, CancelSSE
  <2>4. CASE pc' # "gone" /\ UNCHANGED closed
    BY <2>1, <2>2, <2>4
  <2>5. CASE Close
    BY <1>0, <2>1, <2>2, <2>5 DEF Close
  <2> QED BY <2>3, <2>4, <2>5
<1>4. CASE WriteEvent \/ Return
  <2>1. CASE WriteEvent
    BY <2>1 DEF WriteEvent
  <2>2. CASE Return
    BY <2>2 DEF Return
  <2> QED BY <1>4, <2>1, <2>2
<1>5. ASSUME NEW n \in Nodes, NodeMoves(n) \/ FetchBlobs(n) PROVE Closing'
  BY <1>1, <1>5 DEF NodeMoves, FetchBlobs
<1>6. CASE PipelineEnds \/ PollFails \/ UNCHANGED vars
  BY <1>1, <1>6 DEF PipelineEnds, PollFails, vars
<1> QED BY <1>2, <1>3, <1>4, <1>5, <1>6
        DEF Next, Poller, Writer, SSEStep, StreamEnds, StreamCancelled

\* An outcome the poller saw is the pipeline's for good, and it stops polling with it.
LEMMA StepOutcome ==
  ASSUME Closing, Outcome, [Next]_vars
  PROVE  Outcome'
<1> USE DEF Outcome, execVars, pollVars, blobVars, sseVars, outVars
<1>1. CASE UNCHANGED <<pc, pipeline, finalStatus, ret>>
  BY <1>1
<1>2. CASE PipelineEnds
  BY <1>2 DEF PipelineEnds, Outcomes
<1>3. CASE Poll
  <2>1. ret = "none" /\ pc' = "loop" /\ finalStatus' = pipeline /\ UNCHANGED <<pipeline, ret>>
    BY <1>3 DEF Poll, Discover, Closing
  <2> QED BY <2>1
<1>4. CASE PollDone \/ CancelSSE \/ Close \/ SendBlobs \/ \E n \in Nodes : Announce(n)
  BY <1>4 DEF PollDone, CancelSSE, Close, SendBlobs, Announce
<1>5. CASE WriteEvent \/ Return
  BY <1>5 DEF WriteEvent, Return
<1>6. ASSUME NEW n \in Nodes,
             \/ Frame(n) \/ StreamReturns(n) \/ Refetch(n) \/ Fallback(n) \/ End(n)
             \/ NodeMoves(n) \/ FetchBlobs(n)
      PROVE  Outcome'
  BY <1>1, <1>6 DEF Frame, StreamReturns, Refetch, Fallback, End, NodeMoves, FetchBlobs
<1>7. CASE PollFails \/ UNCHANGED vars
  BY <1>1, <1>7 DEF PollFails, vars
<1> QED BY <1>2, <1>3, <1>4, <1>5, <1>6, <1>7
        DEF Next, Poller, Writer, SSEStep, StreamEnds, StreamCancelled

-----------------------------------------------------------------------------
(***************************************************************************)
(* What a step does to the events.                                          *)
(***************************************************************************)
\* What no step takes back.
Progress ==
  \A n \in Nodes :
    /\ Announced(n) => Announced(n)' /\ snap'[n] = snap[n]
    /\ Finished(n) => Finished(n)' /\ blob'[n] = blob[n]
    /\ any[n] => any'[n]
    /\ any'[n] => any[n] \/ spc[n] = "stream"
    /\ spc'[n] \in {"stream", "refetch"} => spc[n] \in {"stream", "refetch"} \/ ~Announced(n)

\* A step without an event announces only skipped nodes, and finishes none.
Quiet ==
  /\ UNCHANGED <<ch, out>>
  /\ \A n \in Nodes : /\ Announced(n)' => Announced(n) \/ snap'[n] = "skipped"
                      /\ Finished(n)' => Finished(n)

\* A step that sends an event of kind k for node n: its start when it announces the
\* node, and its end when it is done with it.
Sends(n, k) ==
  /\ UNCHANGED out
  /\ ch' \in Seq(Events) /\ Len(ch') = Len(ch) + 1
  /\ \A i \in 1..Len(ch) : ch'[i] = ch[i]
  /\ ch'[Len(ch) + 1].node = n /\ ch'[Len(ch) + 1].kind = k
  /\ Announced(n)' /\ ~Finished(n)
  /\ k = "start" <=> ~Announced(n)
  /\ k = "start" => snap'[n] # "skipped"
  /\ k \in {"end", "zero"} => Finished(n)'
  /\ Finished(n)' => k = "end" \/ blob'[n] = "error"
  /\ k = "line" => any'[n]
  /\ k = "blob" => ~any'[n] /\ spc'[n] \notin {"stream", "refetch"}
  /\ \A m \in Nodes \ {n} : (Announced(m)' => Announced(m)) /\ (Finished(m)' => Finished(m))

\* Nothing a goroutine does takes back what was announced or finished.
LEMMA StepProgress ==
  ASSUME Fields, Counts, Phases, [Next]_vars
  PROVE  Progress
<1> USE DEF Progress, Announced, Finished, Sending, Active, execVars, pollVars, blobVars, sseVars, outVars
<1>0. /\ spc \in [Nodes -> {"none", "stream", "refetch", "fallback", "end", "done"}]
      /\ any \in [Nodes -> BOOLEAN] /\ blob \in [Nodes -> {"none", "fetching", "ok", "error"}]
      /\ todo \subseteq nodeStarted /\ nodeStarted \subseteq Nodes /\ snap \in [Nodes -> Statuses]
  BY DEF Fields
<1>1. CASE UNCHANGED <<spc, any, blob, todo, nodeStarted, snap, pc, cur>>
  BY <1>1
<1>2. CASE Poll
  <2>1. PICK new \in SUBSET Nodes : Discover(new) /\ new \cap nodeStarted = {}
    BY <1>2 DEF Poll
  <2>2. /\ pc = "poll" /\ pc' = "loop" /\ todo' = new /\ nodeStarted' = nodeStarted \cup new
        /\ \A n \in Nodes : n \notin new => snap'[n] = snap[n] /\ blob'[n] = blob[n]
        /\ UNCHANGED <<spc, any>>
    BY <2>1 DEF Discover
  <2> QED BY <1>0, <2>1, <2>2
<1>3. ASSUME NEW n \in Nodes, Announce(n) PROVE Progress
  <2>1. /\ todo' = todo \ {n} /\ n \in todo /\ pc = "loop"
        /\ UNCHANGED <<nodeStarted, snap, any, blob>>
        /\ (pc' = "loop" \/ (pc' = "blob" /\ cur' = n))
        /\ \A m \in Nodes \ {n} : spc'[m] = spc[m]
    BY <1>0, <1>3 DEF Announce
  <2> QED BY <1>0, <2>1
<1>4. CASE SendBlobs
  BY <1>4 DEF SendBlobs
<1>5. CASE PollDone \/ CancelSSE \/ Close
  BY <1>5 DEF PollDone, CancelSSE, Close
<1>6. ASSUME NEW n \in Nodes,
             \/ Frame(n) \/ StreamReturns(n) \/ Refetch(n) \/ Fallback(n) \/ End(n)
      PROVE  Progress
  <2>1. /\ spc[n] \in Active
        /\ \A m \in Nodes \ {n} : spc'[m] = spc[m] /\ any'[m] = any[m]
        /\ UNCHANGED <<todo, nodeStarted, snap, pc, cur, blob>>
        /\ any'[n] = any[n] \/ (any'[n] /\ spc[n] = "stream")
        /\ spc'[n] \in {"stream", "refetch"} => spc[n] \in {"stream", "refetch"}
    BY <1>0, <1>6 DEF Frame, StreamReturns, Refetch, Fallback, End
  <2> QED BY <1>0, <2>1
<1>7. ASSUME NEW n \in Nodes, FetchBlobs(n) PROVE Progress
  <2>1. ~Finished(n)
    BY <1>7 DEF FetchBlobs, Phases
  <2> QED BY <1>0, <1>7, <2>1 DEF FetchBlobs
<1>8. ASSUME NEW n \in Nodes, NodeMoves(n) PROVE Progress
  BY <1>1, <1>8 DEF NodeMoves
<1>9. CASE PipelineEnds \/ PollFails \/ Writer \/ UNCHANGED vars
  BY <1>1, <1>9 DEF PipelineEnds, PollFails, Writer, WriteEvent, Return, vars
<1> QED BY <1>2, <1>3, <1>4, <1>5, <1>6, <1>7, <1>8, <1>9
        DEF Next, Poller, SSEStep, StreamEnds, StreamCancelled

\* The conditions of Sends that are not about the channel.
LEMMA SendsEvent ==
  ASSUME Channel, NEW n \in Nodes, NEW k \in EventKinds, NEW st \in Statuses,
         Send(Event(k, n, st)), UNCHANGED out,
         Announced(n)', ~Finished(n),
         k = "start" <=> ~Announced(n), k = "start" => snap'[n] # "skipped",
         k \in {"end", "zero"} => Finished(n)', Finished(n)' => k = "end" \/ blob'[n] = "error",
         k = "line" => any'[n], k = "blob" => ~any'[n] /\ spc'[n] \notin {"stream", "refetch"},
         \A m \in Nodes \ {n} : (Announced(m)' => Announced(m)) /\ (Finished(m)' => Finished(m))
  PROVE  Sends(n, k)
<1>1. ch \in Seq(Events) /\ Len(ch) <= Cap
  BY DEF Channel
<1>2. Len(ch) \in Nat
  BY <1>1, LenProperties
<1>3. /\ ch' \in Seq(Events) /\ Len(ch') = Len(ch) + 1
      /\ \A i \in 1..Len(ch) : ch'[i] = ch[i]
      /\ ch'[Len(ch')].kind = k /\ ch'[Len(ch')].node = n
  BY <1>1, SendAppends
<1>4. ch'[Len(ch) + 1].kind = k /\ ch'[Len(ch) + 1].node = n
  BY <1>3
<1> QED BY <1>3, <1>4 DEF Sends

\* Every step is quiet, sends one event of one node, or prints one.
LEMMA StepEvents ==
  ASSUME Typed, Phases, [Next]_vars
  PROVE  Quiet \/ (\E n \in Nodes, k \in EventKinds : Sends(n, k)) \/ WriteEvent
<1> USE DEF execVars, pollVars, blobVars, sseVars, outVars
<1>0. /\ spc \in [Nodes -> {"none", "stream", "refetch", "fallback", "end", "done"}]
      /\ any \in [Nodes -> BOOLEAN] /\ blob \in [Nodes -> {"none", "fetching", "ok", "error"}]
      /\ todo \subseteq nodeStarted /\ nodeStarted \subseteq Nodes
      /\ snap \in [Nodes -> Statuses] /\ endSt \in [Nodes -> Statuses]
      /\ Channel
  BY DEF Typed, Fields
<1> USE <1>0
<1>1. ASSUME UNCHANGED <<ch, out, spc, todo, nodeStarted, snap, pc, cur>> PROVE Quiet
  BY <1>1 DEF Quiet, Announced, Finished, Sending
<1>2. CASE Poll
  <2>1. PICK new \in SUBSET Nodes : Discover(new) /\ new \cap nodeStarted = {}
    BY <1>2 DEF Poll
  <2>2. /\ pc = "poll" /\ pc' = "loop" /\ todo' = new /\ nodeStarted' = nodeStarted \cup new
        /\ UNCHANGED <<spc, ch, out>>
    BY <2>1 DEF Discover
  <2>3. todo = {}
    BY <2>2 DEF Phases
  <2> QED BY <2>1, <2>2, <2>3 DEF Quiet, Announced, Finished, Sending
<1>3. ASSUME NEW n \in Nodes, Announce(n) PROVE Quiet \/ \E k \in EventKinds : Sends(n, k)
  <2>1. /\ todo' = todo \ {n} /\ n \in todo /\ pc = "loop"
        /\ UNCHANGED <<nodeStarted, snap, out>>
        /\ \A m \in Nodes \ {n} : spc'[m] = spc[m]
    BY <1>3 DEF Announce
  <2>2. \A m \in Nodes \ {n} : (Announced(m)' => Announced(m)) /\ (Finished(m)' => Finished(m))
    <3>1. pc' = "loop" \/ (pc' = "blob" /\ cur' = n)
      BY <1>3, <2>1 DEF Announce
    <3> QED BY <2>1, <3>1 DEF Announced, Finished, Sending
  <2>3. ~Finished(n)' /\ Announced(n)' /\ ~Announced(n) /\ ~Finished(n)
    <3>1. (pc' = "blob" /\ cur' = n) \/ spc'[n] \in {"refetch", "stream"}
      BY <1>3 DEF Announce
    <3> QED BY <2>1, <3>1 DEF Announced, Finished, Sending, Active
  <2>4. CASE snap[n] = "skipped"
    BY <1>3, <2>1, <2>2, <2>3, <2>4 DEF Announce, Quiet
  <2>5. CASE snap[n] # "skipped"
    <3>1. Send(Event("start", n, snap[n])) /\ snap[n] \in Statuses
      BY <1>3, <2>5 DEF Announce
    <3>2. Sends(n, "start")
      BY <2>1, <2>2, <2>3, <2>5, <3>1, SendsEvent DEF EventKinds
    <3> QED BY <3>2 DEF EventKinds
  <2> QED BY <2>4, <2>5
<1>4. CASE SendBlobs
  <2>0. PICK n \in Nodes : n = cur
    BY <1>4 DEF SendBlobs, Phases
  <2>1. /\ cur = n /\ Announced(n) /\ Terminal(snap[n]) /\ spc[n] = "none"
        /\ ~any[n] /\ ~Finished(n) /\ snap[n] \in Statuses
    BY <1>4, <2>0 DEF SendBlobs, Phases, Finished, Sending
  <2>2. UNCHANGED <<spc, todo, nodeStarted, snap, cur, out, any, blob>>
    BY <1>4 DEF SendBlobs
  <2>3. /\ Announced(n)'
        /\ \A m \in Nodes \ {n} : (Announced(m)' => Announced(m)) /\ (Finished(m)' => Finished(m))
    BY <1>4, <2>1, <2>2 DEF SendBlobs, Announced, Finished, Sending
  <2>4. CASE got[n] > 0
    <3>1. Send(Event("blob", n, snap[n])) /\ UNCHANGED pc
      BY <1>4, <2>1, <2>4 DEF SendBlobs
    <3>2. ~Finished(n)'
      BY <1>4, <2>1, <2>2, <3>1 DEF SendBlobs, Finished, Sending
    <3>3. Sends(n, "blob")
      BY <2>1, <2>2, <2>3, <3>1, <3>2, SendsEvent DEF EventKinds
    <3> QED BY <2>1, <3>3 DEF EventKinds
  <2>5. CASE ~(got[n] > 0)
    <3>1. /\ Send(Event(IF blob[n] = "ok" THEN "end" ELSE "zero", n, snap[n]))
          /\ pc' = "loop" /\ blob[n] \in {"ok", "error"}
      BY <1>4, <2>1, <2>5 DEF SendBlobs
    <3>2. Finished(n)'
      BY <2>1, <2>2, <3>1 DEF Announced, Finished, Sending, Active
    <3>3. CASE blob[n] = "ok"
      <4>1. Send(Event("end", n, snap[n]))
        BY <3>1, <3>3
      <4>2. Sends(n, "end")
        BY <2>1, <2>2, <2>3, <3>2, <4>1, SendsEvent DEF EventKinds
      <4> QED BY <2>1, <4>2 DEF EventKinds
    <3>4. CASE blob[n] = "error"
      <4>1. Send(Event("zero", n, snap[n]))
        BY <3>1, <3>4
      <4>2. Sends(n, "zero")
        BY <2>1, <2>2, <2>3, <3>2, <3>4, <4>1, SendsEvent DEF EventKinds
      <4> QED BY <2>1, <4>2 DEF EventKinds
    <3> QED BY <3>1, <3>3, <3>4
  <2> QED BY <2>4, <2>5
<1>5. ASSUME NEW n \in Nodes, Frame(n) \/ StreamReturns(n) \/ Refetch(n) \/ Fallback(n) \/ End(n)
      PROVE  Quiet \/ \E k \in EventKinds : Sends(n, k)
  <2>1. /\ spc[n] \in Active /\ (End(n) \/ spc'[n] \in Active)
        /\ \A m \in Nodes \ {n} : spc'[m] = spc[m]
        /\ UNCHANGED <<todo, nodeStarted, snap, pc, cur, out, blob>>
    BY <1>5 DEF Frame, StreamReturns, Refetch, Fallback, End, Active
  <2>2. Announced(n) /\ ~Terminal(snap[n])
    BY <2>1 DEF Phases, Active
  <2>3. /\ Announced(n)' /\ ~Finished(n) /\ (Finished(n)' => End(n))
        /\ \A m \in Nodes \ {n} : (Announced(m)' => Announced(m)) /\ (Finished(m)' => Finished(m))
    BY <2>1, <2>2 DEF Announced, Finished, Sending
  <2>4. CASE UNCHANGED ch /\ ~End(n)
    BY <2>1, <2>2, <2>3, <2>4 DEF Quiet
  <2>5. CASE Frame(n)
    <3>1. Send(Event("line", n, snap[n])) /\ any'[n] /\ ~Finished(n)'
      BY <1>5, <2>1, <2>5 DEF Frame, Finished, Sending, Active
    <3>2. Sends(n, "line")
      BY <2>1, <2>2, <2>3, <3>1, SendsEvent DEF EventKinds
    <3> QED BY <3>2 DEF EventKinds
  <2>6. CASE Fallback(n) /\ ~UNCHANGED ch
    <3>1. /\ Send(Event("blob", n, endSt[n])) /\ ~any'[n] /\ spc'[n] = "fallback"
          /\ ~Finished(n)'
      BY <2>1, <2>6 DEF Fallback, Phases, Finished, Sending, Active
    <3>2. Sends(n, "blob")
      BY <2>1, <2>2, <2>3, <3>1, SendsEvent DEF EventKinds
    <3> QED BY <3>2 DEF EventKinds
  <2>7. CASE End(n)
    <3>1. Send(Event("end", n, endSt[n])) /\ spc'[n] = "done"
      BY <2>7 DEF End
    <3>2. pc = "blob" => cur # n
      BY <2>2 DEF Phases
    <3>3. Finished(n)'
      BY <2>1, <2>2, <3>1, <3>2 DEF Announced, Finished, Sending, Active
    <3>4. Sends(n, "end")
      BY <2>1, <2>2, <2>3, <3>1, <3>3, SendsEvent DEF EventKinds
    <3> QED BY <3>4 DEF EventKinds
  <2> QED
    BY <1>5, <2>1, <2>4, <2>5, <2>6, <2>7 DEF StreamReturns, Refetch, Fallback, End, Active
<1>6. CASE PollDone \/ CancelSSE \/ Close
  BY <1>6 DEF PollDone, CancelSSE, Close, Quiet, Announced, Finished, Sending
<1>7. ASSUME NEW n \in Nodes, NodeMoves(n) \/ FetchBlobs(n) PROVE Quiet
  BY <1>1, <1>7 DEF NodeMoves, FetchBlobs
<1>8. CASE PipelineEnds \/ PollFails \/ Return \/ UNCHANGED vars
  BY <1>1, <1>8 DEF PipelineEnds, PollFails, Return, vars
<1> QED BY <1>2, <1>3, <1>4, <1>5, <1>6, <1>7, <1>8
        DEF Next, Poller, Writer, SSEStep, StreamEnds, StreamCancelled

-----------------------------------------------------------------------------
(***************************************************************************)
(* The order of a node's events, in the channel and in the output.          *)
(***************************************************************************)
\* WriteEvent moves the head of the channel to the end of its node's output.
LEMMA PrintsHead ==
  ASSUME Channel, WriteEvent
  PROVE  /\ Len(ch) \in Nat /\ Len(ch) > 0 /\ Len(ch') = Len(ch) - 1
         /\ \A i \in 1..Len(ch') : ch'[i] = ch[i + 1]
         /\ \A i \in 1..Len(ch) : ch[i].node \in Nodes
         /\ \A n \in Nodes :
              /\ Len(out[n]) \in Nat
              /\ ch[1].node # n \/ ch[1].kind = "zero" => out'[n] = out[n]
              /\ ch[1].node = n /\ ch[1].kind # "zero" =>
                   /\ Len(out'[n]) = Len(out[n]) + 1
                   /\ \A i \in 1..Len(out[n]) : out'[n][i] = out[n][i]
                   /\ out'[n][Len(out[n]) + 1][1] = ch[1].kind
<1>1. ch \in Seq(Events) /\ ch # <<>> /\ ch' = Tail(ch) /\ out \in [Nodes -> Seq(Printed)]
  BY DEF Channel, WriteEvent
<1>2. /\ Len(ch) \in Nat /\ Len(ch) > 0 /\ Len(ch') = Len(ch) - 1
      /\ \A i \in 1..Len(ch') : ch'[i] = ch[i + 1]
      /\ Head(ch) = ch[1]
  BY <1>1
<1>3. \A i \in 1..Len(ch) : ch[i] \in Events
  BY <1>1, ElementOfSeq
<1>4. \A i \in 1..Len(ch) : ch[i].node \in Nodes
  BY <1>3 DEF Events
<1>5. IF ch[1].kind = "zero" THEN out' = out
      ELSE out' = [out EXCEPT ![ch[1].node] = Append(@, <<ch[1].kind, ch[1].st>>)]
  BY <1>2 DEF WriteEvent
<1>6. ASSUME NEW n \in Nodes
      PROVE  /\ Len(out[n]) \in Nat
             /\ ch[1].node # n \/ ch[1].kind = "zero" => out'[n] = out[n]
             /\ ch[1].node = n /\ ch[1].kind # "zero" =>
                  /\ Len(out'[n]) = Len(out[n]) + 1
                  /\ \A i \in 1..Len(out[n]) : out'[n][i] = out[n][i]
                  /\ out'[n][Len(out[n]) + 1][1] = ch[1].kind
  <2>1. out[n] \in Seq(Printed) /\ Len(out[n]) \in Nat
    BY <1>1, LenProperties
  <2>2. ch[1].node # n \/ ch[1].kind = "zero" => out'[n] = out[n]
    BY <1>1, <1>2, <1>4, <1>5
  <2>3. ASSUME ch[1].node = n, ch[1].kind # "zero"
        PROVE  /\ Len(out'[n]) = Len(out[n]) + 1
               /\ \A i \in 1..Len(out[n]) : out'[n][i] = out[n][i]
               /\ out'[n][Len(out[n]) + 1][1] = ch[1].kind
    <3>1. out'[n] = Append(out[n], <<ch[1].kind, ch[1].st>>)
      BY <1>1, <1>5, <2>3
    <3>2. <<ch[1].kind, ch[1].st>> \in Printed
      BY <1>2, <1>3 DEF Events, Printed
    <3> QED BY <2>1, <3>1, <3>2, AppendProperties
  <2> QED BY <2>1, <2>2, <2>3
<1> QED BY <1>2, <1>4, <1>6

\* What printing leaves alone.
LEMMA PrintsOnly ==
  ASSUME WriteEvent
  PROVE  UNCHANGED <<todo, nodeStarted, snap, pc, cur, spc, any, blob>>
BY DEF WriteEvent, pollVars, blobVars, sseVars

\* The lengths and nodes a proof about the channel needs.
LEMMA ChannelTypes ==
  ASSUME Channel
  PROVE  /\ Len(ch) \in Nat /\ \A i \in 1..Len(ch) : ch[i].node \in Nodes
         /\ \A n \in Nodes : Len(out[n]) \in Nat
<1>1. ch \in Seq(Events) /\ out \in [Nodes -> Seq(Printed)]
  BY DEF Channel
<1>2. Len(ch) \in Nat /\ \A i \in 1..Len(ch) : ch[i] \in Events
  BY <1>1, LenProperties, ElementOfSeq
<1>3. \A n \in Nodes : Len(out[n]) \in Nat
  BY <1>1, LenProperties
<1> QED BY <1>2, <1>3 DEF Events

\* Nothing is sent before the first node is announced.
LEMMA InitEventInv == Init => EventInv
<1> SUFFICES ASSUME Init, NEW n \in Nodes PROVE Starts(n) /\ Ends(n) /\ Shown(n) /\ Sources(n)
  BY DEF EventInv
<1>1. ch = <<>> /\ out[n] = <<>> /\ Len(ch) = 0 /\ Len(out[n]) = 0
  BY EmptySeq DEF Init
<1>2. ~Announced(n) /\ ~Finished(n)
  BY DEF Init, Announced, Finished
<1>3. \A i \in 1..Len(ch) : FALSE
  BY <1>1
<1>4. \A i \in 1..Len(out[n]) : FALSE
  BY <1>1
<1>5. \A k : ~HasSent(n, k)
  BY <1>3, <1>4 DEF HasSent
<1> QED BY <1>1, <1>2, <1>3, <1>4, <1>5 DEF Starts, Ends, Shown, Sources

\* The event a step sends of a node comes after all it sent before.
LEMMA SendKeepsOrder ==
  ASSUME Channel, NEW n \in Nodes, Starts(n), Ends(n), Progress,
         NEW k \in EventKinds, Sends(n, k)
  PROVE  Starts(n)' /\ Ends(n)'
<1>0. Len(ch) \in Nat /\ Len(out[n]) \in Nat
  BY ChannelTypes
<1>1. /\ out' = out /\ Len(ch') = Len(ch) + 1
      /\ \A i \in 1..Len(ch) : ch'[i] = ch[i]
      /\ ch'[Len(ch) + 1].node = n /\ ch'[Len(ch) + 1].kind = k
      /\ Announced(n)' /\ ~Finished(n) /\ (k = "start" <=> ~Announced(n)) /\ (k = "start" => snap'[n] # "skipped")
      /\ k \in {"end", "zero"} => Finished(n)'
  BY DEF Sends
<1>2. Announced(n) => snap'[n] = snap[n]
  BY DEF Progress
<1>3. ~Announced(n) => Len(out[n]) = 0 /\ \A j \in 1..Len(ch) : ch[j].node # n
  BY <1>0 DEF Starts
<1>4. /\ \A j \in 1..Len(ch) : ch[j].node = n => ch[j].kind \notin {"end", "zero"}
      /\ \A i \in 1..Len(out[n]) : out[n][i][1] # "end"
  BY <1>1 DEF Ends
<1>5. ASSUME NEW i \in 1..Len(ch'), ch'[i].node = n
      PROVE  /\ ch'[i].kind = "start" <=>
                  /\ snap'[n] # "skipped" /\ Len(out'[n]) = 0
                  /\ \A j \in 1..(i - 1) : ch'[j].node # n
             /\ ch'[i].kind \in {"end", "zero"} => Finished(n)' /\ \A j \in (i + 1)..Len(ch') : ch'[j].node # n
  <2>1. CASE i \in 1..Len(ch)
    <3>1. \A j \in 1..i : ch'[j] = ch[j]
      BY <1>0, <1>1, <2>1
    <3>2. ch[i].node = n /\ i \in 1..i
      BY <1>0, <1>5, <2>1, <3>1
    <3>3. Announced(n)
      BY <2>1, <3>2 DEF Starts
    <3>4. ch[i].kind = "start" <=>
            snap[n] # "skipped" /\ Len(out[n]) = 0 /\ \A j \in 1..(i - 1) : ch[j].node # n
      BY <2>1, <3>2 DEF Starts
    <3>5. ch[i].kind \notin {"end", "zero"}
      BY <1>4, <2>1, <3>2
    <3> QED BY <1>0, <1>1, <1>2, <2>1, <3>1, <3>2, <3>3, <3>4, <3>5
  <2>2. CASE i = Len(ch) + 1
    <3>1. i - 1 = Len(ch) /\ \A j \in (i + 1)..Len(ch') : FALSE
      BY <1>0, <1>1, <2>2
    <3>2. k = "start" <=> snap'[n] # "skipped" /\ Len(out[n]) = 0 /\ \A j \in 1..Len(ch) : ch[j].node # n
      <4>1. CASE Announced(n)
        BY <1>0, <1>1, <1>2, <4>1 DEF Starts
      <4>2. CASE ~Announced(n)
        BY <1>1, <1>3, <4>2
      <4> QED BY <4>1, <4>2
    <3> QED BY <1>1, <2>2, <3>1, <3>2
  <2> QED BY <1>0, <1>1, <2>1, <2>2
<1>6. Starts(n)'
  <2>1. Len(ch) + 1 \in 1..Len(ch')
    BY <1>0, <1>1
  <2>2. \A i \in 1..Len(out[n]) : out[n][i][1] = "start" <=> i = 1 /\ snap'[n] # "skipped"
    BY <1>0, <1>2, <1>3 DEF Starts
  <2> QED BY <1>1, <1>5, <2>1, <2>2 DEF Starts
<1>7. Ends(n)'
  BY <1>1, <1>4, <1>5 DEF Ends
<1> QED BY <1>6, <1>7

\* The event is shown, and tells where the log of the node comes from.
LEMMA SendShows ==
  ASSUME Channel, NEW n \in Nodes, Sources(n), Progress,
         NEW k \in EventKinds, Sends(n, k)
  PROVE  Shown(n)' /\ Sources(n)'
<1>0. Len(ch) \in Nat
  BY ChannelTypes
<1>1. /\ out' = out /\ Len(ch') = Len(ch) + 1
      /\ \A i \in 1..Len(ch) : ch'[i] = ch[i]
      /\ ch'[Len(ch) + 1].node = n /\ ch'[Len(ch) + 1].kind = k
  BY DEF Sends
<1>2. Len(ch) + 1 \in 1..Len(ch') /\ \A i \in 1..Len(ch) : i \in 1..Len(ch')
  BY <1>0, <1>1
<1>3. HasSent(n, k)'
  BY <1>1, <1>2 DEF HasSent
<1>4. ASSUME NEW j \in EventKinds, HasSent(n, j)' PROVE j = k \/ HasSent(n, j)
  <2>1. CASE \E i \in 1..Len(out[n]) : out[n][i][1] = j
    BY <2>1 DEF HasSent
  <2>2. CASE \E i \in 1..Len(ch') : ch'[i].node = n /\ ch'[i].kind = j
    <3>1. PICK i \in 1..Len(ch') : ch'[i].node = n /\ ch'[i].kind = j
      BY <2>2
    <3>2. i \in 1..Len(ch) \/ i = Len(ch) + 1
      BY <1>0, <1>1
    <3> QED BY <1>1, <3>1, <3>2 DEF HasSent
  <2> QED BY <1>1, <1>4, <2>1, <2>2 DEF HasSent
<1>5. Shown(n)'
  BY <1>3 DEF Sends, Shown
<1>6. HasSent(n, "line")' => any'[n]
  BY <1>4 DEF Sends, Sources, Progress, EventKinds
<1>7. HasSent(n, "blob")' => ~any'[n] /\ Announced(n)' /\ spc'[n] \notin {"stream", "refetch"}
  BY <1>4 DEF Sends, Sources, Progress, EventKinds
<1> QED BY <1>5, <1>6, <1>7 DEF Sources

\* A step that neither sends nor prints for a node leaves its events in order.
LEMMA OthersKeep ==
  ASSUME Channel, NEW n \in Nodes, Starts(n), Ends(n), Shown(n), Sources(n), Progress,
         out'[n] = out[n], Len(ch') \in Nat, Len(ch) <= Len(ch'),
         \A i \in 1..Len(ch) : ch'[i] = ch[i],
         \A i \in (Len(ch) + 1)..Len(ch') : ch'[i].node # n,
         Announced(n)' => Announced(n) \/ snap'[n] = "skipped",
         Finished(n)' => Finished(n)
  PROVE  Starts(n)' /\ Ends(n)' /\ Shown(n)' /\ Sources(n)'
<1>0. Len(ch) \in Nat /\ Len(out[n]) \in Nat
  BY ChannelTypes
<1>1. ASSUME NEW i \in 1..Len(ch') PROVE ch'[i].node = n <=> i \in 1..Len(ch) /\ ch[i].node = n
  BY <1>0, <1>1
<1>2. \A i \in 1..Len(ch) : i \in 1..Len(ch')
  BY <1>0
<1>3. Announced(n) => Announced(n)' /\ snap'[n] = snap[n]
  BY DEF Progress
<1>4. ~Announced(n) => Len(out[n]) = 0 /\ \A j \in 1..Len(ch) : ch[j].node # n
  BY <1>0 DEF Starts
<1>5. ASSUME NEW i \in 1..Len(ch'), ch'[i].node = n
      PROVE  /\ Announced(n)'
             /\ ch'[i].kind = "start" <=>
                  /\ snap'[n] # "skipped" /\ Len(out'[n]) = 0
                  /\ \A j \in 1..(i - 1) : ch'[j].node # n
             /\ ch'[i].kind \in {"end", "zero"} => Finished(n)' /\ \A j \in (i + 1)..Len(ch') : ch'[j].node # n
  <2>1. i \in 1..Len(ch) /\ ch[i].node = n /\ ch'[i] = ch[i]
    BY <1>1, <1>5
  <2>2. /\ Announced(n)
        /\ ch[i].kind = "start" <=>
             snap[n] # "skipped" /\ Len(out[n]) = 0 /\ \A j \in 1..(i - 1) : ch[j].node # n
    BY <2>1 DEF Starts
  <2>3. \A j \in 1..(i - 1) : ch'[j] = ch[j]
    BY <1>0, <2>1
  <2>4. ch[i].kind \in {"end", "zero"} => Finished(n) /\ \A j \in (i + 1)..Len(ch) : ch[j].node # n
    BY <2>1 DEF Ends
  <2>5. ch[i].kind \in {"end", "zero"} => Finished(n)' /\ \A j \in (i + 1)..Len(ch') : ch'[j].node # n
    BY <1>0, <2>1, <2>4 DEF Progress
  <2> QED BY <1>3, <2>1, <2>2, <2>3, <2>5
<1>6. Starts(n)'
  <2>1. Len(out'[n]) > 0 => Announced(n)'
    BY <1>0, <1>3, <1>4
  <2>2. ASSUME Announced(n)', snap'[n] # "skipped"
        PROVE  Len(out'[n]) > 0 \/ \E i \in 1..Len(ch') : ch'[i].node = n
    <3>1. Announced(n) /\ snap[n] # "skipped"
      BY <1>3, <2>2
    <3> QED BY <1>2, <3>1 DEF Starts
  <2>3. \A i \in 1..Len(out[n]) : out[n][i][1] = "start" <=> i = 1 /\ snap'[n] # "skipped"
    BY <1>0, <1>3, <1>4 DEF Starts
  <2> QED BY <1>5, <2>1, <2>2, <2>3 DEF Starts
<1>7. Ends(n)'
  <2>1. ASSUME NEW i \in 1..Len(out[n]), out[n][i][1] = "end"
        PROVE  i = Len(out[n]) /\ Finished(n)' /\ \A j \in 1..Len(ch') : ch'[j].node # n
    BY <1>1, <2>1 DEF Ends, Progress
  <2> QED BY <1>5, <2>1 DEF Ends
<1>8. \A k : HasSent(n, k)' <=> HasSent(n, k)
  <2>1. ASSUME NEW k
        PROVE  (\E i \in 1..Len(ch') : ch'[i].node = n /\ ch'[i].kind = k)
                 <=> \E i \in 1..Len(ch) : ch[i].node = n /\ ch[i].kind = k
    BY <1>1, <1>2
  <2> QED BY <2>1 DEF HasSent
<1>9. Shown(n)'
  BY <1>8 DEF Shown, Progress
<1>10. Sources(n)'
  BY <1>8 DEF Sources, Progress
<1> QED BY <1>6, <1>7, <1>9, <1>10

\* Printing the head of the channel keeps the order of a node's events: what was first
\* or last of the node stays so, and what follows in the channel moves one place up.
LEMMA PrintKeeps ==
  ASSUME Channel, NEW n \in Nodes, Starts(n), Ends(n), Shown(n), Sources(n), WriteEvent
  PROVE  Starts(n)' /\ Ends(n)' /\ Shown(n)' /\ Sources(n)'
<1>0. /\ Len(ch) \in Nat /\ Len(ch) > 0 /\ Len(ch') = Len(ch) - 1
      /\ \A i \in 1..Len(ch') : ch'[i] = ch[i + 1]
      /\ Len(out[n]) \in Nat
      /\ ch[1].node # n \/ ch[1].kind = "zero" => out'[n] = out[n]
      /\ ch[1].node = n /\ ch[1].kind # "zero" =>
           /\ Len(out'[n]) = Len(out[n]) + 1
           /\ \A i \in 1..Len(out[n]) : out'[n][i] = out[n][i]
           /\ out'[n][Len(out[n]) + 1][1] = ch[1].kind
  BY PrintsHead
<1>1. /\ UNCHANGED snap /\ (Announced(n)' <=> Announced(n)) /\ (Finished(n)' <=> Finished(n))
      /\ any'[n] = any[n] /\ blob'[n] = blob[n] /\ spc'[n] = spc[n]
  BY PrintsOnly DEF Announced, Finished, Sending
<1>2. 1 \in 1..Len(ch) /\ \A i \in 1..Len(ch') : i + 1 \in 1..Len(ch)
  BY <1>0
<1>3. ASSUME NEW i \in 1..Len(ch), i # 1
      PROVE  i - 1 \in 1..Len(ch') /\ ch'[i - 1] = ch[i]
  <2>1. i - 1 \in 1..Len(ch') /\ (i - 1) + 1 = i
    BY <1>0, <1>3
  <2> QED BY <1>0, <2>1
<1>4. ch[1].node = n =>
        /\ Announced(n)
        /\ ch[1].kind = "start" <=> snap[n] # "skipped" /\ Len(out[n]) = 0
        /\ ch[1].kind \in {"end", "zero"} => Finished(n) /\ \A j \in 1..Len(ch') : ch'[j].node # n
        /\ \A i \in 1..Len(out[n]) : out[n][i][1] # "end"
  <2> SUFFICES ASSUME ch[1].node = n
               PROVE  /\ Announced(n)
                      /\ ch[1].kind = "start" <=> snap[n] # "skipped" /\ Len(out[n]) = 0
                      /\ ch[1].kind \in {"end", "zero"} => Finished(n) /\ \A j \in 1..Len(ch') : ch'[j].node # n
                      /\ \A i \in 1..Len(out[n]) : out[n][i][1] # "end"
    OBVIOUS
  <2>1. Announced(n) /\ (ch[1].kind = "start" <=> snap[n] # "skipped" /\ Len(out[n]) = 0)
    BY <1>2 DEF Starts
  <2>2. ch[1].kind \in {"end", "zero"} => Finished(n) /\ \A j \in 2..Len(ch) : ch[j].node # n
    BY <1>2 DEF Ends
  <2>3. \A j \in 1..Len(ch') : j + 1 \in 2..Len(ch) /\ ch'[j] = ch[j + 1]
    BY <1>0
  <2>4. \A i \in 1..Len(out[n]) : out[n][i][1] # "end"
    BY <1>2 DEF Ends
  <2> QED BY <2>1, <2>2, <2>3, <2>4
<1>5. Len(out'[n]) = 0 => Len(out[n]) = 0
  BY <1>0
<1>6. ASSUME NEW i \in 1..Len(ch'), ch'[i].node = n
      PROVE  /\ Announced(n)
             /\ ch'[i].kind = "start" <=>
                  /\ snap[n] # "skipped" /\ Len(out'[n]) = 0
                  /\ \A j \in 1..(i - 1) : ch'[j].node # n
             /\ ch'[i].kind \in {"end", "zero"} => Finished(n) /\ \A j \in (i + 1)..Len(ch') : ch'[j].node # n
  <2>1. i + 1 \in 1..Len(ch) /\ ch'[i] = ch[i + 1] /\ (i + 1) - 1 = i
    BY <1>0
  <2>2. /\ Announced(n)
        /\ ch[i + 1].kind = "start" <=>
             snap[n] # "skipped" /\ Len(out[n]) = 0 /\ \A j \in 1..i : ch[j].node # n
    BY <1>6, <2>1 DEF Starts
  <2>3. (\A j \in 1..i : ch[j].node # n) <=> ch[1].node # n /\ \A j \in 1..(i - 1) : ch'[j].node # n
    <3>1. \A j \in 1..i : j = 1 \/ (j - 1 \in 1..(i - 1) /\ ch'[j - 1] = ch[j])
      BY <1>0, <1>3, <2>1
    <3>2. \A j \in 1..(i - 1) : j + 1 \in 1..i /\ ch'[j] = ch[j + 1]
      BY <1>0
    <3>3. 1 \in 1..i
      OBVIOUS
    <3>4. ASSUME \A j \in 1..i : ch[j].node # n PROVE ch[1].node # n /\ \A j \in 1..(i - 1) : ch'[j].node # n
      BY <3>2, <3>3, <3>4
    <3>5. ASSUME ch[1].node # n, \A j \in 1..(i - 1) : ch'[j].node # n PROVE \A j \in 1..i : ch[j].node # n
      BY <3>1, <3>5
    <3> QED BY <3>4, <3>5
  <2>4. ch[1].node = n => Len(out'[n]) # 0
    BY <1>0, <1>4, <1>6
  <2>5. ch[1].node # n => out'[n] = out[n]
    BY <1>0
  <2>6. ch'[i].kind \in {"end", "zero"} => Finished(n) /\ \A j \in (i + 1)..Len(ch') : ch'[j].node # n
    <3>1. ch[i + 1].kind \in {"end", "zero"} => Finished(n) /\ \A j \in (i + 1 + 1)..Len(ch) : ch[j].node # n
      BY <1>6, <2>1 DEF Ends
    <3>2. \A j \in (i + 1)..Len(ch') : j + 1 \in (i + 1 + 1)..Len(ch) /\ ch'[j] = ch[j + 1]
      BY <1>0
    <3> QED BY <2>1, <3>1, <3>2
  <2> QED BY <1>5, <2>1, <2>2, <2>3, <2>4, <2>5, <2>6
<1>7. CASE ch[1].node = n /\ ch[1].kind # "zero"
  <2>1. /\ Len(out'[n]) = Len(out[n]) + 1
        /\ \A i \in 1..Len(out[n]) : out'[n][i] = out[n][i]
        /\ out'[n][Len(out[n]) + 1][1] = ch[1].kind
    BY <1>0, <1>7
  <2>2. \A i \in 1..Len(out'[n]) : i \in 1..Len(out[n]) \/ i = Len(out[n]) + 1
    BY <1>0, <2>1
  <2>3. Starts(n)'
    <3>1. ASSUME NEW i \in 1..Len(out'[n])
          PROVE  out'[n][i][1] = "start" <=> i = 1 /\ snap[n] # "skipped"
      <4>1. CASE i \in 1..Len(out[n])
        BY <2>1, <4>1 DEF Starts
      <4>2. CASE i = Len(out[n]) + 1
        <5>1. i = 1 <=> Len(out[n]) = 0
          BY <1>0, <4>2
        <5> QED BY <1>4, <1>7, <2>1, <4>2, <5>1
      <4> QED BY <2>2, <4>1, <4>2
    <3>2. Len(out'[n]) > 0 /\ Announced(n)
      BY <1>0, <1>4, <1>7, <2>1
    <3> QED BY <1>1, <1>6, <3>1, <3>2 DEF Starts
  <2>4. Ends(n)'
    <3>1. ASSUME NEW i \in 1..Len(out'[n]), out'[n][i][1] = "end"
          PROVE  i = Len(out'[n]) /\ Finished(n) /\ \A j \in 1..Len(ch') : ch'[j].node # n
      BY <1>4, <1>7, <2>1, <2>2, <3>1
    <3> QED BY <1>1, <1>6, <3>1 DEF Ends
  <2>5. \A k : HasSent(n, k)' <=> HasSent(n, k)
    <3>1. ASSUME NEW k, HasSent(n, k) PROVE HasSent(n, k)'
      <4>1. CASE \E i \in 1..Len(out[n]) : out[n][i][1] = k
        <5>1. \A i \in 1..Len(out[n]) : i \in 1..Len(out'[n])
          BY <1>0, <2>1
        <5> QED BY <2>1, <4>1, <5>1 DEF HasSent
      <4>2. CASE \E i \in 1..Len(ch) : ch[i].node = n /\ ch[i].kind = k
        <5>1. PICK i \in 1..Len(ch) : ch[i].node = n /\ ch[i].kind = k
          BY <4>2
        <5>2. CASE i = 1
          <6>1. Len(out[n]) + 1 \in 1..Len(out'[n])
            BY <1>0, <2>1
          <6> QED BY <2>1, <5>1, <5>2, <6>1 DEF HasSent
        <5>3. CASE i # 1
          BY <1>3, <5>1, <5>3 DEF HasSent
        <5> QED BY <5>2, <5>3
      <4> QED BY <3>1, <4>1, <4>2 DEF HasSent
    <3>2. ASSUME NEW k, HasSent(n, k)' PROVE HasSent(n, k)
      <4>1. CASE \E i \in 1..Len(out'[n]) : out'[n][i][1] = k
        BY <1>2, <1>7, <2>1, <2>2, <4>1 DEF HasSent
      <4>2. CASE \E i \in 1..Len(ch') : ch'[i].node = n /\ ch'[i].kind = k
        BY <1>0, <1>2, <4>2 DEF HasSent
      <4> QED BY <3>2, <4>1, <4>2 DEF HasSent
    <3> QED BY <3>1, <3>2
  <2>6. Shown(n)' /\ Sources(n)'
    BY <1>1, <2>5 DEF Shown, Sources
  <2> QED BY <2>3, <2>4, <2>6
<1>8. CASE ch[1].node # n \/ ch[1].kind = "zero"
  <2>1. out'[n] = out[n]
    BY <1>0, <1>8
  <2>2. ASSUME Announced(n), snap[n] # "skipped", ~(Len(out[n]) > 0)
        PROVE  \E i \in 1..Len(ch') : ch'[i].node = n
    <3>1. PICK i \in 1..Len(ch) : ch[i].node = n
      BY <2>2 DEF Starts
    <3>2. i # 1
      BY <1>0, <1>4, <1>8, <2>2, <3>1
    <3> QED BY <1>3, <3>1, <3>2
  <2>3. Starts(n)'
    BY <1>1, <1>6, <2>1, <2>2 DEF Starts
  <2>4. Ends(n)'
    <3>1. ASSUME NEW i \in 1..Len(out[n]), out[n][i][1] = "end"
          PROVE  i = Len(out[n]) /\ Finished(n) /\ \A j \in 1..Len(ch') : ch'[j].node # n
      BY <1>0, <1>2, <3>1 DEF Ends
    <3> QED BY <1>1, <1>6, <2>1, <3>1 DEF Ends
  <2>5. ASSUME NEW k, k # "zero" PROVE HasSent(n, k)' <=> HasSent(n, k)
    <3>1. ASSUME NEW i \in 1..Len(ch), ch[i].node = n, ch[i].kind = k
          PROVE  \E j \in 1..Len(ch') : ch'[j].node = n /\ ch'[j].kind = k
      <4>1. i # 1
        BY <1>8, <2>5, <3>1
      <4> QED BY <1>3, <3>1, <4>1
    <3>2. ASSUME NEW i \in 1..Len(ch'), ch'[i].node = n, ch'[i].kind = k
          PROVE  \E j \in 1..Len(ch) : ch[j].node = n /\ ch[j].kind = k
      BY <1>0, <1>2, <3>2
    <3> QED BY <2>1, <3>1, <3>2 DEF HasSent
  <2>6. Shown(n)' /\ Sources(n)'
    BY <1>1, <2>5 DEF Shown, Sources
  <2> QED BY <2>3, <2>4, <2>6
<1> QED BY <1>7, <1>8

\* Every step keeps the order of the events of every node.
LEMMA StepEventInv ==
  ASSUME Typed, Phases, EventInv, [Next]_vars
  PROVE  EventInv'
<1> SUFFICES ASSUME NEW n \in Nodes PROVE Starts(n)' /\ Ends(n)' /\ Shown(n)' /\ Sources(n)'
  BY DEF EventInv
<1>0. Starts(n) /\ Ends(n) /\ Shown(n) /\ Sources(n) /\ Channel /\ Progress /\ Len(ch) \in Nat
  BY StepProgress, ChannelTypes DEF EventInv, Typed
<1>1. CASE Quiet
  <2>1. ch' = ch /\ out'[n] = out[n] /\ \A i \in (Len(ch) + 1)..Len(ch) : FALSE
    BY <1>0, <1>1 DEF Quiet
  <2>2. (Announced(n)' => Announced(n) \/ snap'[n] = "skipped") /\ (Finished(n)' => Finished(n))
    BY <1>1 DEF Quiet
  <2> QED BY <1>0, <2>1, <2>2, OthersKeep
<1>2. ASSUME NEW m \in Nodes, NEW k \in EventKinds, Sends(m, k)
      PROVE  Starts(n)' /\ Ends(n)' /\ Shown(n)' /\ Sources(n)'
  <2>1. CASE m = n
    BY <1>0, <1>2, <2>1, SendKeepsOrder, SendShows
  <2>2. CASE m # n
    <3>1. /\ out'[n] = out[n] /\ Len(ch') = Len(ch) + 1 /\ \A i \in 1..Len(ch) : ch'[i] = ch[i]
          /\ ch'[Len(ch) + 1].node = m
          /\ (Announced(n)' => Announced(n)) /\ (Finished(n)' => Finished(n))
      BY <1>2, <2>2 DEF Sends
    <3>2. \A i \in (Len(ch) + 1)..Len(ch') : i = Len(ch) + 1
      BY <1>0, <3>1
    <3>3. Len(ch') \in Nat /\ Len(ch) <= Len(ch') /\ \A i \in (Len(ch) + 1)..Len(ch') : ch'[i].node # n
      BY <1>0, <2>2, <3>1, <3>2
    <3> QED BY <1>0, <3>1, <3>3, OthersKeep
  <2> QED BY <2>1, <2>2
<1>3. CASE WriteEvent
  BY <1>0, <1>3, PrintKeeps
<1> QED BY <1>1, <1>2, <1>3, StepEvents

-----------------------------------------------------------------------------
(***************************************************************************)
(* Theorems.                                                                *)
(***************************************************************************)
FollowInv == Typed /\ Phases /\ Closing /\ Outcome /\ EventInv

\* The inductive invariant.
LEMMA FollowInvariant == Spec => []FollowInv
<1>1. Init => FollowInv
  BY InitTyped, InitPhases, InitEventInv DEF FollowInv
<1>2. FollowInv /\ [Next]_vars => FollowInv'
  BY StepFields, StepCounts, StepChannel, StepPhases, StepClosing, StepOutcome, StepEventInv
  DEF FollowInv, Typed
<1> QED BY <1>1, <1>2, PTL DEF Spec

\* The poller closes the channel after every stream's goroutine is done: no send panics
\* on a closed channel (wg.Wait and close, logstream.go:745-770).
THEOREM NeverSendsAfterClose == Spec => []NoSendAfterClose
<1>1. FollowInv => NoSendAfterClose
  BY DEF FollowInv, Closing, NoSendAfterClose
<1> QED BY <1>1, FollowInvariant, PTL

\* The command returns after the execution is over, and fails exactly when it failed.
THEOREM ExitAlwaysInherited == Spec => []ExitInherited
<1>1. ASSUME FollowInv PROVE ExitInherited
  <2>1. ret # "none" => pc = "gone"
    BY <1>1 DEF FollowInv, Closing
  <2>2. ret # "none" => finalStatus \in Outcomes /\ pipeline = finalStatus /\ (ret = "failed" <=> finalStatus = "failed")
    BY <1>1, <2>1 DEF FollowInv, Outcome
  <2> QED BY <2>2 DEF ExitInherited
<1> QED BY <1>1, FollowInvariant, PTL

\* The log of a node in the output: its start, the lines of its stream or of its blobs,
\* its end, whatever else is printed in between, and all of it when the command returns.
THEOREM NodeLogAlwaysWhole == Spec => []NodeLog
<1>1. ASSUME FollowInv PROVE NodeLog
  <2>0. /\ Fields /\ Counts /\ Channel /\ Phases /\ Closing
        /\ \A n \in Nodes : Starts(n) /\ Ends(n) /\ Shown(n) /\ Sources(n)
    BY <1>1 DEF FollowInv, Typed, EventInv
  <2>1. TypeOK
    BY <2>0, FollowConstants DEF Fields, Counts, Channel, TypeOK
  <2>2. \A n \in Nodes : DOMAIN out[n] = 1..Len(out[n]) /\ Len(out[n]) \in Nat
                         /\ (out[n] # <<>> => Len(out[n]) > 0)
    <3> SUFFICES ASSUME NEW n \in Nodes
                 PROVE  /\ DOMAIN out[n] = 1..Len(out[n]) /\ Len(out[n]) \in Nat
                        /\ out[n] # <<>> => Len(out[n]) > 0
      OBVIOUS
    <3>1. out[n] \in Seq(Printed)
      BY <2>0 DEF Channel
    <3>2. DOMAIN out[n] = 1..Len(out[n]) /\ Len(out[n]) \in Nat
      BY <3>1, LenProperties
    <3>3. Len(out[n]) = 0 => out[n] = <<>>
      BY <3>1, EmptySeq
    <3> QED BY <3>2, <3>3
  <2>3. Bracketed
    <3> SUFFICES ASSUME NEW n \in Nodes
                 PROVE  /\ Kinds(n, "start") \subseteq {1} /\ Kinds(n, "end") \subseteq {Len(out[n])}
                        /\ out[n] # <<>> /\ snap[n] # "skipped" => 1 \in Kinds(n, "start")
      BY DEF Bracketed
    <3>1. \A i \in 1..Len(out[n]) : out[n][i][1] = "start" <=> i = 1 /\ snap[n] # "skipped"
      BY <2>0 DEF Starts
    <3>2. \A i \in 1..Len(out[n]) : out[n][i][1] = "end" => i = Len(out[n])
      BY <2>0 DEF Ends
    <3>3. out[n] # <<>> => 1 \in 1..Len(out[n])
      BY <2>2
    <3> QED BY <2>2, <3>1, <3>2, <3>3 DEF Kinds
  <2>4. OneSource
    <3> SUFFICES ASSUME NEW n \in Nodes, Kinds(n, "line") # {}, Kinds(n, "blob") # {} PROVE FALSE
      BY DEF OneSource
    <3>1. HasSent(n, "line") /\ HasSent(n, "blob")
      BY <2>2 DEF Kinds, HasSent
    <3> QED BY <2>0, <3>1 DEF Sources
  <2>5. AllShownAtReturn
    <3> SUFFICES ASSUME ret # "none", NEW n \in Nodes, n \in nodeStarted, blob[n] # "error"
                 PROVE  Kinds(n, "end") # {}
      BY DEF AllShownAtReturn
    <3>1. pc = "gone" /\ ch = <<>> /\ spc[n] \in {"none", "done"}
      BY <2>0 DEF Closing
    <3>2. Finished(n)
      BY <2>0, <3>1 DEF Phases, Finished, Sending, Active
    <3>3. HasSent(n, "end")
      BY <2>0, <3>2 DEF Shown
    <3>4. ~\E i \in 1..Len(ch) : ch[i].node = n /\ ch[i].kind = "end"
      BY <3>1, EmptySeq
    <3>5. PICK i \in 1..Len(out[n]) : out[n][i][1] = "end"
      BY <3>3, <3>4 DEF HasSent
    <3> QED BY <2>2, <3>5 DEF Kinds
  <2> QED BY <2>1, <2>3, <2>4, <2>5 DEF NodeLog
<1> QED BY <1>1, FollowInvariant, PTL
=============================================================================
