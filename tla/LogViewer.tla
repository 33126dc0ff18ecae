------------------------------- MODULE LogViewer -------------------------------
(* The viewer of get execution --ui: the steps of an execution on the left, on
   the right the log, or the details, of the step that is selected. A poll every
   few seconds brings the steps and their statuses. The log of a step that has
   ended is fetched; that of a running step comes over a channel that a goroutine
   fills from the log service, and that one command after the other reads.

   Left out: the prompt that saves a log, the units that a log is made of, scrolling. *)
EXTENDS Integers, Sequences, FiniteSets

CONSTANTS
  Nodes,      \* steps of the execution
  Silent,     \* those without logs
  Whole,      \* the lines of a log
  MaxStreams, \* bound on the streams that are opened
  None

VARIABLES
  model, \* what the screen holds
  cmds,  \* commands that run
  world  \* the execution, and the channels with the goroutines that fill them

vars == <<model, cmds, world>>

Init ==
  /\ model = [state |-> "loading", known |-> [n \in Nodes |-> "unseen"], selected |-> None, tab |-> "logs",
              cache |-> [n \in Nodes |-> None], stream |-> [n \in Nodes |-> 0], loading |-> FALSE,
              shown |-> [what |-> "blank", node |-> None, text |-> <<>>], over |-> FALSE, end |-> "no",
              upset |-> {}, before |-> [n \in Nodes |-> <<>>]]
  /\ cmds = {[kind |-> "steps"]}
  /\ world = [status |-> [n \in Nodes |-> "running"], done |-> FALSE, chans |-> <<>>]

-----------------------------------------------------------------------------
(* What the commands and the screen are given. *)
Seen(m) == {n \in Nodes : m.known[n] # "unseen"}
Panel(m, what, text) == [m EXCEPT !.shown = [what |-> what, node |-> m.selected, text |-> text]]
ShowCache(m) == Panel(m, "log", m.cache[m.selected])
OnLogOf(m, n) == m.selected = n /\ m.tab = "logs"

Wait(n, ch, twin) == [kind |-> "wait", node |-> n, chan |-> ch, twin |-> twin]
Waiting(n, ch) == IF Wait(n, ch, FALSE) \in cmds THEN Wait(n, ch, TRUE) ELSE Wait(n, ch, FALSE)
LogOf(n) == [kind |-> "log", node |-> n]

(* The context of the stream that the viewer has of n is cancelled. *)
Cancelled(n) ==
  IF model.stream[n] = 0 THEN world
  ELSE [world EXCEPT !.chans[model.stream[n]].cancelled = TRUE]

Opened(n, chans) == Append(chans, [node |-> n, sent |-> 0, taken |-> 0, open |-> TRUE, cancelled |-> FALSE])

(* startSSEStream: the lines of the new stream follow what the cache already has. That is not empty when the stream
   of the step has ended and the poll, or the last one, still has it running (logviewer.go:786-800): the log service
   sends the log from its first line again, and "before" keeps what the viewer had by then. *)
Start(m, n, w, left) ==
  LET ch == Len(w.chans) + 1
  IN /\ ch <= MaxStreams
     /\ world' = [w EXCEPT !.chans = Opened(n, @)]
     /\ cmds' = left \cup {Wait(n, ch, FALSE)}
     /\ model' = [m EXCEPT !.stream[n] = ch,
                           !.cache[n] = IF @ = None THEN <<>> ELSE @,
                           !.before[n] = IF m.cache[n] = None THEN <<>> ELSE m.cache[n]]

(* maybeLoadLog, with the world and the commands as the update leaves them. *)
MaybeLoad(m, w, left) ==
  LET n == m.selected IN
  IF m.tab # "logs" \/ n = None THEN model' = m /\ world' = w /\ cmds' = left
  ELSE IF n \in Silent THEN model' = Panel(m, "none", <<>>) /\ world' = w /\ cmds' = left
  ELSE IF m.known[n] = "ended"
       THEN /\ world' = w
            /\ IF m.cache[n] # None THEN model' = ShowCache(m) /\ cmds' = left
               ELSE model' = Panel([m EXCEPT !.loading = TRUE], "loading", <<>>) /\ cmds' = left \cup {LogOf(n)}
       ELSE LET p == IF m.cache[n] # None THEN ShowCache(m) ELSE Panel(m, "connecting", <<>>) IN
            IF m.stream[n] # 0 THEN model' = p /\ world' = w /\ cmds' = left
            ELSE Start(p, n, w, left)

-----------------------------------------------------------------------------
(* Keys. *)
Ready == model.state = "ready"

Synced(m) == IF m.tab = "logs" THEN m ELSE Panel(m, "details", <<>>)

Select ==
  /\ Ready
  /\ \E n \in Seen(model) \ {model.selected} : MaybeLoad(Synced([model EXCEPT !.selected = n]), world, cmds)

Tab == Ready /\ \E t \in {"logs", "details"} : MaybeLoad(Synced([model EXCEPT !.tab = t]), world, cmds)

(* r: the log of the step is dropped and asked for again. *)
Refresh ==
  /\ Ready /\ model.selected # None
  /\ LET n == model.selected
         m == [model EXCEPT !.cache[n] = None, !.before[n] = <<>>, !.stream[n] = 0,
                            !.upset = IF model.stream[n] # 0 THEN @ \cup {n} ELSE @]
     IN MaybeLoad(m, Cancelled(n), cmds)

Quit ==
  /\ model' = [model EXCEPT !.end = "quit"]
  /\ cmds' = {}
  /\ world' = [world EXCEPT !.chans = [i \in DOMAIN @ |->
                 IF \E n \in Nodes : model.stream[n] = i THEN [@[i] EXCEPT !.cancelled = TRUE] ELSE @[i]]]

-----------------------------------------------------------------------------
(* Messages. *)

(* Steps that start later are appended; the polls end with the status of the pipeline, whatever its steps are, and
   with a poll that fails, which leaves the viewer with its error. *)
StepsLoaded ==
  /\ [kind |-> "steps"] \in cmds
  /\ LET left == cmds \ {[kind |-> "steps"]} IN
     \/ model' = [model EXCEPT !.state = "error"] /\ cmds' = left /\ UNCHANGED world
     \/ \E new \in SUBSET (Nodes \ Seen(model)) :
          LET known == [n \in Nodes |-> IF n \in Seen(model) \cup new THEN world.status[n] ELSE "unseen"]
              first == IF model.selected = None /\ new # {} THEN CHOOSE n \in new : TRUE ELSE model.selected
          IN MaybeLoad([model EXCEPT !.state = "ready", !.known = known, !.over = world.done, !.selected = first],
                       world, IF world.done THEN left ELSE left \cup {[kind |-> "tick"]})

Tick ==
  /\ [kind |-> "tick"] \in cmds
  /\ cmds' = (cmds \ {[kind |-> "tick"]}) \cup (IF model.over THEN {} ELSE {[kind |-> "steps"]})
  /\ UNCHANGED <<model, world>>

(* Mutant of LogLoaded: the log is shown whatever step is selected by now. *)
LogLoadedAnyway(c) ==
  /\ c.kind = "log" /\ cmds' = cmds \ {c} /\ UNCHANGED world
  /\ LET got == [model EXCEPT !.loading = FALSE, !.cache[c.node] = Whole, !.before[c.node] = <<>>]
     IN model' = IF model.tab = "logs" THEN Panel(got, "log", Whole) ELSE got

(* The answer is cached whatever the screen shows by now. *)
LogLoaded(c) ==
  /\ c.kind = "log" /\ cmds' = cmds \ {c} /\ UNCHANGED world
  /\ LET m == [model EXCEPT !.loading = FALSE]
         got == [m EXCEPT !.cache[c.node] = Whole, !.before[c.node] = <<>>]
     IN \/ world.status[c.node] = "ended" /\ model' = IF OnLogOf(m, c.node) THEN ShowCache(got) ELSE got
        \/ model' = IF OnLogOf(m, c.node) THEN Panel(m, "error", <<>>) ELSE m

(* The line goes to the cache of the step, and the next one is awaited on the stream that the step has by now. *)
StreamLine(c) ==
  /\ c.kind = "wait" /\ world.chans[c.chan].taken < world.chans[c.chan].sent
  /\ world' = [world EXCEPT !.chans[c.chan].taken = @ + 1]
  /\ LET n == c.node
         m == IF model.cache[n] = None THEN model
              ELSE [model EXCEPT !.cache[n] = Append(@, Whole[world.chans[c.chan].taken + 1])]
     IN /\ model' = IF OnLogOf(m, n) /\ m.cache[n] # None THEN ShowCache(m) ELSE m
        /\ cmds' = (cmds \ {c}) \cup (IF model.stream[n] = 0 THEN {}
                                      ELSE IF model.stream[n] = c.chan THEN {c} ELSE {Waiting(n, model.stream[n])})

(* The channel is closed and read out: the stream that the step has by now is given up. *)
StreamDone(c) ==
  /\ c.kind = "wait" /\ ~world.chans[c.chan].open /\ world.chans[c.chan].taken = world.chans[c.chan].sent
  /\ world' = Cancelled(c.node)
  /\ LET n == c.node
         m == [model EXCEPT !.stream[n] = 0,
                            !.upset = IF world.chans[c.chan].sent < Len(Whole) \/ model.stream[n] # c.chan THEN @ \cup {n} ELSE @]
     IN IF m.cache[n] \in {None, <<>>} /\ m.selected = n
        THEN model' = Panel([m EXCEPT !.loading = TRUE], "loading", <<>>) /\ cmds' = (cmds \ {c}) \cup {LogOf(n)}
        ELSE model' = m /\ cmds' = cmds \ {c}

-----------------------------------------------------------------------------
(* The execution, and the goroutines of the streams. The pipeline may end with steps that never started, or that
   are running still when it is polled for the last time. *)
Ended(n) == world.status[n] = "running" /\ world' = [world EXCEPT !.status[n] = "ended"] /\ UNCHANGED <<model, cmds>>

Done == ~world.done /\ world' = [world EXCEPT !.done = TRUE] /\ UNCHANGED <<model, cmds>>

Send(i) ==
  /\ world.chans[i].open /\ ~world.chans[i].cancelled /\ world.chans[i].sent < Len(Whole)
  /\ world' = [world EXCEPT !.chans[i].sent = @ + 1]
  /\ UNCHANGED <<model, cmds>>

(* The stream is whole, broken or cancelled; the channel does not tell. *)
Close(i) ==
  /\ world.chans[i].open
  /\ world.chans[i].sent = Len(Whole) => world.status[world.chans[i].node] = "ended" \/ world.chans[i].cancelled
  /\ world' = [world EXCEPT !.chans[i].open = FALSE]
  /\ UNCHANGED <<model, cmds>>

Message == StepsLoaded \/ Tick \/ \E c \in cmds : LogLoaded(c) \/ StreamLine(c) \/ StreamDone(c)

Next ==
  /\ model.end = "no"
  /\ \/ Select \/ Tab \/ Refresh \/ Quit \/ Message
     \/ Done \/ \E n \in Nodes : Ended(n)
     \/ \E i \in DOMAIN world.chans : Send(i) \/ Close(i)

-----------------------------------------------------------------------------
(* On the tab of logs the panel is about the step that is selected, and a log in it is all that the viewer has
   of that step, whatever steps were selected while lines and logs were on their way. *)
PanelIsOfTheStep ==
  Ready /\ model.tab = "logs" /\ model.selected # None =>
    /\ model.shown.node = model.selected
    /\ model.shown.what = "log" => model.shown.text = model.cache[model.selected]

(* A step has at most one stream that is not given up: none goes on behind the screen, and none after it. *)
StreamsAreHeld ==
  \A i \in DOMAIN world.chans :
    LET c == world.chans[i] IN
    c.open /\ ~c.cancelled => model.end = "no" /\ model.stream[c.node] = i

(* What a stream brings is the beginning of the log, without gaps and without a line twice, and all of it once the
   step has ended and its stream too; it follows nothing, unless the stream before it had brought the whole log and
   the step was not known to have ended: then the viewer shows the log once more after itself, and keeps it so
   (logviewer.go:786-800). Left out are the steps in "upset": their stream broke, or r gave one up. *)
LogsAreTrue ==
  \A n \in Nodes \ model.upset :
    LET has == model.cache[n]
        old == model.before[n]
    IN has # None =>
         /\ \E k \in 0..Len(Whole) : has = old \o SubSeq(Whole, 1, k)
         /\ old # <<>> => Len(old) >= Len(Whole) /\ SubSeq(old, Len(old) - Len(Whole) + 1, Len(old)) = Whole
         /\ model.known[n] = "ended" /\ model.stream[n] = 0 /\ has # <<>> => has = old \o Whole

(* While the execution goes on the viewer polls it, once at a time, unless a poll has failed. *)
PollsGoOn ==
  model.end = "no" /\ model.state # "error" =>
    Cardinality({c \in cmds : c.kind \in {"steps", "tick"}}) = IF model.over THEN 0 ELSE 1
=============================================================================
