------------------------------- MODULE Command -------------------------------
(* One run of a command of the CLI: cobra has parsed the line, the handler runs
   as the program of its steps, --timeout may cancel its context and then end the
   process under it, and the exit code is what scripts see.

   The remote side is what the run did to it (done, with what that points to in
   refs) and the job that it may start or follow. A request may be refused, or
   be done although its answer is lost: the handler cannot tell which. *)
EXTENDS Steps, SequencesExt

CONSTANTS
  Programs, \* the handlers: a function from their names to their programs
  Known     \* those that are known to break a property, by its kind

ASSUME KnownAssumption ==
  /\ DOMAIN Known = {"late", "silent", "torn", "partial", "litter"}
  /\ \A kind \in DOMAIN Known : Known[kind] \subseteq DOMAIN Programs

VARIABLES
  cmd,      \* the handler that runs
  todo,     \* what is left of its program
  cause,    \* of the error under way: "none", "mistake", "declined", "failure", "timeout"
  said,     \* what the user wants: "go", "no", "preview"
  counted,  \* errors were counted for a summary
  owed,     \* a change failed, or may have, and nobody has said so
  done,     \* changes made at the remote side
  refs,     \* what those changes point to
  job,      \* the remote job: "none", "running", "ok", "bad"
  watched,  \* the run follows the job
  temps,    \* temporary files and directories
  file,     \* the file of the user that is written: "old", "torn", "new", "gone"
  timer,    \* runTimeout: "armed", "over" (the context is cancelled), "hit"
  event,    \* of telemetry, for the error: "none", "flying", "landed"
  phase,    \* "handler", "cleanup", "flush", "exited"
  code      \* exit code, -1 before

errors == <<cause, counted, owed>>
remote == <<done, refs, job, watched>>
disk   == <<temps, file>>
shell  == <<timer, event, phase, code>>
vars   == <<cmd, todo, said, errors, remote, disk, shell>>

Init ==
  /\ cmd \in DOMAIN Programs
  /\ todo = Programs[cmd]
  /\ cause = "none" /\ counted = FALSE /\ owed = FALSE
  /\ said = "go"
  /\ done = {} /\ refs = {} /\ job = "none" /\ watched = FALSE
  /\ temps = 0 /\ file = "old"
  /\ timer = "armed" /\ event = "none" /\ phase = "handler" /\ code = -1

-----------------------------------------------------------------------------
(* Control. *)

At(ops) == phase = "handler" /\ todo # <<>> /\ Head(todo).op \in ops
Step == Head(todo)
Rest == Tail(todo)

Failed == <<[op |-> "failed"]>>

(* The innermost block that an error, or a return, ends: the marks of the blocks that are
   entered stand in what is left of the program. *)
Marker(t, ops) == SelectInSeq(t, LAMBDA s : s.op \in ops)
Beyond(t, i) == SubSeq(t, i + 1, Len(t))

Caught(t) == LET i == Marker(t, {"catch", "finally"}) IN i > 0 /\ t[i].op = "catch"

Unwound(t) ==
  LET i == Marker(t, {"catch", "finally"})
  IN IF i = 0 THEN Failed
     ELSE t[i].of \o (IF t[i].op = "catch" THEN <<>> ELSE Fail) \o Beyond(t, i)

Returned(t) ==
  LET i == Marker(t, {"end", "finally"})
  IN IF i = 0 THEN <<>>
     ELSE IF t[i].op = "end" THEN Beyond(t, i) ELSE t[i].of \o Return \o Beyond(t, i)

Proceed(t) == todo' = t /\ UNCHANGED cause
Raise(c) == todo' = Unwound(Rest) /\ cause' = IF Caught(Rest) THEN "none" ELSE c

(* A local step. *)
RunLocal ==
  /\ At({"check", "local"})
  /\ \/ Proceed(Rest)
     \/ Raise(IF Step.op = "check" THEN "mistake" ELSE "failure")
  /\ UNCHANGED <<cmd, said, counted, owed, remote, disk, shell>>

Choose ==
  /\ At({"choose"})
  /\ \E i \in DOMAIN Step.of : Proceed(Step.of[i] \o Rest)
  /\ UNCHANGED <<cmd, said, counted, owed, remote, disk, shell>>

Round ==
  /\ At({"loop"})
  /\ \/ Proceed(Rest)
     \/ /\ Step.left > 0
        /\ Proceed(Step.of \o <<[Step EXCEPT !.left = @ - 1]>> \o Rest)
  /\ UNCHANGED <<cmd, said, counted, owed, remote, disk, shell>>

Enter ==
  /\ At({"enter"})
  /\ Proceed(Step.of \o <<Step.mark>> \o Rest)
  /\ UNCHANGED <<cmd, said, counted, owed, remote, disk, shell>>

(* The end of a protected call or of a function that did not fail. *)
Pass ==
  /\ At({"catch", "finally", "end"})
  /\ Proceed((IF Step.op = "finally" THEN Step.of ELSE <<>>) \o Rest)
  /\ UNCHANGED <<cmd, said, counted, owed, remote, disk, shell>>

Leave ==
  /\ At({"raise", "return"})
  /\ IF Step.op = "raise" THEN Raise(IF cause = "none" THEN "failure" ELSE cause)
     ELSE Proceed(Returned(Rest))
  /\ UNCHANGED <<cmd, said, counted, owed, remote, disk, shell>>

(* What becomes of an error that was caught, or that an answer tells of. *)
Report ==
  /\ At({"tell", "count", "drop", "partly"})
  /\ Proceed(Rest)
  /\ owed' = (Step.op = "partly" \/ (owed /\ Step.op = "drop"))
  /\ counted' = (counted \/ Step.op = "count")
  /\ watched' = (watched /\ Step.op # "tell")
  /\ UNCHANGED <<cmd, said, done, refs, job, disk, shell>>

SumUp ==
  /\ At({"tally"})
  /\ IF counted THEN Raise("failure") ELSE Proceed(Rest)
  /\ counted' = FALSE
  /\ UNCHANGED <<cmd, said, owed, remote, disk, shell>>

(* runConfirmGate, and the questions that handlers ask themselves. *)
AskUser ==
  /\ At({"ask"})
  /\ \/ Proceed(Rest) /\ UNCHANGED said
     \/ Raise("declined") /\ said' = "no"
  /\ UNCHANGED <<cmd, counted, owed, remote, disk, shell>>

(* A write is printed instead of sent, and ErrRequestPreviewed ends the command well. *)
PreviewRequest ==
  /\ At({"preview"})
  /\ \/ Proceed(Rest) /\ UNCHANGED said
     \/ Proceed(<<>>) /\ said' = "preview"
  /\ UNCHANGED <<cmd, counted, owed, remote, disk, shell>>

-----------------------------------------------------------------------------
(* Requests. *)

Cancelled == Step.bound /\ timer = "over"

(* Why a request fails: refused, broken, or cut by the timeout, now or before. *)
Breaks ==
  \/ ~Cancelled /\ Raise("failure") /\ UNCHANGED timer
  \/ Cancelled /\ Raise("timeout") /\ UNCHANGED timer
  \/ Step.bound /\ timer = "armed" /\ Raise("timeout") /\ timer' = "over"

Change(os) ==
  /\ done' = done \cup os
  /\ refs' = refs \cup Step.after
  /\ job' = IF "job" \in os THEN "running" ELSE job
  /\ watched' = (watched /\ "job" \notin os)

Fetch ==
  /\ At({"get"})
  /\ \/ ~Cancelled /\ Proceed(Rest) /\ UNCHANGED timer
     \/ Breaks
  /\ UNCHANGED <<cmd, said, counted, owed, remote, disk, event, phase, code>>

SendChange ==
  /\ At({"send"})
  /\ \/ ~Cancelled /\ Change({Step.of}) /\ Proceed(Rest) /\ UNCHANGED <<owed, timer>>
     \/ Breaks /\ owed' = TRUE
        /\ \/ UNCHANGED remote
           \/ ~Cancelled /\ Change({Step.of})
  /\ UNCHANGED <<cmd, said, counted, disk, event, phase, code>>

(* One request of a pool ends; the last one lets the caller see the first error. *)
SendOfPool ==
  /\ At({"pool"})
  /\ \E o \in Step.of, good \in BOOLEAN :
       LET bad == Step.bad \/ ~good
           left == Step.of \ {o}
       IN /\ good => ~Cancelled
          /\ IF good THEN Change({o})
             ELSE UNCHANGED remote \/ (~Cancelled /\ Change({o}))
          /\ owed' = (owed \/ ~good)
          /\ IF left # {} THEN Proceed(<<[Step EXCEPT !.of = left, !.bad = bad]>> \o Rest)
             ELSE IF bad THEN Raise(IF Cancelled THEN "timeout" ELSE "failure")
             ELSE Proceed(Rest)
  /\ UNCHANGED <<cmd, said, counted, disk, shell>>

(* A poll of the remote job. *)
Borne == Step.patience = Forever \/ Step.spent < Step.patience

Poll ==
  /\ At({"watch"})
  /\ watched' = TRUE
  /\ \/ \E now \in IF job = "none" THEN {"running", "ok", "bad"} ELSE {job} :
          /\ ~Cancelled
          /\ job' = now
          /\ Proceed(CASE now = "running" -> <<[Step EXCEPT !.spent = 0]>> \o Rest
                       [] now = "ok" -> Rest
                       [] now = "bad" -> Step.bad \o Rest)
          /\ UNCHANGED timer
     \/ /\ UNCHANGED job
        /\ IF Borne /\ ~Cancelled
           THEN Proceed(<<[Step EXCEPT !.spent = IF Step.patience = Forever THEN 0 ELSE @ + 1]>> \o Rest)
                /\ UNCHANGED timer
           ELSE IF Head(Step.lost).op = "raise" THEN Breaks ELSE Proceed(Step.lost \o Rest) /\ UNCHANGED timer
     \/ /\ Step.late # <<>> /\ job = "running"
        /\ UNCHANGED <<job, timer>>
        /\ Proceed(Step.late \o Rest)
  /\ UNCHANGED <<cmd, said, counted, owed, done, refs, disk, event, phase, code>>

(* The remote side goes on by itself. *)
JobEnds ==
  /\ phase # "exited" /\ job = "running"
  /\ job' \in {"ok", "bad"}
  /\ UNCHANGED <<cmd, todo, said, errors, done, refs, watched, disk, shell>>

-----------------------------------------------------------------------------
(* Files. *)

MakeTemp ==
  /\ At({"temp"})
  /\ \/ Proceed(Rest) /\ temps' = temps + 1
     \/ Raise("failure") /\ UNCHANGED temps
  /\ UNCHANGED <<cmd, said, counted, owed, remote, file, shell>>

RemoveTemp ==
  /\ At({"clean"})
  /\ Proceed(Rest) /\ temps' = temps - 1
  /\ UNCHANGED <<cmd, said, counted, owed, remote, file, shell>>

WriteFile ==
  /\ At({"open", "fill", "rename", "unlink"})
  /\ \/ /\ Proceed(Rest)
        /\ file' = CASE Step.op = "open" -> "torn" [] Step.op = "unlink" -> "gone" [] OTHER -> "new"
     \/ /\ Raise("failure")
        /\ UNCHANGED file
  /\ UNCHANGED <<cmd, said, counted, owed, remote, temps, shell>>

-----------------------------------------------------------------------------
(* The shell around the handler: runTimeout, Cleanup, Exit, telemetry. *)

(* The handler returns: an error is recorded, and hooks run. *)
Finish ==
  /\ phase = "handler" /\ todo \in {<<>>, Failed}
  /\ phase' = "cleanup"
  /\ event' = IF todo = Failed THEN "flying" ELSE "none"
  /\ UNCHANGED <<cmd, todo, said, errors, remote, disk, timer, code>>

CodeOf(c) == IF c = "timeout" THEN 124 ELSE 1

Cleanup ==
  /\ phase = "cleanup"
  /\ IF todo = Failed THEN phase' = "exited" /\ code' = CodeOf(cause)
     ELSE phase' = "flush" /\ UNCHANGED code
  /\ UNCHANGED <<cmd, todo, said, errors, remote, disk, timer, event>>

(* Mutant of Flush: it waits until an event has arrived. *)
FlushUnbounded ==
  /\ phase = "flush" /\ event = "landed"
  /\ phase' = "exited" /\ code' = 0
  /\ UNCHANGED <<cmd, todo, said, errors, remote, disk, timer, event>>

(* Only a command that succeeded returns from main, through the deferred flush of telemetry. *)
Flush ==
  /\ phase = "flush"
  /\ phase' = "exited" /\ code' = 0
  /\ UNCHANGED <<cmd, todo, said, errors, remote, disk, timer, event>>

Land ==
  /\ event = "flying" /\ phase # "exited"
  /\ event' = "landed"
  /\ UNCHANGED <<cmd, todo, said, errors, remote, disk, timer, phase, code>>

Expire ==
  /\ timer = "armed" /\ phase # "exited"
  /\ timer' = "over"
  /\ UNCHANGED <<cmd, todo, said, errors, remote, disk, event, phase, code>>

(* The grace of a second is over, whatever the handler does. *)
HardExit ==
  /\ timer = "over" /\ phase # "exited"
  /\ timer' = "hit" /\ phase' = "exited" /\ code' = 124
  /\ UNCHANGED <<cmd, todo, said, errors, remote, disk, event>>

Handler ==
  \/ RunLocal \/ Choose \/ Round \/ Enter \/ Pass \/ Leave \/ Report \/ SumUp \/ AskUser \/ PreviewRequest
  \/ Fetch \/ SendChange \/ SendOfPool \/ Poll \/ MakeTemp \/ RemoveTemp \/ WriteFile

Main == Handler \/ Finish \/ Cleanup \/ Flush

Next == Main \/ JobEnds \/ Land \/ Expire \/ HardExit

(* The main goroutine runs, and every request ends by the timeout of its client. *)
Spec == Init /\ [][Next]_vars /\ WF_vars(Main)

-----------------------------------------------------------------------------
TypeOK ==
  /\ cmd \in DOMAIN Programs
  /\ cause \in {"none", "mistake", "declined", "failure", "timeout"}
  /\ said \in {"go", "no", "preview"}
  /\ {counted, owed, watched} \subseteq BOOLEAN
  /\ job \in {"none", "running", "ok", "bad"}
  /\ temps \in 0..3 /\ file \in {"old", "torn", "new", "gone"}
  /\ timer \in {"armed", "over", "hit"} /\ event \in {"none", "flying", "landed"}
  /\ phase \in {"handler", "cleanup", "flush", "exited"}
  /\ code \in {-1, 0, 1, 124}

(* Exit 0 is the truth: no change failed unmentioned or only in a count, no file of the user is torn
   or lost, and a job that the command followed went well. *)
ZeroMeansDone ==
  code = 0 => /\ cmd \notin Known.silent => ~owed
              /\ ~counted
              /\ cmd \notin Known.torn => file \notin {"torn", "gone"}
              /\ watched /\ cmd \notin Known.partial => job = "ok"

(* What the user got wrong, declined or only wanted to see has changed nothing at the remote side. *)
RefusedIsUntouched ==
  \/ code = 1 /\ cause \in {"mistake", "declined"} /\ cmd \notin Known.late
  \/ said = "preview"
  => done = {}

(* At any moment, also when the process is killed: what a change points to is there. *)
NothingDangles == refs \subseteq done

(* A command that ends by itself, well or not, leaves no temporary file. *)
TempsGo == phase = "exited" /\ timer # "hit" /\ cmd \notin Known.litter => temps = 0

(* Every command ends, one that follows a job once the job has ended. *)
Ends == <>[](job # "running") => <>(phase = "exited")
=============================================================================
