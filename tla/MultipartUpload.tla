--------------------------- MODULE MultipartUpload ---------------------------
(***************************************************************************)
(* One "push artifact:generic" command (push_generic.go) and its shared     *)
(* multipart uploader (multipart.go).  Every file has a goroutine; a large  *)
(* file opens a session at the registry and spawns one goroutine per part.  *)
(* The registry and the object store are external: they are modelled from   *)
(* the answers the client handles.                                          *)
(***************************************************************************)
EXTENDS Naturals, FiniteSets

CONSTANTS
  Files,               \* the jobs collectGenericJobs returned
  Large,               \* those of multipartThreshold bytes or more
  PartCount,           \* parts of a session, as the registry declares them
  MaxConcurrentFiles,  \* capacity of the file semaphore
  MaxConcurrentParts,  \* capacity of the part semaphore, shared by all files
  PartAttempts,        \* partUploadMaxAttempts
  CompleteAttempts,    \* completeMaxAttempts
  PresignBatch,        \* maxPresignBatch
  Faults               \* the environment faults that may happen in this instance

FaultKinds == {"lostAnswer", "storeLoss", "badSizing", "signal", "timeout", "kill", "expire"}

ASSUME ConstantsOK ==
  /\ IsFiniteSet(Files) /\ Large \subseteq Files
  /\ PartCount \in Nat \ {0}          \* validateSession refuses anything else
  /\ MaxConcurrentFiles \in Nat \ {0} /\ MaxConcurrentParts \in Nat \ {0}
  /\ PartAttempts \in Nat \ {0} /\ CompleteAttempts \in Nat \ {0}
  /\ PresignBatch \in Nat \ {0}
  /\ Faults \subseteq FaultKinds

Parts == 1..PartCount
Uploads == Files \X Parts             \* one part goroutine each

VARIABLES
  cmd,        \* why the command context ended: "none", "signal" or "timeout"
  proc,       \* the process: "running", "exited" or "killed"
  exit,       \* what the command reported when it exited
  fpc,        \* control state of each file's goroutine
  fileSem,    \* files holding a slot of sem
  upErr,      \* what uploadGenericFile returned
  report,     \* errs[i] after the goroutine classified it
  ppc,        \* control state of each part goroutine
  tries,      \* attempt number of each part
  perr,       \* errs[i] inside uploadPartSet
  stopParts,  \* cancel() of uploadPartSet was called
  urls,       \* parts with a URL in the partURLCache
  partSem,    \* part goroutines holding a slot of partSem
  ctries,     \* attempt number of completeUpload
  known,      \* upload() holds a validated session, so its abort is deferred
  abortSent,  \* abortUpload was called
  session,    \* the registry's session for this path
  stored,     \* parts the object store holds
  lost,       \* parts the object store acknowledged and then lost
  single      \* the single PUT of the file reached the registry

cmdVars   == <<cmd, proc, exit>>
fileVars  == <<fpc, fileSem, upErr, report>>
partVars  == <<ppc, tries, perr, stopParts, urls, partSem>>
ctlVars   == <<ctries, known, abortSent>>
storeVars == <<session, stored, lost, single>>
vars == <<cmdVars, fileVars, partVars, ctlVars, storeVars>>

Idle    == {"idle", "done"}
Holding == {"try", "fetch", "put", "backoff"}   \* between acquire and release of partSem

(***************************************************************************)
(* Contexts.  The command context ends once; the part context also ends     *)
(* when a part failed.                                                      *)
(***************************************************************************)
Cancelled == cmd # "none"
PartCtxDone(f) == Cancelled \/ stopParts[f]
May(fault) == fault \in Faults

Init ==
  /\ cmd = "none" /\ proc = "running" /\ exit = "none"
  /\ fpc = [f \in Files |-> "queued"] /\ fileSem = {}
  /\ upErr = [f \in Files |-> "none"] /\ report = [f \in Files |-> "none"]
  /\ ppc = [u \in Uploads |-> "idle"] /\ tries = [u \in Uploads |-> 1]
  /\ perr = [u \in Uploads |-> "nil"]
  /\ stopParts = [f \in Files |-> FALSE]
  /\ urls = [f \in Files |-> {}] /\ partSem = {}
  /\ ctries = [f \in Files |-> 1]
  /\ known = [f \in Files |-> FALSE] /\ abortSent = [f \in Files |-> FALSE]
  /\ session = [f \in Files |-> "none"]
  /\ stored = [f \in Files |-> {}] /\ lost = [f \in Files |-> {}]
  /\ single = [f \in Files |-> FALSE]

(***************************************************************************)
(* The file goroutine.                                                      *)
(***************************************************************************)
\* sem <- struct{}{}: not a select, so a cancelled command still queues here.
Acquire(f) ==
  /\ fpc[f] = "queued" /\ Cardinality(fileSem) < MaxConcurrentFiles
  /\ fileSem' = fileSem \cup {f}
  /\ fpc' = [fpc EXCEPT ![f] = "hash"]
  /\ UNCHANGED <<cmdVars, upErr, report, partVars, ctlVars, storeVars>>

\* The upload of f returned e to the file goroutine.
Return(f, e) ==
  /\ fpc' = [fpc EXCEPT ![f] = "returned"]
  /\ upErr' = [upErr EXCEPT ![f] = e]

\* Mutant: the abort is made under the command context, so it is skipped once that ended.
FailWithoutAbort(f, e) ==
  /\ fpc' = [fpc EXCEPT ![f] = IF known[f] /\ ~Cancelled THEN "abort" ELSE "returned"]
  /\ upErr' = [upErr EXCEPT ![f] = e]

\* upload() returns e: the deferred abort runs first when a session is known.
Fail(f, e) ==
  /\ fpc' = [fpc EXCEPT ![f] = IF known[f] THEN "abort" ELSE "returned"]
  /\ upErr' = [upErr EXCEPT ![f] = e]

\* computeFileChecksums, then the check of the context, then the choice of path.
Hash(f) ==
  /\ fpc[f] = "hash"
  /\ \/ Return(f, "real")
     \/ Cancelled /\ Return(f, "cancel")
     \/ /\ ~Cancelled
        /\ fpc' = [fpc EXCEPT ![f] = IF f \in Large THEN "start" ELSE "put"]
        /\ UNCHANGED upErr
  /\ UNCHANGED <<cmdVars, fileSem, report, partVars, ctlVars, storeVars>>

\* The goroutine's epilogue: classify the error, store it, release sem.
Report(f) ==
  /\ fpc[f] = "returned"
  /\ report' = [report EXCEPT ![f] =
        CASE upErr[f] = "nil"              -> "ok"
          [] upErr[f] = "stillFinalizing"  -> "stillFinalizing"
          [] OTHER                         -> IF Cancelled THEN "interrupted" ELSE "failed"]
  /\ fpc' = [fpc EXCEPT ![f] = "done"]
  /\ fileSem' = fileSem \ {f}
  /\ UNCHANGED <<cmdVars, upErr, partVars, ctlVars, storeVars>>

\* genericPutFile; an answer can be lost after the registry stored the file.
SinglePut(f) ==
  /\ fpc[f] = "put"
  /\ \/ single' = [single EXCEPT ![f] = TRUE] /\ Return(f, "nil")
     \/ UNCHANGED single /\ Return(f, "real")
     \/ Cancelled /\ UNCHANGED single /\ Return(f, "cancel")
     \/ /\ May("lostAnswer") /\ single' = [single EXCEPT ![f] = TRUE]
        /\ Return(f, IF Cancelled THEN "cancel" ELSE "real")
  /\ UNCHANGED <<cmdVars, fileSem, report, partVars, ctlVars, session, stored, lost>>

(***************************************************************************)
(* upload(): open a session, send the parts, complete, poll, or abort.      *)
(***************************************************************************)
\* startUpload and validateSession: what the registry did, and what came back.
Start(f) ==
  /\ fpc[f] = "start"
  /\ \/ \* 201 with a session whose sizing covers the file
        /\ session' = [session EXCEPT ![f] = "open"]
        /\ known' = [known EXCEPT ![f] = TRUE]
        /\ fpc' = [fpc EXCEPT ![f] = "spawn"]
        /\ UNCHANGED upErr
     \/ \* 201 with a sizing validateSession refuses, before the deferred abort is set up
        /\ May("badSizing")
        /\ session' = [session EXCEPT ![f] = "open"]
        /\ Return(f, "real") /\ UNCHANGED known
     \/ \* the content is already stored
        /\ session' = [session EXCEPT ![f] = "completed"]
        /\ Return(f, "nil") /\ UNCHANGED known
     \/ \* 501, 404 or no answer at all: fall back, unless the command itself ended
        /\ \/ UNCHANGED session
           \/ May("lostAnswer") /\ session' = [session EXCEPT ![f] = "open"]
        /\ IF Cancelled
           THEN Return(f, "cancel")
           ELSE fpc' = [fpc EXCEPT ![f] = "put"] /\ UNCHANGED upErr
        /\ UNCHANGED known
     \/ \* any other status; a retried start meets its own session as PATH_CONFLICT
        /\ \/ UNCHANGED session
           \/ May("lostAnswer") /\ session' = [session EXCEPT ![f] = "open"]
        /\ Return(f, "real") /\ UNCHANGED known
  /\ UNCHANGED <<cmdVars, fileSem, report, partVars, ctries, abortSent, stored, lost, single>>

\* uploadPartSet starts a goroutine per wanted part, with a fresh URL cache
\* seeded from the start answer.
Spawn(f, want) ==
  /\ ppc' = [u \in Uploads |-> IF u[1] = f /\ u[2] \in want THEN "wait" ELSE ppc[u]]
  /\ tries' = [u \in Uploads |-> IF u[1] = f THEN 1 ELSE tries[u]]
  /\ perr' = [u \in Uploads |-> IF u[1] = f THEN "nil" ELSE perr[u]]
  /\ stopParts' = [stopParts EXCEPT ![f] = FALSE]
  /\ urls' = [urls EXCEPT ![f] = Parts \cap (1..PresignBatch)]
  /\ fpc' = [fpc EXCEPT ![f] = "parts"]
  /\ UNCHANGED <<upErr, partSem>>

\* uploadPartSet cannot open the local file: no part is sent.
CannotOpen(f) == Fail(f, "real") /\ UNCHANGED partVars

UploadAll(f) ==
  /\ fpc[f] = "spawn"
  /\ Spawn(f, Parts) \/ CannotOpen(f)
  /\ UNCHANGED <<cmdVars, fileSem, report, ctlVars, storeVars>>

\* Mutant: the first failing part returns without waiting for the others.
JoinPartsEarly(f) ==
  /\ fpc[f] = "parts"
  /\ \/ \E p \in Parts : perr[<<f, p>>] = "real" /\ Fail(f, "real")
     \/ /\ \A p \in Parts : ppc[<<f, p>>] \in Idle /\ perr[<<f, p>>] = "nil"
        /\ fpc' = [fpc EXCEPT ![f] = "complete"] /\ UNCHANGED upErr
  /\ UNCHANGED <<cmdVars, fileSem, report, partVars, ctlVars, storeVars>>

\* wg.Wait() returned: joinPartErrors drops cancellations when a real error is present.
JoinParts(f) ==
  /\ fpc[f] = "parts"
  /\ \A p \in Parts : ppc[<<f, p>>] \in Idle
  /\ LET errs == {perr[<<f, p>>] : p \in Parts}
     IN \/ "real" \in errs /\ Fail(f, "real")
        \/ "real" \notin errs /\ "cancel" \in errs /\ Fail(f, "cancel")
        \/ errs = {"nil"} /\ fpc' = [fpc EXCEPT ![f] = "complete"] /\ UNCHANGED upErr
  /\ UNCHANGED <<cmdVars, fileSem, report, partVars, ctlVars, storeVars>>

\* One round of completeUpload.  The registry accepts only an open session whose
\* parts the store all holds; otherwise it names the missing ones.
Complete(f) ==
  /\ fpc[f] = "complete"
  /\ LET missing  == Parts \ stored[f]
         accepts  == session[f] = "open" /\ missing = {}
         accepted == session' = [session EXCEPT ![f] = "finalizing"]
     IN \/ \* accepted, and the answer arrives
           /\ accepts /\ accepted
           /\ fpc' = [fpc EXCEPT ![f] = "poll"]
           /\ UNCHANGED <<upErr, ctries, partVars>>
        \/ \* the answer already says that finalization failed
           /\ accepts /\ session' = [session EXCEPT ![f] = "failed"]
           /\ Fail(f, "real") /\ UNCHANGED <<ctries, partVars>>
        \/ \* INCOMPLETE_UPLOAD with a round left: re-upload and try again
           /\ session[f] = "open" /\ missing # {} /\ ctries[f] < CompleteAttempts
           /\ ctries' = [ctries EXCEPT ![f] = @ + 1]
           /\ Spawn(f, missing) \/ CannotOpen(f)
           /\ UNCHANGED session
        \/ \* any other error, or no round left
           /\ Fail(f, "real") /\ UNCHANGED <<session, ctries, partVars>>
        \/ \* the command ended while the call was in flight
           /\ Cancelled
           /\ UNCHANGED session \/ (accepts /\ accepted)
           /\ Fail(f, "cancel") /\ UNCHANGED <<ctries, partVars>>
        \/ \* accepted, but the answer is lost: the retry sees UPLOAD_NOT_OPEN
           /\ May("lostAnswer") /\ accepts /\ accepted
           /\ Fail(f, "real") /\ UNCHANGED <<ctries, partVars>>
  /\ UNCHANGED <<cmdVars, fileSem, report, known, abortSent, stored, lost, single>>

\* Mutant: giving up the wait counts as a finished upload.
PollGivesUpAsDone(f) ==
  /\ fpc[f] = "poll"
  /\ \/ session[f] = "completed" /\ Return(f, "nil")
     \/ session[f] \in {"failed", "aborted"} /\ Return(f, "real")
     \/ Cancelled /\ Return(f, "stillFinalizing")
     \/ ~Cancelled /\ Return(f, "nil")
  /\ UNCHANGED <<cmdVars, fileSem, report, partVars, ctlVars, storeVars>>

\* One round of pollUntilTerminal that ends the wait; accepted = TRUE, so no abort.
Poll(f) ==
  /\ fpc[f] = "poll"
  /\ \/ session[f] = "completed" /\ Return(f, "nil")
     \/ session[f] \in {"failed", "aborted"} /\ Return(f, "real")
     \/ Cancelled /\ Return(f, "stillFinalizing")
     \/ ~Cancelled /\ Return(f, "real")    \* the deadline, or an answer that is not transient
  /\ UNCHANGED <<cmdVars, fileSem, report, partVars, ctlVars, storeVars>>

\* abortUpload: best effort, under its own context.
Abort(f) ==
  /\ fpc[f] = "abort"
  /\ abortSent' = [abortSent EXCEPT ![f] = TRUE]
  /\ fpc' = [fpc EXCEPT ![f] = "returned"]
  /\ \/ session' = [session EXCEPT ![f] = IF @ = "open" THEN "aborted" ELSE @]
     \/ May("lostAnswer") /\ UNCHANGED session     \* never reached the registry
  /\ UNCHANGED <<cmdVars, fileSem, upErr, report, partVars, ctries, known, stored, lost, single>>

(***************************************************************************)
(* One part goroutine, u = <<file, part>>.                                  *)
(***************************************************************************)
\* Mutant: the semaphore is one per file.
AcquirePartPerFile(u) ==
  /\ ppc[u] = "wait"
  /\ Cardinality({v \in partSem : v[1] = u[1]}) < MaxConcurrentParts
  /\ partSem' = partSem \cup {u}
  /\ ppc' = [ppc EXCEPT ![u] = "try"]
  /\ UNCHANGED <<cmdVars, fileVars, tries, perr, stopParts, urls, ctlVars, storeVars>>

\* select: a slot of partSem, or the end of the part context.
AcquirePart(u) ==
  /\ ppc[u] = "wait" /\ Cardinality(partSem) < MaxConcurrentParts
  /\ partSem' = partSem \cup {u}
  /\ ppc' = [ppc EXCEPT ![u] = "try"]
  /\ UNCHANGED <<cmdVars, fileVars, tries, perr, stopParts, urls, ctlVars, storeVars>>

GiveUpWaiting(u) ==
  /\ ppc[u] = "wait" /\ PartCtxDone(u[1])
  /\ perr' = [perr EXCEPT ![u] = "cancel"]
  /\ ppc' = [ppc EXCEPT ![u] = "done"]
  /\ UNCHANGED <<cmdVars, fileVars, tries, stopParts, urls, partSem, ctlVars, storeVars>>

\* Mutant: a part that failed does not give its slot back.
PartReturnsKeepsSlot(u, e) ==
  /\ ppc' = [ppc EXCEPT ![u] = "done"]
  /\ perr' = [perr EXCEPT ![u] = e]
  /\ partSem' = IF e = "real" THEN partSem ELSE partSem \ {u}
  /\ stopParts' = IF e = "nil" THEN stopParts ELSE [stopParts EXCEPT ![u[1]] = TRUE]
  /\ UNCHANGED tries

\* uploadPart returned: nil, or an error that cancels the sibling parts.
PartReturns(u, e) ==
  /\ ppc' = [ppc EXCEPT ![u] = "done"]
  /\ perr' = [perr EXCEPT ![u] = e]
  /\ partSem' = partSem \ {u}
  /\ stopParts' = IF e = "nil" THEN stopParts ELSE [stopParts EXCEPT ![u[1]] = TRUE]
  /\ UNCHANGED tries

Moves(u, s) ==
  /\ ppc' = [ppc EXCEPT ![u] = s]
  /\ UNCHANGED <<tries, perr, stopParts, partSem>>

\* Top of the attempt loop: the context check, then partURLCache.get, which
\* releases its lock before it fetches a window of URLs.
Try(u) ==
  /\ ppc[u] = "try"
  /\ \/ PartCtxDone(u[1]) /\ PartReturns(u, "cancel")
     \/ ~PartCtxDone(u[1]) /\ u[2] \in urls[u[1]] /\ Moves(u, "put")
     \/ ~PartCtxDone(u[1]) /\ Moves(u, "fetch")      \* absent, or close to expiry
  /\ UNCHANGED <<cmdVars, fileVars, urls, ctlVars, storeVars>>

Fetch(u) ==
  /\ ppc[u] = "fetch"
  /\ \/ /\ Moves(u, "put")
        /\ urls' = [urls EXCEPT ![u[1]] = @ \cup (Parts \cap (u[2]..(u[2] + PresignBatch - 1)))]
     \/ PartReturns(u, "real") /\ UNCHANGED urls
     \/ PartCtxDone(u[1]) /\ PartReturns(u, "cancel") /\ UNCHANGED urls
  /\ UNCHANGED <<cmdVars, fileVars, ctlVars, storeVars>>

\* Mutant: one attempt too many.
RetryOffByOne(u) ==
  IF tries[u] <= PartAttempts THEN Moves(u, "backoff") ELSE PartReturns(u, "real")

\* A failed attempt: back off while attempts remain, else give up with the last error.
Retry(u) ==
  IF tries[u] < PartAttempts THEN Moves(u, "backoff") ELSE PartReturns(u, "real")

Holds(u) == stored' = [stored EXCEPT ![u[1]] = @ \cup {u[2]}]

PutPart(u) ==
  /\ ppc[u] = "put"
  /\ \/ Holds(u) /\ PartReturns(u, "nil") /\ UNCHANGED urls
     \/ \* transport error, 408, 429 or 5xx
        /\ UNCHANGED stored \/ (May("lostAnswer") /\ Holds(u))
        /\ Retry(u) /\ UNCHANGED urls
     \/ \* 403: forget the URL, then retry
        /\ urls' = [urls EXCEPT ![u[1]] = @ \ {u[2]}]
        /\ Retry(u) /\ UNCHANGED stored
     \/ \* any other status is final
        PartReturns(u, "real") /\ UNCHANGED <<urls, stored>>
     \/ /\ PartCtxDone(u[1]) /\ PartReturns(u, "cancel")
        /\ UNCHANGED <<urls, stored>>
  /\ UNCHANGED <<cmdVars, fileVars, ctlVars, session, lost, single>>

Backoff(u) ==
  /\ ppc[u] = "backoff"
  /\ \/ /\ ppc' = [ppc EXCEPT ![u] = "try"]
        /\ tries' = [tries EXCEPT ![u] = @ + 1]
        /\ UNCHANGED <<perr, stopParts, partSem>>
     \/ PartCtxDone(u[1]) /\ PartReturns(u, "cancel")
  /\ UNCHANGED <<cmdVars, fileVars, urls, ctlVars, storeVars>>

(***************************************************************************)
(* The command: signals, --timeout, and its end.                            *)
(***************************************************************************)
\* cancelOnSignal, or the command's --timeout: the first cause stays.
Cancel(cause) ==
  /\ May(cause) /\ cmd = "none" /\ cmd' = cause
  /\ UNCHANGED <<proc, exit, fileVars, partVars, ctlVars, storeVars>>

\* A second signal gets the default behaviour; a second after --timeout the process exits, whatever still runs.
Kill ==
  /\ May("kill") /\ cmd # "none" /\ proc' = "killed"
  /\ UNCHANGED <<cmd, exit, fileVars, partVars, ctlVars, storeVars>>

\* wg.Wait() returned: one failed file fails the command, a timeout keeps its own code.
Finish ==
  /\ \A f \in Files : fpc[f] = "done"
  /\ proc' = "exited"
  /\ exit' = IF \A f \in Files : report[f] = "ok" THEN "ok"
             ELSE IF cmd = "timeout" THEN "timeout" ELSE "failed"
  /\ UNCHANGED <<cmd, fileVars, partVars, ctlVars, storeVars>>

(***************************************************************************)
(* The registry and the object store, on their own.                         *)
(***************************************************************************)
\* The background job ends the finalization it was given; an accepted session
\* is no longer open, so no abort reaches it.
Finalize(f) ==
  /\ session[f] = "finalizing"
  /\ \E s \in {"completed", "failed"} : session' = [session EXCEPT ![f] = s]
  /\ UNCHANGED <<cmdVars, fileVars, partVars, ctlVars, stored, lost, single>>

\* The registry's own cleanup of a session it holds open for too long.
Expire(f) ==
  /\ May("expire") /\ session[f] = "open"
  /\ session' = [session EXCEPT ![f] = "aborted"]
  /\ UNCHANGED <<cmdVars, fileVars, partVars, ctlVars, stored, lost, single>>

\* A part the store acknowledged is gone when the registry lists the parts.
StoreLoss(f, p) ==
  /\ May("storeLoss") /\ session[f] = "open" /\ p \in stored[f] \ lost[f]
  /\ stored' = [stored EXCEPT ![f] = @ \ {p}]
  /\ lost' = [lost EXCEPT ![f] = @ \cup {p}]
  /\ UNCHANGED <<cmdVars, fileVars, partVars, ctlVars, session, single>>

FileStep(f) ==
  /\ proc = "running"
  /\ \/ Acquire(f) \/ Hash(f) \/ Report(f) \/ SinglePut(f)
     \/ Start(f) \/ UploadAll(f) \/ JoinParts(f) \/ Complete(f) \/ Poll(f) \/ Abort(f)

PartStep(u) ==
  /\ proc = "running"
  /\ AcquirePart(u) \/ GiveUpWaiting(u) \/ Try(u) \/ Fetch(u) \/ PutPart(u) \/ Backoff(u)

CmdStep ==
  /\ proc = "running"
  /\ Finish \/ Kill \/ \E cause \in {"signal", "timeout"} : Cancel(cause)

Registry ==
  \E f \in Files : Finalize(f) \/ Expire(f) \/ \E p \in Parts : StoreLoss(f, p)

Next ==
  \/ \E f \in Files : FileStep(f)
  \/ \E u \in Uploads : PartStep(u)
  \/ CmdStep
  \/ Registry

(***************************************************************************)
(* Fairness: goroutines are scheduled and every client call has a timeout   *)
(* (newHTTPClient, the part client's 10 minutes, the poll's deadline), so   *)
(* each client step that stays possible is taken.  Nothing is assumed of    *)
(* signals, of the registry or of the store.                                *)
(***************************************************************************)
Fairness ==
  /\ \A f \in Files : WF_vars(FileStep(f))
  /\ \A u \in Uploads : WF_vars(PartStep(u))
  /\ WF_vars(proc = "running" /\ Finish)

Spec == Init /\ [][Next]_vars /\ Fairness

-----------------------------------------------------------------------------
(***************************************************************************)
(* Properties.                                                              *)
(***************************************************************************)
FileStates == {"queued", "hash", "put", "start", "spawn", "parts", "complete",
               "poll", "abort", "returned", "done"}
PartStates == Idle \cup {"wait"} \cup Holding
UpErrs     == {"none", "nil", "real", "cancel", "stillFinalizing"}
Reports    == {"none", "ok", "stillFinalizing", "interrupted", "failed"}
Statuses   == {"none", "open", "finalizing", "completed", "failed", "aborted"}

\* Every variable keeps the values its Go counterpart can have.
TypeOK ==
  /\ cmd \in {"none", "signal", "timeout"}
  /\ proc \in {"running", "exited", "killed"}
  /\ exit \in {"none", "ok", "timeout", "failed"}
  /\ fpc \in [Files -> FileStates] /\ fileSem \subseteq Files
  /\ upErr \in [Files -> UpErrs] /\ report \in [Files -> Reports]
  /\ ppc \in [Uploads -> PartStates] /\ tries \in [Uploads -> 1..PartAttempts]
  /\ perr \in [Uploads -> {"nil", "real", "cancel"}]
  /\ stopParts \in [Files -> BOOLEAN]
  /\ urls \in [Files -> SUBSET Parts] /\ partSem \subseteq Uploads
  /\ ctries \in [Files -> 1..CompleteAttempts]
  /\ known \in [Files -> BOOLEAN] /\ abortSent \in [Files -> BOOLEAN]
  /\ session \in [Files -> Statuses]
  /\ stored \in [Files -> SUBSET Parts] /\ lost \in [Files -> SUBSET Parts]
  /\ single \in [Files -> BOOLEAN]

\* partSem "bounds the total number of part uploads in flight" over all files
\* (multipart.go:169-171): every return path of a part gives its slot back, a
\* part in flight belongs to a file that still holds its own slot, and the two
\* semaphores bound the command.
SlotsBounded ==
  /\ partSem = {u \in Uploads : ppc[u] \in Holding}
  /\ \A u \in partSem : u[1] \in fileSem
  /\ Cardinality(partSem) <= MaxConcurrentParts
  /\ Cardinality(fileSem) <= MaxConcurrentFiles

\* completeUpload is only called once the store acknowledged every part that it
\* did not lose itself: neither a failed nor a cancelled part is taken for sent,
\* in the first round or in a repair round.
CompleteAfterAcks ==
  \A f \in Files : fpc[f] = "complete" => Parts \ stored[f] \subseteq lost[f]

\* joinPartErrors: a cancellation that one failing part caused never hides the
\* failure, so a file fails as cancelled only if the command itself ended.
CauseNotBuried == \A f \in Files : upErr[f] = "cancel" => Cancelled

\* A session upload() knew of is not left open by a file that is done: it was
\* completed, or its abort was sent (multipart.go:227-235).
SessionReleased ==
  \A f \in Files : fpc[f] = "done" /\ known[f] /\ session[f] = "open" => abortSent[f]

\* errMultipartUnsupported is "only ever returned before any file bytes are sent"
\* (multipart.go:100-103): a file sent by a single PUT has no part at the store
\* and no session that could publish it a second time.
FallbackIsFree ==
  \A f \in Files : single[f] =>
    /\ stored[f] \cup lost[f] = {}
    /\ session[f] \in {"none", "open", "aborted"}

\* Nothing of a file is sent once its session was aborted or the file reported,
\* although its parts ran in goroutines of their own.
NothingSentAfterEnd ==
  [][\A f \in Files : abortSent[f] \/ fpc[f] = "done" =>
        /\ stored'[f] \subseteq stored[f]
        /\ single'[f] = single[f]
        /\ session'[f] \in {"open", "finalizing"} => session'[f] = session[f]]_vars

(***************************************************************************)
(* The promise of the command, by the state of the registry.                *)
(***************************************************************************)
place == [f \in Files |->
  IF single[f] THEN "published"
  ELSE CASE session[f] = "finalizing" -> "accepted"
         [] session[f] = "completed"  -> "published"
         [] session[f] = "failed"     -> "refused"
         [] OTHER                     -> "absent"]
said == [f \in Files |->
  CASE report[f] = "ok" -> "ok" [] report[f] = "stillFinalizing" -> "pending"
    [] report[f] = "none" -> "none" [] OTHER -> "failed"]

\* The command keeps the promise of Publication: "ok" is said only of a published
\* file, "will still be published" only of one the registry took, and nothing is
\* handed over once the file was reported.
Promise == INSTANCE Publication WITH place <- place, said <- said
PromiseKept == Promise!Spec

\* Every goroutine ends, so the command does: no slot is waited for forever, a
\* cancelled part wakes up, and the poll gives up.
Termination == <>(proc # "running")

\* The life of a session: complete only after every acknowledgement, released on failure,
\* never beside a single PUT, and with the cause of its failure (multipart.go:202-239, 838-852).
SessionSound == CompleteAfterAcks /\ SessionReleased /\ FallbackIsFree /\ CauseNotBuried
=============================================================================
