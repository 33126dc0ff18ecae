------------------------ MODULE MultipartUploadProofs ------------------------
(***************************************************************************)
(* Theorems about MultipartUpload, for every set of files, every number of  *)
(* parts, slots and attempts, and every choice of faults.                   *)
(***************************************************************************)
EXTENDS MultipartUpload, FiniteSetTheorems, TLAPS

\* A part backs off only while it has an attempt left.
BackoffLeft == \A u \in Uploads : ppc[u] = "backoff" => tries[u] < PartAttempts

TypeInv == TypeOK /\ BackoffLeft

\* The first invariant holds in the initial state.
LEMMA InitTypeInv == Init => TypeInv
  BY ConstantsOK DEF Init, TypeInv, TypeOK, BackoffLeft, Idle, PartStates, FileStates, UpErrs,
     Reports, Statuses, Parts, Uploads

\* A step of a file's goroutine keeps the types: only Spawn touches the parts,
\* and it starts them at the first attempt.
LEMMA FileStepTypeInv ==
  ASSUME TypeInv, NEW f \in Files, FileStep(f)
  PROVE  TypeInv'
<1> USE DEF TypeInv, TypeOK, BackoffLeft, FileStates, UpErrs, Reports, Statuses,
            cmdVars, fileVars, partVars, ctlVars, storeVars
<1>1. CASE Acquire(f)
  <2>1. fpc' \in [Files -> FileStates] /\ fileSem' \subseteq Files
    BY <1>1 DEF Acquire
  <2>2. UNCHANGED <<cmdVars, upErr, report, partVars, ctlVars, storeVars>>
    BY <1>1 DEF Acquire
  <2> QED BY <2>1, <2>2
<1>2. CASE Hash(f)       BY <1>2 DEF Hash, Return
<1>3. CASE Report(f)     BY <1>3 DEF Report
<1>4. CASE SinglePut(f)
  <2>1. /\ fpc' \in [Files -> FileStates] /\ upErr' \in [Files -> UpErrs] /\ single' \in [Files -> BOOLEAN]
    <3>1. single' = single \/ single' = [single EXCEPT ![f] = TRUE]
      BY <1>4 DEF SinglePut
    <3>2. PICK e \in {"nil", "real", "cancel"} : Return(f, e)
      BY <1>4 DEF SinglePut
    <3>3. single' \in [Files -> BOOLEAN]
      BY <3>1
    <3>4. fpc' \in [Files -> FileStates] /\ upErr' \in [Files -> UpErrs]
      BY <3>2 DEF Return
    <3> QED BY <3>3, <3>4
  <2>2. UNCHANGED <<cmdVars, fileSem, report, partVars, ctlVars, session, stored, lost>>
    BY <1>4 DEF SinglePut, Return
  <2> QED BY <2>1, <2>2
<1>5. CASE Start(f)
  <2>1. /\ session' \in [Files -> Statuses]
        /\ known' \in [Files -> BOOLEAN]
    BY <1>5 DEF Start
  <2>2. /\ fpc' \in [Files -> FileStates]
        /\ upErr' \in [Files -> UpErrs]
    BY <1>5 DEF Start, Return
  <2> QED BY <1>5, <2>1, <2>2 DEF Start
<1>6. CASE UploadAll(f)
  <2>1. CASE Spawn(f, Parts)
    BY <1>6, <2>1, ConstantsOK DEF UploadAll, Spawn, Parts, Uploads, PartStates, Idle
  <2>2. CASE CannotOpen(f)
    BY <1>6, <2>2 DEF UploadAll, CannotOpen, Fail
  <2> QED BY <1>6, <2>1, <2>2 DEF UploadAll
<1>7. CASE JoinParts(f)  BY <1>7 DEF JoinParts, Fail
<1>8. CASE Complete(f)
  <2>1. CASE UNCHANGED partVars /\ UNCHANGED ctries
    BY <1>8, <2>1 DEF Complete, Fail
  <2>2. CASE /\ ctries[f] < CompleteAttempts
             /\ ctries' = [ctries EXCEPT ![f] = @ + 1]
             /\ UNCHANGED <<session, cmdVars, fileSem, report, known, abortSent, stored, lost, single>>
             /\ Spawn(f, Parts \ stored[f]) \/ CannotOpen(f)
    <3>1. ctries' \in [Files -> 1..CompleteAttempts]
      BY <2>2, ConstantsOK
    <3>2. CASE Spawn(f, Parts \ stored[f])
      BY <2>2, <3>1, <3>2, ConstantsOK DEF Spawn, Parts, Uploads, PartStates, Idle
    <3>3. CASE CannotOpen(f)
      BY <2>2, <3>1, <3>3 DEF CannotOpen, Fail
    <3> QED BY <2>2, <3>2, <3>3
  <2> QED BY <1>8, <2>1, <2>2 DEF Complete
<1>9. CASE Poll(f)       BY <1>9 DEF Poll, Return
<1>10. CASE Abort(f)     BY <1>10 DEF Abort
<1> QED BY <1>1, <1>2, <1>3, <1>4, <1>5, <1>6, <1>7, <1>8, <1>9, <1>10 DEF FileStep

\* A step of a part's goroutine keeps the types: Retry backs off only below the
\* last attempt, so Backoff never counts past it.
LEMMA PartStepTypeInv ==
  ASSUME TypeInv, NEW u \in Uploads, PartStep(u)
  PROVE  TypeInv'
<1> USE DEF TypeInv, TypeOK, BackoffLeft, PartStates, Idle, Holding,
            cmdVars, fileVars, partVars, ctlVars, storeVars
<1>0. u[1] \in Files /\ u[2] \in Parts
  BY DEF Uploads
<1>1. CASE AcquirePart(u)   BY <1>1 DEF AcquirePart
<1>2. CASE GiveUpWaiting(u) BY <1>2 DEF GiveUpWaiting
<1>3. CASE Try(u)
  <2>1. CASE Moves(u, "put") \/ Moves(u, "fetch")
    BY <1>3, <2>1 DEF Try, Moves
  <2>2. CASE PartReturns(u, "cancel")
    BY <1>0, <1>3, <2>2 DEF Try, PartReturns
  <2> QED BY <1>3, <2>1, <2>2 DEF Try
<1>4. CASE Fetch(u)
  <2>1. urls' \in [Files -> SUBSET Parts]
    BY <1>0, <1>4 DEF Fetch
  <2>2. CASE Moves(u, "put")
    BY <1>0, <1>4, <2>1, <2>2 DEF Fetch, Moves
  <2>3. CASE PartReturns(u, "real") \/ PartReturns(u, "cancel")
    BY <1>0, <1>4, <2>1, <2>3 DEF Fetch, PartReturns
  <2> QED BY <1>4, <2>2, <2>3 DEF Fetch
<1>5. CASE PutPart(u)
  <2>1. /\ stored' \in [Files -> SUBSET Parts]
        /\ urls' \in [Files -> SUBSET Parts]
    BY <1>0, <1>5 DEF PutPart, Holds
  <2>2. \/ \E e \in {"nil", "real", "cancel"} : PartReturns(u, e)
        \/ tries[u] < PartAttempts /\ Moves(u, "backoff")
    BY <1>5 DEF PutPart, Retry
  <2>3. CASE \E e \in {"nil", "real", "cancel"} : PartReturns(u, e)
    BY <1>0, <1>5, <2>1, <2>3 DEF PutPart, PartReturns
  <2>4. CASE tries[u] < PartAttempts /\ Moves(u, "backoff")
    BY <1>0, <1>5, <2>1, <2>4 DEF PutPart, Moves
  <2> QED BY <2>2, <2>3, <2>4
<1>6. CASE Backoff(u)
  <2>1. CASE /\ ppc[u] = "backoff"
             /\ ppc' = [ppc EXCEPT ![u] = "try"]
             /\ tries' = [tries EXCEPT ![u] = @ + 1]
             /\ UNCHANGED <<perr, stopParts, partSem>>
             /\ UNCHANGED <<cmdVars, fileVars, urls, ctlVars, storeVars>>
    BY <2>1, ConstantsOK
  <2>2. CASE PartReturns(u, "cancel")
    BY <1>0, <1>6, <2>2 DEF Backoff, PartReturns
  <2> QED BY <1>6, <2>1, <2>2 DEF Backoff
<1> QED BY <1>1, <1>2, <1>3, <1>4, <1>5, <1>6 DEF PartStep

\* The command, the registry and the store keep the types.
LEMMA OtherStepTypeInv ==
  ASSUME TypeInv, CmdStep \/ Registry \/ UNCHANGED vars
  PROVE  TypeInv'
<1> USE DEF TypeInv, TypeOK, BackoffLeft, cmdVars, fileVars, partVars, ctlVars, storeVars
<1>1. CASE CmdStep   BY <1>1 DEF CmdStep, Finish, Kill, Cancel
<1>2. CASE Registry
  <2>1. CASE \E f \in Files : Finalize(f) \/ Expire(f)
    BY <2>1 DEF Finalize, Expire, Statuses
  <2>2. CASE \E f \in Files, p \in Parts : StoreLoss(f, p)
    BY <2>2 DEF StoreLoss
  <2> QED BY <1>2, <2>1, <2>2 DEF Registry
<1>3. CASE UNCHANGED vars BY <1>3 DEF vars
<1> QED BY <1>1, <1>2, <1>3

\* The types of MultipartUpload, with the attempts of a part within their bound.
THEOREM TypeCorrect == Spec => [](TypeOK /\ BackoffLeft)
<1>1. Init => TypeInv
  BY InitTypeInv
<1>2. TypeInv /\ [Next]_vars => TypeInv'
  BY FileStepTypeInv, PartStepTypeInv, OtherStepTypeInv DEF Next
<1> QED BY <1>1, <1>2, PTL DEF Spec, TypeInv

-----------------------------------------------------------------------------
(***************************************************************************)
(* The semaphores.                                                          *)
(***************************************************************************)
\* A part runs only while its file waits for its parts.
PartsInPhase == \A u \in Uploads : ppc[u] \notin Idle => fpc[u[1]] = "parts"

\* The channels hold exactly the goroutines between acquire and release.
SlotsMatch ==
  /\ partSem = {u \in Uploads : ppc[u] \in Holding}
  /\ fileSem = {f \in Files : fpc[f] \notin {"queued", "done"}}

Bounded(sem, max) == IsFiniteSet(sem) /\ Cardinality(sem) <= max

SlotInv ==
  /\ PartsInPhase /\ SlotsMatch
  /\ Bounded(partSem, MaxConcurrentParts) /\ Bounded(fileSem, MaxConcurrentFiles)

\* A send on a channel with room, and a receive, keep its bound.
LEMMA BoundedAdd ==
  ASSUME NEW S, NEW x, NEW max \in Nat, IsFiniteSet(S), Cardinality(S) < max
  PROVE  Bounded(S \cup {x}, max)
<1>1. Cardinality(S) \in Nat
  BY FS_CardinalityType
<1>2. /\ IsFiniteSet(S \cup {x})
      /\ Cardinality(S \cup {x}) \in {Cardinality(S), Cardinality(S) + 1}
  BY FS_AddElement
<1> QED BY <1>1, <1>2 DEF Bounded

\* Taking one element out of a set that is not over the bound leaves it within.
LEMMA BoundedRemove ==
  ASSUME NEW S, NEW x, NEW max \in Nat, Bounded(S, max)
  PROVE  Bounded(S \ {x}, max)
<1>1. Cardinality(S) \in Nat
  BY FS_CardinalityType DEF Bounded
<1>2. /\ IsFiniteSet(S \ {x})
      /\ Cardinality(S \ {x}) \in {Cardinality(S), Cardinality(S) - 1}
  BY FS_RemoveElement DEF Bounded
<1> QED BY <1>1, <1>2 DEF Bounded

\* No goroutine holds a slot at the start.
LEMMA InitSlotInv == Init => SlotInv
  BY FS_EmptySet, ConstantsOK
  DEF Init, SlotInv, PartsInPhase, SlotsMatch, Bounded, Idle, Holding, Uploads

\* The file goroutine takes its slot in Acquire and gives it back in Report; its
\* parts start without a slot.
LEMMA FileStepSlotInv ==
  ASSUME TypeInv, SlotInv, NEW f \in Files, FileStep(f)
  PROVE  SlotInv'
<1> USE DEF SlotInv, PartsInPhase, SlotsMatch
<1>0. /\ ppc \in [Uploads -> PartStates] /\ fpc \in [Files -> FileStates]
      /\ \A u \in Uploads : u[1] \in Files
      /\ MaxConcurrentParts \in Nat /\ MaxConcurrentFiles \in Nat
  BY ConstantsOK DEF TypeInv, TypeOK, Uploads
<1>1. CASE Acquire(f)
  <2>1. UNCHANGED <<ppc, partSem>>
    BY <1>1 DEF Acquire, partVars
  <2>2. Bounded(fileSem', MaxConcurrentFiles)
    BY <1>0, <1>1, BoundedAdd DEF Acquire, Bounded
  <2>3. fileSem' = {g \in Files : fpc'[g] \notin {"queued", "done"}}
    BY <1>0, <1>1 DEF Acquire
  <2> QED BY <1>0, <1>1, <2>1, <2>2, <2>3 DEF Acquire
<1>2. CASE Report(f)
  <2>1. UNCHANGED <<ppc, partSem>>
    BY <1>2 DEF Report, partVars
  <2>2. Bounded(fileSem', MaxConcurrentFiles)
    BY <1>0, <1>2, BoundedRemove DEF Report
  <2>3. fileSem' = {g \in Files : fpc'[g] \notin {"queued", "done"}}
    BY <1>0, <1>2 DEF Report
  <2> QED BY <1>0, <1>2, <2>1, <2>2, <2>3 DEF Report
<1>3. CASE /\ UNCHANGED <<ppc, partSem, fileSem>>
           /\ fpc[f] \notin {"queued", "done", "parts"}
           /\ \E s \in FileStates \ {"queued", "done"} : fpc' = [fpc EXCEPT ![f] = s]
  BY <1>0, <1>3
<1>4. CASE /\ UNCHANGED <<ppc, partSem, fileSem>>
           /\ fpc[f] = "parts" /\ \A p \in Parts : ppc[<<f, p>>] \in Idle
           /\ \E s \in FileStates \ {"queued", "done"} : fpc' = [fpc EXCEPT ![f] = s]
  <2>1. \A u \in Uploads : ppc[u] \notin Idle => u[1] # f
    BY <1>0, <1>4 DEF Uploads
  <2> QED BY <1>0, <1>4, <2>1
<1>5. CASE /\ fpc[f] \in {"spawn", "complete"} /\ UNCHANGED fileSem
           /\ \E want \in SUBSET Parts : Spawn(f, want)
  <2>1. PICK want \in SUBSET Parts : Spawn(f, want)
    BY <1>5
  <2>2. fpc' = [fpc EXCEPT ![f] = "parts"] /\ UNCHANGED partSem
    BY <2>1 DEF Spawn
  <2>3. \A u \in Uploads : /\ u[1] = f => ppc[u] \in Idle /\ ppc'[u] \in Idle \cup {"wait"}
                           /\ u[1] # f => ppc'[u] = ppc[u]
    BY <1>0, <1>5, <2>1 DEF Spawn
  <2>4. \A u \in Uploads : ppc'[u] \in Holding <=> ppc[u] \in Holding
    BY <2>3 DEF Idle, Holding
  <2> QED BY <1>0, <1>5, <2>2, <2>3, <2>4
<1> USE DEF fileVars, partVars, FileStates
<1>6. CASE Hash(f)       BY <1>3, <1>6 DEF Hash, Return
<1>7. CASE SinglePut(f)  BY <1>3, <1>7 DEF SinglePut, Return
<1>8. CASE Start(f)      BY <1>3, <1>8 DEF Start, Return
<1>9. CASE UploadAll(f)  BY <1>3, <1>5, <1>9 DEF UploadAll, CannotOpen, Fail
<1>10. CASE JoinParts(f) BY <1>4, <1>10 DEF JoinParts, Fail
<1>11. CASE Complete(f)
  <2>1. CASE Spawn(f, Parts \ stored[f])
    BY <1>5, <1>11, <2>1 DEF Complete
  <2>2. CASE ~Spawn(f, Parts \ stored[f])
    BY <1>3, <1>11, <2>2 DEF Complete, CannotOpen, Fail
  <2> QED BY <2>1, <2>2
<1>12. CASE Poll(f)      BY <1>3, <1>12 DEF Poll, Return
<1>13. CASE Abort(f)     BY <1>3, <1>13 DEF Abort
<1> QED BY <1>1, <1>2, <1>6, <1>7, <1>8, <1>9, <1>10, <1>11, <1>12, <1>13 DEF FileStep

\* A part takes its slot in AcquirePart, keeps it through its retries, and gives it
\* back on every return; one that gives up waiting never had any.
LEMMA PartStepSlotInv ==
  ASSUME TypeInv, SlotInv, NEW u \in Uploads, PartStep(u)
  PROVE  SlotInv'
<1> USE DEF SlotInv, PartsInPhase, SlotsMatch, Idle, Holding
<1>0. /\ ppc \in [Uploads -> PartStates]
      /\ MaxConcurrentParts \in Nat /\ MaxConcurrentFiles \in Nat
  BY ConstantsOK DEF TypeInv, TypeOK
<1>1. UNCHANGED <<fpc, fileSem>>
  BY DEF PartStep, AcquirePart, GiveUpWaiting, Try, Fetch, PutPart, Backoff, fileVars
<1>2. CASE AcquirePart(u)
  <2>1. Bounded(partSem', MaxConcurrentParts)
    BY <1>0, <1>2, BoundedAdd DEF AcquirePart, Bounded
  <2>2. partSem' = {v \in Uploads : ppc'[v] \in Holding}
    BY <1>0, <1>2 DEF AcquirePart
  <2> QED BY <1>0, <1>1, <1>2, <2>1, <2>2 DEF AcquirePart
<1>3. CASE /\ ppc[u] = "wait" /\ ppc' = [ppc EXCEPT ![u] = "done"] /\ UNCHANGED partSem
  BY <1>0, <1>1, <1>3
<1>4. CASE ppc[u] \in Holding /\ \E s \in Holding : Moves(u, s)
  BY <1>0, <1>1, <1>4 DEF Moves
<1>5. CASE ppc[u] \in Holding /\ \E e \in {"nil", "real", "cancel"} : PartReturns(u, e)
  <2>1. ppc' = [ppc EXCEPT ![u] = "done"] /\ partSem' = partSem \ {u}
    BY <1>5 DEF PartReturns
  <2>2. Bounded(partSem', MaxConcurrentParts)
    BY <1>0, <2>1, BoundedRemove
  <2>3. partSem' = {v \in Uploads : ppc'[v] \in Holding}
    BY <1>0, <2>1
  <2> QED BY <1>0, <1>1, <1>5, <2>1, <2>2, <2>3
<1>6. CASE GiveUpWaiting(u) BY <1>3, <1>6 DEF GiveUpWaiting
<1>7. CASE Try(u)           BY <1>4, <1>5, <1>7 DEF Try
<1>8. CASE Fetch(u)         BY <1>4, <1>5, <1>8 DEF Fetch
<1>9. CASE PutPart(u)       BY <1>4, <1>5, <1>9 DEF PutPart, Retry
<1>10. CASE Backoff(u)
  <2>1. CASE PartReturns(u, "cancel")
    BY <1>5, <1>10, <2>1 DEF Backoff
  <2>2. CASE ppc[u] = "backoff" /\ ppc' = [ppc EXCEPT ![u] = "try"] /\ UNCHANGED partSem
    BY <1>0, <1>1, <2>2
  <2> QED BY <1>10, <2>1, <2>2 DEF Backoff
<1> QED BY <1>2, <1>6, <1>7, <1>8, <1>9, <1>10 DEF PartStep

\* Nothing else touches a slot or a goroutine.
LEMMA OtherStepSlotInv ==
  ASSUME SlotInv, CmdStep \/ Registry \/ UNCHANGED vars
  PROVE  SlotInv'
<1>1. UNCHANGED <<fpc, fileSem, ppc, partSem>>
  BY DEF CmdStep, Finish, Kill, Cancel, Registry, Finalize, Expire, StoreLoss, vars, fileVars, partVars
<1> QED BY <1>1 DEF SlotInv, PartsInPhase, SlotsMatch, Bounded

\* The promise of the shared semaphore, for any number of files, parts and slots:
\* no path leaks a slot, and the parts in flight over all files stay bounded.
THEOREM SlotsAlwaysBounded == Spec => []SlotsBounded
<1>1. Init => TypeInv /\ SlotInv
  BY InitTypeInv, InitSlotInv
<1>2. TypeInv /\ SlotInv /\ [Next]_vars => TypeInv' /\ SlotInv'
  BY FileStepTypeInv, PartStepTypeInv, OtherStepTypeInv,
     FileStepSlotInv, PartStepSlotInv, OtherStepSlotInv DEF Next
<1>3. TypeInv /\ SlotInv => SlotsBounded
  <2> SUFFICES ASSUME TypeInv, SlotInv PROVE SlotsBounded
    OBVIOUS
  <2>1. \A u \in partSem : u[1] \in fileSem
    BY DEF SlotInv, SlotsMatch, PartsInPhase, Holding, Idle, Uploads
  <2> QED BY <2>1 DEF SlotInv, SlotsMatch, Bounded, SlotsBounded
<1> QED BY <1>1, <1>2, <1>3, PTL DEF Spec

-----------------------------------------------------------------------------
(***************************************************************************)
(* Theorems about the session of a file in MultipartUpload: when it is      *)
(* completed, released and replaced by a single PUT, with what cause it     *)
(* fails, and that the command keeps the promise of Publication.            *)
(***************************************************************************)

Ended     == {"returned", "done"}
Accepted  == {"finalizing", "completed", "failed"}
NotSent   == {"queued", "hash", "start", "put", "spawn"}
InSession == {"spawn", "parts", "complete", "poll", "abort"}

\* Where the session of a file stands in each phase of its goroutine.
SessionInPhase ==
  \A f \in Files :
    /\ fpc[f] \in {"queued", "hash", "start"} => session[f] = "none"
    /\ fpc[f] = "put" => session[f] \in {"none", "open", "aborted"}
    /\ fpc[f] \in {"spawn", "parts", "complete"} => session[f] \in {"open", "aborted"}
    /\ fpc[f] = "poll" => session[f] \in Accepted
    /\ fpc[f] \in NotSent => stored[f] \cup lost[f] = {}

\* known is set by Start alone, an abort is the last thing a session's file does,
\* and a single PUT ends a file that never knew a session.
OwnerInPhase ==
  \A f \in Files :
    /\ fpc[f] \in InSession => known[f]
    /\ fpc[f] \in {"queued", "hash", "start", "put"} => ~known[f]
    /\ abortSent[f] => fpc[f] \in Ended
    /\ fpc[f] \in Ended /\ known[f] /\ session[f] = "open" => abortSent[f]
    /\ single[f] => fpc[f] \in Ended /\ ~known[f]

\* What a file returned has its ground in the registry, and is reported once.
ResultInPhase ==
  \A f \in Files :
    /\ fpc[f] = "abort" => upErr[f] \in {"real", "cancel"}
    /\ fpc[f] \in Ended /\ upErr[f] = "nil" => single[f] \/ session[f] = "completed"
    /\ fpc[f] \in Ended /\ upErr[f] = "stillFinalizing" => session[f] \in Accepted
    /\ report[f] = "none" <=> fpc[f] # "done"

\* A part has no error before it is done, and once it ended without one the store
\* acknowledged it, in this round or in an earlier one.
PartsAcked ==
  \A u \in Uploads :
    /\ ppc[u] \notin Idle => perr[u] = "nil"
    /\ fpc[u[1]] = "parts" /\ ppc[u] \in Idle /\ perr[u] = "nil"
         => u[2] \in stored[u[1]] \cup lost[u[1]]

\* A sibling is cancelled only by the command or by a part that really failed.
CancelHasCause ==
  \A f \in Files :
    stopParts[f] \/ (\E p \in Parts : perr[<<f, p>>] = "cancel")
      => Cancelled \/ \E p \in Parts : perr[<<f, p>>] = "real"

PhaseInv == SessionInPhase /\ OwnerInPhase /\ ResultInPhase /\ FallbackIsFree

CauseInv == PartsAcked /\ CancelHasCause /\ CompleteAfterAcks /\ CauseNotBuried

-----------------------------------------------------------------------------
(***************************************************************************)
(* The phases of a file.                                                    *)
(***************************************************************************)
\* Every file starts before its session, with nothing sent and nothing reported.
LEMMA InitPhaseInv == Init => PhaseInv
  BY DEF Init, PhaseInv, SessionInPhase, OwnerInPhase, ResultInPhase, FallbackIsFree,
     InSession, Ended, Accepted

\* A step of a file's goroutine keeps the phases, since each action moves the phase
\* together with the session, the owner's flags and the result.
LEMMA FileStepPhaseInv ==
  ASSUME TypeInv, PhaseInv, NEW f \in Files, FileStep(f)
  PROVE  PhaseInv'
<1> USE DEF PhaseInv, SessionInPhase, OwnerInPhase, ResultInPhase, FallbackIsFree,
            Ended, Accepted, NotSent, InSession
<1>0. /\ fpc \in [Files -> FileStates] /\ upErr \in [Files -> UpErrs]
      /\ report \in [Files -> Reports] /\ session \in [Files -> Statuses]
      /\ known \in [Files -> BOOLEAN] /\ abortSent \in [Files -> BOOLEAN]
      /\ single \in [Files -> BOOLEAN]
  BY DEF TypeInv, TypeOK
<1> USE <1>0 DEF cmdVars, fileVars, partVars, ctlVars, storeVars, FileStates
<1>1. CASE Acquire(f)    BY <1>1 DEF Acquire
<1>2. CASE Hash(f)       BY <1>2 DEF Hash, Return
<1>3. CASE Report(f)     BY <1>3 DEF Report
<1>4. CASE SinglePut(f)  BY <1>4 DEF SinglePut, Return
<1>5. CASE Start(f)      BY <1>5 DEF Start, Return
<1>6. CASE UploadAll(f)  BY <1>6 DEF UploadAll, Spawn, CannotOpen, Fail
<1>7. CASE JoinParts(f)  BY <1>7 DEF JoinParts, Fail
<1>8. CASE Complete(f)   BY <1>8 DEF Complete, Spawn, CannotOpen, Fail
<1>9. CASE Poll(f)       BY <1>9 DEF Poll, Return
<1>10. CASE Abort(f)     BY <1>10 DEF Abort
<1> QED BY <1>1, <1>2, <1>3, <1>4, <1>5, <1>6, <1>7, <1>8, <1>9, <1>10 DEF FileStep

\* A part only adds to what the store holds of its own file, which is then in "parts".
LEMMA PartStepPhaseInv ==
  ASSUME TypeInv, SlotInv, PhaseInv, NEW u \in Uploads, PartStep(u)
  PROVE  PhaseInv'
<1>1. UNCHANGED <<fpc, upErr, report, known, abortSent, session, lost, single>>
  BY DEF PartStep, AcquirePart, GiveUpWaiting, Try, Fetch, PutPart, Backoff,
         fileVars, ctlVars, storeVars
<1>2. stored' = stored \/ (fpc[u[1]] = "parts" /\ Holds(u))
  BY DEF PartStep, AcquirePart, GiveUpWaiting, Try, Fetch, PutPart, Backoff, storeVars,
         SlotInv, PartsInPhase, Idle
<1>3. \A f \in Files : fpc[f] # "parts" => stored'[f] = stored[f]
  BY <1>2 DEF Holds, TypeInv, TypeOK
<1> QED
  BY <1>1, <1>3 DEF PhaseInv, SessionInPhase, OwnerInPhase, ResultInPhase, FallbackIsFree,
     NotSent, InSession, Ended, Accepted

\* The registry decides only on what it accepted, expires only what is open, and
\* the store loses only what it held.
LEMMA OtherStepPhaseInv ==
  ASSUME TypeInv, PhaseInv, CmdStep \/ Registry \/ UNCHANGED vars
  PROVE  PhaseInv'
<1> USE DEF PhaseInv, SessionInPhase, OwnerInPhase, ResultInPhase, FallbackIsFree,
            NotSent, InSession, Ended, Accepted
<1>0. UNCHANGED <<fpc, upErr, report, known, abortSent, single>>
  BY DEF CmdStep, Finish, Kill, Cancel, Registry, Finalize, Expire, StoreLoss, vars,
         fileVars, ctlVars, storeVars
<1>1. CASE UNCHANGED <<session, stored, lost>>
  BY <1>0, <1>1
<1>2. CASE \E f \in Files : Finalize(f) \/ Expire(f)
  BY <1>0, <1>2 DEF Finalize, Expire, TypeInv, TypeOK
<1>3. CASE \E f \in Files, p \in Parts : StoreLoss(f, p)
  <2>1. PICK f \in Files, p \in Parts : StoreLoss(f, p)
    BY <1>3
  <2>2. \A g \in Files : stored'[g] \cup lost'[g] # {} => stored[g] \cup lost[g] # {}
    BY <2>1 DEF StoreLoss, TypeInv, TypeOK
  <2> QED BY <1>0, <2>1, <2>2 DEF StoreLoss
<1> QED
  BY <1>1, <1>2, <1>3 DEF CmdStep, Finish, Kill, Cancel, Registry, vars, storeVars

-----------------------------------------------------------------------------
(***************************************************************************)
(* The parts of a file: what was acknowledged, and why a part stopped.      *)
(***************************************************************************)
\* No part has run yet.
LEMMA InitCauseInv == Init => CauseInv
<1> SUFFICES ASSUME Init PROVE CauseInv
  OBVIOUS
<1>1. PartsAcked
  BY DEF Init, PartsAcked, Uploads, Idle
<1>2. CancelHasCause
  BY DEF Init, CancelHasCause, Uploads
<1>3. CompleteAfterAcks /\ CauseNotBuried
  BY DEF Init, CompleteAfterAcks, CauseNotBuried
<1> QED BY <1>1, <1>2, <1>3 DEF CauseInv

\* A set of parts that starts has no error, and what it leaves out is stored already.
LEMMA SpawnCauseInv ==
  ASSUME TypeInv, CauseInv, NEW f \in Files, NEW want \in SUBSET Parts, Spawn(f, want),
         Parts \ want \subseteq stored[f],
         \A p \in Parts : ppc[<<f, p>>] \in Idle,
         UNCHANGED <<cmd, stored, lost>>
  PROVE  CauseInv'
<1> USE DEF CauseInv, PartsAcked, CancelHasCause, CompleteAfterAcks, CauseNotBuried
<1>1. /\ fpc' = [fpc EXCEPT ![f] = "parts"] /\ fpc \in [Files -> FileStates]
      /\ stopParts' = [stopParts EXCEPT ![f] = FALSE] /\ stopParts \in [Files -> BOOLEAN]
      /\ UNCHANGED upErr
  BY DEF Spawn, TypeInv, TypeOK
<1>2. \A u \in Uploads :
         /\ u[1] # f => ppc'[u] = ppc[u] /\ perr'[u] = perr[u]
         /\ u[1] = f => perr'[u] = "nil" /\ (ppc'[u] \in Idle => u[2] \in stored[f])
  BY DEF Spawn, Uploads, Idle
<1>3. \A g \in Files, p \in Parts : <<g, p>> \in Uploads /\ <<g, p>>[1] = g /\ <<g, p>>[2] = p
  BY DEF Uploads
<1>4. PartsAcked'
  BY <1>1, <1>2 DEF Uploads
<1>5. CancelHasCause'
  BY <1>1, <1>2, <1>3 DEF Cancelled
<1>6. CompleteAfterAcks' /\ CauseNotBuried'
  BY <1>1 DEF Cancelled
<1> QED BY <1>4, <1>5, <1>6

\* The file goroutine completes after every part was acknowledged, and reports a
\* cancellation only when no part failed for a reason of its own.
LEMMA FileStepCauseInv ==
  ASSUME TypeInv, SlotInv, PhaseInv, CauseInv, NEW f \in Files, FileStep(f)
  PROVE  CauseInv'
<1>0. /\ fpc \in [Files -> FileStates] /\ upErr \in [Files -> UpErrs]
      /\ ppc \in [Uploads -> PartStates] /\ perr \in [Uploads -> {"nil", "real", "cancel"}]
      /\ Parts # {} /\ \A p \in Parts : <<f, p>> \in Uploads
  <2>1. Parts # {} /\ \A p \in Parts : <<f, p>> \in Uploads
    BY ConstantsOK DEF Uploads, Parts
  <2> QED BY <2>1 DEF TypeInv, TypeOK
<1> USE DEF cmdVars, fileVars, partVars, ctlVars, storeVars, FileStates
<1>1. CASE /\ UNCHANGED <<cmd, ppc, perr, stopParts, stored, lost>>
           /\ \E s \in FileStates \ {"parts", "complete"} : fpc' = [fpc EXCEPT ![f] = s]
           /\ \/ UNCHANGED upErr
              \/ \E e \in UpErrs : upErr' = [upErr EXCEPT ![f] = e] /\ (e = "cancel" => Cancelled)
  BY <1>0, <1>1
  DEF CauseInv, PartsAcked, CancelHasCause, CompleteAfterAcks, CauseNotBuried, Cancelled
<1> USE DEF UpErrs
<1>2. CASE Acquire(f)    BY <1>1, <1>2 DEF Acquire
<1>3. CASE Hash(f)       BY <1>1, <1>3 DEF Hash, Return
<1>4. CASE Report(f)     BY <1>1, <1>4 DEF Report
<1>5. CASE SinglePut(f)  BY <1>1, <1>5 DEF SinglePut, Return
<1>6. CASE Start(f)      BY <1>1, <1>6 DEF Start, Return
<1>7. CASE Poll(f)       BY <1>1, <1>7 DEF Poll, Return
<1>8. CASE Abort(f)      BY <1>1, <1>8 DEF Abort
<1>9. \A p \in Parts : fpc[f] # "parts" => ppc[<<f, p>>] \in Idle
  BY <1>0 DEF SlotInv, PartsInPhase
<1>10. CASE UploadAll(f)
  <2>1. CASE Spawn(f, Parts)
    BY <1>9, <1>10, <2>1, SpawnCauseInv DEF UploadAll
  <2>2. CASE CannotOpen(f)
    BY <1>1, <1>10, <2>2 DEF UploadAll, CannotOpen, Fail
  <2> QED BY <1>10, <2>1, <2>2 DEF UploadAll
<1>11. CASE Complete(f)
  <2>1. CASE Spawn(f, Parts \ stored[f])
    BY <1>9, <1>11, <2>1, SpawnCauseInv DEF Complete
  <2>2. CASE ~Spawn(f, Parts \ stored[f])
    BY <1>1, <1>11, <2>2 DEF Complete, CannotOpen, Fail
  <2> QED BY <2>1, <2>2
<1>12. CASE JoinParts(f)
  <2>1. CASE \E p \in Parts : perr[<<f, p>>] = "real"
    <3>1. Fail(f, "real")
      BY <1>0, <1>12, <2>1 DEF JoinParts
    <3> QED BY <1>1, <1>12, <3>1 DEF JoinParts, Fail
  <2>2. CASE \A p \in Parts : perr[<<f, p>>] = "nil"
    <3>1. \A p \in Parts : p \in stored[f] \cup lost[f]
      BY <1>0, <1>12, <2>2 DEF JoinParts, CauseInv, PartsAcked
    <3>2. /\ fpc' = [fpc EXCEPT ![f] = "complete"]
          /\ UNCHANGED <<cmd, upErr, ppc, perr, stopParts, stored, lost>>
      BY <1>0, <1>12, <2>2 DEF JoinParts
    <3>3. PartsAcked' /\ CancelHasCause'
      BY <1>0, <3>2 DEF CauseInv, PartsAcked, CancelHasCause, Cancelled
    <3>4. CompleteAfterAcks'
      BY <1>0, <3>1, <3>2 DEF CauseInv, CompleteAfterAcks
    <3>5. CauseNotBuried'
      BY <1>0, <3>2 DEF CauseInv, CauseNotBuried, Cancelled
    <3> QED BY <3>3, <3>4, <3>5 DEF CauseInv
  <2>3. CASE /\ \A p \in Parts : perr[<<f, p>>] # "real"
             /\ \E p \in Parts : perr[<<f, p>>] = "cancel"
    <3>1. Cancelled
      BY <2>3 DEF CauseInv, CancelHasCause
    <3> QED BY <1>0, <1>1, <1>12, <2>3, <3>1 DEF JoinParts, Fail
  <2> QED BY <1>0, <2>1, <2>2, <2>3
<1> QED BY <1>2, <1>3, <1>4, <1>5, <1>6, <1>7, <1>8, <1>10, <1>11, <1>12 DEF FileStep

\* A part ends without an error only in the step in which the store acknowledged it,
\* and is cancelled only when the command or a failed sibling was the cause.
LEMMA PartStepCauseInv ==
  ASSUME TypeInv, SlotInv, PhaseInv, CauseInv, NEW u \in Uploads, PartStep(u)
  PROVE  CauseInv'
<1> USE DEF cmdVars, fileVars, partVars, ctlVars, storeVars
<1>0. /\ ppc \in [Uploads -> PartStates] /\ perr \in [Uploads -> {"nil", "real", "cancel"}]
      /\ stopParts \in [Files -> BOOLEAN] /\ stored \in [Files -> SUBSET Parts]
      /\ u = <<u[1], u[2]>> /\ u[1] \in Files /\ u[2] \in Parts
      /\ \A f \in Files, p \in Parts : <<f, p>> \in Uploads /\ <<f, p>>[1] = f
      /\ \A v \in Uploads : v[1] \in Files
  BY DEF TypeInv, TypeOK, Uploads
<1>1. UNCHANGED <<cmd, fpc, upErr, lost>>
  BY DEF PartStep, AcquirePart, GiveUpWaiting, Try, Fetch, PutPart, Backoff
<1>2. \A f \in Files : stored[f] \subseteq stored'[f]
  BY <1>0 DEF PartStep, AcquirePart, GiveUpWaiting, Try, Fetch, PutPart, Backoff, Holds
<1>3. CompleteAfterAcks' /\ CauseNotBuried'
  BY <1>1, <1>2 DEF CauseInv, CompleteAfterAcks, CauseNotBuried, Cancelled
<1>4. CASE /\ ppc[u] \notin Idle /\ UNCHANGED <<perr, stopParts>>
           /\ \E s \in PartStates \ Idle : ppc' = [ppc EXCEPT ![u] = s]
  <2>1. PartsAcked'
    BY <1>0, <1>1, <1>2, <1>4 DEF CauseInv, PartsAcked
  <2>2. CancelHasCause'
    BY <1>1, <1>4 DEF CauseInv, CancelHasCause, Cancelled
  <2> QED BY <1>3, <2>1, <2>2 DEF CauseInv
<1>5. CASE /\ ppc[u] \notin Idle /\ ppc' = [ppc EXCEPT ![u] = "done"]
           /\ UNCHANGED <<perr, stopParts>> /\ Holds(u)
  <2>1. u[2] \in stored'[u[1]]
    BY <1>0, <1>5 DEF Holds
  <2>2. PartsAcked'
    BY <1>0, <1>1, <1>2, <1>5, <2>1 DEF CauseInv, PartsAcked
  <2>3. CancelHasCause'
    BY <1>1, <1>5 DEF CauseInv, CancelHasCause, Cancelled
  <2> QED BY <1>3, <2>2, <2>3 DEF CauseInv
<1>6. CASE /\ ppc[u] \notin Idle /\ ppc' = [ppc EXCEPT ![u] = "done"]
           /\ stopParts' \in {stopParts, [stopParts EXCEPT ![u[1]] = TRUE]}
           /\ \/ perr' = [perr EXCEPT ![u] = "real"]
              \/ PartCtxDone(u[1]) /\ perr' = [perr EXCEPT ![u] = "cancel"]
  <2>1. PartsAcked'
    BY <1>0, <1>1, <1>2, <1>6 DEF CauseInv, PartsAcked, Idle
  <2>2. perr[u] = "nil"
    BY <1>6 DEF CauseInv, PartsAcked
  <2>3. \A f \in Files, p \in Parts :
           perr[<<f, p>>] = "real" => perr'[<<f, p>>] = "real"
    BY <1>0, <1>6, <2>2
  <2>4. \A f \in Files : f # u[1] =>
           /\ stopParts'[f] = stopParts[f]
           /\ \A p \in Parts : perr'[<<f, p>>] = perr[<<f, p>>]
    BY <1>0, <1>6
  <2>5. Cancelled \/ \E p \in Parts : perr'[<<u[1], p>>] = "real"
    <3>1. CASE perr' = [perr EXCEPT ![u] = "real"]
      BY <1>0, <3>1
    <3>2. CASE PartCtxDone(u[1])
      BY <1>0, <2>3, <3>2 DEF PartCtxDone, CauseInv, CancelHasCause
    <3> QED BY <1>6, <3>1, <3>2
  <2>6. CancelHasCause'
    <3> SUFFICES ASSUME NEW f \in Files, f # u[1],
                        stopParts'[f] \/ \E p \in Parts : perr'[<<f, p>>] = "cancel"
                 PROVE  Cancelled' \/ \E p \in Parts : perr'[<<f, p>>] = "real"
      BY <1>1, <2>5 DEF CancelHasCause, Cancelled
    <3>1. Cancelled \/ \E p \in Parts : perr[<<f, p>>] = "real"
      BY <2>4 DEF CauseInv, CancelHasCause
    <3> QED BY <1>1, <2>3, <3>1 DEF Cancelled
  <2> QED BY <1>3, <2>1, <2>6 DEF CauseInv
<1> USE DEF Idle, Holding, PartStates
<1>7. CASE AcquirePart(u)   BY <1>4, <1>7 DEF AcquirePart
<1>8. CASE GiveUpWaiting(u) BY <1>6, <1>8 DEF GiveUpWaiting
<1>9. CASE Try(u)           BY <1>4, <1>6, <1>9 DEF Try, PartReturns, Moves
<1>10. CASE Fetch(u)        BY <1>4, <1>6, <1>10 DEF Fetch, PartReturns, Moves
<1>11. CASE PutPart(u)
  <2>1. CASE Holds(u) /\ PartReturns(u, "nil")
    <3>1. perr' = perr
      BY <1>0, <1>11, <2>1 DEF PutPart, PartReturns, CauseInv, PartsAcked
    <3> QED BY <1>5, <1>11, <2>1, <3>1 DEF PutPart, PartReturns
  <2>2. CASE Moves(u, "backoff")
    BY <1>4, <1>11, <2>2 DEF PutPart, Moves
  <2>3. CASE PartReturns(u, "real") \/ (PartCtxDone(u[1]) /\ PartReturns(u, "cancel"))
    BY <1>6, <1>11, <2>3 DEF PutPart, PartReturns
  <2> QED BY <1>11, <2>1, <2>2, <2>3 DEF PutPart, Retry
<1>12. CASE Backoff(u)      BY <1>4, <1>6, <1>12 DEF Backoff, PartReturns
<1> QED BY <1>7, <1>8, <1>9, <1>10, <1>11, <1>12 DEF PartStep

\* The command's end is a cause that stays, and a part the store loses stays in lost.
LEMMA OtherStepCauseInv ==
  ASSUME TypeInv, CauseInv, CmdStep \/ Registry \/ UNCHANGED vars
  PROVE  CauseInv'
<1> USE DEF CauseInv, PartsAcked, CancelHasCause, CompleteAfterAcks, CauseNotBuried
<1>1. UNCHANGED <<fpc, upErr, ppc, perr, stopParts>> /\ (Cancelled => Cancelled')
  BY DEF CmdStep, Finish, Kill, Cancel, Registry, Finalize, Expire, StoreLoss, vars,
         cmdVars, fileVars, partVars, Cancelled
<1>2. \A f \in Files : stored[f] \cup lost[f] = stored'[f] \cup lost'[f] /\ lost[f] \subseteq lost'[f]
  BY DEF CmdStep, Finish, Kill, Cancel, Registry, Finalize, Expire, StoreLoss, vars,
         storeVars, TypeInv, TypeOK
<1>3. \A u \in Uploads : u[1] \in Files
  BY DEF Uploads
<1>4. PartsAcked'
  BY <1>1, <1>2, <1>3
<1>5. CancelHasCause'
  BY <1>1
<1>6. CompleteAfterAcks' /\ CauseNotBuried'
  BY <1>1, <1>2
<1> QED BY <1>4, <1>5, <1>6

-----------------------------------------------------------------------------
(***************************************************************************)
(* What follows from the invariant.                                         *)
(***************************************************************************)
LifeInv == TypeInv /\ SlotInv /\ PhaseInv /\ CauseInv

\* The four invariants together are inductive.
LEMMA LifeInvariant == Spec => []LifeInv
<1>1. Init => LifeInv
  BY InitTypeInv, InitSlotInv, InitPhaseInv, InitCauseInv DEF LifeInv
<1>2. LifeInv /\ [Next]_vars => LifeInv'
  <2> SUFFICES ASSUME LifeInv, [Next]_vars PROVE LifeInv'
    OBVIOUS
  <2> USE DEF LifeInv
  <2>1. ASSUME NEW f \in Files, FileStep(f) PROVE LifeInv'
    BY <2>1, FileStepTypeInv, FileStepSlotInv, FileStepPhaseInv, FileStepCauseInv
  <2>2. ASSUME NEW u \in Uploads, PartStep(u) PROVE LifeInv'
    BY <2>2, PartStepTypeInv, PartStepSlotInv, PartStepPhaseInv, PartStepCauseInv
  <2>3. CASE CmdStep \/ Registry \/ UNCHANGED vars
    BY <2>3, OtherStepTypeInv, OtherStepSlotInv, OtherStepPhaseInv, OtherStepCauseInv
  <2> QED BY <2>1, <2>2, <2>3 DEF Next
<1> QED BY <1>1, <1>2, PTL DEF Spec

\* For any number of files, parts, slots and attempts, and any faults: completion is
\* asked for only after every acknowledgement, no session is left open without its
\* abort, a single PUT never stands beside sent parts, and a file that fails as
\* cancelled was cancelled by the command (multipart.go:202-239, 838-852).
THEOREM SessionAlwaysSound == Spec => []SessionSound
<1>1. LifeInv => SessionSound
  BY DEF LifeInv, PhaseInv, OwnerInPhase, Ended, CauseInv, SessionSound, SessionReleased
<1> QED BY <1>1, LifeInvariant, PTL

\* Nothing is sent of a file whose abort went out or which reported: its parts have all
\* ended by then, and only the phases before can start a session or complete one.
THEOREM NothingSentOnceEnded == Spec => NothingSentAfterEnd
<1>1. LifeInv /\ [Next]_vars =>
        [\A f \in Files : abortSent[f] \/ fpc[f] = "done" =>
            /\ stored'[f] \subseteq stored[f]
            /\ single'[f] = single[f]
            /\ session'[f] \in {"open", "finalizing"} => session'[f] = session[f]]_vars
  <2> SUFFICES ASSUME LifeInv, Next, NEW f \in Files, abortSent[f] \/ fpc[f] = "done"
               PROVE  /\ stored'[f] \subseteq stored[f]
                      /\ single'[f] = single[f]
                      /\ session'[f] \in {"open", "finalizing"} => session'[f] = session[f]
    OBVIOUS
  <2> USE DEF storeVars
  <2>0. /\ fpc[f] \in Ended
        /\ session \in [Files -> Statuses] /\ stored \in [Files -> SUBSET Parts]
        /\ single \in [Files -> BOOLEAN]
    BY DEF LifeInv, PhaseInv, OwnerInPhase, TypeInv, TypeOK, Ended
  <2>1. ASSUME NEW g \in Files, FileStep(g)
        PROVE  /\ UNCHANGED stored
               /\ single'[f] = single[f]
               /\ session'[f] \in {"open", "finalizing"} => session'[f] = session[f]
    <3>1. CASE g = f
      BY <2>0, <2>1, <3>1
      DEF Ended, FileStep, Acquire, Hash, Report, SinglePut, Start, UploadAll, JoinParts,
          Complete, Poll, Abort
    <3>2. CASE g # f
      BY <2>0, <2>1, <3>2
      DEF FileStep, Acquire, Hash, Report, SinglePut, Start, UploadAll, JoinParts,
          Complete, Poll, Abort
    <3> QED BY <2>1, <3>1, <3>2
        DEF FileStep, Acquire, Hash, Report, SinglePut, Start, UploadAll, JoinParts,
            Complete, Poll, Abort
  <2>2. ASSUME NEW u \in Uploads, PartStep(u)
        PROVE  stored'[f] = stored[f] /\ UNCHANGED <<single, session>>
    <3>1. fpc[u[1]] = "parts"
      BY <2>2 DEF PartStep, AcquirePart, GiveUpWaiting, Try, Fetch, PutPart, Backoff,
                  LifeInv, SlotInv, PartsInPhase, Idle
    <3> QED BY <2>0, <2>2, <3>1
        DEF PartStep, AcquirePart, GiveUpWaiting, Try, Fetch, PutPart, Backoff, Holds, Ended
  <2>3. ASSUME CmdStep
        PROVE  UNCHANGED <<stored, single, session>>
    BY <2>3 DEF CmdStep, Finish, Kill, Cancel
  <2>4. ASSUME Registry
        PROVE  /\ stored'[f] \subseteq stored[f]
               /\ UNCHANGED single
               /\ session'[f] \in {"open", "finalizing"} => session'[f] = session[f]
    BY <2>0, <2>4 DEF Registry, Finalize, Expire, StoreLoss
  <2> QED BY <2>1, <2>2, <2>3, <2>4 DEF Next
<1> QED BY <1>1, LifeInvariant, PTL DEF Spec, NothingSentAfterEnd

-----------------------------------------------------------------------------
(***************************************************************************)
(* MultipartUpload implements Publication.                                  *)
(***************************************************************************)
\* A step that touches the registry's state of one file moves the place of no other.
LEMMA PlaceOfOthers ==
  ASSUME NEW f \in Files,
         \A g \in Files \ {f} : single'[g] = single[g] /\ session'[g] = session[g]
  PROVE  place' = [place EXCEPT ![f] = place'[f]]
<1>1. \A g \in Files \ {f} : place'[g] = place[g]
  BY DEF place
<1>2. DOMAIN place = Files /\ DOMAIN place' = Files /\ place = [g \in Files |-> place[g]]
      /\ place' = [g \in Files |-> place'[g]]
  BY DEF place
<1> HIDE DEF place
<1> QED BY <1>1, <1>2

\* Nothing is published or said before the first step.
LEMMA InitPromise == Init => Promise!Init
  BY DEF Init, Promise!Init, place, said

\* A file's goroutine hands its content over once, before it reports, and reports what
\* it returned.
LEMMA FileStepPromise ==
  ASSUME LifeInv, NEW f \in Files, FileStep(f)
  PROVE  Promise!Next \/ UNCHANGED <<place, said>>
<1> USE DEF cmdVars, fileVars, partVars, ctlVars, storeVars
<1>0. /\ session \in [Files -> Statuses] /\ single \in [Files -> BOOLEAN]
      /\ report \in [Files -> Reports] /\ upErr \in [Files -> UpErrs]
  BY DEF LifeInv, TypeInv, TypeOK
<1>1. CASE UNCHANGED <<session, single, report>>
  BY <1>1 DEF place, said
<1>2. fpc[f] # "done" => said[f] = "none"
  BY DEF LifeInv, PhaseInv, ResultInPhase, said
<1>3. ASSUME fpc[f] # "done", place[f] = "absent", UNCHANGED report,
             \A g \in Files \ {f} : single'[g] = single[g] /\ session'[g] = session[g],
             place'[f] \in {"accepted", "published", "refused"}
      PROVE  Promise!Next
  <2>1. UNCHANGED said
    BY <1>3 DEF said
  <2>2. place' = [place EXCEPT ![f] = place'[f]]
    BY <1>3, PlaceOfOthers
  <2> QED BY <1>2, <1>3, <2>1, <2>2 DEF Promise!Next, Promise!Accept
<1>4. ASSUME UNCHANGED report,
             \A g \in Files \ {f} : single'[g] = single[g] /\ session'[g] = session[g],
             place'[f] = place[f]
      PROVE  UNCHANGED <<place, said>>
  <2>1. UNCHANGED said
    BY <1>4 DEF said
  <2>2. place' = [place EXCEPT ![f] = place'[f]]
    BY <1>4, PlaceOfOthers
  <2> QED BY <1>4, <2>1, <2>2 DEF place
<1>5. CASE Report(f)
  <2>1. UNCHANGED place /\ said[f] = "none"
    BY <1>2, <1>5 DEF Report, place
  <2>2. said'[f] \in {"ok", "pending", "failed"} /\ said' = [said EXCEPT ![f] = said'[f]]
    BY <1>0, <1>5 DEF Report, said
  <2>3. said'[f] = "ok" => upErr[f] = "nil"
    BY <1>0, <1>5 DEF Report, said
  <2>4. said'[f] = "pending" => upErr[f] = "stillFinalizing"
    BY <1>0, <1>5 DEF Report, said
  <2>5. upErr[f] = "nil" => place[f] = "published"
    BY <1>0, <1>5 DEF Report, LifeInv, PhaseInv, ResultInPhase, Ended, place
  <2>6. upErr[f] = "stillFinalizing" => place[f] # "absent"
    BY <1>5 DEF Report, LifeInv, PhaseInv, ResultInPhase, Ended, Accepted, place
  <2> QED BY <2>1, <2>2, <2>3, <2>4, <2>5, <2>6 DEF Promise!Next, Promise!Say
<1>6. CASE SinglePut(f)
  <2>1. place[f] = "absent"
    BY <1>6 DEF SinglePut, LifeInv, PhaseInv, SessionInPhase, OwnerInPhase, Ended, place
  <2>2. CASE single' = [single EXCEPT ![f] = TRUE]
    <3>1. place'[f] = "published"
      BY <1>0, <2>2 DEF place
    <3>2. /\ fpc[f] # "done" /\ UNCHANGED report
          /\ \A g \in Files \ {f} : single'[g] = single[g] /\ session'[g] = session[g]
      BY <1>0, <1>6, <2>2 DEF SinglePut
    <3> QED BY <1>3, <2>1, <3>1, <3>2
  <2> QED BY <1>1, <1>6, <2>2 DEF SinglePut
<1>7. CASE Start(f)
  <2>1. /\ place[f] = "absent" /\ ~single[f]
        /\ UNCHANGED <<report, single>>
        /\ \A g \in Files \ {f} : session'[g] = session[g]
        /\ session'[f] \in {"none", "open", "completed"}
    BY <1>0, <1>7 DEF Start, LifeInv, PhaseInv, SessionInPhase, OwnerInPhase, Ended, place
  <2>2. place'[f] = IF session'[f] = "completed" THEN "published" ELSE "absent"
    BY <2>1 DEF place
  <2> QED BY <1>3, <1>4, <1>7, <2>1, <2>2 DEF Start
<1>8. CASE Complete(f)
  <2>1. /\ place[f] = "absent" /\ ~single[f]
        /\ UNCHANGED <<report, single>>
        /\ \A g \in Files \ {f} : session'[g] = session[g]
        /\ session'[f] \in {session[f], "finalizing", "failed"}
    BY <1>0, <1>8 DEF Complete, Spawn, CannotOpen, Fail, LifeInv, PhaseInv, SessionInPhase,
       OwnerInPhase, Ended, place
  <2>2. \/ place'[f] = "absent" \/ place'[f] = "accepted" \/ place'[f] = "refused"
    BY <2>1 DEF place
  <2> QED BY <1>3, <1>4, <1>8, <2>1, <2>2 DEF Complete
<1>9. CASE Abort(f)
  <2>1. /\ UNCHANGED <<report, single>>
        /\ \A g \in Files \ {f} : session'[g] = session[g]
        /\ session'[f] = session[f] \/ (session[f] = "open" /\ session'[f] = "aborted")
    BY <1>0, <1>9 DEF Abort
  <2>2. place'[f] = place[f]
    BY <2>1 DEF place
  <2> QED BY <1>4, <2>1, <2>2
<1>10. CASE Acquire(f) \/ Hash(f) \/ UploadAll(f) \/ JoinParts(f) \/ Poll(f)
  BY <1>1, <1>10 DEF Acquire, Hash, UploadAll, JoinParts, Poll
<1> QED BY <1>5, <1>6, <1>7, <1>8, <1>9, <1>10 DEF FileStep

\* On its own the registry only decides on what it accepted.
LEMMA OtherStepPromise ==
  ASSUME LifeInv, CmdStep \/ Registry \/ UNCHANGED vars
  PROVE  Promise!Next \/ UNCHANGED <<place, said>>
<1> USE DEF cmdVars, fileVars, partVars, ctlVars, storeVars
<1>0. /\ session \in [Files -> Statuses] /\ single \in [Files -> BOOLEAN]
  BY DEF LifeInv, TypeInv, TypeOK
<1>1. CASE UNCHANGED <<session, single, report>>
  BY <1>1 DEF place, said
<1>2. ASSUME NEW f \in Files, Finalize(f) PROVE Promise!Next
  <2>1. ~single[f]
    BY <1>2 DEF Finalize, LifeInv, PhaseInv, FallbackIsFree
  <2>2. place[f] = "accepted" /\ place'[f] \in {"published", "refused"} /\ UNCHANGED said
    BY <1>0, <1>2, <2>1 DEF Finalize, place, said
  <2>3. place' = [place EXCEPT ![f] = place'[f]]
    BY <1>0, <1>2, PlaceOfOthers DEF Finalize
  <2> QED BY <2>2, <2>3 DEF Promise!Next, Promise!Decide
<1>3. ASSUME NEW f \in Files, Expire(f) PROVE UNCHANGED <<place, said>>
  BY <1>0, <1>3 DEF Expire, place, said
<1> QED
  BY <1>1, <1>2, <1>3 DEF CmdStep, Finish, Kill, Cancel, Registry, StoreLoss, vars

\* The detailed upload implements Publication: success is said only of a published file,
\* "will still be published" only of one the registry took, and nothing is handed over
\* after the report, whatever is lost, cancelled or killed on the way.
THEOREM UploadKeepsPromise == Spec => PromiseKept
<1>1. Init => Promise!Init
  BY InitPromise
<1>2. LifeInv /\ [Next]_vars => [Promise!Next]_<<place, said>>
  <2> SUFFICES ASSUME LifeInv, [Next]_vars
               PROVE  Promise!Next \/ UNCHANGED <<place, said>>
    OBVIOUS
  <2>1. ASSUME NEW u \in Uploads, PartStep(u) PROVE UNCHANGED <<place, said>>
    BY <2>1 DEF PartStep, AcquirePart, GiveUpWaiting, Try, Fetch, PutPart, Backoff,
       fileVars, storeVars, place, said
  <2> QED BY <2>1, FileStepPromise, OtherStepPromise DEF Next
<1> QED BY <1>1, <1>2, LifeInvariant, PTL DEF Spec, PromiseKept, Promise!Spec
=============================================================================
