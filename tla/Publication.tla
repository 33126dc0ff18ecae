----------------------------- MODULE Publication -----------------------------
(***************************************************************************)
(* What "push artifact:generic" promises, without sessions, parts, retries  *)
(* or semaphores: where the content of each file stands at the registry and *)
(* what the command may say of it.                                          *)
(***************************************************************************)
CONSTANTS Files

VARIABLES
  place,   \* "absent", "accepted", "published" or "refused" by the registry
  said     \* what the command reported: "none", "ok", "pending" or "failed"

Init ==
  /\ place = [f \in Files |-> "absent"]
  /\ said = [f \in Files |-> "none"]

\* The client hands over all of the content; only before it reported the file.
Accept(f) ==
  /\ place[f] = "absent" /\ said[f] = "none"
  /\ \E p \in {"accepted", "published", "refused"} : place' = [place EXCEPT ![f] = p]
  /\ UNCHANGED said

\* The registry decides on its own what becomes of an accepted file.
Decide(f) ==
  /\ place[f] = "accepted"
  /\ \E p \in {"published", "refused"} : place' = [place EXCEPT ![f] = p]
  /\ UNCHANGED said

\* Success is said of a published file, "will still be published" of one the
\* registry took; a failure can be said of any, since answers are lost.
Say(f, s) ==
  /\ said[f] = "none"
  /\ s = "ok" => place[f] = "published"
  /\ s = "pending" => place[f] # "absent"
  /\ said' = [said EXCEPT ![f] = s]
  /\ UNCHANGED place

Next == \E f \in Files : Accept(f) \/ Decide(f) \/ \E s \in {"ok", "pending", "failed"} : Say(f, s)

Spec == Init /\ [][Next]_<<place, said>>
=============================================================================
