----------------------------- MODULE MCLogFollow -----------------------------
(***************************************************************************)
(* Two nodes, one of two log units and one of none, on a channel of one.    *)
(***************************************************************************)
EXTENDS LogFollow, TLC

CONSTANTS n1, n2

TwoNodes == {n1, n2}
TwoAndNone == n1 :> 2 @@ n2 :> 0
=============================================================================
