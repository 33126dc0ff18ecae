------------------------------- MODULE MCScreens -------------------------------
(* A wizard over two accounts, a table of three items in pages of two, and the viewer of two steps. *)
EXTENDS Screens, TLC

CONSTANTS u1, u2, u3, t1, t2, t3, a1, a2, o1, o2, o3, q1, q2, x0, x1, n1, n2

TwoUrls == {u1, u2}
OneVanity == {u3}
ThreeTokens == {t1, t2, t3}
TokenOwner == t1 :> a1 @@ t2 :> a2 @@ t3 :> None
TheirOrgs == a1 :> {o1, o2} @@ a2 :> {o2, o3}
TheirProjects == <<a1, o1>> :> {q1} @@ <<a1, o2>> :> {q1, q2} @@ <<a2, o2>> :> {q2} @@ <<a2, o3>> :> {}

Lengths == x0 :> 3 @@ x1 :> 1

TwoSteps == {n1, n2}
TwoLines == <<1, 2>>
=============================================================================
