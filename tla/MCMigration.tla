----------------------------- MODULE MCMigration -----------------------------
(***************************************************************************)
(* A small registry: an image, a package migrated by one function, and a    *)
(* package of two versions.  v1 has two files, v2 is a GO version of one;   *)
(* the destination holds a file of v1 that is named like one of the two but *)
(* is in another folder.                                                    *)
(***************************************************************************)
EXTENDS Migration, TLC

CONSTANTS root, r1, img, leaf, p1, v1, v2, a1, a2, a3, t1, s1

OneRegistry  == {r1}
ThreePackages == {img, leaf, p1}
TwoVersions  == {v1, v2}
ThreeFiles   == {a1, a2, a3}
LeafPackages == {img, leaf}
OneImage     == {img}
OneTag       == {t1}
OneGo        == {v2}
OneStranger  == {s1}

Tree     == r1 :> root @@ img :> r1 @@ leaf :> r1 @@ p1 :> r1 @@ v1 :> p1 @@ v2 :> p1
            @@ a1 :> v1 @@ a2 :> v1 @@ a3 :> v2 @@ t1 :> img @@ s1 :> v1
Paths    == [f \in {a1, a2, a3, s1} |-> f]
SameName == [f \in {a1, a2, a3, s1} |-> IF f \in {a2, s1} THEN a2 ELSE f]

\* The destination holds one of the two files, a stranger named like the other, the leaf package and
\* the tag; every lookup may miss them.
MCInit == Init /\ dest = {a1, s1, leaf, t1}

MCSpec == MCInit /\ [][Next]_vars /\ Fairness
=============================================================================
