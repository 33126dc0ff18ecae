------------------------- MODULE MCArtifactDownload -------------------------
(***************************************************************************)
(* Five matches: dirA and dirB have the base name of top, a match that may  *)
(* appear while the search is under way, bare and out have their own.       *)
(***************************************************************************)
EXTENDS ArtifactDownload, TLC

CONSTANTS top, dirA, dirB, bare, out

MCItems   == {top, dirA, dirB, bare, out}
MCCatalog == <<dirA, bare, out, dirB>>
MCBase    == top :> top @@ dirA :> top @@ dirB :> top @@ bare :> bare @@ out :> out
=============================================================================
