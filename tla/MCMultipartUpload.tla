-------------------------- MODULE MCMultipartUpload --------------------------
(***************************************************************************)
(* Instances of MultipartUpload for TLC.  Parts and files are              *)
(* interchangeable only until part order or semaphores matter, so no        *)
(* symmetry is used: parts are numbers.                                     *)
(***************************************************************************)
EXTENDS MultipartUpload, TLC

CONSTANTS f1, f2

OneFile    == {f1}
TwoFiles   == {f1, f2}
PartFaults == {"lostAnswer", "storeLoss", "badSizing", "signal", "timeout", "expire", "kill"}
EndFaults  == {"signal", "timeout", "storeLoss"}
=============================================================================
