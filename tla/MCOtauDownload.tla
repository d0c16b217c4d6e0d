--------------------------- MODULE MCOtauDownload ---------------------------
(* Instances of OtauDownload for TLC. *)
EXTENDS OtauDownload

CONSTANTS f1, f2, f3

(* One index that names a file twice; which of its entries match a known    *)
(* device is chosen anew at every check.                                    *)
MCIndexFiles == {<<f2, f3, f1, f2>>}
=============================================================================
