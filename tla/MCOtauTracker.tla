--------------------------- MODULE MCOtauTracker ---------------------------
(* Instance of OtauTracker for TLC: more devices than slots. *)
EXTENDS OtauTracker

CONSTANTS n1, n2, n3, n4

MCNodes == {n1, n2, n3, n4}
=============================================================================
