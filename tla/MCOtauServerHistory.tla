------------------------ MODULE MCOtauServerHistory ------------------------
(* Instances of OtauServerHistory for TLC. *)
EXTENDS OtauServerHistory

CONSTANTS n1, n2, i1, i2, r1, r2

MCFileVersion == [f \in Files |-> IF f = i1 THEN 1 ELSE IF f = i2 THEN 2 ELSE 0]
MCRawSize == [f \in Files |-> IF f = i1 THEN 3 ELSE IF f = i2 THEN 2 ELSE 0]
MCUpdateFiles == [n \in Nodes |-> {}]
=============================================================================
