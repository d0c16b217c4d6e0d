--------------------------- MODULE MCOtauRegistry ---------------------------
(* Instance of OtauRegistry for TLC.                                        *)
EXTENDS OtauRegistry, TLC

RegistrySymmetry == Permutations(Devices) \cup Permutations(Nwks)

(* Once clean is FALSE it stays so, and the properties ask for nothing      *)
(* more: TLC follows such states only as far as the registry changes shape. *)
CleanView == IF clean THEN <<vars>> ELSE <<Len(nodes), selected>>

(* A user who selects devices in the table of the control widget only, as   *)
(* the README tells, and not by their icons in the main window.             *)
TableNext ==
    \/ \E d \in Devices :
          \/ \E a \in Nwks : Joins(d, a)
          \/ Leaves(d) \/ UpdatedSimpleDescriptor(d) \/ ApsdeDataIndication(d)
    \/ \E i \in DOMAIN nodes : ActivatedNodeAtRow(i) \/ ImagePageTimerFired(i)
    \/ FileSelectClicked \/ UpdateClicked \/ AbortClicked
    \/ \E f \in inFlight : ApsdeDataConfirm(f)

TableSpec == Init /\ [][TableNext]_vars
=============================================================================
