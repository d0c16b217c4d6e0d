--------------------------- MODULE MCOtauDelivery ---------------------------
(***************************************************************************)
(* Instance of OtauDelivery for TLC: an image is replaced by a newer one   *)
(* while it is being delivered to a device.                                *)
(***************************************************************************)
EXTENDS OtauDelivery, MCOtauServer

ShortImages == [f \in Files |-> IF f = i1 THEN 2 ELSE IF f = i2 THEN 1 ELSE 0]
NewestFile == [n \in Nodes |-> {i2}]

MCServerStep ==
    \/ \E n \in Nodes :
          \/ Request(n) \/ UserStep(n) \/ ResponseAges(n)
          \/ ConfirmIgnored(n) \/ ConfirmSucceeded(n) \/ ConfirmFailed(n, FALSE)
    \/ PageTimerServes

MCDeliveryNext ==
    \/ MCServerStep /\ Forward /\ OnAir /\ UNCHANGED dev
    \/ \E m \in air : Arrives(m) \/ Lost(m)

MCDeliveryInit == DeliveryInit /\ otauActive = TRUE

MCDeliverySpec == MCDeliveryInit /\ [][MCDeliveryNext]_deliveryVars

DeliveryView == <<LiveView, dev, air>>
=============================================================================
