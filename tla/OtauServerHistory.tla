------------------------- MODULE OtauServerHistory -------------------------
(***************************************************************************)
(* OtauServer with a history variable, for what a comment of the source    *)
(* says about the past of a session: which devices have been sent data.    *)
(***************************************************************************)
EXTENDS OtauServer

VARIABLE uploaded    \* devices that were sent a block with data

historyVars == <<vars, uploaded>>

HistoryInit == Init /\ uploaded = {}

HistoryNext ==
    /\ \/ \E n \in Nodes :
             DeviceStep(n) \/ ConfirmStep(n) \/ FileSelectClicked(n) \/ UpdateClicked(n)
       \/ TrackerTick
    /\ uploaded' = uploaded \cup {n \in Nodes : DataSent(n)}

HistorySpec == HistoryInit /\ [][HistoryNext]_historyVars

(* The upgrade end workaround: a device that reports the end of an upgrade  *)
(* "without any update happening before" is told to abort, so an upgrade    *)
(* end response goes only to a device that was sent data.                   *)
EndOnlyAfterUpdate ==
    \A f \in apsPending : f.cmd = "endRsp" => f.node \in uploaded
=============================================================================
