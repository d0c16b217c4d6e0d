---------------------------- MODULE MCOtauServer ----------------------------
(***************************************************************************)
(* Instances of OtauServer for TLC.  The record of a node has many fields  *)
(* that keep old values, so the whole of Next is in reach only for one     *)
(* device and the smallest parameters.  The other runs ask one question    *)
(* each on a larger instance: their next-state relations are Next without  *)
(* the actions that do not bear on the question.                           *)
(***************************************************************************)
EXTENDS OtauServer

CONSTANTS n1, n2, i1, i2, r1, r2

MCFileVersion == [f \in Files |-> IF f = i1 THEN 1 ELSE IF f = i2 THEN 2 ELSE 0]
MCRawSize == [f \in Files |-> IF f = i1 THEN 3 ELSE IF f = i2 THEN 1 ELSE 0]
MCUpdateFiles == [n \in Nodes |-> Images]

(* A device that was offered i1: the user selected it and clicked Update,   *)
(* and the response to the device's query was confirmed.                    *)
OfferedNode ==
    [FreshNode EXCEPT !.file = i1, !.rawFile = i1, !.hasData = TRUE,
                      !.permitUpdate = TRUE, !.queried = TRUE, !.state = "WaitConfirm",
                      !.zclCommandId = "queryRsp", !.lastZclCmd = "query",
                      !.lastActivity = "fresh"]

OfferedInit ==
    /\ node = [n \in Nodes |-> OfferedNode]
    /\ pageTimer = FALSE
    /\ cleanupTimer = TRUE
    /\ nNoAckErrors = 0
    /\ maxAsduDataSize = MAX_ASDU_SIZE
    /\ otauActive = TRUE
    /\ pageRequestEnabled = TRUE
    /\ apsPending = {}
    /\ TrackerInit    \* the ten seconds since the offer have passed

(* The transfer of an offered image, block by block and page by page. *)
TransferNext ==
    \/ \E n \in Nodes :
          \/ ImageBlockRequest(n) \/ ImagePageRequest(n) \/ StrayZclFrame(n)
          \/ ConfirmStep(n) \/ AbortClicked(n) \/ UpdateClicked(n)
          \/ ResponseAges(n) \/ ActivityAges(n)
    \/ PageTimerServes \/ PageTimerInactive \/ QueryClicked \/ OtauDeactivated

TransferSpec == OfferedInit /\ [][TransferNext]_vars

(* Offers: the user chooses files and permits or aborts the update of       *)
(* devices of several vendors, which query and ask for blocks of what they  *)
(* were offered while the choice may change.                                *)
OfferNext ==
    \/ \E n \in Nodes :
          \/ QueryNextImageRequest(n) \/ ImageBlockRequest(n)
          \/ ConfirmIgnored(n) \/ ConfirmSucceeded(n) \/ UserStep(n) \/ TrackedAges(n)
    \/ TrackerTick

OfferSpec == Init /\ [][OfferNext]_vars

(* A device that speaks the protocol: it lets a page finish before it asks  *)
(* for anything else, and sends nothing but OTA requests.                   *)
PoliteNext ==
    \/ \E n \in Nodes :
          \/ /\ node[n].state # "WaitPageSpacing"
             /\ ImagePageRequest(n) \/ ImageBlockRequest(n)
          \/ ConfirmStep(n) \/ ResponseAges(n) \/ ActivityAges(n)
    \/ PageTimerServes

PoliteSpec == OfferedInit /\ [][PoliteNext]_vars /\ PageFairness

(***************************************************************************)
(* The view under which TLC compares states leaves out what no action      *)
(* reads before it has been set again:                                     *)
(*  - outside of a page the fields of the page, since only a page request, *)
(*    which sets them all, makes a node wait again; of the offset the end  *)
(*    of an upgrade still sees whether it is 0;                            *)
(*  - without an outstanding request, what that request was;               *)
(*  - the time of the last command of a node that neither waits nor holds  *)
(*    an image, since it is set again before either begins;                *)
(*  - the count of NO_ACK errors once the server has fallen back.          *)
(***************************************************************************)
LiveFields(nd) ==
    LET outstanding == nd.apsRequestId # INVALID_APS_REQ_ID
        page == [nd EXCEPT !.pageBytesDone = 0, !.pageSize = 0, !.pageOffset = 0,
                           !.imgPageRequestRetry = Uninit, !.imgBlockResponseRetry = Uninit,
                           !.lastResponseTime = "invalid", !.fileVersion = 0,
                           !.lastZclCmd = "other",
                           !.lastActivity = IF nd.hasData THEN @ ELSE "fresh"]
    IN  IF Waiting(nd) THEN nd
        ELSE IF outstanding THEN page
        ELSE [page EXCEPT !.zclCommandId = "uninit", !.maxDataSize = 0,
                          !.offset = IF @ = 0 THEN 0 ELSE 1]

LiveView == <<[n \in Nodes |-> LiveFields(node[n])], pageTimer, cleanupTimer,
              IF maxAsduDataSize = MAX_ASDU_SIZE THEN nNoAckErrors ELSE 0,
              maxAsduDataSize, otauActive, pageRequestEnabled, apsPending, trackerVars>>
=============================================================================
