----------------------------- MODULE OtauServer -----------------------------
(***************************************************************************)
(* The upgrade sessions of the OTA server (StdOtauPlugin): the handlers of *)
(* the OTA cluster commands a device sends, the confirmations of the APS   *)
(* layer, the page, cleanup and activity timers, and the buttons of the    *)
(* control widget that change a session.                                   *)
(*                                                                         *)
(* The plugin runs in one thread, so each handler is one atomic action;    *)
(* what interleaves are the handlers of different devices, the confirms of *)
(* requests that are still in flight, the timers and the user.             *)
(*                                                                         *)
(* A device is identified by its extended address and has one OtauNode     *)
(* record; how OtauModel::getNode() finds the record is not part of this   *)
(* module.  The data of an OTA file is abstracted to its version, which    *)
(* stands for manufacturer code, image type and file version together, and *)
(* its length.                                                             *)
(*                                                                         *)
(* Definitions marked "mistake" are never used.  Each is a later one with  *)
(* one thing wrong that a property must notice.                            *)
(***************************************************************************)
EXTENDS OtauTracker, OtauBlocks, FiniteSets

CONSTANTS
    Images,              \* the OTA files that exist
    NoImage,             \* the empty OtauFile of a fresh node
    FileVersion,         \* version of each file
    RawSize,             \* number of bytes of each file's raw data
    UpdateFiles,         \* per device, files the local index may name for it
    BrokenFiles,         \* files with a header but without a sub element
    WrappedUpdates,      \* devices for which the index may name an OTA file that
                         \* has the name of a firmware binary (.bin, .GCF)
    OldStackNodes,       \* manufacturer DDEL or Busch-Jaeger
    BuschJaegerNodes,    \* manufacturer Busch-Jaeger
    OsramNodes,          \* MAC prefix of OSRAM
    FlsHNodes,           \* FLS-H with software 0x20000050..0x20000054
    FLS_H_VERSION,       \* 0x201000eb: older files are not for FLS-H
    ReqIds,              \* APS request ids (8 bit)
    INVALID_APS_REQ_ID,
    Refused,             \* apsdeDataRequest() did not accept the request
    DONT_CARE_FILE_VERSION,
    NO_ACK_THRESHOLD, MAX_IMG_BLOCK_RSP_RETRY, MAX_IMG_PAGE_REQ_RETRY,
    \* what devices put in their requests
    ReqVersions, ReqOffsets, ReqDataSizes, ReqPageSizes, StrayCmds

Files == Images \cup {NoImage}
Versions == {FileVersion[f] : f \in Files} \cup (ReqVersions \ {DONT_CARE_FILE_VERSION})

ASSUME ServerAssumption ==
    /\ NoImage \notin Images
    /\ FileVersion \in [Files -> Int]
    /\ RawSize \in [Files -> 0 .. U32 - 1] /\ RawSize[NoImage] = 0
    /\ UpdateFiles \in [Nodes -> SUBSET Images]
    /\ BrokenFiles \subseteq Images
    /\ WrappedUpdates \subseteq Nodes
    /\ FLS_H_VERSION \in Int
    /\ INVALID_APS_REQ_ID \notin ReqIds
    /\ Refused \notin ReqIds
    /\ DONT_CARE_FILE_VERSION \notin {FileVersion[f] : f \in Files}
    /\ NO_ACK_THRESHOLD \in Nat
    /\ MAX_IMG_BLOCK_RSP_RETRY \in Nat /\ MAX_IMG_BLOCK_RSP_RETRY >= 2
    /\ MAX_IMG_PAGE_REQ_RETRY \in Nat /\ MAX_IMG_PAGE_REQ_RETRY >= 1
    /\ ReqOffsets \subseteq 0 .. U32 - 1
    /\ ReqDataSizes \subseteq 0 .. U8 - 1
    /\ ReqPageSizes \subseteq 0 .. U16 - 1

(* The request commands, as far as lastZclCmd() tells them apart. *)
ReqCmds == {"query", "block", "page", "end"}

ASSUME StrayAssumption == StrayCmds \subseteq ReqCmds \cup {"other"}

NodeStates == {"Idle", "WaitPageSpacing", "WaitNextRequest", "WaitConfirm", "Abort"}

RspCmds == {"queryRsp", "blockRsp", "endRsp", "defaultRsp"}
RspStatus == {"SUCCESS", "ABORT", "NO_IMAGE_AVAILABLE", "MALFORMED_COMMAND"}

(* A field the constructor of OtauNode does not initialise. *)
Uninit == -1

(* struct OtauNode.  offset .. pageSize are imgBlockReq, pageOffset is      *)
(* imgPageReq.offset.  lastResponseTime: not started, within the packet     *)
(* spacing, past it, past ten seconds; lastActivity: within WAIT_NEXT_      *)
(* REQUEST_TIMEOUT (60 s), past it, past CLEANUP_DELAY (4 h).               *)
OtauNode ==
    [state : NodeStates,
     apsRequestId : ReqIds \cup {INVALID_APS_REQ_ID},
     zclCommandId : RspCmds \cup {"uninit"},
     lastZclCmd : ReqCmds \cup {"other"},
     queried : BOOLEAN,            \* manufacturerId is set by a query
     hasData : BOOLEAN,
     permitUpdate : BOOLEAN,
     file : Files,
     rawFile : Files,
     fileVersion : Versions,
     offset : 0 .. U32 - 1,
     maxDataSize : 0 .. U8 - 1,
     pageBytesDone : 0 .. U16 - 1,
     pageSize : 0 .. U16 - 1,
     pageOffset : 0 .. U32 - 1,
     imgPageRequestRetry : Nat \cup {Uninit},
     imgBlockResponseRetry : Nat \cup {Uninit},
     lastResponseTime : {"invalid", "recent", "spaced", "old"},
     lastActivity : {"fresh", "idle60s", "idle4h"}]

(* A request the APS layer has accepted and not yet confirmed. *)
Frame == [id : ReqIds, node : Nodes, cmd : RspCmds, status : RspStatus]

VARIABLES
    node,                \* m_model: the record of each device
    pageTimer,           \* is m_imagePageTimer (single shot, 10 ms) running?
    cleanupTimer,        \* is m_cleanupTimer (single shot, 3 min) running?
    nNoAckErrors,        \* m_nNoAckErrors
    maxAsduDataSize,     \* m_maxAsduDataSize
    otauActive,          \* ParamOtauActive of the core # 0
    pageRequestEnabled,  \* "use page request" box of the widget
    apsPending           \* responses in flight (APS layer, external)

sessionVars == <<node, pageTimer, cleanupTimer, nNoAckErrors, maxAsduDataSize,
                 otauActive, pageRequestEnabled, apsPending>>
vars == <<sessionVars, trackerVars>>

(* OtauNode::OtauNode().  A QElapsedTimer that was never started counts as  *)
(* expired.                                                                 *)
FreshNode ==
    [state |-> "Idle", apsRequestId |-> INVALID_APS_REQ_ID, zclCommandId |-> "uninit",
     lastZclCmd |-> "other", queried |-> FALSE,
     hasData |-> FALSE, permitUpdate |-> FALSE, file |-> NoImage, rawFile |-> NoImage,
     fileVersion |-> FileVersion[NoImage], offset |-> 0, maxDataSize |-> 0,
     pageBytesDone |-> 0, pageSize |-> 0, pageOffset |-> 0,
     imgPageRequestRetry |-> Uninit, imgBlockResponseRetry |-> Uninit,
     lastResponseTime |-> "invalid", lastActivity |-> "idle4h"]

Init ==
    /\ node = [n \in Nodes |-> FreshNode]
    /\ pageTimer = FALSE
    /\ cleanupTimer = FALSE
    /\ nNoAckErrors = 0
    /\ maxAsduDataSize = MAX_ASDU_SIZE
    /\ otauActive \in BOOLEAN
    /\ pageRequestEnabled = TRUE
    /\ apsPending = {}
    /\ TrackerInit

----------------------------------------------------------------------------
(* apsdeDataRequest() (external) either refuses a request or accepts it     *)
(* under an id no request in flight has.                                    *)
FreeIds == ReqIds \ {f.id : f \in apsPending}
Outcomes == FreeIds \cup {Refused}

(* The frame that outcome r of sending cmd puts in flight. *)
Sent(n, cmd, status, r) ==
    IF r = Refused THEN {} ELSE {[id |-> r, node |-> n, cmd |-> cmd, status |-> status]}

(* apsdeDataIndication(), before the command's own handler. *)
Received(nd, cmd) == [nd EXCEPT !.lastActivity = "fresh", !.lastZclCmd = cmd]

(* The states in which the page timer has work to do for a node. *)
Waiting(nd) == nd.state \in {"WaitPageSpacing", "WaitNextRequest"}

----------------------------------------------------------------------------
(* Image block responses.                                                   *)

(* The status imageBlockResponse() puts in the payload. *)
BlockStatus(nd) ==
    IF nd.fileVersion # FileVersion[nd.file] \/ nd.state = "Abort" THEN "ABORT"
    ELSE IF ~nd.permitUpdate \/ ~nd.hasData THEN "NO_IMAGE_AVAILABLE"
    ELSE IF nd.offset < RawSize[nd.rawFile] THEN "SUCCESS"
    ELSE "MALFORMED_COMMAND"

(* Mistake: looks at the selected file, not at the one that was offered. *)
BlockBytesOfFile(n, nd) ==
    BlockDataSize(nd.maxDataSize, maxAsduDataSize,
                  n \in OldStackNodes /\ nd.queried,
                  RawSize[nd.file] - nd.offset,
                  IF nd.lastZclCmd = "page" THEN PageRoom(nd.pageSize, nd.pageBytesDone)
                                            ELSE U32)

(* The bytes of a block with status SUCCESS.  The server knows that a       *)
(* device has the old stack once it has queried.                            *)
BlockBytes(n, nd) ==
    BlockDataSize(nd.maxDataSize, maxAsduDataSize,
                  n \in OldStackNodes /\ nd.queried,
                  RawSize[nd.rawFile] - nd.offset,
                  IF nd.lastZclCmd = "page" THEN PageRoom(nd.pageSize, nd.pageBytesDone)
                                            ELSE U32)

(* imageBlockResponse() returns without sending: a request is outstanding   *)
(* for less than ten seconds, or the page has no room for a single byte.    *)
BlockHeld(n, nd) ==
    \/ nd.apsRequestId # INVALID_APS_REQ_ID /\ nd.lastResponseTime \in {"recent", "spaced"}
    \/ BlockStatus(nd) = "SUCCESS" /\ nd.lastZclCmd = "page" /\ BlockBytes(n, nd) = 0

(* The side effects of putting the payload together. *)
BlockComposed(n, nd) ==
    [nd EXCEPT !.state = IF nd.fileVersion # FileVersion[nd.file] THEN "Abort" ELSE @,
               !.maxDataSize = IF BlockStatus(nd) = "SUCCESS"
                               THEN BlockBytes(n, nd) ELSE @]

(* imageBlockResponse(): what it returns, the node it leaves and the frame  *)
(* it sends, for outcome r of apsdeDataRequest().                           *)
BlockSent(n, nd, r) == ~BlockHeld(n, nd) /\ r # Refused

BlockResponse(n, nd, r) ==
    IF BlockHeld(n, nd) THEN nd
    ELSE IF r = Refused THEN BlockComposed(n, nd)
    ELSE [BlockComposed(n, nd) EXCEPT !.apsRequestId = r, !.zclCommandId = "blockRsp",
                                      !.lastResponseTime = "recent"]

BlockFrames(n, nd, r) ==
    IF BlockSent(n, nd, r) THEN Sent(n, "blockRsp", BlockStatus(nd), r) ELSE {}

----------------------------------------------------------------------------
(* Image page responses: imagePageResponse().                               *)

(* The node has a block response in flight and waits for its confirm. *)
AwaitsConfirm(nd) ==
    nd.apsRequestId # INVALID_APS_REQ_ID /\ nd.zclCommandId = "blockRsp"

PageDone(nd) == nd.pageBytesDone >= nd.pageSize

(* It gets as far as sending a block. *)
PageSends(nd) ==
    /\ nd.lastZclCmd = "page"
    /\ \/ nd.state = "Abort"
       \/ ~AwaitsConfirm(nd) /\ ~PageDone(nd) /\ nd.lastResponseTime # "recent"

(* It starts the page timer itself, at the page end or within the spacing. *)
PageArmsTimer(nd) ==
    /\ nd.lastZclCmd = "page" /\ nd.state # "Abort" /\ ~AwaitsConfirm(nd)
    /\ PageDone(nd) \/ nd.lastResponseTime = "recent"

(* Mistake: refused requests are not counted. *)
PageResponseUncounted(n, nd, r) ==
    IF nd.lastZclCmd # "page" THEN nd
    ELSE IF nd.state = "Abort" THEN BlockResponse(n, nd, r)
    ELSE IF AwaitsConfirm(nd) THEN nd
    ELSE IF PageDone(nd) THEN [nd EXCEPT !.state = "WaitNextRequest"]
    ELSE IF nd.lastResponseTime = "recent" THEN [nd EXCEPT !.state = "WaitPageSpacing"]
    ELSE IF BlockSent(n, nd, r)
         THEN [BlockResponse(n, nd, r) EXCEPT !.imgBlockResponseRetry = 0]
         ELSE [BlockResponse(n, nd, r) EXCEPT !.state = "WaitPageSpacing"]

(* imagePageResponse(): the node it leaves. *)
PageResponse(n, nd, r) ==
    IF nd.lastZclCmd # "page" THEN nd
    ELSE IF nd.state = "Abort" THEN BlockResponse(n, nd, r)
    ELSE IF AwaitsConfirm(nd) THEN nd
    ELSE IF PageDone(nd) THEN [nd EXCEPT !.state = "WaitNextRequest"]
    ELSE IF nd.lastResponseTime = "recent" THEN [nd EXCEPT !.state = "WaitPageSpacing"]
    ELSE IF BlockSent(n, nd, r)
         THEN [BlockResponse(n, nd, r) EXCEPT !.imgBlockResponseRetry = 0]
         ELSE [BlockResponse(n, nd, r) EXCEPT !.state = "WaitPageSpacing",
                                              !.imgBlockResponseRetry = @ + 1]

PageFrames(n, nd, r) ==
    IF PageSends(nd) THEN BlockFrames(n, nd, r) ELSE {}

(* It returns true. *)
PageOk(n, nd, r) ==
    /\ nd.lastZclCmd = "page"
    /\ PageSends(nd) => BlockSent(n, nd, r)

----------------------------------------------------------------------------
(* Commands of a device.  Each restarts the cleanup timer.                  *)

(* checkForUpdateImageImage(): the local index names no newer file that     *)
(* exists, or the file loads, or it turns out to be broken, or readFile()   *)
(* wraps it like a firmware binary and leaves header and raw data alone.    *)
UpdateChecked(n, nd) ==
    IF nd.hasData \/ Busy THEN {nd}
    ELSE {nd} \cup {[nd EXCEPT !.file = f, !.hasData = TRUE] : f \in UpdateFiles[n] \ BrokenFiles}
              \cup {[nd EXCEPT !.file = f] : f \in UpdateFiles[n] \cap BrokenFiles}
              \cup (IF n \in WrappedUpdates THEN {[nd EXCEPT !.hasData = TRUE]} ELSE {})

(* Mistake: offers an image although the tracker is full. *)
QueryStatusWhenBusy(n, nd) ==
    LET offered == nd.permitUpdate /\ nd.hasData
    IN  IF n \in OsramNodes /\ ~offered THEN ""
        ELSE IF nd.state = "Abort" THEN "ABORT"
        ELSE IF offered /\ RawSize[nd.file] # 0 THEN "SUCCESS"
        ELSE "NO_IMAGE_AVAILABLE"

(* Mistake: FLS-H are treated like any other device. *)
QueryStatusForAll(n, nd) ==
    LET offered == nd.permitUpdate /\ nd.hasData
    IN  IF (n \in OsramNodes /\ ~offered) \/ Busy THEN ""
        ELSE IF nd.state = "Abort" THEN "ABORT"
        ELSE IF offered /\ RawSize[nd.file] # 0 THEN "SUCCESS"
        ELSE "NO_IMAGE_AVAILABLE"

(* queryNextImageResponse(): the status, or "" where it returns unanswered. *)
QueryStatus(n, nd) ==
    LET offered == nd.permitUpdate /\ nd.hasData
        status  ==
            IF nd.state = "Abort" THEN "ABORT"
            ELSE IF Busy THEN ""
            ELSE IF n \in FlsHNodes /\ FileVersion[nd.file] < FLS_H_VERSION
                 THEN "NO_IMAGE_AVAILABLE"
            ELSE IF offered /\ RawSize[nd.file] # 0 THEN "SUCCESS"
            ELSE IF n \in BuschJaegerNodes THEN "ABORT"
            ELSE "NO_IMAGE_AVAILABLE"
    IN  IF n \in OsramNodes /\ ~offered THEN "" ELSE status

(* Mistake: the image is copied once, at the first offer. *)
QueryResponseCopiesOnce(nd, status, r) ==
    LET offer == IF status = "SUCCESS" /\ nd.rawFile = NoImage
                 THEN [nd EXCEPT !.rawFile = nd.file] ELSE nd
    IN  IF status = "" \/ r = Refused
        THEN [offer EXCEPT !.state = "Idle"]
        ELSE [offer EXCEPT !.state = "WaitConfirm", !.apsRequestId = r,
                           !.zclCommandId = "queryRsp"]

(* queryNextImageResponse(): the node it leaves. *)
QueryResponse(nd, status, r) ==
    LET offer == IF status = "SUCCESS" THEN [nd EXCEPT !.rawFile = nd.file] ELSE nd
    IN  IF status = "" \/ r = Refused
        THEN [offer EXCEPT !.state = "Idle"]
        ELSE [offer EXCEPT !.state = "WaitConfirm", !.apsRequestId = r,
                           !.zclCommandId = "queryRsp"]

(* queryNextImageRequest(). *)
QueryNextImageRequest(n) ==
    \E nd \in UpdateChecked(n, [Received(node[n], "query") EXCEPT !.queried = TRUE]),
       r \in Outcomes :
        LET status == QueryStatus(n, nd)
        IN  /\ node' = [node EXCEPT ![n] = QueryResponse(nd, status, r)]
            /\ apsPending' = IF status = "" THEN apsPending
                             ELSE apsPending \cup Sent(n, "queryRsp", status, r)
            /\ IF status = "SUCCESS" THEN MarkOtauActivity(n) ELSE UNCHANGED trackerVars
            /\ cleanupTimer' = TRUE
            /\ UNCHANGED <<pageTimer, nNoAckErrors, maxAsduDataSize, otauActive,
                           pageRequestEnabled>>

(* A query with a payload that is neither 9 nor 11 bytes long is dropped,   *)
(* after the common part of the indication.                                 *)
MalformedQuery(n) ==
    /\ node' = [node EXCEPT ![n] = Received(@, "query")]
    /\ cleanupTimer' = TRUE
    /\ UNCHANGED <<pageTimer, nNoAckErrors, maxAsduDataSize, otauActive,
                   pageRequestEnabled, apsPending, trackerVars>>

(* The version a request asks for, with DONT_CARE_FILE_VERSION resolved. *)
ResolvedVersion(nd, v) ==
    IF v = DONT_CARE_FILE_VERSION THEN FileVersion[nd.file] ELSE v

BlockRequested(nd, v, off, size) ==
    [Received(nd, "block") EXCEPT !.fileVersion = ResolvedVersion(nd, v),
                                  !.offset = off, !.maxDataSize = size,
                                  !.apsRequestId = INVALID_APS_REQ_ID]

(* imageBlockRequest(). *)
ImageBlockRequest(n) ==
    \E v \in ReqVersions, off \in ReqOffsets, size \in ReqDataSizes, r \in Outcomes :
        LET nd == BlockRequested(node[n], v, off, size)
        IN  /\ node' = [node EXCEPT ![n] =
                           [BlockResponse(n, nd, r) EXCEPT
                              !.state = IF BlockSent(n, nd, r) THEN "WaitConfirm" ELSE "Idle"]]
            /\ apsPending' = apsPending \cup BlockFrames(n, nd, r)
            /\ MarkOtauActivity(n)
            /\ cleanupTimer' = TRUE
            /\ UNCHANGED <<pageTimer, nNoAckErrors, maxAsduDataSize, otauActive,
                           pageRequestEnabled>>

(* Mistake: does not look whether the request was accepted. *)
DefaultResponseUnchecked(nd, r) ==
    [nd EXCEPT !.apsRequestId = r, !.zclCommandId = "defaultRsp",
               !.lastResponseTime = "recent"]

(* defaultResponse(). *)
DefaultResponse(nd, r) ==
    IF r = Refused THEN nd
    ELSE [nd EXCEPT !.apsRequestId = r, !.zclCommandId = "defaultRsp",
                    !.lastResponseTime = "recent"]

(* Mistake: the id of an earlier response is kept. *)
PageRequestedKeepsId(nd, v, off, size, pageSize) ==
    [nd EXCEPT !.fileVersion = ResolvedVersion(nd, v),
               !.offset = off, !.maxDataSize = size,
               !.pageOffset = off, !.pageSize = pageSize, !.pageBytesDone = 0,
               !.imgPageRequestRetry = 0, !.imgBlockResponseRetry = 0,
               !.state = "WaitPageSpacing", !.lastResponseTime = "recent"]

(* Mistake: the bytes of an earlier page are still counted. *)
PageRequestedContinues(nd, v, off, size, pageSize) ==
    [nd EXCEPT !.fileVersion = ResolvedVersion(nd, v),
               !.offset = off, !.maxDataSize = size,
               !.pageOffset = off, !.pageSize = pageSize,
               !.apsRequestId = INVALID_APS_REQ_ID,
               !.imgPageRequestRetry = 0, !.imgBlockResponseRetry = 0,
               !.state = "WaitPageSpacing", !.lastResponseTime = "recent"]

(* The start of a page in imagePageRequest(). *)
PageRequested(nd, v, off, size, pageSize) ==
    [nd EXCEPT !.fileVersion = ResolvedVersion(nd, v),
               !.offset = off, !.maxDataSize = size,
               !.pageOffset = off, !.pageSize = pageSize, !.pageBytesDone = 0,
               !.apsRequestId = INVALID_APS_REQ_ID,
               !.imgPageRequestRetry = 0, !.imgBlockResponseRetry = 0,
               !.state = "WaitPageSpacing", !.lastResponseTime = "recent"]

(* imagePageRequest(): ignored when the box is not checked, refused for an  *)
(* aborted node, else the start of a page.                                  *)
ImagePageRequest(n) ==
    LET nd == Received(node[n], "page")
    IN  /\ \/ /\ ~pageRequestEnabled
              /\ node' = [node EXCEPT ![n] = nd]
              /\ UNCHANGED <<apsPending, pageTimer>>
           \/ /\ pageRequestEnabled /\ nd.state = "Abort"
              /\ \E r \in Outcomes :
                    /\ node' = [node EXCEPT ![n] = DefaultResponse(nd, r)]
                    /\ apsPending' = apsPending \cup Sent(n, "defaultRsp", "ABORT", r)
              /\ UNCHANGED pageTimer
           \/ /\ pageRequestEnabled /\ nd.state # "Abort"
              /\ \E v \in ReqVersions, off \in ReqOffsets, size \in ReqDataSizes,
                    pageSize \in ReqPageSizes :
                    node' = [node EXCEPT ![n] = PageRequested(nd, v, off, size, pageSize)]
              /\ pageTimer' = TRUE
              /\ UNCHANGED apsPending
        /\ MarkOtauActivity(n)
        /\ cleanupTimer' = TRUE
        /\ UNCHANGED <<nNoAckErrors, maxAsduDataSize, otauActive, pageRequestEnabled>>

(* upgradeEndResponse(). *)
UpgradeEndResponse(nd, r) ==
    IF r = Refused THEN nd
    ELSE [nd EXCEPT !.apsRequestId = r, !.zclCommandId = "endRsp"]

(* upgradeEndRequest(): a device that reports success without having asked  *)
(* for a block beyond the first is told to abort; one that reports an error *)
(* gets a default response only.                                            *)
UpgradeEndRequest(n) ==
    \E r \in Outcomes :
        LET nd == [Received(node[n], "end") EXCEPT !.state = "Idle"]
        IN  /\ \/ /\ nd.offset = 0
                  /\ node' = [node EXCEPT ![n] = DefaultResponse(nd, r)]
                  /\ apsPending' = apsPending \cup Sent(n, "defaultRsp", "ABORT", r)
               \/ /\ nd.offset # 0
                  /\ node' = [node EXCEPT ![n] =
                        UpgradeEndResponse([nd EXCEPT !.hasData = FALSE,
                                                      !.permitUpdate = FALSE], r)]
                  /\ apsPending' = apsPending \cup Sent(n, "endRsp", "SUCCESS", r)
               \/ \* the device reports a status other than success
                  /\ node' = [node EXCEPT ![n] = DefaultResponse(nd, r)]
                  /\ apsPending' = apsPending \cup Sent(n, "defaultRsp", "SUCCESS", r)
            /\ cleanupTimer' = TRUE
            /\ UNCHANGED <<pageTimer, nNoAckErrors, maxAsduDataSize, otauActive,
                           pageRequestEnabled, trackerVars>>

(* Any other ZCL frame on the OTA cluster that is not filtered out: a       *)
(* general command such as a read attributes response.  Only its id is      *)
(* stored, and general ids overlap with those of the cluster commands.      *)
StrayZclFrame(n) ==
    \E cmd \in StrayCmds :
        /\ node' = [node EXCEPT ![n] = Received(@, cmd)]
        /\ UNCHANGED <<pageTimer, cleanupTimer, nNoAckErrors, maxAsduDataSize, otauActive,
                       pageRequestEnabled, apsPending, trackerVars>>

----------------------------------------------------------------------------
(* Confirms of the APS layer: apsdeDataConfirm().                           *)

InFlight(n, id) == {f \in apsPending : f.node = n /\ f.id = id}

(* The confirms that may arrive for n: of its own responses, or of requests *)
(* that are not tracked here (image notifies, other plugins), which have    *)
(* ids that are not in use.                                                 *)
ConfirmIds(n) == {f.id : f \in {g \in apsPending : g.node = n}} \cup FreeIds

(* Nobody waits for this confirm, or the node is aborted: the id the node   *)
(* remembers stays as it is.                                                *)
ConfirmIgnored(n) ==
    \E f \in apsPending :
        /\ f.node = n
        /\ node[n].state = "Abort" \/ node[n].apsRequestId # f.id
        /\ apsPending' = apsPending \ {f}
        /\ UNCHANGED <<node, pageTimer, cleanupTimer, nNoAckErrors, maxAsduDataSize,
                       otauActive, pageRequestEnabled, trackerVars>>

ConfirmTaken(n, id) ==
    /\ node[n].state # "Abort"
    /\ id \in ConfirmIds(n)
    /\ id = node[n].apsRequestId

(* The NO_ACK errors that make the server fall back to small blocks. *)
FallsBack(nd) ==
    \/ (nNoAckErrors + 1) % U8 > NO_ACK_THRESHOLD
    \/ nd.zclCommandId = "blockRsp" /\ nd.offset = 0

(* noAck: the status is ApsNoAckStatus or 0xE5. *)
ConfirmFailed(n, noAck) ==
    \E id \in ReqIds :
        /\ ConfirmTaken(n, id)
        /\ node' = [node EXCEPT ![n].apsRequestId = INVALID_APS_REQ_ID]
        /\ apsPending' = apsPending \ InFlight(n, id)
        /\ nNoAckErrors' = IF noAck THEN (nNoAckErrors + 1) % U8 ELSE 0
        /\ maxAsduDataSize' = IF noAck /\ FallsBack(node[n])
                              THEN MinOf(maxAsduDataSize, MAX_SAFE_ASDU_SIZE)
                              ELSE maxAsduDataSize
        /\ UNCHANGED <<pageTimer, cleanupTimer, otauActive, pageRequestEnabled, trackerVars>>

(* The node when its response has been delivered: after a block response,   *)
(* whatever its status, the request moves on by the size of the block.      *)
Delivered(nd) ==
    IF nd.zclCommandId = "blockRsp"
    THEN [nd EXCEPT !.apsRequestId = INVALID_APS_REQ_ID,
                    !.pageBytesDone = (@ + nd.maxDataSize) % U16,
                    !.offset = (@ + nd.maxDataSize) % U32]
    ELSE [nd EXCEPT !.apsRequestId = INVALID_APS_REQ_ID,
                    !.hasData = @ /\ nd.zclCommandId # "endRsp"]

(* A success confirm; in a page it triggers the next block. *)
ConfirmSucceeded(n) ==
    \E id \in ReqIds, r \in Outcomes :
        LET nd    == Delivered(node[n])
            paged == nd.zclCommandId = "blockRsp" /\ nd.state = "WaitPageSpacing"
        IN  /\ ConfirmTaken(n, id)
            /\ node' = [node EXCEPT ![n] = IF paged THEN PageResponse(n, nd, r) ELSE nd]
            /\ apsPending' = (apsPending \ InFlight(n, id))
                                \cup (IF paged THEN PageFrames(n, nd, r) ELSE {})
            /\ pageTimer' = (pageTimer \/ (paged /\ PageArmsTimer(nd)))
            /\ UNCHANGED <<cleanupTimer, nNoAckErrors, maxAsduDataSize, otauActive,
                           pageRequestEnabled, trackerVars>>

----------------------------------------------------------------------------
(* Timers.                                                                  *)

(* imagePageTimerFired() while the OTA server of the core is not active:    *)
(* it returns at once, and the single shot timer is not started again.      *)
PageTimerInactive ==
    /\ pageTimer /\ ~otauActive
    /\ pageTimer' = FALSE
    /\ UNCHANGED <<node, cleanupTimer, nNoAckErrors, maxAsduDataSize, otauActive,
                   pageRequestEnabled, apsPending, trackerVars>>

(* Mistake: gives up one refused request too late. *)
PageServedPatient(n, nd, r) ==
    LET nd2 == PageResponse(n, nd, r)
    IN  IF nd.state # "WaitPageSpacing" THEN nd
        ELSE IF ~PageOk(n, nd, r) /\ nd2.imgBlockResponseRetry > MAX_IMG_BLOCK_RSP_RETRY
        THEN [nd2 EXCEPT !.state = "Idle"]
        ELSE nd2

(* Mistake: timeouts of the next request are not counted. *)
PageServedUncounted(n, nd, r) ==
    LET nd2 == PageResponse(n, nd, r)
    IN  IF nd.state # "WaitPageSpacing" THEN nd
        ELSE IF ~PageOk(n, nd, r) /\ nd2.imgBlockResponseRetry >= MAX_IMG_BLOCK_RSP_RETRY
        THEN [nd2 EXCEPT !.state = "Idle"]
        ELSE nd2

(* What imagePageTimerFired() does to one node. *)
PageServed(n, nd, r) ==
    IF nd.state = "WaitPageSpacing"
    THEN LET nd2 == PageResponse(n, nd, r)
         IN  IF ~PageOk(n, nd, r) /\ nd2.imgBlockResponseRetry >= MAX_IMG_BLOCK_RSP_RETRY
             THEN [nd2 EXCEPT !.state = "Idle"]
             ELSE nd2
    ELSE IF nd.state = "WaitNextRequest" /\ nd.lastActivity # "fresh"
    THEN IF nd.imgPageRequestRetry + 1 >= MAX_IMG_PAGE_REQ_RETRY
         THEN [nd EXCEPT !.imgPageRequestRetry = @ + 1, !.state = "Idle"]
         ELSE [nd EXCEPT !.imgPageRequestRetry = @ + 1, !.apsRequestId = INVALID_APS_REQ_ID]
    ELSE nd

(* Outcomes of the requests to several nodes: accepted ones differ in id. *)
DistinctOutcomes ==
    {r \in [Nodes -> Outcomes] :
        \A m, n \in Nodes : m # n /\ r[m] = r[n] => r[m] = Refused}

(* Mistake: not for nodes that wait for the next request. *)
RefireForPages == \E n \in Nodes : node[n].state = "WaitPageSpacing"

(* Some node still needs the timer. *)
Refire == \E n \in Nodes : Waiting(node[n])

PageTimerServes ==
    /\ pageTimer /\ otauActive
    /\ \E r \in DistinctOutcomes :
          /\ node' = [n \in Nodes |-> PageServed(n, node[n], r[n])]
          /\ apsPending' = apsPending \cup
                UNION {PageFrames(n, node[n], r[n]) :
                         n \in {m \in Nodes : node[m].state = "WaitPageSpacing"}}
    /\ pageTimer' = Refire
    /\ UNCHANGED <<cleanupTimer, nNoAckErrors, maxAsduDataSize, otauActive,
                   pageRequestEnabled, trackerVars>>

(* Mistake: the timer keeps running only for devices that were active. *)
CleanupTimerFiredForActive ==
    /\ cleanupTimer
    /\ node' = [n \in Nodes |->
                  [node[n] EXCEPT !.hasData = @ /\ node[n].lastActivity # "idle4h"]]
    /\ cleanupTimer' = (\E n \in Nodes : node[n].lastActivity = "fresh")
    /\ UNCHANGED <<pageTimer, nNoAckErrors, maxAsduDataSize, otauActive,
                   pageRequestEnabled, apsPending, trackerVars>>

(* cleanupTimerFired(). *)
CleanupTimerFired ==
    /\ cleanupTimer
    /\ node' = [n \in Nodes |->
                  [node[n] EXCEPT !.hasData = @ /\ node[n].lastActivity # "idle4h"]]
    /\ cleanupTimer' = (\E n \in Nodes : node'[n].hasData)
    /\ UNCHANGED <<pageTimer, nNoAckErrors, maxAsduDataSize, otauActive,
                   pageRequestEnabled, apsPending, trackerVars>>

TrackerTick ==
    /\ ActivityTimerFired
    /\ UNCHANGED sessionVars

----------------------------------------------------------------------------
(* The user, in the control widget.                                         *)

AbortClicked(n) ==
    /\ node' = [node EXCEPT ![n].permitUpdate = FALSE, ![n].state = "Abort"]
    /\ UNCHANGED <<pageTimer, cleanupTimer, nNoAckErrors, maxAsduDataSize, otauActive,
                   pageRequestEnabled, apsPending, trackerVars>>

(* The image notify it sends is not waited for: see ConfirmIds. *)
UpdateClicked(n) ==
    /\ node' = [node EXCEPT ![n].state = "Idle",
                            ![n].permitUpdate = @ \/ node[n].hasData]
    /\ otauActive' = TRUE
    /\ UNCHANGED <<pageTimer, cleanupTimer, nNoAckErrors, maxAsduDataSize,
                   pageRequestEnabled, apsPending, trackerVars>>

QueryClicked ==
    /\ ~otauActive
    /\ otauActive' = TRUE
    /\ UNCHANGED <<node, pageTimer, cleanupTimer, nNoAckErrors, maxAsduDataSize,
                   pageRequestEnabled, apsPending, trackerVars>>

(* fileSelectClicked(): the file loads, or reading it fails after its       *)
(* header and raw data have replaced those of the node's file.              *)
FileSelectClicked(n) ==
    /\ \/ \E f \in Images \ BrokenFiles :
             node' = [node EXCEPT ![n].file = f, ![n].hasData = TRUE,
                                  ![n].lastActivity = "fresh"]
       \/ \E f \in BrokenFiles : node' = [node EXCEPT ![n].file = f]
    /\ UNCHANGED <<pageTimer, cleanupTimer, nNoAckErrors, maxAsduDataSize, otauActive,
                   pageRequestEnabled, apsPending, trackerVars>>

PageRequestBoxToggled ==
    /\ pageRequestEnabled' = ~pageRequestEnabled
    /\ UNCHANGED <<node, pageTimer, cleanupTimer, nNoAckErrors, maxAsduDataSize,
                   otauActive, apsPending, trackerVars>>

----------------------------------------------------------------------------
(* The rest of the environment.                                             *)

(* The core switches its OTA server off (REST API, settings). *)
OtauDeactivated ==
    /\ otauActive
    /\ otauActive' = FALSE
    /\ UNCHANGED <<node, pageTimer, cleanupTimer, nNoAckErrors, maxAsduDataSize,
                   pageRequestEnabled, apsPending, trackerVars>>

(* Time passes for the timers of a node. *)
ResponseAges(n) ==
    /\ node[n].lastResponseTime \in {"recent", "spaced"}
    /\ node' = [node EXCEPT ![n].lastResponseTime =
                   IF @ = "recent" THEN "spaced" ELSE "old"]
    /\ UNCHANGED <<pageTimer, cleanupTimer, nNoAckErrors, maxAsduDataSize, otauActive,
                   pageRequestEnabled, apsPending, trackerVars>>

ActivityAges(n) ==
    /\ node[n].lastActivity # "idle4h"
    /\ node' = [node EXCEPT ![n].lastActivity =
                   IF @ = "fresh" THEN "idle60s" ELSE "idle4h"]
    /\ UNCHANGED <<pageTimer, cleanupTimer, nNoAckErrors, maxAsduDataSize, otauActive,
                   pageRequestEnabled, apsPending, trackerVars>>

TrackedAges(n) ==
    /\ TrackerElapses(n)
    /\ UNCHANGED sessionVars

----------------------------------------------------------------------------
DeviceStep(n) ==
    \/ QueryNextImageRequest(n) \/ ImageBlockRequest(n)
    \/ ImagePageRequest(n) \/ UpgradeEndRequest(n)

ConfirmStep(n) ==
    \/ ConfirmIgnored(n) \/ ConfirmSucceeded(n)
    \/ \E noAck \in BOOLEAN : ConfirmFailed(n, noAck)

TimerStep == PageTimerInactive \/ PageTimerServes \/ CleanupTimerFired \/ TrackerTick

UserStep(n) == AbortClicked(n) \/ UpdateClicked(n) \/ FileSelectClicked(n)

TimeStep(n) == ResponseAges(n) \/ ActivityAges(n) \/ TrackedAges(n)

Next ==
    \/ \E n \in Nodes :
          \/ DeviceStep(n) \/ MalformedQuery(n) \/ StrayZclFrame(n)
          \/ ConfirmStep(n) \/ UserStep(n) \/ TimeStep(n)
    \/ TimerStep
    \/ QueryClicked \/ PageRequestBoxToggled \/ OtauDeactivated

Spec == Init /\ [][Next]_vars

----------------------------------------------------------------------------
TypeOK ==
    /\ node \in [Nodes -> OtauNode]
    /\ pageTimer \in BOOLEAN
    /\ cleanupTimer \in BOOLEAN
    /\ nNoAckErrors \in 0 .. U8 - 1
    /\ maxAsduDataSize \in {MAX_ASDU_SIZE, MAX_SAFE_ASDU_SIZE}
    /\ otauActive \in BOOLEAN
    /\ pageRequestEnabled \in BOOLEAN
    /\ apsPending \in SUBSET Frame

(* A page never waits for a confirm that cannot come.  A node in the middle *)
(* of a page that remembers a request id has exactly that block response in *)
(* flight, whatever requests, aborts and late or foreign confirms came      *)
(* before; so neither can a confirm of another frame move its page on.      *)
ConfirmAwaited ==
    \A n \in Nodes :
        /\ node[n].state = "WaitPageSpacing" /\ node[n].apsRequestId # INVALID_APS_REQ_ID
              => /\ node[n].zclCommandId = "blockRsp"
                 /\ \E f \in InFlight(n, node[n].apsRequestId) : f.cmd = "blockRsp"
        /\ node[n].state = "WaitNextRequest" => node[n].apsRequestId = INVALID_APS_REQ_ID

(* The retry counters, which the constructor leaves uninitialised, are set  *)
(* in the states that read them and stay below their limits: only the timer *)
(* tests for giving up, but a confirm can raise the block counter as well.  *)
(* What makes that safe is that a block in flight has reset the counter.    *)
RetriesBounded ==
    \A n \in Nodes :
        /\ node[n].state = "WaitPageSpacing" =>
              node[n].imgBlockResponseRetry \in 0 .. MAX_IMG_BLOCK_RSP_RETRY - 1
        /\ node[n].state = "WaitPageSpacing" /\ node[n].apsRequestId # INVALID_APS_REQ_ID
              => node[n].imgBlockResponseRetry = 0
        /\ Waiting(node[n]) =>
              node[n].imgPageRequestRetry \in 0 .. MAX_IMG_PAGE_REQ_RETRY - 1

(* The two counters of a page agree: the position in the file is the start  *)
(* of the page plus the bytes done, modulo the width of the latter.         *)
PageAccounting ==
    \A n \in Nodes :
        Waiting(node[n]) =>
            node[n].pageBytesDone = (node[n].offset - node[n].pageOffset) % U16

(* A data block for n is handed to the APS layer in this step. *)
DataSent(n) ==
    \E f \in apsPending' \ apsPending :
        f.node = n /\ f.cmd = "blockRsp" /\ f.status = "SUCCESS"

(* Every block that carries data lies inside the image it is read from and  *)
(* fits the frame size in force, also when that was reduced while a page    *)
(* was under way or the user chose another file in the meantime; and the    *)
(* blocks of a page never grow beyond what was asked for.                   *)
BlocksFit ==
    [][\A n \in Nodes : DataSent(n) =>
          /\ node'[n].offset + node'[n].maxDataSize <= RawSize[node'[n].rawFile]
          /\ node'[n].maxDataSize + RSP_HEADER_SIZE <= maxAsduDataSize'
          /\ node'[n].lastZclCmd = "page" => node'[n].maxDataSize <= node[n].maxDataSize]_vars

(* The page ends so far below the limits of the counters that no block can  *)
(* carry them over their width.                                             *)
PageInRange(nd) ==
    nd.pageSize + U8 <= U16 /\ nd.pageOffset + nd.pageSize + U8 <= U32

(* The data blocks of a page are not empty and stay in the page asked for,  *)
(* although blocks refused with another status advance the page too.  Those *)
(* advance it by the size that was asked for, which the page does not       *)
(* bound, so a page at the very end of the number range may wrap around.    *)
DataWithinPage ==
    [][\A n \in Nodes :
          DataSent(n) /\ node'[n].lastZclCmd = "page" /\ PageInRange(node'[n]) =>
          /\ node'[n].maxDataSize > 0
          /\ node'[n].offset >= node'[n].pageOffset
          /\ node'[n].offset + node'[n].maxDataSize
                <= node'[n].pageOffset + node'[n].pageSize]_vars

(* The page timer is the only thing that moves a waiting node: a node that  *)
(* waits without it comes from a moment when the OTA server of the core was *)
(* switched off, and from nothing else.                                     *)
PageTimerKept ==
    [][\A n \in Nodes : Waiting(node'[n]) =>
          pageTimer' \/ ~otauActive \/ (Waiting(node[n]) /\ ~pageTimer)]_vars

(* The cleanup timer is the only thing that takes an image away from a      *)
(* silent device: a node that holds one while the timer does not run comes  *)
(* from a file the user chose, after which nothing starts the timer.        *)
CleanupTimerKept ==
    [][\A n \in Nodes : node'[n].hasData /\ ~cleanupTimer' =>
          (node[n].hasData /\ ~cleanupTimer) \/ FileSelectClicked(n)]_vars

(* A device that is offered an image holds one of the OTAU_MAX_ACTIVE       *)
(* slots, so the number of devices with a recent offer is bounded by them.  *)
OfferHoldsSlot ==
    [][\A f \in apsPending' \ apsPending :
          f.cmd = "queryRsp" /\ f.status = "SUCCESS" =>
             \E i \in DOMAIN otauTracker' : otauTracker'[i] = f.node]_vars

(* An FLS-H with the software that must not get the older FLS-PP images is  *)
(* never sent data of one, although queryNextImageResponse() is the only    *)
(* place that looks and the user may choose any file at any time.           *)
FlsHProtected ==
    [][\A n \in FlsHNodes : DataSent(n) => FileVersion[node'[n].rawFile] >= FLS_H_VERSION]_vars

----------------------------------------------------------------------------
(* Fairness: the Qt event loop fires the page timer, time passes, and the   *)
(* APS layer confirms every request.  Of the blocks of a page that are sent *)
(* again and again, some are delivered: the server repeats a block that was *)
(* not acknowledged without limit, so nothing ends on a dead link.          *)
PageFairness ==
    /\ WF_vars(PageTimerServes)
    /\ \A n \in Nodes :
          /\ WF_vars(ResponseAges(n))
          /\ WF_vars(ActivityAges(n))
          /\ SF_vars(ConfirmSucceeded(n))

(* The blocks of a page can fill it: they are not of size 0, and a block    *)
(* that starts in the page cannot make the 16 bit count of the bytes done   *)
(* wrap around.                                                             *)
Fillable(nd) == nd.maxDataSize > 0 /\ (nd.pageSize - 1) + (U8 - 1) < U16

(* A page that can be filled ends: it is sent completely, although blocks   *)
(* are reduced, refused by the APS layer or not acknowledged on the way and *)
(* it may reach beyond the image, or the server gives up after              *)
(* MAX_IMG_BLOCK_RSP_RETRY refused requests, or the device is aborted.      *)
(* Another page may go on for ever: past the end of the image each block is *)
(* answered MALFORMED_COMMAND, and its confirm adds the size that was asked *)
(* for, so the count wraps without ever reaching a page size close to U16,  *)
(* and a size of 0 does not move it at all.                                 *)
PageEnds ==
    \A n \in Nodes :
        (node[n].state = "WaitPageSpacing" /\ Fillable(node[n]))
            ~> (node[n].state # "WaitPageSpacing")

(* A device that does not ask for the next page is given up on: the server  *)
(* leaves WaitNextRequest after MAX_IMG_PAGE_REQ_RETRY timeouts at most.    *)
GivesUp ==
    \A n \in Nodes :
        (node[n].state = "WaitNextRequest") ~> (node[n].state # "WaitNextRequest")
=============================================================================
