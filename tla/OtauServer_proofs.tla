------------------------- MODULE OtauServer_proofs -------------------------
(* Proofs about the upgrade sessions, for every set of devices, files and   *)
(* request ids and every value of the widths and limits.                    *)
EXTENDS OtauServer, OtauTracker_proofs

(* The constants are numbers, in the order of their widths. *)
LEMMA Widths ==
    /\ U8 \in Nat /\ U16 \in Nat /\ U32 \in Nat
    /\ 1 < U8 /\ U8 <= U16 /\ U16 <= U32
    /\ MAX_ASDU_SIZE \in Nat /\ MAX_SAFE_ASDU_SIZE \in Nat /\ RSP_HEADER_SIZE \in Nat
    /\ MAX_BLOCK_SIZE \in Nat \ {0} /\ MAX_OLD_BLOCK_SIZE \in Nat \ {0}
    /\ RSP_HEADER_SIZE < MAX_SAFE_ASDU_SIZE /\ MAX_SAFE_ASDU_SIZE <= MAX_ASDU_SIZE
    /\ MAX_ASDU_SIZE < U8
  BY BlocksAssumption DEF BlocksAssumption

(* Reduction to an unsigned width stays in the width. *)
LEMMA ModRange ==
    ASSUME NEW a \in Int, NEW w \in Nat \ {0}
    PROVE  a % w \in 0 .. w - 1
  OBVIOUS

(* The common part of apsdeDataIndication() keeps the type of a node. *)
LEMMA ReceivedType ==
    ASSUME NEW nd \in OtauNode, NEW cmd \in ReqCmds \cup {"other"}
    PROVE  Received(nd, cmd) \in OtauNode
  BY DEF Received, OtauNode

(* The constructor of OtauNode makes a node. *)
LEMMA FreshType == FreshNode \in OtauNode
  BY Widths, ServerAssumption DEF FreshNode, OtauNode, NodeStates, ReqCmds, RspCmds, Files, Versions, Uninit, ServerAssumption

(* A delivered response keeps the counters in their widths. *)
LEMMA DeliveredType ==
    ASSUME NEW nd \in OtauNode
    PROVE  Delivered(nd) \in OtauNode
<1>1. nd.pageBytesDone \in 0 .. U16 - 1 /\ nd.offset \in 0 .. U32 - 1 /\ nd.maxDataSize \in 0 .. U8 - 1
  BY DEF OtauNode
<1> /\ nd.pageBytesDone + nd.maxDataSize \in Int
    /\ nd.offset + nd.maxDataSize \in Int
    /\ U16 \in Nat \ {0} /\ U32 \in Nat \ {0}
  BY <1>1, Widths
<1>2. (nd.pageBytesDone + nd.maxDataSize) % U16 \in 0 .. U16 - 1
  BY ModRange, Zenon
<1>3. (nd.offset + nd.maxDataSize) % U32 \in 0 .. U32 - 1
  BY ModRange, Zenon
<1>4. (nd.hasData /\ nd.zclCommandId # "endRsp") \in BOOLEAN
  OBVIOUS
<1>5. CASE nd.zclCommandId = "blockRsp"
  BY <1>2, <1>3, <1>5 DEF Delivered, OtauNode
<1>6. CASE nd.zclCommandId # "blockRsp"
  <2> DEFINE b == nd.hasData /\ nd.zclCommandId # "endRsp"
  <2>1. Delivered(nd) = [nd EXCEPT !.apsRequestId = INVALID_APS_REQ_ID, !.hasData = b]
    BY <1>6, Zenon DEF Delivered
  <2>2. b \in BOOLEAN
    OBVIOUS
  <2> HIDE DEF b
  <2> QED
    BY <2>1, <2>2 DEF OtauNode
<1> QED
  BY <1>5, <1>6

----------------------------------------------------------------------------
(* What is sent.                                                            *)

(* A block never exceeds any of the limits that apply to it. *)
LEMMA BlockDataSizeBounds ==
    ASSUME NEW maxDataSize \in Nat, NEW asdu \in Nat, RSP_HEADER_SIZE < asdu,
           NEW small, NEW rest \in Nat, NEW room \in Nat,
           NEW bytes, bytes = BlockDataSize(maxDataSize, asdu, small, rest, room)
    PROVE  /\ bytes \in Nat
           /\ bytes <= maxDataSize /\ bytes <= rest /\ bytes <= room
           /\ bytes + RSP_HEADER_SIZE <= asdu
  BY Widths DEF BlockDataSize, MAX_DATA_SIZE, MinOf

(* The frame size in force is one of the two. *)
AsduTypeOK == maxAsduDataSize \in {MAX_ASDU_SIZE, MAX_SAFE_ASDU_SIZE}

(* The size computed for a node is within what it asked for. *)
LEMMA BlockBytesBounds ==
    ASSUME AsduTypeOK, NEW n, NEW nd \in OtauNode, BlockStatus(nd) = "SUCCESS"
    PROVE  /\ BlockBytes(n, nd) \in 0 .. U8 - 1
           /\ BlockBytes(n, nd) <= nd.maxDataSize
           /\ BlockBytes(n, nd) + RSP_HEADER_SIZE <= maxAsduDataSize
           /\ nd.offset + BlockBytes(n, nd) <= RawSize[nd.rawFile]
           /\ nd.lastZclCmd = "page" => BlockBytes(n, nd) <= PageRoom(nd.pageSize, nd.pageBytesDone)
<1> DEFINE rest == RawSize[nd.rawFile] - nd.offset
           room == IF nd.lastZclCmd = "page" THEN PageRoom(nd.pageSize, nd.pageBytesDone)
                                             ELSE U32
           small == n \in OldStackNodes /\ nd.queried
<1>1. /\ nd.maxDataSize \in 0 .. U8 - 1 /\ nd.offset \in 0 .. U32 - 1
      /\ nd.pageSize \in 0 .. U16 - 1 /\ nd.pageBytesDone \in 0 .. U16 - 1
      /\ nd.rawFile \in Files
  BY DEF OtauNode
<1>2. RawSize[nd.rawFile] \in Nat
  BY <1>1, ServerAssumption, Widths DEF ServerAssumption
<1>3. rest \in Nat
  <2>1. nd.offset < RawSize[nd.rawFile]
    BY Zenon DEF BlockStatus
  <2> QED
    BY <1>1, <1>2, <2>1, Widths
<1>4. room \in Nat
  <2>1. nd.pageSize - nd.pageBytesDone \in Int /\ U32 \in Nat \ {0}
    BY <1>1, Widths
  <2>2. (nd.pageSize - nd.pageBytesDone) % U32 \in 0 .. U32 - 1
    BY <2>1, ModRange, Zenon
  <2> QED
    BY <2>2, Widths DEF PageRoom
<1>5. BlockBytes(n, nd) = BlockDataSize(nd.maxDataSize, maxAsduDataSize, small, rest, room)
  BY DEF BlockBytes
<1>6. maxAsduDataSize \in Nat /\ RSP_HEADER_SIZE < maxAsduDataSize
  BY Widths DEF AsduTypeOK
<1> HIDE DEF rest, room, small
<1>7. /\ BlockBytes(n, nd) \in Nat
      /\ BlockBytes(n, nd) <= nd.maxDataSize
      /\ BlockBytes(n, nd) <= rest /\ BlockBytes(n, nd) <= room
      /\ BlockBytes(n, nd) + RSP_HEADER_SIZE <= maxAsduDataSize
  <2>1. nd.maxDataSize \in Nat
    BY <1>1, Widths
  <2> QED
    BY <1>3, <1>4, <1>5, <1>6, <2>1, BlockDataSizeBounds
<1>8. BlockBytes(n, nd) \in 0 .. U8 - 1
  BY <1>1, <1>7, Widths
<1>9. nd.offset + BlockBytes(n, nd) <= RawSize[nd.rawFile]
  BY <1>1, <1>2, <1>7, Widths DEF rest
<1>10. nd.lastZclCmd = "page" => BlockBytes(n, nd) <= PageRoom(nd.pageSize, nd.pageBytesDone)
  BY <1>7 DEF room
<1> QED
  BY <1>7, <1>8, <1>9, <1>10

(* Composing a block keeps the type of a node. *)
LEMMA BlockComposedType ==
    ASSUME AsduTypeOK, NEW n, NEW nd \in OtauNode
    PROVE  /\ BlockComposed(n, nd) \in OtauNode
           /\ BlockStatus(nd) \in RspStatus
<1>1. BlockStatus(nd) = "SUCCESS" => BlockBytes(n, nd) \in 0 .. U8 - 1
  BY BlockBytesBounds
<1>2. BlockStatus(nd) \in RspStatus
  BY DEF BlockStatus, RspStatus
<1>3. BlockComposed(n, nd) \in OtauNode
  <2> DEFINE state == IF nd.fileVersion # FileVersion[nd.file] THEN "Abort" ELSE nd.state
             bytes == IF BlockStatus(nd) = "SUCCESS" THEN BlockBytes(n, nd)
                                                     ELSE nd.maxDataSize
  <2>1. state \in NodeStates /\ bytes \in 0 .. U8 - 1
    BY <1>1 DEF OtauNode, NodeStates
  <2>2. BlockComposed(n, nd) = [nd EXCEPT !.state = state, !.maxDataSize = bytes]
    BY Zenon DEF BlockComposed
  <2> HIDE DEF state, bytes
  <2> QED
    BY <2>1, <2>2 DEF OtauNode
<1> QED
  BY <1>2, <1>3

(* So does imageBlockResponse() as a whole. *)
LEMMA BlockResponseType ==
    ASSUME AsduTypeOK, NEW n, NEW nd \in OtauNode, NEW r \in ReqIds \cup {Refused}
    PROVE  BlockResponse(n, nd, r) \in OtauNode
<1> DEFINE bc == BlockComposed(n, nd)
<1>1. bc \in OtauNode
  BY BlockComposedType
<1>2. BlockResponse(n, nd, r) \in {nd, bc} \/
        (r \in ReqIds /\ BlockResponse(n, nd, r) =
           [bc EXCEPT !.apsRequestId = r, !.zclCommandId = "blockRsp",
                      !.lastResponseTime = "recent"])
  BY DEF BlockResponse
<1> HIDE DEF bc
<1>3. ASSUME r \in ReqIds
      PROVE  [bc EXCEPT !.apsRequestId = r, !.zclCommandId = "blockRsp",
                        !.lastResponseTime = "recent"] \in OtauNode
  BY <1>1, <1>3, ZenonT(60) DEF OtauNode, RspCmds
<1> QED
  BY <1>1, <1>2, <1>3

(* Counting a retry keeps the type of a node. *)
LEMMA RetriedType ==
    ASSUME NEW nd \in OtauNode, NEW retry \in Nat
    PROVE  [nd EXCEPT !.state = "WaitPageSpacing", !.imgBlockResponseRetry = retry] \in OtauNode
  BY DEF OtauNode, NodeStates

(* imagePageResponse() keeps the type of a node. *)
LEMMA PageResponseType ==
    ASSUME AsduTypeOK, NEW n, NEW nd \in OtauNode, NEW r \in ReqIds \cup {Refused}
    PROVE  PageResponse(n, nd, r) \in OtauNode
<1> DEFINE br == BlockResponse(n, nd, r)
<1>1. br \in OtauNode
  BY BlockResponseType
<1> HIDE DEF br
<1>2. /\ [nd EXCEPT !.state = "WaitNextRequest"] \in OtauNode
      /\ [nd EXCEPT !.state = "WaitPageSpacing"] \in OtauNode
  BY DEF OtauNode, NodeStates
<1>3. [br EXCEPT !.imgBlockResponseRetry = 0] \in OtauNode
  BY <1>1 DEF OtauNode
<1>4. br.imgBlockResponseRetry + 1 \in Nat
  BY <1>1 DEF OtauNode, Uninit
<1>5. [br EXCEPT !.state = "WaitPageSpacing", !.imgBlockResponseRetry = @ + 1] \in OtauNode
  BY <1>1, <1>4, RetriedType
<1>6. PageResponse(n, nd, r) \in
          {nd, br, [nd EXCEPT !.state = "WaitNextRequest"],
           [nd EXCEPT !.state = "WaitPageSpacing"],
           [br EXCEPT !.imgBlockResponseRetry = 0],
           [br EXCEPT !.state = "WaitPageSpacing", !.imgBlockResponseRetry = @ + 1]}
  BY DEF PageResponse, br
<1> QED
  BY <1>1, <1>2, <1>3, <1>5, <1>6

(* imagePageTimerFired() keeps the type of a node. *)
LEMMA PageServedType ==
    ASSUME AsduTypeOK, NEW n, NEW nd \in OtauNode, NEW r \in ReqIds \cup {Refused}
    PROVE  PageServed(n, nd, r) \in OtauNode
<1> DEFINE pr == PageResponse(n, nd, r)
<1>1. pr \in OtauNode
  BY PageResponseType
<1> HIDE DEF pr
<1>2. [pr EXCEPT !.state = "Idle"] \in OtauNode
  BY <1>1 DEF OtauNode, NodeStates
<1>3. nd.imgPageRequestRetry + 1 \in Nat
  BY DEF OtauNode, Uninit
<1>4. /\ [nd EXCEPT !.imgPageRequestRetry = @ + 1, !.state = "Idle"] \in OtauNode
      /\ [nd EXCEPT !.imgPageRequestRetry = @ + 1,
                    !.apsRequestId = INVALID_APS_REQ_ID] \in OtauNode
  BY <1>3 DEF OtauNode, NodeStates
<1> QED
  BY <1>1, <1>2, <1>4 DEF PageServed, pr

(* checkForUpdateImageImage() keeps the type of a node. *)
LEMMA UpdateCheckedType ==
    ASSUME NEW n \in Nodes, NEW nd \in OtauNode
    PROVE  UpdateChecked(n, nd) \subseteq OtauNode
<1>1. UpdateFiles[n] \subseteq Files
  BY ServerAssumption DEF ServerAssumption, Files
<1>2. \A f \in Files : /\ [nd EXCEPT !.file = f, !.hasData = TRUE] \in OtauNode
                       /\ [nd EXCEPT !.file = f] \in OtauNode
  BY DEF OtauNode
<1>3. [nd EXCEPT !.hasData = TRUE] \in OtauNode
  BY DEF OtauNode
<1> QED
  BY <1>1, <1>2, <1>3, Zenon DEF UpdateChecked

(* Remembering a query response keeps the type of a node. *)
LEMMA QueryAnsweredType ==
    ASSUME NEW nd \in OtauNode, NEW r \in ReqIds
    PROVE  [nd EXCEPT !.state = "WaitConfirm", !.apsRequestId = r,
                      !.zclCommandId = "queryRsp"] \in OtauNode
<1>1. "WaitConfirm" \in NodeStates /\ "queryRsp" \in RspCmds
  BY DEF NodeStates, RspCmds
<1> QED
  BY <1>1 DEF OtauNode

(* queryNextImageResponse() keeps the type of a node. *)
LEMMA QueryResponseType ==
    ASSUME NEW nd \in OtauNode, NEW status, NEW r \in ReqIds \cup {Refused}
    PROVE  QueryResponse(nd, status, r) \in OtauNode
<1> DEFINE offer == IF status = "SUCCESS" THEN [nd EXCEPT !.rawFile = nd.file] ELSE nd
<1>1. offer \in OtauNode
  BY DEF OtauNode
<1> HIDE DEF offer
<1>2. [offer EXCEPT !.state = "Idle"] \in OtauNode
  BY <1>1 DEF OtauNode, NodeStates
<1>3. ASSUME r \in ReqIds
      PROVE  [offer EXCEPT !.state = "WaitConfirm", !.apsRequestId = r,
                           !.zclCommandId = "queryRsp"] \in OtauNode
  BY <1>1, <1>3, QueryAnsweredType
<1>4. QueryResponse(nd, status, r) =
        IF status = "" \/ r = Refused
        THEN [offer EXCEPT !.state = "Idle"]
        ELSE [offer EXCEPT !.state = "WaitConfirm", !.apsRequestId = r,
                           !.zclCommandId = "queryRsp"]
  BY Zenon DEF QueryResponse, offer
<1> QED
  BY <1>2, <1>3, <1>4

(* A resolved version is a version. *)
LEMMA ResolvedVersionType ==
    ASSUME NEW nd \in OtauNode, NEW v \in ReqVersions
    PROVE  ResolvedVersion(nd, v) \in Versions
<1>1. nd.file \in Files
  BY DEF OtauNode
<1> QED
  BY <1>1 DEF ResolvedVersion, Versions

(* What a request may ask for. *)
LEMMA RequestTypes ==
    /\ ReqOffsets \subseteq 0 .. U32 - 1
    /\ ReqDataSizes \subseteq 0 .. U8 - 1
    /\ ReqPageSizes \subseteq 0 .. U16 - 1
  BY ServerAssumption DEF ServerAssumption

(* Storing a block request keeps the type of a node. *)
LEMMA BlockRequestedType ==
    ASSUME NEW nd \in OtauNode, NEW v \in ReqVersions, NEW off \in ReqOffsets,
           NEW size \in ReqDataSizes
    PROVE  BlockRequested(nd, v, off, size) \in OtauNode
<1> DEFINE rd == Received(nd, "block")
           rv == ResolvedVersion(nd, v)
<1>1. rd \in OtauNode /\ rv \in Versions
  BY ReceivedType, ResolvedVersionType DEF ReqCmds
<1> HIDE DEF rd, rv
<1>2. [rd EXCEPT !.fileVersion = rv, !.offset = off, !.maxDataSize = size,
                 !.apsRequestId = INVALID_APS_REQ_ID] \in OtauNode
  BY <1>1, RequestTypes DEF OtauNode
<1> QED
  BY <1>2 DEF BlockRequested, rd, rv

(* Starting a page keeps the type of a node. *)
LEMMA PageRequestedType ==
    ASSUME NEW nd \in OtauNode, NEW v \in ReqVersions, NEW off \in ReqOffsets,
           NEW size \in ReqDataSizes, NEW pageSize \in ReqPageSizes
    PROVE  PageRequested(nd, v, off, size, pageSize) \in OtauNode
<1> DEFINE rv == ResolvedVersion(nd, v)
<1>1. rv \in Versions
  BY ResolvedVersionType
<1> HIDE DEF rv
<1>2. 0 \in 0 .. U16 - 1
  BY Widths
<1>3. [nd EXCEPT !.fileVersion = rv, !.offset = off, !.maxDataSize = size,
                 !.pageOffset = off, !.pageSize = pageSize, !.pageBytesDone = 0,
                 !.apsRequestId = INVALID_APS_REQ_ID,
                 !.imgPageRequestRetry = 0, !.imgBlockResponseRetry = 0,
                 !.state = "WaitPageSpacing", !.lastResponseTime = "recent"] \in OtauNode
  BY <1>1, <1>2, RequestTypes DEF OtauNode, NodeStates
<1> QED
  BY <1>3 DEF PageRequested, rv

(* The default response and the upgrade end response keep it too. *)
LEMMA OtherResponseTypes ==
    ASSUME NEW nd \in OtauNode, NEW r \in ReqIds \cup {Refused}
    PROVE  /\ DefaultResponse(nd, r) \in OtauNode
           /\ UpgradeEndResponse(nd, r) \in OtauNode
<1>1. ASSUME r \in ReqIds
      PROVE  /\ [nd EXCEPT !.apsRequestId = r, !.zclCommandId = "defaultRsp",
                           !.lastResponseTime = "recent"] \in OtauNode
             /\ [nd EXCEPT !.apsRequestId = r, !.zclCommandId = "endRsp"] \in OtauNode
  BY <1>1, ZenonT(60) DEF OtauNode, RspCmds
<1> QED
  BY <1>1 DEF DefaultResponse, UpgradeEndResponse

(* The frames put in flight. *)
LEMMA SentType ==
    ASSUME NEW n \in Nodes, NEW cmd \in RspCmds, NEW status \in RspStatus,
           NEW r \in ReqIds \cup {Refused}
    PROVE  Sent(n, cmd, status, r) \in SUBSET Frame
  BY DEF Sent, Frame

(* Block responses put well typed frames in flight. *)
LEMMA BlockFramesType ==
    ASSUME AsduTypeOK, NEW n \in Nodes, NEW nd \in OtauNode, NEW r \in ReqIds \cup {Refused}
    PROVE  BlockFrames(n, nd, r) \in SUBSET Frame /\ PageFrames(n, nd, r) \in SUBSET Frame
<1>1. Sent(n, "blockRsp", BlockStatus(nd), r) \in SUBSET Frame
  BY BlockComposedType, SentType DEF RspCmds
<1> QED
  BY <1>1 DEF BlockFrames, PageFrames

(* A query is answered with a status, or not at all. *)
LEMMA QueryStatusType ==
    ASSUME NEW n, NEW nd
    PROVE  QueryStatus(n, nd) \in RspStatus \cup {""}
  BY DEF QueryStatus, RspStatus

----------------------------------------------------------------------------
(* Type correctness.                                                        *)

(* The state after the constructors is well typed. *)
LEMMA InitType == Init => TypeOK
<1> SUFFICES ASSUME Init PROVE TypeOK
  OBVIOUS
<1>1. node \in [Nodes -> OtauNode]
  BY FreshType DEF Init
<1>2. nNoAckErrors \in 0 .. U8 - 1
  BY Widths DEF Init
<1>3. /\ maxAsduDataSize \in {MAX_ASDU_SIZE, MAX_SAFE_ASDU_SIZE}
      /\ apsPending \in SUBSET Frame
  BY DEF Init
<1>4. /\ pageTimer \in BOOLEAN /\ cleanupTimer \in BOOLEAN
      /\ otauActive \in BOOLEAN /\ pageRequestEnabled \in BOOLEAN
  BY Zenon DEF Init
<1> QED
  BY <1>1, <1>2, <1>3, <1>4 DEF TypeOK

(* A request gets an id or is refused. *)
LEMMA OutcomesType == Outcomes \subseteq ReqIds \cup {Refused}
  BY DEF Outcomes, FreeIds

(* Replacing one record keeps the type of all. *)
LEMMA NodeUpdate ==
    ASSUME node \in [Nodes -> OtauNode], NEW n \in Nodes, NEW nd \in OtauNode,
           node' = [node EXCEPT ![n] = nd]
    PROVE  node' \in [Nodes -> OtauNode]
  OBVIOUS

(* queryNextImageRequest() keeps the types. *)
LEMMA QueryType ==
    ASSUME TypeOK, NEW n \in Nodes, QueryNextImageRequest(n)
    PROVE  TypeOK'
<1>1. PICK nd \in UpdateChecked(n, [Received(node[n], "query") EXCEPT !.queried = TRUE]),
           r \in Outcomes :
         /\ node' = [node EXCEPT ![n] = QueryResponse(nd, QueryStatus(n, nd), r)]
         /\ apsPending' = IF QueryStatus(n, nd) = "" THEN apsPending
                          ELSE apsPending \cup Sent(n, "queryRsp", QueryStatus(n, nd), r)
  BY Zenon DEF QueryNextImageRequest
<1>2. /\ cleanupTimer' = TRUE
      /\ UNCHANGED <<pageTimer, nNoAckErrors, maxAsduDataSize, otauActive,
                     pageRequestEnabled>>
  BY Zenon DEF QueryNextImageRequest
<1>3. node[n] \in OtauNode
  BY DEF TypeOK
<1>4. [Received(node[n], "query") EXCEPT !.queried = TRUE] \in OtauNode
  <2>1. Received(node[n], "query") \in OtauNode
    BY <1>3, ReceivedType DEF ReqCmds
  <2> QED
    BY <2>1 DEF OtauNode
<1>5. nd \in OtauNode /\ r \in ReqIds \cup {Refused}
  BY <1>1, <1>4, UpdateCheckedType, OutcomesType
<1>6. node' \in [Nodes -> OtauNode]
  BY <1>1, <1>5, QueryResponseType, NodeUpdate DEF TypeOK
<1>7. apsPending' \in SUBSET Frame
  <2>1. CASE QueryStatus(n, nd) = ""
    BY <1>1, <2>1 DEF TypeOK
  <2>2. CASE QueryStatus(n, nd) # ""
    <3>1. Sent(n, "queryRsp", QueryStatus(n, nd), r) \in SUBSET Frame
      BY <1>5, <2>2, QueryStatusType, SentType DEF RspCmds
    <3> QED
      BY <1>1, <2>2, <3>1 DEF TypeOK
  <2> QED
    BY <2>1, <2>2
<1> QED
  BY <1>2, <1>6, <1>7, Zenon DEF TypeOK

(* imageBlockRequest() keeps the types. *)
LEMMA BlockRequestType ==
    ASSUME TypeOK, NEW n \in Nodes, ImageBlockRequest(n)
    PROVE  TypeOK'
<1>1. PICK v \in ReqVersions, off \in ReqOffsets, size \in ReqDataSizes, r \in Outcomes :
         LET nd == BlockRequested(node[n], v, off, size)
         IN  /\ node' = [node EXCEPT ![n] =
                            [BlockResponse(n, nd, r) EXCEPT
                               !.state = IF BlockSent(n, nd, r) THEN "WaitConfirm" ELSE "Idle"]]
             /\ apsPending' = apsPending \cup BlockFrames(n, nd, r)
  BY Zenon DEF ImageBlockRequest
<1>2. /\ cleanupTimer' = TRUE
      /\ UNCHANGED <<pageTimer, nNoAckErrors, maxAsduDataSize, otauActive,
                     pageRequestEnabled>>
  BY Zenon DEF ImageBlockRequest
<1> DEFINE nd == BlockRequested(node[n], v, off, size)
           br == BlockResponse(n, nd, r)
           st == IF BlockSent(n, nd, r) THEN "WaitConfirm" ELSE "Idle"
<1>3. r \in ReqIds \cup {Refused}
  BY OutcomesType
<1>4. node[n] \in OtauNode /\ AsduTypeOK
  BY DEF TypeOK, AsduTypeOK
<1>5. nd \in OtauNode
  BY <1>4, BlockRequestedType
<1>6. br \in OtauNode /\ BlockFrames(n, nd, r) \in SUBSET Frame
  <2> HIDE DEF nd
  <2> QED
    BY <1>3, <1>4, <1>5, BlockResponseType, BlockFramesType
<1>7. st \in NodeStates
  BY DEF NodeStates
<1>8. [br EXCEPT !.state = st] \in OtauNode
  <2> HIDE DEF br, st
  <2> QED
    BY <1>6, <1>7 DEF OtauNode
<1>9. node' \in [Nodes -> OtauNode]
  <2>1. node' = [node EXCEPT ![n] = [br EXCEPT !.state = st]]
    BY <1>1, Zenon
  <2> HIDE DEF br, st
  <2> QED
    BY <1>8, <2>1, NodeUpdate DEF TypeOK
<1>10. apsPending' \in SUBSET Frame
  BY <1>1, <1>6 DEF TypeOK
<1> QED
  BY <1>2, <1>9, <1>10, Zenon DEF TypeOK

(* imagePageRequest() keeps the types. *)
LEMMA PageRequestType ==
    ASSUME TypeOK, NEW n \in Nodes, ImagePageRequest(n)
    PROVE  TypeOK'
<1> DEFINE nd == Received(node[n], "page")
<1>1. nd \in OtauNode
  BY ReceivedType DEF TypeOK, ReqCmds
<1>2. /\ cleanupTimer' = TRUE
      /\ UNCHANGED <<nNoAckErrors, maxAsduDataSize, otauActive, pageRequestEnabled>>
  BY Zenon DEF ImagePageRequest
<1>3. CASE /\ node' = [node EXCEPT ![n] = nd]
           /\ UNCHANGED <<apsPending, pageTimer>>
  <2> HIDE DEF nd
  <2>1. node' \in [Nodes -> OtauNode]
    BY <1>1, <1>3, NodeUpdate DEF TypeOK
  <2> QED
    BY <1>2, <1>3, <2>1, Zenon DEF TypeOK
<1>4. ASSUME NEW r \in Outcomes,
             node' = [node EXCEPT ![n] = DefaultResponse(nd, r)],
             apsPending' = apsPending \cup Sent(n, "defaultRsp", "ABORT", r),
             UNCHANGED pageTimer
      PROVE  TypeOK'
  <2> HIDE DEF nd
  <2>1. r \in ReqIds \cup {Refused}
    BY OutcomesType
  <2>2. node' \in [Nodes -> OtauNode]
    BY <1>1, <1>4, <2>1, OtherResponseTypes, NodeUpdate DEF TypeOK
  <2>3. Sent(n, "defaultRsp", "ABORT", r) \in SUBSET Frame
    BY <2>1, SentType DEF RspCmds, RspStatus
  <2>4. apsPending' \in SUBSET Frame
    BY <1>4, <2>3 DEF TypeOK
  <2> QED
    BY <1>2, <1>4, <2>2, <2>4, Zenon DEF TypeOK
<1>5. ASSUME NEW v \in ReqVersions, NEW off \in ReqOffsets, NEW size \in ReqDataSizes,
             NEW pageSize \in ReqPageSizes,
             node' = [node EXCEPT ![n] = PageRequested(nd, v, off, size, pageSize)],
             pageTimer' = TRUE,
             UNCHANGED apsPending
      PROVE  TypeOK'
  <2> HIDE DEF nd
  <2>1. node' \in [Nodes -> OtauNode]
    BY <1>1, <1>5, PageRequestedType, NodeUpdate DEF TypeOK
  <2> QED
    BY <1>2, <1>5, <2>1, Zenon DEF TypeOK
<1> QED
  BY <1>3, <1>4, <1>5, Zenon DEF ImagePageRequest

(* upgradeEndRequest() keeps the types. *)
LEMMA UpgradeEndType ==
    ASSUME TypeOK, NEW n \in Nodes, UpgradeEndRequest(n)
    PROVE  TypeOK'
<1> DEFINE nd == [Received(node[n], "end") EXCEPT !.state = "Idle"]
           done == [nd EXCEPT !.hasData = FALSE, !.permitUpdate = FALSE]
<1>1. nd \in OtauNode
  <2>1. Received(node[n], "end") \in OtauNode
    BY ReceivedType DEF TypeOK, ReqCmds
  <2> QED
    BY <2>1 DEF OtauNode, NodeStates
<1>2. done \in OtauNode
  <2> HIDE DEF nd
  <2> QED
    BY <1>1 DEF OtauNode
<1>3. PICK r \in Outcomes :
         \/ /\ node' = [node EXCEPT ![n] = DefaultResponse(nd, r)]
            /\ apsPending' = apsPending \cup Sent(n, "defaultRsp", "ABORT", r)
         \/ /\ node' = [node EXCEPT ![n] = UpgradeEndResponse(done, r)]
            /\ apsPending' = apsPending \cup Sent(n, "endRsp", "SUCCESS", r)
         \/ /\ node' = [node EXCEPT ![n] = DefaultResponse(nd, r)]
            /\ apsPending' = apsPending \cup Sent(n, "defaultRsp", "SUCCESS", r)
  BY Zenon DEF UpgradeEndRequest
<1>4. /\ cleanupTimer' = TRUE
      /\ UNCHANGED <<pageTimer, nNoAckErrors, maxAsduDataSize, otauActive,
                     pageRequestEnabled>>
  BY Zenon DEF UpgradeEndRequest
<1>5. r \in ReqIds \cup {Refused}
  BY OutcomesType
<1> HIDE DEF nd, done
<1>6. node' \in [Nodes -> OtauNode]
  <2>1. DefaultResponse(nd, r) \in OtauNode /\ UpgradeEndResponse(done, r) \in OtauNode
    BY <1>1, <1>2, <1>5, OtherResponseTypes
  <2> QED
    BY <1>3, <2>1, NodeUpdate DEF TypeOK
<1>7. apsPending' \in SUBSET Frame
  <2>1. /\ Sent(n, "defaultRsp", "ABORT", r) \in SUBSET Frame
        /\ Sent(n, "endRsp", "SUCCESS", r) \in SUBSET Frame
        /\ Sent(n, "defaultRsp", "SUCCESS", r) \in SUBSET Frame
    BY <1>5, SentType DEF RspCmds, RspStatus
  <2> QED
    BY <1>3, <2>1 DEF TypeOK
<1> QED
  BY <1>4, <1>6, <1>7, Zenon DEF TypeOK

(* apsdeDataConfirm() keeps the types. *)
LEMMA ConfirmType ==
    ASSUME TypeOK, NEW n \in Nodes, ConfirmStep(n)
    PROVE  TypeOK'
<1>1. CASE ConfirmIgnored(n)
  <2>1. apsPending' \in SUBSET Frame
    BY <1>1 DEF ConfirmIgnored, TypeOK
  <2> QED
    BY <1>1, <2>1, Zenon DEF ConfirmIgnored, TypeOK
<1>2. ASSUME NEW noAck \in BOOLEAN, ConfirmFailed(n, noAck)
      PROVE  TypeOK'
  <2>1. node' \in [Nodes -> OtauNode]
    <3>1. [node[n] EXCEPT !.apsRequestId = INVALID_APS_REQ_ID] \in OtauNode
      BY DEF TypeOK, OtauNode
    <3>2. node' = [node EXCEPT ![n] = [node[n] EXCEPT !.apsRequestId = INVALID_APS_REQ_ID]]
      BY <1>2 DEF ConfirmFailed
    <3> QED
      BY <3>1, <3>2, NodeUpdate DEF TypeOK
  <2>2. apsPending' \in SUBSET Frame
    BY <1>2 DEF ConfirmFailed, TypeOK
  <2>3. nNoAckErrors' \in 0 .. U8 - 1
    <3>1. nNoAckErrors + 1 \in Int /\ U8 \in Nat \ {0} /\ 0 \in 0 .. U8 - 1
      BY Widths DEF TypeOK
    <3>2. (nNoAckErrors + 1) % U8 \in 0 .. U8 - 1
      BY <3>1, ModRange, Zenon
    <3>3. nNoAckErrors' \in {(nNoAckErrors + 1) % U8, 0}
      BY <1>2 DEF ConfirmFailed
    <3> QED
      BY <3>1, <3>2, <3>3
  <2>4. maxAsduDataSize' \in {MAX_ASDU_SIZE, MAX_SAFE_ASDU_SIZE}
    <3>1. maxAsduDataSize' \in {MinOf(maxAsduDataSize, MAX_SAFE_ASDU_SIZE), maxAsduDataSize}
      BY <1>2 DEF ConfirmFailed
    <3> QED
      BY <3>1 DEF TypeOK, MinOf
  <2> QED
    BY <1>2, <2>1, <2>2, <2>3, <2>4, Zenon DEF ConfirmFailed, TypeOK
<1>3. CASE ConfirmSucceeded(n)
  <2> DEFINE nd == Delivered(node[n])
             paged == nd.zclCommandId = "blockRsp" /\ nd.state = "WaitPageSpacing"
  <2>1. PICK id \in ReqIds, r \in Outcomes :
           /\ node' = [node EXCEPT ![n] = IF paged THEN PageResponse(n, nd, r) ELSE nd]
           /\ apsPending' = (apsPending \ InFlight(n, id))
                                \cup (IF paged THEN PageFrames(n, nd, r) ELSE {})
           /\ pageTimer' = (pageTimer \/ (paged /\ PageArmsTimer(nd)))
    BY <1>3, Zenon DEF ConfirmSucceeded
  <2>2. UNCHANGED <<cleanupTimer, nNoAckErrors, maxAsduDataSize, otauActive,
                    pageRequestEnabled>>
    BY <1>3, Zenon DEF ConfirmSucceeded
  <2>3. nd \in OtauNode /\ AsduTypeOK /\ r \in ReqIds \cup {Refused}
    BY DeliveredType, OutcomesType DEF TypeOK, AsduTypeOK
  <2>4. pageTimer' \in BOOLEAN
    BY <2>1, Zenon
  <2> HIDE DEF nd
  <2>5. node' \in [Nodes -> OtauNode]
    <3>1. (IF paged THEN PageResponse(n, nd, r) ELSE nd) \in OtauNode
      BY <2>3, PageResponseType
    <3> QED
      BY <2>1, <3>1, NodeUpdate DEF TypeOK
  <2>6. apsPending' \in SUBSET Frame
    <3>1. PageFrames(n, nd, r) \in SUBSET Frame
      BY <2>3, BlockFramesType
    <3> QED
      BY <2>1, <3>1 DEF TypeOK
  <2> QED
    BY <2>2, <2>4, <2>5, <2>6, Zenon DEF TypeOK
<1> QED
  BY <1>1, <1>2, <1>3 DEF ConfirmStep

(* imagePageTimerFired() keeps the types. *)
LEMMA PageTimerServesType ==
    ASSUME TypeOK, PageTimerServes
    PROVE  TypeOK'
<1>1. PICK r \in DistinctOutcomes :
         /\ node' = [n \in Nodes |-> PageServed(n, node[n], r[n])]
         /\ apsPending' = apsPending \cup
               UNION {PageFrames(n, node[n], r[n]) :
                        n \in {m \in Nodes : node[m].state = "WaitPageSpacing"}}
  BY Zenon DEF PageTimerServes
<1>2. /\ pageTimer' = (\E n \in Nodes : Waiting(node[n]))
      /\ UNCHANGED <<cleanupTimer, nNoAckErrors, maxAsduDataSize, otauActive,
                     pageRequestEnabled>>
  BY Zenon DEF PageTimerServes, Refire
<1>3. \A n \in Nodes : node[n] \in OtauNode /\ r[n] \in ReqIds \cup {Refused}
  BY OutcomesType DEF DistinctOutcomes, TypeOK
<1>4. AsduTypeOK
  BY DEF TypeOK, AsduTypeOK
<1>5. node' \in [Nodes -> OtauNode]
  <2>1. \A n \in Nodes : PageServed(n, node[n], r[n]) \in OtauNode
    BY <1>3, <1>4, PageServedType
  <2> QED
    BY <1>1, <2>1
<1>6. apsPending' \in SUBSET Frame
  <2>1. \A n \in Nodes : PageFrames(n, node[n], r[n]) \in SUBSET Frame
    BY <1>3, <1>4, BlockFramesType
  <2> QED
    BY <1>1, <2>1 DEF TypeOK
<1>7. pageTimer' \in BOOLEAN
  BY <1>2, Zenon
<1> QED
  BY <1>2, <1>5, <1>6, <1>7, Zenon DEF TypeOK

(* The steps that leave everything but one or two fields alone. *)
LEMMA SmallStepsType ==
    ASSUME TypeOK, NEW n \in Nodes,
           MalformedQuery(n) \/ StrayZclFrame(n) \/ UserStep(n) \/ TimeStep(n)
    PROVE  TypeOK'
<1>1. node[n] \in OtauNode
  BY DEF TypeOK
<1>2. CASE MalformedQuery(n)
  <2>1. node' \in [Nodes -> OtauNode]
    BY <1>1, <1>2, ReceivedType, NodeUpdate DEF MalformedQuery, TypeOK, ReqCmds
  <2> QED
    BY <1>2, <2>1, Zenon DEF MalformedQuery, TypeOK
<1>3. CASE StrayZclFrame(n)
  <2>1. node' \in [Nodes -> OtauNode]
    BY <1>1, <1>3, ReceivedType, NodeUpdate, StrayAssumption
    DEF StrayZclFrame, TypeOK, StrayAssumption
  <2> QED
    BY <1>3, <2>1, Zenon DEF StrayZclFrame, TypeOK
<1>4. CASE AbortClicked(n)
  <2>1. [node[n] EXCEPT !.permitUpdate = FALSE, !.state = "Abort"] \in OtauNode
    BY <1>1 DEF OtauNode, NodeStates
  <2>2. node' = [node EXCEPT ![n] = [node[n] EXCEPT !.permitUpdate = FALSE, !.state = "Abort"]]
    BY <1>4 DEF AbortClicked, TypeOK
  <2>3. node' \in [Nodes -> OtauNode]
    BY <2>1, <2>2, NodeUpdate DEF TypeOK
  <2> QED
    BY <1>4, <2>3, Zenon DEF AbortClicked, TypeOK
<1>5. CASE UpdateClicked(n)
  <2> DEFINE permit == node[n].permitUpdate \/ node[n].hasData
  <2>1. node' = [node EXCEPT ![n] = [node[n] EXCEPT !.state = "Idle", !.permitUpdate = permit]]
    BY <1>5 DEF UpdateClicked, TypeOK
  <2>2. permit \in BOOLEAN
    OBVIOUS
  <2> HIDE DEF permit
  <2>3. [node[n] EXCEPT !.state = "Idle", !.permitUpdate = permit] \in OtauNode
    BY <1>1, <2>2 DEF OtauNode, NodeStates
  <2>4. node' \in [Nodes -> OtauNode]
    BY <2>1, <2>3, NodeUpdate DEF TypeOK
  <2> QED
    BY <1>5, <2>4, Zenon DEF UpdateClicked, TypeOK
<1>6. CASE FileSelectClicked(n)
  <2>1. \A f \in Files : /\ [node[n] EXCEPT !.file = f] \in OtauNode
                         /\ [node[n] EXCEPT !.file = f, !.hasData = TRUE,
                                            !.lastActivity = "fresh"] \in OtauNode
    BY <1>1 DEF OtauNode
  <2>2. PICK f \in Files :
           node' \in {[node EXCEPT ![n] = [node[n] EXCEPT !.file = f]],
                      [node EXCEPT ![n] = [node[n] EXCEPT !.file = f, !.hasData = TRUE,
                                                         !.lastActivity = "fresh"]]}
    BY <1>6, ServerAssumption DEF FileSelectClicked, ServerAssumption, Files, TypeOK
  <2>3. node' \in [Nodes -> OtauNode]
    BY <2>1, <2>2, NodeUpdate DEF TypeOK
  <2> QED
    BY <1>6, <2>3, Zenon DEF FileSelectClicked, TypeOK
<1>7. CASE ResponseAges(n)
  <2> DEFINE age == IF node[n].lastResponseTime = "recent" THEN "spaced" ELSE "old"
  <2>1. age \in {"invalid", "recent", "spaced", "old"}
    OBVIOUS
  <2>2. node' = [node EXCEPT ![n] = [node[n] EXCEPT !.lastResponseTime = age]]
    BY <1>7 DEF ResponseAges, TypeOK
  <2> HIDE DEF age
  <2>3. [node[n] EXCEPT !.lastResponseTime = age] \in OtauNode
    BY <1>1, <2>1 DEF OtauNode
  <2>4. node' \in [Nodes -> OtauNode]
    BY <2>2, <2>3, NodeUpdate DEF TypeOK
  <2> QED
    BY <1>7, <2>4, Zenon DEF ResponseAges, TypeOK
<1>8. CASE ActivityAges(n)
  <2> DEFINE age == IF node[n].lastActivity = "fresh" THEN "idle60s" ELSE "idle4h"
  <2>1. age \in {"fresh", "idle60s", "idle4h"}
    OBVIOUS
  <2>2. node' = [node EXCEPT ![n] = [node[n] EXCEPT !.lastActivity = age]]
    BY <1>8 DEF ActivityAges, TypeOK
  <2> HIDE DEF age
  <2>3. [node[n] EXCEPT !.lastActivity = age] \in OtauNode
    BY <1>1, <2>1 DEF OtauNode
  <2>4. node' \in [Nodes -> OtauNode]
    BY <2>2, <2>3, NodeUpdate DEF TypeOK
  <2> QED
    BY <1>8, <2>4, Zenon DEF ActivityAges, TypeOK
<1>9. CASE TrackedAges(n)
  BY <1>9, Zenon DEF TrackedAges, sessionVars, TypeOK
<1> QED
  BY <1>2, <1>3, <1>4, <1>5, <1>6, <1>7, <1>8, <1>9 DEF UserStep, TimeStep

(* All timers keep the types. *)
LEMMA TimersType ==
    ASSUME TypeOK, TimerStep
    PROVE  TypeOK'
<1>1. CASE PageTimerInactive
  BY <1>1, Zenon DEF PageTimerInactive, TypeOK
<1>2. CASE CleanupTimerFired
  <2>1. \A n \in Nodes :
           [node[n] EXCEPT !.hasData = @ /\ node[n].lastActivity # "idle4h"] \in OtauNode
    <3> TAKE n \in Nodes
    <3> DEFINE kept == node[n].hasData /\ node[n].lastActivity # "idle4h"
    <3>1. kept \in BOOLEAN
      OBVIOUS
    <3> HIDE DEF kept
    <3>2. [node[n] EXCEPT !.hasData = kept] \in OtauNode
      BY <3>1 DEF TypeOK, OtauNode
    <3> QED
      BY <3>2, Zenon DEF kept
  <2>2. node' \in [Nodes -> OtauNode]
    BY <1>2, <2>1 DEF CleanupTimerFired
  <2>3. cleanupTimer' \in BOOLEAN
    BY <1>2, Zenon DEF CleanupTimerFired
  <2> QED
    BY <1>2, <2>2, <2>3, Zenon DEF CleanupTimerFired, TypeOK
<1>3. CASE TrackerTick
  BY <1>3, Zenon DEF TrackerTick, sessionVars, TypeOK
<1> QED
  BY <1>1, <1>2, <1>3, PageTimerServesType DEF TimerStep

(* Every step keeps the types. *)
LEMMA NextType == TypeOK /\ [Next]_vars => TypeOK'
<1> SUFFICES ASSUME TypeOK, [Next]_vars
             PROVE  TypeOK'
  OBVIOUS
<1>1. ASSUME NEW n \in Nodes, DeviceStep(n)
      PROVE  TypeOK'
  BY <1>1, QueryType, BlockRequestType, PageRequestType, UpgradeEndType DEF DeviceStep
<1>2. CASE QueryClicked
  BY <1>2, Zenon DEF QueryClicked, TypeOK
<1>3. CASE PageRequestBoxToggled
  BY <1>3, Zenon DEF PageRequestBoxToggled, TypeOK
<1>4. CASE OtauDeactivated
  BY <1>4, Zenon DEF OtauDeactivated, TypeOK
<1>5. CASE UNCHANGED vars
  BY <1>5, Zenon DEF vars, sessionVars, TypeOK
<1> QED
  BY <1>1, <1>2, <1>3, <1>4, <1>5, ConfirmType, SmallStepsType, TimersType DEF Next

(* Every field of every session keeps its C++ width and its meaning, with   *)
(* whatever requests, confirms, timers and clicks in whatever order.        *)
THEOREM TypeCorrect == Spec => []TypeOK
<1>1. Init => TypeOK
  BY InitType
<1>2. TypeOK /\ [Next]_vars => TypeOK'
  BY NextType
<1> QED
  BY <1>1, <1>2, PTL DEF Spec

----------------------------------------------------------------------------
(* The tracker inside the server.                                           *)

(* Every step of the server is a step of the tracker or leaves it alone. *)
LEMMA NextTracks == [Next]_vars => [TrackerNext]_trackerVars
<1> SUFFICES ASSUME [Next]_vars
             PROVE  [TrackerNext]_trackerVars
  OBVIOUS
<1>1. ASSUME NEW n \in Nodes, DeviceStep(n)
      PROVE  [TrackerNext]_trackerVars
  <2>1. MarkOtauActivity(n) \/ UNCHANGED trackerVars
    BY <1>1, Zenon DEF DeviceStep, QueryNextImageRequest, ImageBlockRequest,
                       ImagePageRequest, UpgradeEndRequest
  <2> QED
    BY <2>1 DEF TrackerNext
<1>2. ASSUME NEW n \in Nodes, ConfirmStep(n)
      PROVE  UNCHANGED trackerVars
  BY <1>2, Zenon DEF ConfirmStep, ConfirmIgnored, ConfirmFailed, ConfirmSucceeded
<1>3. ASSUME NEW n \in Nodes, MalformedQuery(n) \/ StrayZclFrame(n) \/ UserStep(n)
      PROVE  UNCHANGED trackerVars
  BY <1>3, Zenon DEF MalformedQuery, StrayZclFrame, UserStep, AbortClicked, UpdateClicked,
                     FileSelectClicked
<1>4. ASSUME NEW n \in Nodes, TimeStep(n)
      PROVE  [TrackerNext]_trackerVars
  <2>1. TrackerElapses(n) \/ UNCHANGED trackerVars
    BY <1>4, Zenon DEF TimeStep, ResponseAges, ActivityAges, TrackedAges
  <2> QED
    BY <2>1 DEF TrackerNext
<1>5. CASE TimerStep
  <2>1. ActivityTimerFired \/ UNCHANGED trackerVars
    BY <1>5, Zenon DEF TimerStep, PageTimerInactive, PageTimerServes, CleanupTimerFired,
                       TrackerTick
  <2> QED
    BY <2>1 DEF TrackerNext
<1>6. CASE QueryClicked \/ PageRequestBoxToggled \/ OtauDeactivated \/ UNCHANGED vars
  BY <1>6, Zenon DEF QueryClicked, PageRequestBoxToggled, OtauDeactivated, vars
<1> QED
  BY <1>1, <1>2, <1>3, <1>4, <1>5, <1>6 DEF Next

(* Whatever the sessions do, the tracker behaves as its own specification   *)
(* says: markOtauActivity() and the activity timer are its only users.      *)
THEOREM ServerImplementsTracker == Spec => TrackerSpec
<1>1. Init => TrackerInit
  BY DEF Init
<1>2. [Next]_vars => [TrackerNext]_trackerVars
  BY NextTracks
<1> QED
  BY <1>1, <1>2, PTL DEF Spec, TrackerSpec

(* So at most OTAU_MAX_ACTIVE devices are tracked by the whole server, and  *)
(* the activity timer that frees their slots runs while there are any.      *)
THEOREM ServerTrackerBounded == Spec => [](TrackerBounded /\ SlotsReclaimable)
<1>1. TrackerInv => TrackerBounded /\ SlotsReclaimable
  BY DEF TrackerInv
<1> QED
  BY <1>1, ServerImplementsTracker, TrackerInvariant, PTL
=============================================================================
