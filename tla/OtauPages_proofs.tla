-------------------------- MODULE OtauPages_proofs --------------------------
(* Proofs about the pages of a transfer: which confirm a page waits for,    *)
(* and the bounds of its retry counters.                                    *)
EXTENDS OtauServer_proofs

(* ConfirmAwaited and RetriesBounded for one device, as a predicate of its  *)
(* record and the frames in flight.                                         *)
PageSafe(n, nd, pending) ==
    /\ nd.state = "WaitPageSpacing" /\ nd.apsRequestId # INVALID_APS_REQ_ID
          => /\ nd.zclCommandId = "blockRsp"
             /\ \E f \in pending : f.node = n /\ f.id = nd.apsRequestId /\ f.cmd = "blockRsp"
             /\ nd.imgBlockResponseRetry = 0
    /\ nd.state = "WaitNextRequest" => nd.apsRequestId = INVALID_APS_REQ_ID
    /\ nd.state = "WaitPageSpacing" =>
          nd.imgBlockResponseRetry \in 0 .. MAX_IMG_BLOCK_RSP_RETRY - 1
    /\ Waiting(nd) => nd.imgPageRequestRetry \in 0 .. MAX_IMG_PAGE_REQ_RETRY - 1

PagesSafe == \A n \in Nodes : PageSafe(n, node[n], apsPending)

(* PagesSafe is the two properties of pages, sorted by node. *)
LEMMA PagesSafeMeaning == PagesSafe <=> ConfirmAwaited /\ RetriesBounded
  BY DEF PagesSafe, PageSafe, ConfirmAwaited, RetriesBounded, InFlight

(* The retry limits leave room for one failure at least. *)
LEMMA Limits ==
    /\ MAX_IMG_BLOCK_RSP_RETRY \in Nat /\ MAX_IMG_BLOCK_RSP_RETRY >= 2
    /\ MAX_IMG_PAGE_REQ_RETRY \in Nat /\ MAX_IMG_PAGE_REQ_RETRY >= 1
  BY ServerAssumption DEF ServerAssumption

(* A refusal and the invalid id are not ids of requests. *)
LEMMA RequestIds == Refused \notin ReqIds /\ INVALID_APS_REQ_ID \notin ReqIds
  BY ServerAssumption DEF ServerAssumption

(* A node that does not wait is safe. *)
LEMMA NotWaitingSafe ==
    ASSUME NEW n, NEW nd, NEW pending, ~Waiting(nd)
    PROVE  PageSafe(n, nd, pending)
  BY DEF PageSafe, Waiting

(* Safety depends on five fields only, and on the frame waited for.         *)
LEMMA PageSafeKept ==
    ASSUME NEW n, NEW nd, NEW nd2, NEW pending, NEW pending2,
           PageSafe(n, nd, pending),
           nd2.state = nd.state, nd2.apsRequestId = nd.apsRequestId,
           nd2.zclCommandId = nd.zclCommandId,
           nd2.imgBlockResponseRetry = nd.imgBlockResponseRetry,
           nd2.imgPageRequestRetry = nd.imgPageRequestRetry,
           \A f \in pending : f.node = n /\ f.id = nd.apsRequestId => f \in pending2
    PROVE  PageSafe(n, nd2, pending2)
<1> USE DEF PageSafe, Waiting
<1>1. nd2.state = "WaitPageSpacing" /\ nd2.apsRequestId # INVALID_APS_REQ_ID
        => \E f \in pending2 : f.node = n /\ f.id = nd2.apsRequestId /\ f.cmd = "blockRsp"
  OBVIOUS
<1> QED
  BY <1>1

(* What imageBlockResponse() does to the fields that matter for a page. *)
LEMMA BlockResponseFields ==
    ASSUME NEW n, NEW nd \in OtauNode, NEW r,
           NEW br, br = BlockResponse(n, nd, r)
    PROVE  /\ br.imgBlockResponseRetry = nd.imgBlockResponseRetry
           /\ br.imgPageRequestRetry = nd.imgPageRequestRetry
           /\ br.state \in {nd.state, "Abort"}
           /\ BlockSent(n, nd, r) => br.apsRequestId = r /\ br.zclCommandId = "blockRsp"
           /\ ~BlockSent(n, nd, r) => /\ br.apsRequestId = nd.apsRequestId
                                      /\ br.zclCommandId = nd.zclCommandId
<1> DEFINE bc == BlockComposed(n, nd)
<1>1. /\ bc.imgBlockResponseRetry = nd.imgBlockResponseRetry
      /\ bc.imgPageRequestRetry = nd.imgPageRequestRetry
      /\ bc.apsRequestId = nd.apsRequestId /\ bc.zclCommandId = nd.zclCommandId
      /\ bc.state \in {nd.state, "Abort"}
  BY DEF BlockComposed, OtauNode
<1>2. br = IF BlockHeld(n, nd) THEN nd
           ELSE IF r = Refused THEN bc
           ELSE [bc EXCEPT !.apsRequestId = r, !.zclCommandId = "blockRsp",
                           !.lastResponseTime = "recent"]
  BY Zenon DEF BlockResponse
<1>3. DOMAIN bc = DOMAIN nd
  BY DEF BlockComposed
<1>4. {"apsRequestId", "zclCommandId", "lastResponseTime", "state",
       "imgBlockResponseRetry", "imgPageRequestRetry"} \subseteq DOMAIN nd
  BY DEF OtauNode
<1> HIDE DEF bc
<1> QED
  BY <1>1, <1>2, <1>3, <1>4 DEF BlockSent

(* imagePageResponse() of a safe node: it stays safe unless the request was *)
(* refused once too often, and then the page response has failed.           *)
LEMMA PageResponseSafe ==
    ASSUME AsduTypeOK, NEW n \in Nodes, NEW nd \in OtauNode, NEW r \in ReqIds \cup {Refused},
           NEW pending, PageSafe(n, nd, pending), nd.state = "WaitPageSpacing",
           NEW pr, pr = PageResponse(n, nd, r)
    PROVE  /\ pr.imgBlockResponseRetry < MAX_IMG_BLOCK_RSP_RETRY
                 => PageSafe(n, pr, pending \cup PageFrames(n, nd, r))
           /\ pr.imgBlockResponseRetry \in Nat
           /\ pr.imgBlockResponseRetry <= nd.imgBlockResponseRetry + 1
           /\ PageOk(n, nd, r) => pr.imgBlockResponseRetry < MAX_IMG_BLOCK_RSP_RETRY
<1> DEFINE br == BlockResponse(n, nd, r)
           pending2 == pending \cup PageFrames(n, nd, r)
<1>1. /\ nd.imgBlockResponseRetry \in 0 .. MAX_IMG_BLOCK_RSP_RETRY - 1
      /\ nd.imgPageRequestRetry \in 0 .. MAX_IMG_PAGE_REQ_RETRY - 1
      /\ nd.apsRequestId # INVALID_APS_REQ_ID => AwaitsConfirm(nd)
  BY DEF PageSafe, Waiting, AwaitsConfirm
<1>2. PageSafe(n, nd, pending2)
  <2> HIDE DEF pending2
  <2>1. pending \subseteq pending2
    BY DEF pending2
  <2> QED
    BY <2>1, PageSafeKept
<1>3. CASE nd.lastZclCmd # "page" \/ AwaitsConfirm(nd)
  <2>1. pr = nd
    BY <1>3, Zenon DEF PageResponse
  <2> QED
    BY <1>1, <1>2, <2>1, Limits
<1>4. CASE nd.lastZclCmd = "page" /\ ~AwaitsConfirm(nd) /\ PageDone(nd)
  <2>1. pr = [nd EXCEPT !.state = "WaitNextRequest"]
    BY <1>4, Zenon DEF PageResponse
  <2>2. /\ pr.state = "WaitNextRequest" /\ pr.apsRequestId = INVALID_APS_REQ_ID
        /\ pr.imgBlockResponseRetry = nd.imgBlockResponseRetry
        /\ pr.imgPageRequestRetry = nd.imgPageRequestRetry
    BY <1>1, <1>4, <2>1 DEF OtauNode
  <2>3. PageSafe(n, pr, pending2)
    BY <1>1, <2>2 DEF PageSafe
  <2> QED
    BY <1>1, <2>2, <2>3, Limits
<1>5. CASE /\ nd.lastZclCmd = "page" /\ ~AwaitsConfirm(nd) /\ ~PageDone(nd)
           /\ nd.lastResponseTime = "recent"
  <2>1. pr = [nd EXCEPT !.state = "WaitPageSpacing"]
    BY <1>5, Zenon DEF PageResponse
  <2>2. pr = nd
    BY <2>1 DEF OtauNode
  <2> QED
    BY <1>1, <1>2, <2>2, Limits
<1>6. CASE /\ nd.lastZclCmd = "page" /\ ~AwaitsConfirm(nd) /\ ~PageDone(nd)
           /\ nd.lastResponseTime # "recent"
  <2>1. br \in OtauNode
    BY BlockResponseType
  <2>2. /\ br.imgBlockResponseRetry = nd.imgBlockResponseRetry
        /\ br.imgPageRequestRetry = nd.imgPageRequestRetry
        /\ br.state \in {nd.state, "Abort"}
        /\ BlockSent(n, nd, r) => br.apsRequestId = r /\ br.zclCommandId = "blockRsp"
        /\ ~BlockSent(n, nd, r) => br.apsRequestId = nd.apsRequestId
    BY BlockResponseFields
  <2>3. CASE BlockSent(n, nd, r)
    <3>1. pr = [br EXCEPT !.imgBlockResponseRetry = 0]
      BY <1>6, <2>3, Zenon DEF PageResponse
    <3> HIDE DEF br
    <3>a. /\ pr.state = br.state /\ pr.apsRequestId = br.apsRequestId
          /\ pr.zclCommandId = br.zclCommandId
          /\ pr.imgBlockResponseRetry = 0
          /\ pr.imgPageRequestRetry = br.imgPageRequestRetry
      BY <2>1, <3>1 DEF OtauNode
    <3>2. /\ pr.state \in {"WaitPageSpacing", "Abort"}
          /\ pr.apsRequestId = r /\ pr.zclCommandId = "blockRsp"
          /\ pr.imgBlockResponseRetry = 0
          /\ pr.imgPageRequestRetry = nd.imgPageRequestRetry
      BY <2>2, <2>3, <3>a
    <3>3. r # Refused /\ PageFrames(n, nd, r) = Sent(n, "blockRsp", BlockStatus(nd), r)
      BY <1>6, <2>3, Zenon DEF PageFrames, PageSends, BlockFrames, BlockSent
    <3>4. \E f \in pending2 : f.node = n /\ f.id = r /\ f.cmd = "blockRsp"
      <4> DEFINE f == [id |-> r, node |-> n, cmd |-> "blockRsp", status |-> BlockStatus(nd)]
      <4>1. f \in pending2
        BY <3>3 DEF Sent
      <4>2. f.node = n /\ f.id = r /\ f.cmd = "blockRsp"
        OBVIOUS
      <4> QED
        BY <4>1, <4>2
    <3>5. PageSafe(n, pr, pending2)
      BY <1>1, <3>2, <3>4, Limits DEF PageSafe
    <3> QED
      BY <1>1, <3>2, <3>5, Limits
  <2>4. CASE ~BlockSent(n, nd, r)
    <3> DEFINE more == br.imgBlockResponseRetry + 1
    <3>1. pr = [br EXCEPT !.state = "WaitPageSpacing", !.imgBlockResponseRetry = more]
      BY <1>6, <2>4, Zenon DEF PageResponse
    <3>2. more = nd.imgBlockResponseRetry + 1
      BY <2>2
    <3> HIDE DEF br, more
    <3>3. /\ pr.state = "WaitPageSpacing" /\ pr.imgBlockResponseRetry = more
          /\ pr.apsRequestId = br.apsRequestId
          /\ pr.imgPageRequestRetry = br.imgPageRequestRetry
      BY <2>1, <3>1 DEF OtauNode
    <3>4. pr.apsRequestId = INVALID_APS_REQ_ID
      BY <1>1, <1>6, <2>2, <2>4, <3>3
    <3>5. pr.imgBlockResponseRetry < MAX_IMG_BLOCK_RSP_RETRY => PageSafe(n, pr, pending2)
      BY <1>1, <2>2, <3>2, <3>3, <3>4, Limits DEF PageSafe
    <3>6. ~PageOk(n, nd, r)
      BY <1>6, <2>4 DEF PageOk, PageSends
    <3> QED
      BY <1>1, <3>2, <3>3, <3>5, <3>6, Limits
  <2> QED
    BY <2>3, <2>4
<1> QED
  BY <1>3, <1>4, <1>5, <1>6

(* imagePageTimerFired() for one node. *)
LEMMA PageServedSafe ==
    ASSUME AsduTypeOK, NEW n \in Nodes, NEW nd \in OtauNode, NEW r \in ReqIds \cup {Refused},
           NEW pending, PageSafe(n, nd, pending),
           NEW pending2, pending \subseteq pending2,
           nd.state = "WaitPageSpacing" => PageFrames(n, nd, r) \subseteq pending2
    PROVE  PageSafe(n, PageServed(n, nd, r), pending2)
<1> DEFINE ps == PageServed(n, nd, r)
           pr == PageResponse(n, nd, r)
<1>1. CASE nd.state = "WaitPageSpacing"
  <2>1. pr \in OtauNode
    BY PageResponseType
  <2>2. ps = IF ~PageOk(n, nd, r) /\ pr.imgBlockResponseRetry >= MAX_IMG_BLOCK_RSP_RETRY
             THEN [pr EXCEPT !.state = "Idle"] ELSE pr
    BY <1>1, Zenon DEF PageServed
  <2>3. /\ pr.imgBlockResponseRetry < MAX_IMG_BLOCK_RSP_RETRY
              => PageSafe(n, pr, pending \cup PageFrames(n, nd, r))
        /\ pr.imgBlockResponseRetry \in Nat
        /\ PageOk(n, nd, r) => pr.imgBlockResponseRetry < MAX_IMG_BLOCK_RSP_RETRY
    BY <1>1, PageResponseSafe
  <2> HIDE DEF pr, ps
  <2>4. CASE pr.imgBlockResponseRetry < MAX_IMG_BLOCK_RSP_RETRY
    <3>1. ps = pr
      BY <2>2, <2>3, <2>4, Limits
    <3>2. pending \cup PageFrames(n, nd, r) \subseteq pending2
      BY <1>1
    <3>3. PageSafe(n, ps, pending2)
      BY <2>3, <2>4, <3>1, <3>2, PageSafeKept
    <3> QED
      BY <3>3 DEF ps
  <2>5. CASE ~(pr.imgBlockResponseRetry < MAX_IMG_BLOCK_RSP_RETRY)
    <3>1. ps = [pr EXCEPT !.state = "Idle"]
      BY <2>2, <2>3, <2>5, Limits
    <3>2. ps.state = "Idle"
      BY <2>1, <3>1 DEF OtauNode
    <3>3. PageSafe(n, ps, pending2)
      BY <3>2, NotWaitingSafe DEF Waiting
    <3> QED
      BY <3>3 DEF ps
  <2> QED
    BY <2>4, <2>5
<1>2. CASE nd.state = "WaitNextRequest" /\ nd.lastActivity # "fresh"
  <2> DEFINE more == nd.imgPageRequestRetry + 1
  <2>1. nd.imgPageRequestRetry \in 0 .. MAX_IMG_PAGE_REQ_RETRY - 1
    BY <1>2 DEF PageSafe, Waiting
  <2>2. more \in Nat
    BY <2>1, Limits
  <2>3. CASE more >= MAX_IMG_PAGE_REQ_RETRY
    <3>1. ps = [nd EXCEPT !.imgPageRequestRetry = more, !.state = "Idle"]
      BY <1>2, <2>3, Zenon DEF PageServed
    <3>2. ps.state = "Idle"
      BY <3>1 DEF OtauNode
    <3> QED
      BY <3>2, NotWaitingSafe DEF Waiting
  <2>4. CASE ~(more >= MAX_IMG_PAGE_REQ_RETRY)
    <3>1. ps = [nd EXCEPT !.imgPageRequestRetry = more, !.apsRequestId = INVALID_APS_REQ_ID]
      BY <1>2, <2>4, Zenon DEF PageServed
    <3>2. more \in 0 .. MAX_IMG_PAGE_REQ_RETRY - 1
      BY <2>2, <2>4, Limits
    <3> HIDE DEF more, ps
    <3>3. /\ ps.state = "WaitNextRequest" /\ ps.apsRequestId = INVALID_APS_REQ_ID
          /\ ps.imgPageRequestRetry = more
      BY <1>2, <3>1 DEF OtauNode
    <3>4. PageSafe(n, ps, pending2)
      BY <3>2, <3>3 DEF PageSafe
    <3> QED
      BY <3>4 DEF ps
  <2> QED
    BY <2>3, <2>4
<1>3. CASE nd.state # "WaitPageSpacing" /\ ~(nd.state = "WaitNextRequest" /\ nd.lastActivity # "fresh")
  <2>1. ps = nd
    BY <1>3, Zenon DEF PageServed
  <2> QED
    BY <2>1, PageSafeKept
<1> QED
  BY <1>1, <1>2, <1>3

----------------------------------------------------------------------------
(* The steps.                                                               *)

(* A step of one device does not touch the pages of the others. *)
LEMMA OneNodeStep ==
    ASSUME TypeOK, PagesSafe, NEW n \in Nodes, NEW nd,
           node' = [node EXCEPT ![n] = nd], PageSafe(n, nd, apsPending'),
           \A f \in apsPending : f.node # n => f \in apsPending'
    PROVE  PagesSafe'
<1> SUFFICES ASSUME NEW m \in Nodes
             PROVE  PageSafe(m, node'[m], apsPending')
  BY DEF PagesSafe
<1>1. CASE m = n
  BY <1>1 DEF TypeOK
<1>2. CASE m # n
  <2>1. node'[m] = node[m] /\ PageSafe(m, node[m], apsPending)
    BY <1>2 DEF TypeOK, PagesSafe
  <2> QED
    BY <1>2, <2>1, PageSafeKept
<1> QED
  BY <1>1, <1>2

(* Steps that change neither the fields of a page nor the frames in flight. *)
LEMMA OtherFieldsStep ==
    ASSUME TypeOK, PagesSafe, UNCHANGED apsPending,
           \A n \in Nodes :
              /\ node'[n].state = node[n].state
              /\ node'[n].apsRequestId = node[n].apsRequestId
              /\ node'[n].zclCommandId = node[n].zclCommandId
              /\ node'[n].imgBlockResponseRetry = node[n].imgBlockResponseRetry
              /\ node'[n].imgPageRequestRetry = node[n].imgPageRequestRetry
    PROVE  PagesSafe'
<1> SUFFICES ASSUME NEW m \in Nodes
             PROVE  PageSafe(m, node'[m], apsPending')
  BY DEF PagesSafe
<1>1. PageSafe(m, node[m], apsPending)
  BY DEF PagesSafe
<1> QED
  BY <1>1, PageSafeKept

(* The answer to a query ends a page. *)
LEMMA QueryNotWaiting ==
    ASSUME NEW nd \in OtauNode, NEW status, NEW r
    PROVE  ~Waiting(QueryResponse(nd, status, r))
<1> DEFINE offer == IF status = "SUCCESS" THEN [nd EXCEPT !.rawFile = nd.file] ELSE nd
<1>1. "state" \in DOMAIN offer
  BY DEF OtauNode
<1>2. QueryResponse(nd, status, r) =
         IF status = "" \/ r = Refused
         THEN [offer EXCEPT !.state = "Idle"]
         ELSE [offer EXCEPT !.state = "WaitConfirm", !.apsRequestId = r,
                            !.zclCommandId = "queryRsp"]
  BY Zenon DEF QueryResponse
<1> HIDE DEF offer
<1>3. QueryResponse(nd, status, r).state \in {"Idle", "WaitConfirm"}
  BY <1>1, <1>2
<1> QED
  BY <1>3 DEF Waiting

(* A request of a device, handled in full, leaves its page safe. *)
LEMMA DeviceStepSafe ==
    ASSUME TypeOK, PagesSafe, NEW n \in Nodes, DeviceStep(n)
    PROVE  PagesSafe'
<1>1. node[n] \in OtauNode /\ AsduTypeOK
  BY DEF TypeOK, AsduTypeOK
<1>2. CASE QueryNextImageRequest(n)
  <2>1. PICK nd \in UpdateChecked(n, [Received(node[n], "query") EXCEPT !.queried = TRUE]),
             r \in Outcomes :
           /\ node' = [node EXCEPT ![n] = QueryResponse(nd, QueryStatus(n, nd), r)]
           /\ apsPending' = IF QueryStatus(n, nd) = "" THEN apsPending
                            ELSE apsPending \cup Sent(n, "queryRsp", QueryStatus(n, nd), r)
    BY <1>2, Zenon DEF QueryNextImageRequest
  <2>2. nd \in OtauNode
    <3>1. Received(node[n], "query") \in OtauNode
      BY <1>1, ReceivedType DEF ReqCmds
    <3>2. [Received(node[n], "query") EXCEPT !.queried = TRUE] \in OtauNode
      BY <3>1 DEF OtauNode
    <3> QED
      BY <3>2, UpdateCheckedType
  <2>3. ~Waiting(QueryResponse(nd, QueryStatus(n, nd), r))
    BY <2>2, QueryNotWaiting
  <2>4. apsPending \subseteq apsPending'
    BY <2>1
  <2> QED
    BY <2>1, <2>3, <2>4, NotWaitingSafe, OneNodeStep
<1>3. CASE ImageBlockRequest(n)
  <2>1. PICK v \in ReqVersions, off \in ReqOffsets, size \in ReqDataSizes, r \in Outcomes :
           LET nd == BlockRequested(node[n], v, off, size)
           IN  /\ node' = [node EXCEPT ![n] =
                              [BlockResponse(n, nd, r) EXCEPT
                                 !.state = IF BlockSent(n, nd, r) THEN "WaitConfirm" ELSE "Idle"]]
               /\ apsPending' = apsPending \cup BlockFrames(n, nd, r)
    BY <1>3, Zenon DEF ImageBlockRequest
  <2> DEFINE nd == BlockRequested(node[n], v, off, size)
             br == BlockResponse(n, nd, r)
             st == IF BlockSent(n, nd, r) THEN "WaitConfirm" ELSE "Idle"
  <2>2. nd \in OtauNode /\ r \in ReqIds \cup {Refused}
    BY <1>1, BlockRequestedType, OutcomesType
  <2>3. br \in OtauNode
    <3> HIDE DEF nd
    <3> QED
      BY <1>1, <2>2, BlockResponseType
  <2>4. node' = [node EXCEPT ![n] = [br EXCEPT !.state = st]] /\ st \in {"WaitConfirm", "Idle"}
    BY <2>1, Zenon
  <2>5. apsPending \subseteq apsPending'
    BY <2>1
  <2> HIDE DEF br, st
  <2>6. ~Waiting([br EXCEPT !.state = st])
    BY <2>3, <2>4 DEF Waiting, OtauNode
  <2> QED
    BY <2>4, <2>5, <2>6, NotWaitingSafe, OneNodeStep
<1>4. CASE ImagePageRequest(n)
  <2> DEFINE nd == Received(node[n], "page")
  <2>1. nd \in OtauNode
    BY <1>1, ReceivedType DEF ReqCmds
  <2>2. /\ nd.state = node[n].state /\ nd.apsRequestId = node[n].apsRequestId
        /\ nd.zclCommandId = node[n].zclCommandId
        /\ nd.imgBlockResponseRetry = node[n].imgBlockResponseRetry
        /\ nd.imgPageRequestRetry = node[n].imgPageRequestRetry
    BY <1>1 DEF Received, OtauNode
  <2>3. CASE node' = [node EXCEPT ![n] = nd] /\ UNCHANGED apsPending
    <3> HIDE DEF nd
    <3>1. PageSafe(n, nd, apsPending')
      BY <2>2, <2>3, PageSafeKept DEF PagesSafe
    <3> QED
      BY <2>3, <3>1, OneNodeStep
  <2>4. ASSUME NEW r \in Outcomes, nd.state = "Abort",
               node' = [node EXCEPT ![n] = DefaultResponse(nd, r)],
               apsPending' = apsPending \cup Sent(n, "defaultRsp", "ABORT", r)
        PROVE  PagesSafe'
    <3> HIDE DEF nd
    <3>1. ~Waiting(DefaultResponse(nd, r))
      BY <2>1, <2>4 DEF DefaultResponse, OtauNode, Waiting
    <3>2. apsPending \subseteq apsPending'
      BY <2>4
    <3> QED
      BY <2>4, <3>1, <3>2, NotWaitingSafe, OneNodeStep
  <2>5. ASSUME NEW v \in ReqVersions, NEW off \in ReqOffsets, NEW size \in ReqDataSizes,
               NEW pageSize \in ReqPageSizes,
               node' = [node EXCEPT ![n] = PageRequested(nd, v, off, size, pageSize)],
               UNCHANGED apsPending
        PROVE  PagesSafe'
    <3> DEFINE pq == PageRequested(nd, v, off, size, pageSize)
    <3> HIDE DEF nd
    <3>1. /\ pq.state = "WaitPageSpacing" /\ pq.apsRequestId = INVALID_APS_REQ_ID
          /\ pq.imgBlockResponseRetry = 0 /\ pq.imgPageRequestRetry = 0
      BY <2>1 DEF PageRequested, OtauNode
    <3> HIDE DEF pq
    <3>2. PageSafe(n, pq, apsPending')
      BY <3>1, Limits DEF PageSafe
    <3> QED
      BY <2>5, <3>2, OneNodeStep DEF pq
  <2> QED
    BY <1>4, <2>3, <2>4, <2>5, Zenon DEF ImagePageRequest
<1>5. CASE UpgradeEndRequest(n)
  <2> DEFINE nd == [Received(node[n], "end") EXCEPT !.state = "Idle"]
             done == [nd EXCEPT !.hasData = FALSE, !.permitUpdate = FALSE]
  <2>1. PICK r \in Outcomes :
           /\ \/ node' = [node EXCEPT ![n] = DefaultResponse(nd, r)]
              \/ node' = [node EXCEPT ![n] = UpgradeEndResponse(done, r)]
           /\ apsPending \subseteq apsPending'
    BY <1>5, Zenon DEF UpgradeEndRequest
  <2>2. /\ nd.state = "Idle" /\ "state" \in DOMAIN nd
        /\ done.state = "Idle" /\ "state" \in DOMAIN done
    BY <1>1 DEF Received, OtauNode
  <2> HIDE DEF nd, done
  <2>3. ~Waiting(DefaultResponse(nd, r)) /\ ~Waiting(UpgradeEndResponse(done, r))
    BY <2>2 DEF DefaultResponse, UpgradeEndResponse, Waiting
  <2> QED
    BY <2>1, <2>3, NotWaitingSafe, OneNodeStep
<1> QED
  BY <1>2, <1>3, <1>4, <1>5 DEF DeviceStep

(* So does a confirm (apsdeDataConfirm), ignored, failed or successful. *)
LEMMA ConfirmStepSafe ==
    ASSUME TypeOK, PagesSafe, NEW n \in Nodes, ConfirmStep(n)
    PROVE  PagesSafe'
<1>1. node[n] \in OtauNode /\ AsduTypeOK /\ PageSafe(n, node[n], apsPending)
  BY DEF TypeOK, AsduTypeOK, PagesSafe
<1>2. CASE ConfirmIgnored(n)
  \* the frame that goes is not the one an unaborted node waits for
  <2>1. PICK f \in apsPending :
           /\ f.node = n
           /\ node[n].state = "Abort" \/ node[n].apsRequestId # f.id
           /\ apsPending' = apsPending \ {f}
           /\ node' = node
    BY <1>2, Zenon DEF ConfirmIgnored
  <2>2. PageSafe(n, node[n], apsPending')
    <3>1. CASE node[n].state = "Abort"
      BY <3>1, NotWaitingSafe DEF Waiting
    <3>2. CASE node[n].apsRequestId # f.id
      BY <1>1, <2>1, <3>2, PageSafeKept
    <3> QED
      BY <2>1, <3>1, <3>2
  <2>3. node' = [node EXCEPT ![n] = node[n]]
    BY <2>1 DEF TypeOK
  <2> QED
    BY <2>1, <2>2, <2>3, OneNodeStep
<1>3. ASSUME NEW noAck \in BOOLEAN, ConfirmFailed(n, noAck)
      PROVE  PagesSafe'
  <2> DEFINE nd == [node[n] EXCEPT !.apsRequestId = INVALID_APS_REQ_ID]
  <2>1. PICK id \in ReqIds : apsPending' = apsPending \ InFlight(n, id)
    BY <1>3, Zenon DEF ConfirmFailed
  <2>2. node' = [node EXCEPT ![n] = nd]
    BY <1>3 DEF ConfirmFailed
  <2>3. /\ nd.state = node[n].state /\ nd.apsRequestId = INVALID_APS_REQ_ID
        /\ nd.imgBlockResponseRetry = node[n].imgBlockResponseRetry
        /\ nd.imgPageRequestRetry = node[n].imgPageRequestRetry
    BY <1>1 DEF OtauNode
  <2> HIDE DEF nd
  <2>4. PageSafe(n, nd, apsPending')
    BY <1>1, <2>3 DEF PageSafe, Waiting
  <2>5. \A f \in apsPending : f.node # n => f \in apsPending'
    BY <2>1 DEF InFlight
  <2> QED
    BY <2>2, <2>4, <2>5, OneNodeStep
<1>4. CASE ConfirmSucceeded(n)
  <2> DEFINE nd == Delivered(node[n])
             paged == nd.zclCommandId = "blockRsp" /\ nd.state = "WaitPageSpacing"
  <2>1. PICK id \in ReqIds, r \in Outcomes :
           /\ ConfirmTaken(n, id)
           /\ node' = [node EXCEPT ![n] = IF paged THEN PageResponse(n, nd, r) ELSE nd]
           /\ apsPending' = (apsPending \ InFlight(n, id))
                                \cup (IF paged THEN PageFrames(n, nd, r) ELSE {})
    BY <1>4, Zenon DEF ConfirmSucceeded
  <2>2. nd \in OtauNode /\ r \in ReqIds \cup {Refused}
    BY <1>1, DeliveredType, OutcomesType
  <2>3. /\ nd.state = node[n].state /\ nd.apsRequestId = INVALID_APS_REQ_ID
        /\ nd.zclCommandId = node[n].zclCommandId
        /\ nd.imgBlockResponseRetry = node[n].imgBlockResponseRetry
        /\ nd.imgPageRequestRetry = node[n].imgPageRequestRetry
    BY <1>1 DEF Delivered, OtauNode
  <2>4. node[n].apsRequestId # INVALID_APS_REQ_ID
    BY <2>1, RequestIds DEF ConfirmTaken
  <2>5. \A f \in apsPending : f.node # n => f \in apsPending'
    BY <2>1 DEF InFlight
  <2> DEFINE left == apsPending \ InFlight(n, id)
  <2> HIDE DEF nd, left
  <2>6. PageSafe(n, nd, left)
    BY <1>1, <2>3 DEF PageSafe, Waiting
  <2>7. CASE paged
    <3> DEFINE pr == PageResponse(n, nd, r)
    \* the block that was in flight has reset the counter
    <3>1. nd.imgBlockResponseRetry = 0
      BY <1>1, <2>3, <2>4, <2>7 DEF PageSafe
    <3>2. /\ pr.imgBlockResponseRetry < MAX_IMG_BLOCK_RSP_RETRY
                => PageSafe(n, pr, left \cup PageFrames(n, nd, r))
          /\ pr.imgBlockResponseRetry \in Nat
          /\ pr.imgBlockResponseRetry <= nd.imgBlockResponseRetry + 1
      BY <1>1, <2>2, <2>6, <2>7, PageResponseSafe
    <3> HIDE DEF pr
    <3>3. PageSafe(n, pr, left \cup PageFrames(n, nd, r))
      BY <3>1, <3>2, Limits
    <3>4. node' = [node EXCEPT ![n] = pr] /\ apsPending' = left \cup PageFrames(n, nd, r)
      BY <2>1, <2>7 DEF left, pr
    <3> QED
      BY <2>5, <3>3, <3>4, OneNodeStep
  <2>8. CASE ~paged
    <3>1. node' = [node EXCEPT ![n] = nd] /\ apsPending' = left
      BY <2>1, <2>8 DEF left
    <3> QED
      BY <2>5, <2>6, <3>1, OneNodeStep
  <2> QED
    BY <2>7, <2>8
<1> QED
  BY <1>2, <1>3, <1>4 DEF ConfirmStep

(* The page timer serves every node in one step and all stay safe. *)
LEMMA PageTimerServesSafe ==
    ASSUME TypeOK, PagesSafe, PageTimerServes
    PROVE  PagesSafe'
<1>1. PICK r \in DistinctOutcomes :
         /\ node' = [n \in Nodes |-> PageServed(n, node[n], r[n])]
         /\ apsPending' = apsPending \cup
               UNION {PageFrames(n, node[n], r[n]) :
                        n \in {m \in Nodes : node[m].state = "WaitPageSpacing"}}
  BY Zenon DEF PageTimerServes
<1> SUFFICES ASSUME NEW n \in Nodes
             PROVE  PageSafe(n, node'[n], apsPending')
  BY DEF PagesSafe
<1>2. node[n] \in OtauNode /\ r[n] \in ReqIds \cup {Refused} /\ AsduTypeOK
  BY OutcomesType DEF DistinctOutcomes, TypeOK, AsduTypeOK
<1>3. PageSafe(n, node[n], apsPending)
  BY DEF PagesSafe
<1>4. /\ apsPending \subseteq apsPending'
      /\ node[n].state = "WaitPageSpacing" => PageFrames(n, node[n], r[n]) \subseteq apsPending'
  BY <1>1
<1>5. PageSafe(n, PageServed(n, node[n], r[n]), apsPending')
  BY <1>2, <1>3, <1>4, PageServedSafe
<1> QED
  BY <1>1, <1>5

(* The user, the passing of time and frames without an answer. *)
LEMMA SmallStepsSafe ==
    ASSUME TypeOK, PagesSafe, NEW n \in Nodes,
           MalformedQuery(n) \/ StrayZclFrame(n) \/ UserStep(n) \/ TimeStep(n)
    PROVE  PagesSafe'
<1>1. node[n] \in OtauNode
  BY DEF TypeOK
<1>2. CASE AbortClicked(n) \/ UpdateClicked(n)
  <2>1. UNCHANGED apsPending
    BY <1>2, Zenon DEF AbortClicked, UpdateClicked
  <2>2. \A m \in Nodes \ {n} : node'[m] = node[m]
    BY <1>2 DEF AbortClicked, UpdateClicked, TypeOK
  <2>3. node'[n].state \in {"Abort", "Idle"}
    BY <1>2, <1>1 DEF AbortClicked, UpdateClicked, TypeOK, OtauNode
  <2>4. PageSafe(n, node'[n], apsPending')
    BY <2>3, NotWaitingSafe DEF Waiting
  <2> QED
    BY <2>1, <2>2, <2>4, Zenon DEF PagesSafe
<1>3. CASE \/ MalformedQuery(n) \/ StrayZclFrame(n) \/ FileSelectClicked(n)
           \/ ResponseAges(n) \/ ActivityAges(n)
  <2>1. UNCHANGED apsPending
    BY <1>3, Zenon DEF MalformedQuery, StrayZclFrame, FileSelectClicked, ResponseAges,
                       ActivityAges
  <2>2. \A m \in Nodes \ {n} : node'[m] = node[m]
    BY <1>3 DEF MalformedQuery, StrayZclFrame, FileSelectClicked, ResponseAges, ActivityAges,
                TypeOK
  <2>3. /\ node'[n].state = node[n].state
        /\ node'[n].apsRequestId = node[n].apsRequestId
        /\ node'[n].zclCommandId = node[n].zclCommandId
        /\ node'[n].imgBlockResponseRetry = node[n].imgBlockResponseRetry
        /\ node'[n].imgPageRequestRetry = node[n].imgPageRequestRetry
    <3>1. CASE MalformedQuery(n) \/ StrayZclFrame(n)
      <4>1. \E cmd : node'[n] = Received(node[n], cmd)
        BY <3>1 DEF MalformedQuery, StrayZclFrame, TypeOK
      <4> QED
        BY <1>1, <4>1 DEF Received, OtauNode
    <3>2. CASE FileSelectClicked(n)
      <4>1. \E f \in Files :
               \/ node'[n] = [node[n] EXCEPT !.file = f]
               \/ node'[n] = [node[n] EXCEPT !.file = f, !.hasData = TRUE,
                                             !.lastActivity = "fresh"]
        BY <3>2, ServerAssumption DEF FileSelectClicked, TypeOK, ServerAssumption, Files
      <4> QED
        BY <1>1, <4>1 DEF OtauNode
    <3>3. CASE ResponseAges(n)
      <4> DEFINE age == IF node[n].lastResponseTime = "recent" THEN "spaced" ELSE "old"
      <4>1. node'[n] = [node[n] EXCEPT !.lastResponseTime = age]
        BY <3>3 DEF ResponseAges, TypeOK
      <4> HIDE DEF age
      <4> QED
        BY <1>1, <4>1 DEF OtauNode
    <3>4. CASE ActivityAges(n)
      <4> DEFINE age == IF node[n].lastActivity = "fresh" THEN "idle60s" ELSE "idle4h"
      <4>1. node'[n] = [node[n] EXCEPT !.lastActivity = age]
        BY <3>4 DEF ActivityAges, TypeOK
      <4> HIDE DEF age
      <4> QED
        BY <1>1, <4>1 DEF OtauNode
    <3> QED
      BY <1>3, <3>1, <3>2, <3>3, <3>4
  <2> QED
    BY <2>1, <2>2, <2>3, OtherFieldsStep
<1>4. CASE TrackedAges(n)
  BY <1>4 DEF TrackedAges, sessionVars, PagesSafe
<1> QED
  BY <1>2, <1>3, <1>4 DEF UserStep, TimeStep

(* Every step keeps every page safe. *)
LEMMA NextSafe == TypeOK /\ PagesSafe /\ [Next]_vars => PagesSafe'
<1> SUFFICES ASSUME TypeOK, PagesSafe, [Next]_vars
             PROVE  PagesSafe'
  OBVIOUS
<1>1. CASE CleanupTimerFired
  <2>1. \A n \in Nodes :
           /\ node'[n].state = node[n].state
           /\ node'[n].apsRequestId = node[n].apsRequestId
           /\ node'[n].zclCommandId = node[n].zclCommandId
           /\ node'[n].imgBlockResponseRetry = node[n].imgBlockResponseRetry
           /\ node'[n].imgPageRequestRetry = node[n].imgPageRequestRetry
    BY <1>1 DEF CleanupTimerFired, TypeOK, OtauNode
  <2> QED
    BY <1>1, <2>1, OtherFieldsStep DEF CleanupTimerFired
<1>2. CASE \/ PageTimerInactive \/ TrackerTick \/ QueryClicked
           \/ PageRequestBoxToggled \/ OtauDeactivated \/ UNCHANGED vars
  <2>1. UNCHANGED <<node, apsPending>>
    BY <1>2, Zenon DEF PageTimerInactive, TrackerTick, QueryClicked, PageRequestBoxToggled,
                       OtauDeactivated, vars, sessionVars
  <2> QED
    BY <2>1 DEF PagesSafe
<1> QED
  BY <1>1, <1>2, DeviceStepSafe, ConfirmStepSafe, SmallStepsSafe, PageTimerServesSafe
  DEF Next, TimerStep

----------------------------------------------------------------------------
(* The inductive invariant.  That the confirm path cannot raise the block   *)
(* counter to its limit rests on the frame waited for having reset it, and  *)
(* that the waited-for frame is in flight rests on the command id that was  *)
(* sent last: the parts are inductive only together.                        *)
PageInv == TypeOK /\ PagesSafe

(* In the beginning no node waits. *)
LEMMA InitSafe == Init => PagesSafe
<1> SUFFICES ASSUME Init, NEW n \in Nodes
             PROVE  PageSafe(n, node[n], apsPending)
  BY DEF PagesSafe
<1>1. ~Waiting(node[n])
  BY DEF Init, FreshNode, Waiting
<1> QED
  BY <1>1, NotWaitingSafe

(* The inductive invariant: types and safe pages, always. *)
LEMMA PageInvariant == Spec => []PageInv
<1>1. Init => PageInv
  BY InitType, InitSafe DEF PageInv
<1>2. PageInv /\ [Next]_vars => PageInv'
  BY NextType, NextSafe DEF PageInv
<1> QED
  BY <1>1, <1>2, PTL DEF Spec

(* A node in the middle of a page that remembers a request id has exactly   *)
(* that block response in flight (apsdeDataConfirm, imagePageResponse).     *)
THEOREM ConfirmIsAwaited == Spec => []ConfirmAwaited
<1>1. PageInv => ConfirmAwaited
  BY PagesSafeMeaning DEF PageInv
<1> QED
  BY <1>1, PageInvariant, PTL

(* The retry counters are set wherever they are read and stay below their   *)
(* limits, though only the timer tests for giving up.                       *)
THEOREM RetriesAreBounded == Spec => []RetriesBounded
<1>1. PageInv => RetriesBounded
  BY PagesSafeMeaning DEF PageInv
<1> QED
  BY <1>1, PageInvariant, PTL

----------------------------------------------------------------------------
(* The page timer.                                                          *)

(* A step starts the timer for the nodes it makes wait, and stops it only   *)
(* while the OTA server is switched off or when nobody waits.               *)
KeepsPageTimer ==
    \A n \in Nodes : Waiting(node'[n]) =>
        pageTimer' \/ ~otauActive \/ (Waiting(node[n]) /\ ~pageTimer)

(* A step of one device does not make another one wait. *)
LEMMA NobodyElseWaits ==
    ASSUME TypeOK, NEW n \in Nodes, NEW nd, node' = [node EXCEPT ![n] = nd],
           Waiting(nd) => Waiting(node[n]) \/ pageTimer',
           pageTimer => pageTimer'
    PROVE  KeepsPageTimer
<1> SUFFICES ASSUME NEW m \in Nodes, Waiting(node'[m])
             PROVE  pageTimer' \/ (Waiting(node[m]) /\ ~pageTimer)
  BY DEF KeepsPageTimer
<1>1. node'[m] = IF m = n THEN nd ELSE node[m]
  BY DEF TypeOK
<1> QED
  BY <1>1

(* Only a page request makes a node wait, and it starts the timer. *)
LEMMA DeviceKeepsTimer ==
    ASSUME TypeOK, NEW n \in Nodes, DeviceStep(n)
    PROVE  KeepsPageTimer
<1>1. node[n] \in OtauNode /\ AsduTypeOK
  BY DEF TypeOK, AsduTypeOK
<1>2. CASE QueryNextImageRequest(n)
  <2>1. PICK nd \in UpdateChecked(n, [Received(node[n], "query") EXCEPT !.queried = TRUE]),
             r \in Outcomes :
           /\ node' = [node EXCEPT ![n] = QueryResponse(nd, QueryStatus(n, nd), r)]
           /\ pageTimer' = pageTimer
    BY <1>2, Zenon DEF QueryNextImageRequest
  <2>2. nd \in OtauNode
    <3>1. Received(node[n], "query") \in OtauNode
      BY <1>1, ReceivedType DEF ReqCmds
    <3>2. [Received(node[n], "query") EXCEPT !.queried = TRUE] \in OtauNode
      BY <3>1 DEF OtauNode
    <3> QED
      BY <3>2, UpdateCheckedType
  <2> QED
    BY <2>1, <2>2, QueryNotWaiting, NobodyElseWaits
<1>3. CASE ImageBlockRequest(n)
  <2>1. PICK v \in ReqVersions, off \in ReqOffsets, size \in ReqDataSizes, r \in Outcomes :
           LET nd == BlockRequested(node[n], v, off, size)
           IN  /\ node' = [node EXCEPT ![n] =
                              [BlockResponse(n, nd, r) EXCEPT
                                 !.state = IF BlockSent(n, nd, r) THEN "WaitConfirm" ELSE "Idle"]]
               /\ pageTimer' = pageTimer
    BY <1>3, Zenon DEF ImageBlockRequest
  <2> DEFINE nd == BlockRequested(node[n], v, off, size)
             br == BlockResponse(n, nd, r)
             st == IF BlockSent(n, nd, r) THEN "WaitConfirm" ELSE "Idle"
  <2>2. nd \in OtauNode /\ r \in ReqIds \cup {Refused}
    BY <1>1, BlockRequestedType, OutcomesType
  <2>3. br \in OtauNode
    <3> HIDE DEF nd
    <3> QED
      BY <1>1, <2>2, BlockResponseType
  <2>4. /\ node' = [node EXCEPT ![n] = [br EXCEPT !.state = st]] /\ pageTimer' = pageTimer
        /\ st \in {"WaitConfirm", "Idle"}
    BY <2>1, Zenon
  <2> HIDE DEF br, st
  <2>5. ~Waiting([br EXCEPT !.state = st])
    BY <2>3, <2>4 DEF Waiting, OtauNode
  <2> QED
    BY <2>4, <2>5, NobodyElseWaits
<1>4. CASE ImagePageRequest(n)
  <2> DEFINE nd == Received(node[n], "page")
  <2>1. nd.state = node[n].state /\ "state" \in DOMAIN nd
    BY <1>1 DEF Received, OtauNode
  <2>2. CASE node' = [node EXCEPT ![n] = nd] /\ UNCHANGED pageTimer
    <3>1. Waiting(nd) => Waiting(node[n])
      BY <2>1 DEF Waiting
    <3> QED
      BY <2>2, <3>1, NobodyElseWaits
  <2>3. ASSUME NEW r \in Outcomes, nd.state = "Abort",
               node' = [node EXCEPT ![n] = DefaultResponse(nd, r)], UNCHANGED pageTimer
        PROVE  KeepsPageTimer
    <3> HIDE DEF nd
    <3>1. ~Waiting(DefaultResponse(nd, r))
      BY <2>1, <2>3 DEF DefaultResponse, Waiting
    <3> QED
      BY <2>3, <3>1, NobodyElseWaits
  <2>4. CASE pageTimer' = TRUE
    BY <2>4 DEF KeepsPageTimer
  <2> QED
    BY <1>4, <2>2, <2>3, <2>4, Zenon DEF ImagePageRequest
<1>5. CASE UpgradeEndRequest(n)
  <2> DEFINE nd == [Received(node[n], "end") EXCEPT !.state = "Idle"]
             done == [nd EXCEPT !.hasData = FALSE, !.permitUpdate = FALSE]
  <2>1. PICK r \in Outcomes :
           /\ \/ node' = [node EXCEPT ![n] = DefaultResponse(nd, r)]
              \/ node' = [node EXCEPT ![n] = UpgradeEndResponse(done, r)]
           /\ pageTimer' = pageTimer
    BY <1>5, Zenon DEF UpgradeEndRequest
  <2>2. /\ nd.state = "Idle" /\ "state" \in DOMAIN nd
        /\ done.state = "Idle" /\ "state" \in DOMAIN done
    BY <1>1 DEF Received, OtauNode
  <2> HIDE DEF nd, done
  <2>3. ~Waiting(DefaultResponse(nd, r)) /\ ~Waiting(UpgradeEndResponse(done, r))
    BY <2>2 DEF DefaultResponse, UpgradeEndResponse, Waiting
  <2> QED
    BY <2>1, <2>3, NobodyElseWaits
<1> QED
  BY <1>2, <1>3, <1>4, <1>5 DEF DeviceStep

(* A confirm that makes a node wait for time or the next page starts it. *)
LEMMA ConfirmKeepsTimer ==
    ASSUME TypeOK, NEW n \in Nodes, ConfirmStep(n)
    PROVE  KeepsPageTimer
<1>1. node[n] \in OtauNode
  BY DEF TypeOK
<1>2. CASE ConfirmIgnored(n)
  BY <1>2 DEF ConfirmIgnored, KeepsPageTimer
<1>3. ASSUME NEW noAck \in BOOLEAN, ConfirmFailed(n, noAck)
      PROVE  KeepsPageTimer
  <2> DEFINE nd == [node[n] EXCEPT !.apsRequestId = INVALID_APS_REQ_ID]
  <2>1. node' = [node EXCEPT ![n] = nd] /\ pageTimer' = pageTimer
    BY <1>3 DEF ConfirmFailed
  <2>2. nd.state = node[n].state
    BY <1>1 DEF OtauNode
  <2>3. Waiting(nd) => Waiting(node[n])
    BY <2>2 DEF Waiting
  <2> QED
    BY <2>1, <2>3, NobodyElseWaits
<1>4. CASE ConfirmSucceeded(n)
  <2> DEFINE nd == Delivered(node[n])
             paged == nd.zclCommandId = "blockRsp" /\ nd.state = "WaitPageSpacing"
  <2>1. PICK r \in Outcomes :
           /\ node' = [node EXCEPT ![n] = IF paged THEN PageResponse(n, nd, r) ELSE nd]
           /\ pageTimer' = (pageTimer \/ (paged /\ PageArmsTimer(nd)))
    BY <1>4, Zenon DEF ConfirmSucceeded
  <2>2. nd.state = node[n].state
    BY <1>1 DEF Delivered, OtauNode
  <2> DEFINE after == IF paged THEN PageResponse(n, nd, r) ELSE nd
  <2>3. Waiting(after) => Waiting(node[n])
    <3> HIDE DEF nd
    <3> QED
      BY <2>2 DEF Waiting
  <2>4. pageTimer => pageTimer'
    BY <2>1, Zenon
  <2> HIDE DEF after, nd
  <2>5. node' = [node EXCEPT ![n] = after]
    BY <2>1 DEF after
  <2> QED
    BY <2>3, <2>4, <2>5, NobodyElseWaits
<1> QED
  BY <1>2, <1>3, <1>4 DEF ConfirmStep

(* The user and the passing of time make no node wait. *)
LEMMA SmallStepsKeepTimer ==
    ASSUME TypeOK, NEW n \in Nodes,
           MalformedQuery(n) \/ StrayZclFrame(n) \/ UserStep(n) \/ TimeStep(n)
    PROVE  KeepsPageTimer
<1>1. node[n] \in OtauNode
  BY DEF TypeOK
<1>2. UNCHANGED pageTimer
  BY Zenon DEF MalformedQuery, StrayZclFrame, UserStep, TimeStep, AbortClicked, UpdateClicked,
               FileSelectClicked, ResponseAges, ActivityAges, TrackedAges, sessionVars
<1>3. \A m \in Nodes \ {n} : node'[m] = node[m]
  BY DEF MalformedQuery, StrayZclFrame, UserStep, TimeStep, AbortClicked, UpdateClicked,
         FileSelectClicked, ResponseAges, ActivityAges, TrackedAges, sessionVars, TypeOK
<1>4. node'[n].state \in {node[n].state, "Abort", "Idle"}
  <2>1. CASE AbortClicked(n) \/ UpdateClicked(n)
    BY <1>1, <2>1 DEF AbortClicked, UpdateClicked, TypeOK, OtauNode
  <2>2. CASE MalformedQuery(n) \/ StrayZclFrame(n)
    <3>1. \E cmd : node'[n] = Received(node[n], cmd)
      BY <2>2 DEF MalformedQuery, StrayZclFrame, TypeOK
    <3> QED
      BY <1>1, <3>1 DEF Received, OtauNode
  <2>3. CASE FileSelectClicked(n)
    <3>1. \E f \in Files :
             \/ node'[n] = [node[n] EXCEPT !.file = f]
             \/ node'[n] = [node[n] EXCEPT !.file = f, !.hasData = TRUE,
                                           !.lastActivity = "fresh"]
      BY <2>3, ServerAssumption DEF FileSelectClicked, TypeOK, ServerAssumption, Files
    <3> QED
      BY <1>1, <3>1 DEF OtauNode
  <2>4. CASE TimeStep(n)
    <3>1. \E age : node'[n] \in {node[n], [node[n] EXCEPT !.lastResponseTime = age],
                                 [node[n] EXCEPT !.lastActivity = age]}
      BY <2>4 DEF TimeStep, ResponseAges, ActivityAges, TrackedAges, sessionVars, TypeOK
    <3> QED
      BY <1>1, <3>1 DEF OtauNode
  <2> QED
    BY <2>1, <2>2, <2>3, <2>4 DEF UserStep
<1> QED
  BY <1>2, <1>3, <1>4 DEF KeepsPageTimer, Waiting

(* No step leaves a node newly waiting without the page timer. *)
LEMMA NextKeepsTimer == TypeOK /\ [Next]_vars => [KeepsPageTimer]_vars
<1> SUFFICES ASSUME TypeOK, Next
             PROVE  KeepsPageTimer
  OBVIOUS
<1>1. CASE PageTimerInactive
  BY <1>1 DEF PageTimerInactive, KeepsPageTimer
<1>2. CASE PageTimerServes
  <2>1. PICK r \in DistinctOutcomes :
           node' = [n \in Nodes |-> PageServed(n, node[n], r[n])]
    BY <1>2, Zenon DEF PageTimerServes
  <2>2. \A n \in Nodes : ~Waiting(node[n]) => node'[n] = node[n]
    BY <2>1 DEF PageServed, Waiting
  <2>3. pageTimer' = (\E n \in Nodes : Waiting(node[n]))
    BY <1>2, Zenon DEF PageTimerServes, Refire
  <2> QED
    BY <2>2, <2>3, Zenon DEF KeepsPageTimer
<1>3. CASE CleanupTimerFired
  <2>1. \A n \in Nodes : node'[n].state = node[n].state
    BY <1>3 DEF CleanupTimerFired, TypeOK, OtauNode
  <2>2. UNCHANGED pageTimer
    BY <1>3 DEF CleanupTimerFired
  <2> QED
    BY <2>1, <2>2 DEF KeepsPageTimer, Waiting
<1>4. CASE TrackerTick \/ QueryClicked \/ PageRequestBoxToggled \/ OtauDeactivated
  <2>1. UNCHANGED <<node, pageTimer>>
    BY <1>4, Zenon DEF TrackerTick, QueryClicked, PageRequestBoxToggled, OtauDeactivated,
                       sessionVars
  <2> QED
    BY <2>1 DEF KeepsPageTimer
<1> QED
  BY <1>1, <1>2, <1>3, <1>4, DeviceKeepsTimer, ConfirmKeepsTimer, SmallStepsKeepTimer
  DEF Next, TimerStep

(* The page timer is lost only through a tick while the OTA server of the   *)
(* core is inactive; no handler or confirm leaves a node waiting without it *)
(* otherwise.                                                               *)
THEOREM PageTimerIsKept == Spec => PageTimerKept
<1>1. TypeOK /\ [Next]_vars => [KeepsPageTimer]_vars
  BY NextKeepsTimer
<1>2. Spec => [][KeepsPageTimer]_vars
  BY <1>1, TypeCorrect, PTL DEF Spec
<1> QED
  BY <1>2 DEF PageTimerKept, KeepsPageTimer
=============================================================================
