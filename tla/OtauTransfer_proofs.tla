------------------------- MODULE OtauTransfer_proofs -------------------------
(* Proofs about what a transfer sends: where in the file and in the page    *)
(* each block of data lies, and from which file it is read.                 *)
EXTENDS OtauPages_proofs

----------------------------------------------------------------------------
(* Counters of different widths.                                            *)

(* Division with remainder. *)
LEMMA DivMod ==
    ASSUME NEW a \in Int, NEW w \in Nat \ {0}
    PROVE  /\ a = (w * (a \div w)) + (a % w)
           /\ a \div w \in Int /\ (a % w) \in 0 .. w - 1
  OBVIOUS

(* A multiple that is smaller than the number is zero. *)
LEMMA SmallMultiple ==
    ASSUME NEW t \in Int, NEW w \in Nat \ {0}, w * t < w, 0 - w < w * t
    PROVE  t = 0
<1>1. CASE t >= 1
  <2>1. w * t >= w
    BY <1>1
  <2> QED
    BY <2>1
<1>2. CASE t <= 0 - 1
  <2>1. w * t <= 0 - w
    BY <1>2
  <2> QED
    BY <2>1
<1> QED
  BY <1>1, <1>2

(* The remainder is unique. *)
LEMMA ModUnique ==
    ASSUME NEW q \in Int, NEW w \in Nat \ {0}, NEW r \in 0 .. w - 1
    PROVE  ((w * q) + r) % w = r
<1> DEFINE a == (w * q) + r
           d == a \div w
           m == a % w
<1>1. a \in Int
  OBVIOUS
<1>2. a = (w * d) + m /\ d \in Int /\ m \in 0 .. w - 1
  BY <1>1, DivMod
<1> HIDE DEF d, m
<1>3. w * (d - q) = r - m
  BY <1>2
<1>4. r - m < w /\ 0 - w < r - m
  BY <1>2
<1>5. d - q = 0
  BY <1>2, <1>3, <1>4, SmallMultiple
<1>6. m = r
  BY <1>2, <1>3, <1>5
<1> QED
  BY <1>6 DEF m

(* Multiples do not change the remainder. *)
LEMMA ModShift ==
    ASSUME NEW a \in Int, NEW k \in Int, NEW w \in Nat \ {0}
    PROVE  (a + (w * k)) % w = a % w
<1> DEFINE d == a \div w
           m == a % w
<1>1. a = (w * d) + m /\ d \in Int /\ m \in 0 .. w - 1
  BY DivMod
<1> HIDE DEF d, m
<1>2. a + (w * k) = (w * (d + k)) + m
  BY <1>1
<1>3. ((w * (d + k)) + m) % w = m
  BY <1>1, ModUnique
<1> QED
  BY <1>2, <1>3 DEF m

(* Two counters of widths w and W that agree modulo w still do so when both *)
(* have moved on by m, each wrapping at its own width.                      *)
LEMMA CountersAgree ==
    ASSUME NEW W \in Nat \ {0}, NEW w \in Nat \ {0}, W % w = 0,
           NEW o \in Int, NEW p \in Int, NEW b \in Int, NEW m \in Int,
           b = (o - p) % w
    PROVE  (b + m) % w = (((o + m) % W) - p) % w
<1> DEFINE K == W \div w
           Q == (o + m) \div W
           R == (o + m) % W
           D == (o - p) \div w
<1>1. W = (w * K) /\ K \in Int
  BY DivMod
<1>2. o + m = (W * Q) + R /\ Q \in Int /\ R \in Int
  BY DivMod
<1>3. o - p = (w * D) + b /\ D \in Int
  BY DivMod
<1> HIDE DEF K, Q, R, D
<1> DEFINE S == K * Q
<1>4. S \in Int
  BY <1>1, <1>2
<1>5. W * Q = w * S
  BY <1>1, <1>2
<1> HIDE DEF S
<1> DEFINE x == w * S
           y == w * D
           z == w * (S - D)
<1>6. x \in Int /\ y \in Int /\ z = x - y /\ z \in Int
  BY <1>3, <1>4
<1>7. o + m = x + R /\ o - p = y + b
  BY <1>2, <1>3, <1>5
<1> HIDE DEF x, y, z
<1>8. b + m = (R - p) + z
  BY <1>2, <1>6, <1>7
<1>9. R - p \in Int /\ S - D \in Int
  BY <1>2, <1>3, <1>4
<1>10. ((R - p) + (w * (S - D))) % w = (R - p) % w
  BY <1>9, ModShift
<1> QED
  BY <1>8, <1>10 DEF R, z

(* A number below the width is its own remainder. *)
LEMMA ModSmall ==
    ASSUME NEW w \in Nat \ {0}, NEW a \in 0 .. w - 1
    PROVE  a % w = a
  OBVIOUS

----------------------------------------------------------------------------
(* The position of a transfer.                                              *)

(* The position of a node in its page.  Where the page is in range, the     *)
(* offset is the start of the page plus the bytes done, and a page is not   *)
(* left by more than one block; while a block is in flight it is not left.  *)
PageCounted(nd) ==
    Waiting(nd) =>
      /\ nd.pageBytesDone = (nd.offset - nd.pageOffset) % U16
      /\ PageInRange(nd) => /\ nd.offset = nd.pageOffset + nd.pageBytesDone
                            /\ nd.pageBytesDone < nd.pageSize + U8
                            /\ nd.apsRequestId # INVALID_APS_REQ_ID => ~PageDone(nd)

PagesCounted == \A n \in Nodes : PageCounted(node[n])

(* nd2 is where nd is: it has the same counters, waits only if nd does, and *)
(* waits for a confirm only if nd does or the page is not done.             *)
SamePlace(nd, nd2) ==
    /\ nd2.offset = nd.offset /\ nd2.pageOffset = nd.pageOffset
    /\ nd2.pageSize = nd.pageSize /\ nd2.pageBytesDone = nd.pageBytesDone
    /\ Waiting(nd2) => Waiting(nd)
    /\ nd2.apsRequestId \in {nd.apsRequestId, INVALID_APS_REQ_ID} \/ ~PageDone(nd)

(* nd2 is at the start of a page. *)
AtPageStart(nd2) ==
    /\ nd2.offset = nd2.pageOffset /\ nd2.pageBytesDone = 0
    /\ nd2.apsRequestId = INVALID_APS_REQ_ID

(* What one step does to the position of a node: nothing, or it begins or   *)
(* ends a page, or a response is delivered.                                 *)
Moved(nd, nd2) ==
    \/ SamePlace(nd, nd2)
    \/ ~Waiting(nd2)
    \/ AtPageStart(nd2)
    \/ nd.apsRequestId # INVALID_APS_REQ_ID /\ SamePlace(Delivered(nd), nd2)

(* The fields of a record that the arguments below look at. *)
LEMMA NodeNumbers ==
    ASSUME NEW nd \in OtauNode
    PROVE  /\ nd.offset \in 0 .. U32 - 1 /\ nd.pageOffset \in 0 .. U32 - 1
           /\ nd.pageSize \in 0 .. U16 - 1 /\ nd.pageBytesDone \in 0 .. U16 - 1
           /\ nd.maxDataSize \in 0 .. U8 - 1
           /\ nd.rawFile \in Files /\ nd.file \in Files
  BY DEF OtauNode

(* A node that stays in its place keeps its count. *)
LEMMA SamePlaceCounted ==
    ASSUME NEW nd, NEW nd2, PageCounted(nd), SamePlace(nd, nd2)
    PROVE  PageCounted(nd2)
  BY DEF PageCounted, SamePlace, PageInRange, PageDone

(* The start of a page is counted. *)
LEMMA PageStartCounted ==
    ASSUME NEW nd \in OtauNode, AtPageStart(nd)
    PROVE  PageCounted(nd)
<1>1. nd.offset - nd.pageOffset = 0
  BY NodeNumbers, Widths DEF AtPageStart
<1>2. 0 % U16 = 0
  BY ModSmall, Widths
<1> QED
  BY <1>1, <1>2, NodeNumbers, Widths DEF AtPageStart, PageCounted

(* The fields of a node whose block response has been delivered. *)
LEMMA DeliveredBlock ==
    ASSUME NEW nd \in OtauNode, nd.zclCommandId = "blockRsp", NEW dl, dl = Delivered(nd)
    PROVE  /\ dl.pageBytesDone = (nd.pageBytesDone + nd.maxDataSize) % U16
           /\ dl.offset = (nd.offset + nd.maxDataSize) % U32
           /\ dl.pageOffset = nd.pageOffset /\ dl.pageSize = nd.pageSize
           /\ dl.apsRequestId = INVALID_APS_REQ_ID /\ dl.state = nd.state
  BY DEF Delivered, OtauNode

(* The confirm of a block moves both counters of the page on alike. *)
LEMMA DeliveredCounted ==
    ASSUME NEW n, NEW nd \in OtauNode, NEW pending, PageSafe(n, nd, pending),
           PageCounted(nd), nd.apsRequestId # INVALID_APS_REQ_ID
    PROVE  PageCounted(Delivered(nd))
<1> DEFINE dl == Delivered(nd)
<1> SUFFICES ASSUME Waiting(dl)
             PROVE  PageCounted(dl)
  BY DEF PageCounted
<1>1. dl.state = nd.state
  BY DEF Delivered, OtauNode
<1>2. nd.zclCommandId = "blockRsp" /\ nd.state = "WaitPageSpacing"
  BY <1>1 DEF PageSafe, Waiting
<1>3. /\ dl.pageBytesDone = (nd.pageBytesDone + nd.maxDataSize) % U16
      /\ dl.offset = (nd.offset + nd.maxDataSize) % U32
      /\ dl.pageOffset = nd.pageOffset /\ dl.pageSize = nd.pageSize
      /\ dl.apsRequestId = INVALID_APS_REQ_ID
  BY <1>2, DeliveredBlock
<1> HIDE DEF dl
<1>4. /\ nd.offset \in 0 .. U32 - 1 /\ nd.pageOffset \in 0 .. U32 - 1
      /\ nd.pageSize \in 0 .. U16 - 1 /\ nd.pageBytesDone \in 0 .. U16 - 1
      /\ nd.maxDataSize \in 0 .. U8 - 1
  BY NodeNumbers
<1>5. nd.pageBytesDone = (nd.offset - nd.pageOffset) % U16
  BY <1>2 DEF PageCounted, Waiting
<1>6. dl.pageBytesDone = (dl.offset - dl.pageOffset) % U16
  <2>1. /\ U16 \in Nat \ {0} /\ U32 \in Nat \ {0} /\ U32 % U16 = 0
        /\ nd.offset \in Int /\ nd.pageOffset \in Int /\ nd.pageBytesDone \in Int
        /\ nd.maxDataSize \in Int
    BY <1>4, Widths, BlocksAssumption DEF BlocksAssumption
  <2>2. (nd.pageBytesDone + nd.maxDataSize) % U16
          = (((nd.offset + nd.maxDataSize) % U32) - nd.pageOffset) % U16
    BY <1>5, <2>1, CountersAgree
  <2> QED
    BY <1>3, <2>2
<1>7. ASSUME PageInRange(dl)
      PROVE  /\ dl.offset = dl.pageOffset + dl.pageBytesDone
             /\ dl.pageBytesDone < dl.pageSize + U8
  <2>1. PageInRange(nd)
    BY <1>3, <1>7 DEF PageInRange
  <2>2. nd.offset = nd.pageOffset + nd.pageBytesDone /\ nd.pageBytesDone < nd.pageSize
    BY <1>2, <1>4, <2>1, Widths DEF PageCounted, Waiting, PageDone
  <2>3. /\ nd.pageBytesDone + nd.maxDataSize \in 0 .. U16 - 1
        /\ nd.offset + nd.maxDataSize \in 0 .. U32 - 1
        /\ nd.pageBytesDone + nd.maxDataSize < nd.pageSize + U8
    BY <1>4, <2>1, <2>2, Widths DEF PageInRange
  <2>4. /\ dl.pageBytesDone = nd.pageBytesDone + nd.maxDataSize
        /\ dl.offset = nd.offset + nd.maxDataSize
    BY <1>3, <2>3, ModSmall, Widths
  <2> QED
    BY <1>3, <1>4, <2>2, <2>3, <2>4, Widths
<1> QED
  BY <1>3, <1>6, <1>7 DEF PageCounted

(* Every move keeps the count. *)
LEMMA MovedCounted ==
    ASSUME NEW n, NEW nd \in OtauNode, NEW nd2 \in OtauNode, NEW pending,
           PageSafe(n, nd, pending), PageCounted(nd), Moved(nd, nd2)
    PROVE  PageCounted(nd2)
<1>1. CASE SamePlace(nd, nd2)
  BY <1>1, SamePlaceCounted
<1>2. CASE ~Waiting(nd2)
  BY <1>2 DEF PageCounted
<1>3. CASE AtPageStart(nd2)
  BY <1>3, PageStartCounted
<1>4. CASE nd.apsRequestId # INVALID_APS_REQ_ID /\ SamePlace(Delivered(nd), nd2)
  BY <1>4, DeliveredCounted, SamePlaceCounted
<1> QED
  BY <1>1, <1>2, <1>3, <1>4 DEF Moved

----------------------------------------------------------------------------
(* Every step makes one of these moves.                                     *)

(* The file a node reads its blocks from stays, or becomes the one that is  *)
(* selected for it, if that is one it may have.                             *)
RawFileKept(n, nd, nd2) ==
    \/ nd2.rawFile = nd.rawFile
    \/ /\ nd2.rawFile = nd2.file
       /\ n \in FlsHNodes => FileVersion[nd2.rawFile] >= FLS_H_VERSION

Stepped(n) == Moved(node[n], node'[n]) /\ RawFileKept(n, node[n], node'[n])

(* imageBlockResponse() leaves the position, the file and the command of a  *)
(* node alone.                                                              *)
LEMMA BlockResponseKeeps ==
    ASSUME NEW n, NEW nd \in OtauNode, NEW r, NEW br, br = BlockResponse(n, nd, r)
    PROVE  /\ br.offset = nd.offset /\ br.pageOffset = nd.pageOffset
           /\ br.pageSize = nd.pageSize /\ br.pageBytesDone = nd.pageBytesDone
           /\ br.rawFile = nd.rawFile /\ br.lastZclCmd = nd.lastZclCmd
           /\ br.state \in {nd.state, "Abort"}
           /\ br.file = nd.file /\ br.fileVersion = nd.fileVersion /\ br.hasData = nd.hasData
<1> DEFINE bc == BlockComposed(n, nd)
           state == IF nd.fileVersion # FileVersion[nd.file] THEN "Abort" ELSE nd.state
           bytes == IF BlockStatus(nd) = "SUCCESS" THEN BlockBytes(n, nd)
                                                   ELSE nd.maxDataSize
<1>1. bc = [nd EXCEPT !.state = state, !.maxDataSize = bytes]
  BY Zenon DEF BlockComposed
<1>2. state \in {nd.state, "Abort"}
  OBVIOUS
<1>3. br = IF BlockHeld(n, nd) THEN nd
           ELSE IF r = Refused THEN bc
           ELSE [bc EXCEPT !.apsRequestId = r, !.zclCommandId = "blockRsp",
                           !.lastResponseTime = "recent"]
  BY Zenon DEF BlockResponse
<1> HIDE DEF bc, state, bytes
<1>4. /\ bc.offset = nd.offset /\ bc.pageOffset = nd.pageOffset
      /\ bc.pageSize = nd.pageSize /\ bc.pageBytesDone = nd.pageBytesDone
      /\ bc.rawFile = nd.rawFile /\ bc.lastZclCmd = nd.lastZclCmd
      /\ bc.state = state /\ DOMAIN bc = DOMAIN nd
      /\ bc.file = nd.file /\ bc.fileVersion = nd.fileVersion /\ bc.hasData = nd.hasData
  BY <1>1 DEF OtauNode
<1>5. {"offset", "pageOffset", "pageSize", "pageBytesDone", "rawFile", "lastZclCmd",
       "state", "file", "fileVersion", "hasData"} \subseteq DOMAIN nd
  BY DEF OtauNode
<1> QED
  BY <1>2, <1>3, <1>4, <1>5

(* imagePageResponse() leaves a node in its place. *)
LEMMA PageResponseKeeps ==
    ASSUME AsduTypeOK, NEW n, NEW nd \in OtauNode, NEW r \in ReqIds \cup {Refused},
           nd.state = "WaitPageSpacing", NEW pr, pr = PageResponse(n, nd, r)
    PROVE  SamePlace(nd, pr) /\ pr.rawFile = nd.rawFile /\ pr.lastZclCmd = nd.lastZclCmd
<1> DEFINE br == BlockResponse(n, nd, r)
<1>1. Waiting(nd)
  BY DEF Waiting
<1>2. br \in OtauNode
  BY BlockResponseType
<1>3. /\ br.offset = nd.offset /\ br.pageOffset = nd.pageOffset
      /\ br.pageSize = nd.pageSize /\ br.pageBytesDone = nd.pageBytesDone
      /\ br.rawFile = nd.rawFile /\ br.lastZclCmd = nd.lastZclCmd
  BY BlockResponseKeeps
<1>4. CASE pr \in {nd, [nd EXCEPT !.state = "WaitNextRequest"],
                       [nd EXCEPT !.state = "WaitPageSpacing"]}
  BY <1>1, <1>4 DEF SamePlace, OtauNode
<1>5. CASE ~PageDone(nd) /\ pr = [br EXCEPT !.imgBlockResponseRetry = 0]
  <2> HIDE DEF br
  <2>1. /\ pr.offset = br.offset /\ pr.pageOffset = br.pageOffset
        /\ pr.pageSize = br.pageSize /\ pr.pageBytesDone = br.pageBytesDone
        /\ pr.rawFile = br.rawFile /\ pr.lastZclCmd = br.lastZclCmd
    BY <1>2, <1>5 DEF OtauNode
  <2> QED
    BY <1>1, <1>3, <1>5, <2>1 DEF SamePlace
<1>6. CASE ~PageDone(nd) /\ pr = [br EXCEPT !.state = "WaitPageSpacing",
                                            !.imgBlockResponseRetry = @ + 1]
  <2> DEFINE more == br.imgBlockResponseRetry + 1
  <2>1. pr = [br EXCEPT !.state = "WaitPageSpacing", !.imgBlockResponseRetry = more]
    BY <1>6
  <2> HIDE DEF br, more
  <2>2. /\ pr.offset = br.offset /\ pr.pageOffset = br.pageOffset
        /\ pr.pageSize = br.pageSize /\ pr.pageBytesDone = br.pageBytesDone
        /\ pr.rawFile = br.rawFile /\ pr.lastZclCmd = br.lastZclCmd
    BY <1>2, <2>1 DEF OtauNode
  <2> QED
    BY <1>1, <1>3, <1>6, <2>2 DEF SamePlace
<1>7. \/ pr \in {nd, [nd EXCEPT !.state = "WaitNextRequest"],
                     [nd EXCEPT !.state = "WaitPageSpacing"]}
      \/ ~PageDone(nd) /\ pr = [br EXCEPT !.imgBlockResponseRetry = 0]
      \/ ~PageDone(nd) /\ pr = [br EXCEPT !.state = "WaitPageSpacing",
                                          !.imgBlockResponseRetry = @ + 1]
  <2> HIDE DEF br
  <2> QED
    BY DEF PageResponse, br
<1> QED
  BY <1>4, <1>5, <1>6, <1>7

(* imagePageTimerFired() leaves a node in its place. *)
LEMMA PageServedKeeps ==
    ASSUME AsduTypeOK, NEW n, NEW nd \in OtauNode, NEW r \in ReqIds \cup {Refused},
           NEW ps, ps = PageServed(n, nd, r)
    PROVE  SamePlace(nd, ps) /\ ps.rawFile = nd.rawFile
<1> DEFINE pr == PageResponse(n, nd, r)
           more == nd.imgPageRequestRetry + 1
<1>1. CASE nd.state = "WaitPageSpacing" /\ ps \in {pr, [pr EXCEPT !.state = "Idle"]}
  <2>1. SamePlace(nd, pr) /\ pr.rawFile = nd.rawFile /\ pr \in OtauNode
    BY <1>1, PageResponseKeeps, PageResponseType
  <2> HIDE DEF pr
  <2>2. /\ ps.offset = pr.offset /\ ps.pageOffset = pr.pageOffset
        /\ ps.pageSize = pr.pageSize /\ ps.pageBytesDone = pr.pageBytesDone
        /\ ps.rawFile = pr.rawFile /\ ps.apsRequestId = pr.apsRequestId
        /\ ps.state \in {pr.state, "Idle"}
    BY <1>1, <2>1 DEF OtauNode
  <2> QED
    BY <2>1, <2>2 DEF SamePlace, Waiting
<1>2. CASE ps \in {nd, [nd EXCEPT !.imgPageRequestRetry = more, !.state = "Idle"],
                   [nd EXCEPT !.imgPageRequestRetry = more,
                              !.apsRequestId = INVALID_APS_REQ_ID]}
  <2> HIDE DEF more
  <2> QED
    BY <1>2 DEF SamePlace, OtauNode, Waiting
<1>3. \/ nd.state = "WaitPageSpacing" /\ ps \in {pr, [pr EXCEPT !.state = "Idle"]}
      \/ ps \in {nd, [nd EXCEPT !.imgPageRequestRetry = more, !.state = "Idle"],
                 [nd EXCEPT !.imgPageRequestRetry = more,
                            !.apsRequestId = INVALID_APS_REQ_ID]}
  <2> HIDE DEF pr
  <2> QED
    BY DEF PageServed, pr
<1> QED
  BY <1>1, <1>2, <1>3

(* Sending a block changes neither the file of a node nor what it asked for. *)
LEMMA ResponsesKeepImage ==
    ASSUME AsduTypeOK, NEW n, NEW nd \in OtauNode, NEW r \in ReqIds \cup {Refused},
           NEW rs \in {PageResponse(n, nd, r), PageServed(n, nd, r)}
    PROVE  rs.hasData = nd.hasData /\ rs.file = nd.file /\ rs.fileVersion = nd.fileVersion
<1> DEFINE br == BlockResponse(n, nd, r)
           pr == PageResponse(n, nd, r)
           Same(x) == /\ x.hasData = nd.hasData /\ x.file = nd.file
                      /\ x.fileVersion = nd.fileVersion
<1>1. br \in OtauNode /\ Same(br)
  <2>1. br \in OtauNode
    BY BlockResponseType
  <2>2. Same(br)
    BY BlockResponseKeeps
  <2> QED
    BY <2>1, <2>2
<1>2. pr \in OtauNode /\ Same(pr)
  <2> DEFINE more == br.imgBlockResponseRetry + 1
  <2>1. pr \in {nd, br, [nd EXCEPT !.state = "WaitNextRequest"],
                [nd EXCEPT !.state = "WaitPageSpacing"],
                [br EXCEPT !.imgBlockResponseRetry = 0],
                [br EXCEPT !.state = "WaitPageSpacing", !.imgBlockResponseRetry = more]}
    BY DEF PageResponse
  <2>2. pr \in OtauNode
    BY PageResponseType
  <2> HIDE DEF br, pr, more
  <2>3. Same(pr)
    BY <1>1, <2>1 DEF OtauNode
  <2> QED
    BY <2>2, <2>3
<1>3. Same(PageServed(n, nd, r))
  <2> DEFINE more == nd.imgPageRequestRetry + 1
             ps == PageServed(n, nd, r)
  <2>1. ps \in {nd, pr, [pr EXCEPT !.state = "Idle"],
                [nd EXCEPT !.imgPageRequestRetry = more, !.state = "Idle"],
                [nd EXCEPT !.imgPageRequestRetry = more, !.apsRequestId = INVALID_APS_REQ_ID]}
    BY DEF PageServed
  <2> HIDE DEF pr, ps, more
  <2>2. Same(ps)
    BY <1>2, <2>1 DEF OtauNode
  <2> QED
    BY <2>2 DEF ps
<1> QED
  BY <1>2, <1>3

(* A node that does not change makes no move. *)
LEMMA NotMoved ==
    ASSUME NEW n, node'[n] = node[n]
    PROVE  Stepped(n)
  BY DEF Stepped, Moved, SamePlace, RawFileKept

(* A step of one device moves that device only. *)
LEMMA OneNodeMoves ==
    ASSUME TypeOK, NEW n \in Nodes, NEW nd, node' = [node EXCEPT ![n] = nd],
           Moved(node[n], nd), RawFileKept(n, node[n], nd)
    PROVE  \A m \in Nodes : Stepped(m)
<1> SUFFICES ASSUME NEW m \in Nodes
             PROVE  Stepped(m)
  OBVIOUS
<1>1. CASE m = n
  BY <1>1 DEF Stepped, TypeOK
<1>2. CASE m # n
  BY <1>2, NotMoved DEF TypeOK
<1> QED
  BY <1>1, <1>2

(* An offer to an FLS-H is an offer of a file for it. *)
LEMMA OfferIsAllowed ==
    ASSUME NEW n \in FlsHNodes, NEW nd \in OtauNode, QueryStatus(n, nd) = "SUCCESS"
    PROVE  FileVersion[nd.file] >= FLS_H_VERSION
<1>1. ~(FileVersion[nd.file] < FLS_H_VERSION)
  BY DEF QueryStatus
<1>2. FileVersion[nd.file] \in Int /\ FLS_H_VERSION \in Int
  BY NodeNumbers, ServerAssumption DEF ServerAssumption
<1> QED
  BY <1>1, <1>2

(* A query ends a page and may copy the file to read from, once checked. *)
LEMMA QueryMoves ==
    ASSUME TypeOK, NEW n \in Nodes, QueryNextImageRequest(n)
    PROVE  \A m \in Nodes : Stepped(m)
<1> DEFINE rq == [Received(node[n], "query") EXCEPT !.queried = TRUE]
<1>1. node[n] \in OtauNode
  BY DEF TypeOK
<1>2. PICK nd \in UpdateChecked(n, rq), r \in Outcomes :
         node' = [node EXCEPT ![n] = QueryResponse(nd, QueryStatus(n, nd), r)]
  BY Zenon DEF QueryNextImageRequest
<1>3. rq \in OtauNode /\ rq.rawFile = node[n].rawFile
  <2>1. Received(node[n], "query") \in OtauNode
    BY <1>1, ReceivedType DEF ReqCmds
  <2>2. Received(node[n], "query").rawFile = node[n].rawFile
    BY <1>1 DEF Received, OtauNode
  <2> QED
    BY <2>1, <2>2 DEF OtauNode
<1> HIDE DEF rq
<1>4. nd \in OtauNode /\ nd.rawFile = rq.rawFile
  <2>1. nd \in OtauNode
    BY <1>2, <1>3, UpdateCheckedType
  <2>2. \/ nd \in {rq, [rq EXCEPT !.hasData = TRUE]}
        \/ \E f : nd \in {[rq EXCEPT !.file = f], [rq EXCEPT !.file = f, !.hasData = TRUE]}
    BY <1>2, Zenon DEF UpdateChecked
  <2> QED
    BY <1>3, <2>1, <2>2 DEF OtauNode
<1> DEFINE status == QueryStatus(n, nd)
           offer == IF status = "SUCCESS" THEN [nd EXCEPT !.rawFile = nd.file] ELSE nd
           qr == QueryResponse(nd, status, r)
<1>5. /\ offer.rawFile = IF status = "SUCCESS" THEN nd.file ELSE nd.rawFile
      /\ offer.file = nd.file
  BY <1>4 DEF OtauNode
<1>6. qr.rawFile = offer.rawFile /\ qr.file = offer.file
  <2>1. qr \in {[offer EXCEPT !.state = "Idle"],
                [offer EXCEPT !.state = "WaitConfirm", !.apsRequestId = r,
                              !.zclCommandId = "queryRsp"]}
    BY DEF QueryResponse
  <2>2. offer \in OtauNode
    BY <1>4 DEF OtauNode
  <2> HIDE DEF offer, qr
  <2> QED
    BY <2>1, <2>2 DEF OtauNode
<1>7. RawFileKept(n, node[n], qr)
  <2> HIDE DEF qr, offer
  <2> QED
    BY <1>3, <1>4, <1>5, <1>6, OfferIsAllowed DEF RawFileKept
<1>8. Moved(node[n], qr)
  BY <1>4, QueryNotWaiting DEF Moved
<1> QED
  BY <1>2, <1>7, <1>8, OneNodeMoves

(* A block request ends a page. *)
LEMMA BlockRequestMoves ==
    ASSUME TypeOK, NEW n \in Nodes, ImageBlockRequest(n)
    PROVE  \A m \in Nodes : Stepped(m)
<1>1. node[n] \in OtauNode /\ AsduTypeOK
  BY DEF TypeOK, AsduTypeOK
<1>2. PICK v \in ReqVersions, off \in ReqOffsets, size \in ReqDataSizes, r \in Outcomes :
         LET nd == BlockRequested(node[n], v, off, size)
         IN  node' = [node EXCEPT ![n] =
                        [BlockResponse(n, nd, r) EXCEPT
                           !.state = IF BlockSent(n, nd, r) THEN "WaitConfirm" ELSE "Idle"]]
  BY Zenon DEF ImageBlockRequest
<1> DEFINE nd == BlockRequested(node[n], v, off, size)
           br == BlockResponse(n, nd, r)
           st == IF BlockSent(n, nd, r) THEN "WaitConfirm" ELSE "Idle"
           after == [br EXCEPT !.state = st]
<1>3. nd \in OtauNode /\ r \in ReqIds \cup {Refused}
  BY <1>1, BlockRequestedType, OutcomesType
<1>4. nd.rawFile = node[n].rawFile
  BY <1>1 DEF BlockRequested, Received, OtauNode
<1>5. br \in OtauNode /\ br.rawFile = nd.rawFile
  <2> HIDE DEF nd
  <2>1. br \in OtauNode
    BY <1>1, <1>3, BlockResponseType
  <2>2. br.rawFile = nd.rawFile
    BY <1>3, BlockResponseKeeps
  <2> QED
    BY <2>1, <2>2
<1>6. node' = [node EXCEPT ![n] = after] /\ st \in {"WaitConfirm", "Idle"}
  BY <1>2, Zenon
<1> HIDE DEF nd, br, st
<1>7. ~Waiting(after) /\ after.rawFile = br.rawFile
  BY <1>5, <1>6 DEF Waiting, OtauNode
<1> QED
  BY <1>4, <1>5, <1>6, <1>7, OneNodeMoves DEF Moved, RawFileKept

(* A page request leaves a node in its place or at the start of a page. *)
LEMMA PageRequestMoves ==
    ASSUME TypeOK, NEW n \in Nodes, ImagePageRequest(n)
    PROVE  \A m \in Nodes : Stepped(m)
<1>1. node[n] \in OtauNode
  BY DEF TypeOK
<1> DEFINE nd == Received(node[n], "page")
<1>2. nd \in OtauNode
  BY <1>1, ReceivedType DEF ReqCmds
<1>3. SamePlace(node[n], nd) /\ nd.rawFile = node[n].rawFile
  BY <1>1 DEF Received, OtauNode, SamePlace, Waiting
<1>4. CASE node' = [node EXCEPT ![n] = nd]
  BY <1>3, <1>4, OneNodeMoves DEF Moved, RawFileKept
<1>5. ASSUME NEW r \in Outcomes, nd.state = "Abort",
             node' = [node EXCEPT ![n] = DefaultResponse(nd, r)]
      PROVE  \A m \in Nodes : Stepped(m)
  <2> HIDE DEF nd
  <2>1. ~Waiting(DefaultResponse(nd, r)) /\ DefaultResponse(nd, r).rawFile = nd.rawFile
    BY <1>2, <1>5 DEF DefaultResponse, OtauNode, Waiting
  <2> QED
    BY <1>3, <1>5, <2>1, OneNodeMoves DEF Moved, RawFileKept
<1>6. ASSUME NEW v \in ReqVersions, NEW off \in ReqOffsets, NEW size \in ReqDataSizes,
             NEW pageSize \in ReqPageSizes,
             node' = [node EXCEPT ![n] = PageRequested(nd, v, off, size, pageSize)]
      PROVE  \A m \in Nodes : Stepped(m)
  <2> DEFINE pq == PageRequested(nd, v, off, size, pageSize)
  <2> HIDE DEF nd
  <2>1. AtPageStart(pq) /\ pq.rawFile = nd.rawFile
    BY <1>2 DEF PageRequested, OtauNode, AtPageStart
  <2> HIDE DEF pq
  <2>2. Moved(node[n], pq) /\ RawFileKept(n, node[n], pq)
    BY <1>3, <2>1 DEF Moved, RawFileKept
  <2> QED
    BY <1>6, <2>2, OneNodeMoves DEF pq
<1> QED
  BY <1>4, <1>5, <1>6, Zenon DEF ImagePageRequest

(* The end of an upgrade ends a page. *)
LEMMA UpgradeEndMoves ==
    ASSUME TypeOK, NEW n \in Nodes, UpgradeEndRequest(n)
    PROVE  \A m \in Nodes : Stepped(m)
<1>1. node[n] \in OtauNode
  BY DEF TypeOK
<1> DEFINE nd == [Received(node[n], "end") EXCEPT !.state = "Idle"]
           done == [nd EXCEPT !.hasData = FALSE, !.permitUpdate = FALSE]
<1>2. PICK r \in Outcomes :
         \/ node' = [node EXCEPT ![n] = DefaultResponse(nd, r)]
         \/ node' = [node EXCEPT ![n] = UpgradeEndResponse(done, r)]
  BY Zenon DEF UpgradeEndRequest
<1>3. /\ nd.state = "Idle" /\ {"state", "rawFile"} \subseteq DOMAIN nd
      /\ done.state = "Idle" /\ {"state", "rawFile"} \subseteq DOMAIN done
      /\ nd.rawFile = node[n].rawFile /\ done.rawFile = node[n].rawFile
  BY <1>1 DEF Received, OtauNode
<1> HIDE DEF nd, done
<1>4. /\ ~Waiting(DefaultResponse(nd, r)) /\ ~Waiting(UpgradeEndResponse(done, r))
      /\ DefaultResponse(nd, r).rawFile = node[n].rawFile
      /\ UpgradeEndResponse(done, r).rawFile = node[n].rawFile
  BY <1>3 DEF DefaultResponse, UpgradeEndResponse, Waiting
<1> QED
  BY <1>2, <1>4, OneNodeMoves DEF Moved, RawFileKept

(* A confirm delivers the response, fails it or is ignored. *)
LEMMA ConfirmMoves ==
    ASSUME TypeOK, NEW n \in Nodes, ConfirmStep(n)
    PROVE  \A m \in Nodes : Stepped(m)
<1>1. node[n] \in OtauNode /\ AsduTypeOK
  BY DEF TypeOK, AsduTypeOK
<1>2. CASE ConfirmIgnored(n)
  BY <1>2, NotMoved DEF ConfirmIgnored
<1>3. ASSUME NEW noAck \in BOOLEAN, ConfirmFailed(n, noAck)
      PROVE  \A m \in Nodes : Stepped(m)
  <2> DEFINE nd == [node[n] EXCEPT !.apsRequestId = INVALID_APS_REQ_ID]
  <2>1. node' = [node EXCEPT ![n] = nd]
    BY <1>3 DEF ConfirmFailed
  <2>2. SamePlace(node[n], nd) /\ nd.rawFile = node[n].rawFile
    BY <1>1 DEF OtauNode, SamePlace, Waiting
  <2> QED
    BY <2>1, <2>2, OneNodeMoves DEF Moved, RawFileKept
<1>4. CASE ConfirmSucceeded(n)
  <2> DEFINE nd == Delivered(node[n])
             paged == nd.zclCommandId = "blockRsp" /\ nd.state = "WaitPageSpacing"
  <2>1. PICK id \in ReqIds, r \in Outcomes :
           /\ ConfirmTaken(n, id)
           /\ node' = [node EXCEPT ![n] = IF paged THEN PageResponse(n, nd, r) ELSE nd]
    BY <1>4, Zenon DEF ConfirmSucceeded
  <2>2. nd \in OtauNode /\ r \in ReqIds \cup {Refused} /\ nd.rawFile = node[n].rawFile
    <3>1. nd \in OtauNode
      BY <1>1, DeliveredType
    <3>2. nd.rawFile = node[n].rawFile
      BY <1>1 DEF Delivered, OtauNode
    <3> QED
      BY <3>1, <3>2, OutcomesType
  <2>3. node[n].apsRequestId # INVALID_APS_REQ_ID
    BY <2>1, RequestIds DEF ConfirmTaken
  <2> DEFINE aft == IF paged THEN PageResponse(n, nd, r) ELSE nd
  <2>4. SamePlace(nd, aft) /\ aft.rawFile = nd.rawFile
    <3> HIDE DEF nd
    <3>1. CASE paged
      BY <1>1, <2>2, <3>1, PageResponseKeeps
    <3>2. CASE ~paged
      BY <3>2 DEF SamePlace
    <3> QED
      BY <3>1, <3>2
  <2>5. node' = [node EXCEPT ![n] = aft]
    BY <2>1
  <2> HIDE DEF aft
  <2>6. Moved(node[n], aft) /\ RawFileKept(n, node[n], aft)
    BY <2>2, <2>3, <2>4 DEF Moved, RawFileKept
  <2> QED
    BY <2>5, <2>6, OneNodeMoves
<1> QED
  BY <1>2, <1>3, <1>4 DEF ConfirmStep

(* The user ends a page or leaves it alone, and so do frames without an     *)
(* answer and the passing of time; none changes the file to read from.      *)
LEMMA SmallStepsMove ==
    ASSUME TypeOK, NEW n \in Nodes,
           MalformedQuery(n) \/ StrayZclFrame(n) \/ UserStep(n) \/ TimeStep(n)
    PROVE  \A m \in Nodes : Stepped(m)
<1>1. node[n] \in OtauNode
  BY DEF TypeOK
<1>2. \A m \in Nodes \ {n} : node'[m] = node[m]
  BY DEF MalformedQuery, StrayZclFrame, UserStep, TimeStep, AbortClicked, UpdateClicked,
         FileSelectClicked, ResponseAges, ActivityAges, TrackedAges, sessionVars, TypeOK
<1>3. SUFFICES Stepped(n)
  BY <1>2, NotMoved
<1>4. CASE AbortClicked(n) \/ UpdateClicked(n)
  <2>1. node'[n].state \in {"Abort", "Idle"} /\ node'[n].rawFile = node[n].rawFile
    BY <1>1, <1>4 DEF AbortClicked, UpdateClicked, TypeOK, OtauNode
  <2> QED
    BY <2>1 DEF Stepped, Moved, RawFileKept, Waiting
<1>5. ASSUME \E x :
                node'[n] \in {Received(node[n], x), [node[n] EXCEPT !.file = x],
                              [node[n] EXCEPT !.file = x, !.hasData = TRUE,
                                              !.lastActivity = "fresh"],
                              [node[n] EXCEPT !.lastResponseTime = x],
                              [node[n] EXCEPT !.lastActivity = x]}
      PROVE  Stepped(n)
  <2>1. SamePlace(node[n], node'[n]) /\ node'[n].rawFile = node[n].rawFile
    BY <1>1, <1>5 DEF Received, OtauNode, SamePlace, Waiting
  <2> QED
    BY <2>1 DEF Stepped, Moved, RawFileKept
<1>6. CASE MalformedQuery(n) \/ StrayZclFrame(n)
  BY <1>5, <1>6 DEF MalformedQuery, StrayZclFrame, TypeOK
<1>7. CASE FileSelectClicked(n)
  BY <1>5, <1>7 DEF FileSelectClicked, TypeOK
<1>8. CASE ResponseAges(n)
  <2>1. \E x : node'[n] = [node[n] EXCEPT !.lastResponseTime = x]
    BY <1>8 DEF ResponseAges, TypeOK
  <2> QED
    BY <1>5, <2>1
<1>9. CASE ActivityAges(n)
  <2>1. \E x : node'[n] = [node[n] EXCEPT !.lastActivity = x]
    BY <1>9 DEF ActivityAges, TypeOK
  <2> QED
    BY <1>5, <2>1
<1>10. CASE TrackedAges(n)
  BY <1>10, NotMoved DEF TrackedAges, sessionVars
<1> QED
  BY <1>4, <1>6, <1>7, <1>8, <1>9, <1>10 DEF UserStep, TimeStep

(* The page timer leaves every node in its place. *)
LEMMA PageTimerMoves ==
    ASSUME TypeOK, PageTimerServes
    PROVE  \A m \in Nodes : Stepped(m)
<1> SUFFICES ASSUME NEW n \in Nodes
             PROVE  Stepped(n)
  OBVIOUS
<1>1. PICK r \in DistinctOutcomes :
         node' = [m \in Nodes |-> PageServed(m, node[m], r[m])]
  BY Zenon DEF PageTimerServes
<1>2. node[n] \in OtauNode /\ r[n] \in ReqIds \cup {Refused} /\ AsduTypeOK
  BY OutcomesType DEF DistinctOutcomes, TypeOK, AsduTypeOK
<1>3. SamePlace(node[n], PageServed(n, node[n], r[n]))
      /\ PageServed(n, node[n], r[n]).rawFile = node[n].rawFile
  BY <1>2, PageServedKeeps
<1> QED
  BY <1>1, <1>3 DEF Stepped, Moved, RawFileKept

(* Every step of the server is a move of every node. *)
LEMMA NextMoves ==
    ASSUME TypeOK, [Next]_vars
    PROVE  \A n \in Nodes : Stepped(n)
<1>1. CASE CleanupTimerFired
  <2>1. \A n \in Nodes : SamePlace(node[n], node'[n]) /\ node'[n].rawFile = node[n].rawFile
    BY <1>1 DEF CleanupTimerFired, TypeOK, OtauNode, SamePlace, Waiting
  <2> QED
    BY <2>1 DEF Stepped, Moved, RawFileKept
<1>2. CASE \/ PageTimerInactive \/ TrackerTick \/ QueryClicked
           \/ PageRequestBoxToggled \/ OtauDeactivated \/ UNCHANGED vars
  <2>1. node' = node
    BY <1>2, Zenon DEF PageTimerInactive, TrackerTick, QueryClicked, PageRequestBoxToggled,
                       OtauDeactivated, vars, sessionVars
  <2> QED
    BY <2>1, NotMoved
<1> QED
  BY <1>1, <1>2, QueryMoves, BlockRequestMoves, PageRequestMoves, UpgradeEndMoves,
     ConfirmMoves, SmallStepsMove, PageTimerMoves
  DEF Next, TimerStep, DeviceStep

----------------------------------------------------------------------------
(* The inductive invariant.                                                 *)

(* An FLS-H reads its blocks from no file or from one that is for it. *)
FlsHFiles ==
    \A n \in Nodes \cap FlsHNodes :
        \/ node[n].rawFile = NoImage
        \/ FileVersion[node[n].rawFile] >= FLS_H_VERSION

TransferInv == PageInv /\ PagesCounted /\ FlsHFiles

(* A fresh node does not wait and has no file. *)
LEMMA InitTransfer == Init => TransferInv
<1> SUFFICES ASSUME Init
             PROVE  TransferInv
  OBVIOUS
<1>1. PageInv
  BY InitType, InitSafe DEF PageInv
<1>2. \A n \in Nodes : ~Waiting(node[n]) /\ node[n].rawFile = NoImage
  BY DEF Init, FreshNode, Waiting
<1> QED
  BY <1>1, <1>2 DEF TransferInv, PagesCounted, PageCounted, FlsHFiles

(* Every step keeps the counts of all pages, because it is a move, and the  *)
(* files of the FLS-H.                                                      *)
LEMMA NextTransfer == TransferInv /\ [Next]_vars => TransferInv'
<1> SUFFICES ASSUME TransferInv, [Next]_vars
             PROVE  TransferInv'
  OBVIOUS
<1>1. TypeOK /\ PagesSafe /\ TypeOK'
  BY NextType DEF TransferInv, PageInv
<1>2. PageInv'
  BY <1>1, NextSafe DEF PageInv
<1>3. \A n \in Nodes : Stepped(n)
  BY <1>1, NextMoves
<1>4. PagesCounted'
  <2> SUFFICES ASSUME NEW n \in Nodes
               PROVE  PageCounted(node'[n])
    BY DEF PagesCounted
  <2>1. /\ node[n] \in OtauNode /\ node'[n] \in OtauNode
        /\ PageSafe(n, node[n], apsPending)
        /\ PageCounted(node[n]) /\ Moved(node[n], node'[n])
    BY <1>1, <1>3 DEF TypeOK, PagesSafe, TransferInv, PagesCounted, Stepped
  <2> QED
    BY <2>1, MovedCounted
<1>5. FlsHFiles'
  BY <1>3 DEF TransferInv, FlsHFiles, Stepped, RawFileKept
<1> QED
  BY <1>2, <1>4, <1>5 DEF TransferInv

(* The inductive invariant of a transfer, always. *)
LEMMA TransferInvariant == Spec => []TransferInv
<1>1. Init => TransferInv
  BY InitTransfer
<1>2. TransferInv /\ [Next]_vars => TransferInv'
  BY NextTransfer
<1> QED
  BY <1>1, <1>2, PTL DEF Spec

(* The counter of the bytes done and the position in the file agree, for    *)
(* the confirm of a block moves both on, each at its width.                 *)
THEOREM PagesAreAccounted == Spec => []PageAccounting
<1>1. TransferInv => PageAccounting
  BY DEF TransferInv, PagesCounted, PageCounted, PageAccounting
<1> QED
  BY <1>1, TransferInvariant, PTL

----------------------------------------------------------------------------
(* Where the data of a block comes from.                                    *)

(* The node that imageBlockResponse() composed a block of data for n from,  *)
(* and what of it the node has after the step.                              *)
DataFrom(n) ==
    \E nd \in OtauNode :
        /\ BlockStatus(nd) = "SUCCESS" /\ ~BlockHeld(n, nd)
        /\ nd.rawFile = node[n].rawFile
        /\ node'[n].offset = nd.offset /\ node'[n].rawFile = nd.rawFile
        /\ node'[n].file = nd.file /\ node'[n].fileVersion = nd.fileVersion
        /\ node'[n].pageOffset = nd.pageOffset /\ node'[n].pageSize = nd.pageSize
        /\ node'[n].lastZclCmd = nd.lastZclCmd
        /\ node'[n].maxDataSize = BlockBytes(n, nd)
        /\ maxAsduDataSize' = maxAsduDataSize
        /\ nd.lastZclCmd = "page" =>
              /\ ~PageDone(nd) /\ nd.state = "WaitPageSpacing"
              /\ \/ nd = node[n]
                 \/ nd = Delivered(node[n]) /\ node[n].apsRequestId # INVALID_APS_REQ_ID

(* A block response that is sent with data has the size computed for it. *)
LEMMA BlockResponseBytes ==
    ASSUME NEW n, NEW nd \in OtauNode, NEW r, NEW br, br = BlockResponse(n, nd, r),
           ~BlockHeld(n, nd), BlockStatus(nd) = "SUCCESS"
    PROVE  br.maxDataSize = BlockBytes(n, nd)
<1> DEFINE bc == BlockComposed(n, nd)
           state == IF nd.fileVersion # FileVersion[nd.file] THEN "Abort" ELSE nd.state
           bytes == BlockBytes(n, nd)
<1>1. bc = [nd EXCEPT !.state = state, !.maxDataSize = bytes]
  BY Zenon DEF BlockComposed
<1>2. br \in {bc, [bc EXCEPT !.apsRequestId = r, !.zclCommandId = "blockRsp",
                             !.lastResponseTime = "recent"]}
  BY DEF BlockResponse
<1>3. "maxDataSize" \in DOMAIN nd
  BY DEF OtauNode
<1> HIDE DEF bc, state, bytes
<1>4. bc.maxDataSize = bytes /\ "maxDataSize" \in DOMAIN bc
  BY <1>1, <1>3
<1>5. br.maxDataSize = bytes
  BY <1>2, <1>4
<1> QED
  BY <1>5 DEF bytes

(* The frame of a block response. *)
LEMMA BlockFrame ==
    ASSUME NEW n, NEW nd, NEW r, NEW f \in BlockFrames(n, nd, r)
    PROVE  BlockSent(n, nd, r) /\ f.node = n /\ f.status = BlockStatus(nd)
  BY DEF BlockFrames, Sent

(* imagePageResponse() that sends a block of data. *)
LEMMA PageResponseData ==
    ASSUME AsduTypeOK, NEW n, NEW nd \in OtauNode, NEW r \in ReqIds \cup {Refused},
           nd.state = "WaitPageSpacing",
           NEW f \in PageFrames(n, nd, r), f.status = "SUCCESS",
           NEW pr, pr = PageResponse(n, nd, r)
    PROVE  /\ BlockStatus(nd) = "SUCCESS" /\ ~BlockHeld(n, nd) /\ ~PageDone(nd)
           /\ PageOk(n, nd, r) /\ f.node = n
           /\ pr.maxDataSize = BlockBytes(n, nd)
<1> DEFINE br == BlockResponse(n, nd, r)
<1>1. PageSends(nd) /\ f \in BlockFrames(n, nd, r)
  BY DEF PageFrames
<1>2. BlockSent(n, nd, r) /\ BlockStatus(nd) = "SUCCESS" /\ f.node = n
  BY <1>1, BlockFrame
<1>3. ~BlockHeld(n, nd)
  BY <1>2, Zenon DEF BlockSent
<1>4. /\ ~PageDone(nd) /\ nd.lastZclCmd = "page" /\ ~AwaitsConfirm(nd)
      /\ nd.lastResponseTime # "recent" /\ nd.state # "Abort"
  BY <1>1 DEF PageSends
<1>5. PageOk(n, nd, r)
  BY <1>2, <1>4, Zenon DEF PageOk
<1>6. pr = [br EXCEPT !.imgBlockResponseRetry = 0]
  BY <1>2, <1>4, Zenon DEF PageResponse
<1>7. br \in OtauNode
  BY BlockResponseType
<1>8. br.maxDataSize = BlockBytes(n, nd)
  BY <1>2, <1>3, BlockResponseBytes
<1> HIDE DEF br
<1>9. pr.maxDataSize = br.maxDataSize
  BY <1>6, <1>7 DEF OtauNode
<1> QED
  BY <1>2, <1>3, <1>4, <1>5, <1>8, <1>9

(* A block request answered with data. *)
LEMMA BlockRequestData ==
    ASSUME TypeOK, NEW m \in Nodes, ImageBlockRequest(m), NEW n, DataSent(n)
    PROVE  DataFrom(n)
<1>1. node[m] \in OtauNode /\ AsduTypeOK
  BY DEF TypeOK, AsduTypeOK
<1>2. PICK v \in ReqVersions, off \in ReqOffsets, size \in ReqDataSizes, r \in Outcomes :
         LET nd == BlockRequested(node[m], v, off, size)
         IN  /\ node' = [node EXCEPT ![m] =
                          [BlockResponse(m, nd, r) EXCEPT
                             !.state = IF BlockSent(m, nd, r) THEN "WaitConfirm" ELSE "Idle"]]
             /\ apsPending' = apsPending \cup BlockFrames(m, nd, r)
             /\ maxAsduDataSize' = maxAsduDataSize
  BY Zenon DEF ImageBlockRequest
<1> DEFINE nd == BlockRequested(node[m], v, off, size)
           br == BlockResponse(m, nd, r)
           st == IF BlockSent(m, nd, r) THEN "WaitConfirm" ELSE "Idle"
<1>3. nd \in OtauNode /\ r \in ReqIds \cup {Refused}
  BY <1>1, BlockRequestedType, OutcomesType
<1>4. nd.rawFile = node[m].rawFile /\ nd.lastZclCmd = "block"
  BY <1>1 DEF BlockRequested, Received, OtauNode
<1>5. node'[m] = [br EXCEPT !.state = st] /\ maxAsduDataSize' = maxAsduDataSize
  BY <1>2 DEF TypeOK
<1>6. PICK f \in BlockFrames(m, nd, r) : f.node = n /\ f.status = "SUCCESS"
  BY <1>2, Zenon DEF DataSent
<1> HIDE DEF nd
<1>7. BlockSent(m, nd, r) /\ n = m /\ BlockStatus(nd) = "SUCCESS"
  BY <1>6, BlockFrame
<1>8. ~BlockHeld(n, nd)
  BY <1>7, Zenon DEF BlockSent
<1>9. br \in OtauNode
  BY <1>1, <1>3, BlockResponseType
<1>10. br.maxDataSize = BlockBytes(n, nd)
  BY <1>3, <1>7, <1>8, BlockResponseBytes
<1>11. /\ br.offset = nd.offset /\ br.pageOffset = nd.pageOffset
       /\ br.pageSize = nd.pageSize /\ br.rawFile = nd.rawFile
       /\ br.lastZclCmd = nd.lastZclCmd
       /\ br.file = nd.file /\ br.fileVersion = nd.fileVersion
  BY <1>3, BlockResponseKeeps
<1> HIDE DEF br, st
<1>12. /\ node'[n].offset = br.offset /\ node'[n].pageOffset = br.pageOffset
       /\ node'[n].pageSize = br.pageSize /\ node'[n].rawFile = br.rawFile
       /\ node'[n].lastZclCmd = br.lastZclCmd /\ node'[n].maxDataSize = br.maxDataSize
       /\ node'[n].file = br.file /\ node'[n].fileVersion = br.fileVersion
  BY <1>5, <1>7, <1>9 DEF OtauNode
<1> QED
  BY <1>3, <1>4, <1>5, <1>7, <1>8, <1>10, <1>11, <1>12 DEF DataFrom

(* A confirm that triggers the next block of a page. *)
LEMMA ConfirmData ==
    ASSUME TypeOK, NEW m \in Nodes, ConfirmSucceeded(m), NEW n, DataSent(n)
    PROVE  DataFrom(n)
<1>1. node[m] \in OtauNode /\ AsduTypeOK
  BY DEF TypeOK, AsduTypeOK
<1> DEFINE nd == Delivered(node[m])
           paged == nd.zclCommandId = "blockRsp" /\ nd.state = "WaitPageSpacing"
<1>2. PICK id \in ReqIds, r \in Outcomes :
         /\ ConfirmTaken(m, id)
         /\ node' = [node EXCEPT ![m] = IF paged THEN PageResponse(m, nd, r) ELSE nd]
         /\ apsPending' = (apsPending \ InFlight(m, id))
                              \cup (IF paged THEN PageFrames(m, nd, r) ELSE {})
         /\ maxAsduDataSize' = maxAsduDataSize
  BY Zenon DEF ConfirmSucceeded
<1>3. nd \in OtauNode /\ r \in ReqIds \cup {Refused}
  BY <1>1, DeliveredType, OutcomesType
<1>4. nd.rawFile = node[m].rawFile
  BY <1>1 DEF Delivered, OtauNode
<1>5. node[m].apsRequestId # INVALID_APS_REQ_ID
  BY <1>2, RequestIds DEF ConfirmTaken
<1>6. PICK f \in PageFrames(m, nd, r) : paged /\ f.node = n /\ f.status = "SUCCESS"
  BY <1>2 DEF DataSent
<1> DEFINE pr == PageResponse(m, nd, r)
<1>7. node'[m] = pr
  BY <1>2, <1>6 DEF TypeOK
<1>8. nd = Delivered(node[m])
  OBVIOUS
<1> HIDE DEF nd
<1>9. /\ BlockStatus(nd) = "SUCCESS" /\ ~BlockHeld(m, nd) /\ ~PageDone(nd)
      /\ f.node = m /\ pr.maxDataSize = BlockBytes(m, nd)
  BY <1>1, <1>3, <1>6, PageResponseData
<1>10. SamePlace(nd, pr) /\ pr.rawFile = nd.rawFile /\ pr.lastZclCmd = nd.lastZclCmd
  BY <1>1, <1>3, <1>6, PageResponseKeeps
<1>11. pr.file = nd.file /\ pr.fileVersion = nd.fileVersion
  BY <1>1, <1>3, ResponsesKeepImage
<1> HIDE DEF pr
<1>12. n = m /\ maxAsduDataSize' = maxAsduDataSize
  BY <1>2, <1>6, <1>9
<1> QED
  BY <1>3, <1>4, <1>5, <1>6, <1>7, <1>8, <1>9, <1>10, <1>11, <1>12
  DEF DataFrom, SamePlace

(* The page timer sends a block. *)
LEMMA PageTimerData ==
    ASSUME TypeOK, PageTimerServes, NEW n, DataSent(n)
    PROVE  DataFrom(n)
<1>1. PICK r \in DistinctOutcomes :
         /\ node' = [m \in Nodes |-> PageServed(m, node[m], r[m])]
         /\ apsPending' = apsPending \cup
               UNION {PageFrames(m, node[m], r[m]) :
                        m \in {k \in Nodes : node[k].state = "WaitPageSpacing"}}
         /\ maxAsduDataSize' = maxAsduDataSize
  BY Zenon DEF PageTimerServes
<1>2. PICK m \in Nodes : /\ node[m].state = "WaitPageSpacing"
                         /\ \E f \in PageFrames(m, node[m], r[m]) :
                               f.node = n /\ f.status = "SUCCESS"
  BY <1>1 DEF DataSent
<1>3. PICK f \in PageFrames(m, node[m], r[m]) : f.node = n /\ f.status = "SUCCESS"
  BY <1>2
<1>4. node[m] \in OtauNode /\ r[m] \in ReqIds \cup {Refused} /\ AsduTypeOK
  BY OutcomesType DEF DistinctOutcomes, TypeOK, AsduTypeOK
<1> DEFINE nd == node[m]
           q == r[m]
           pr == PageResponse(m, nd, q)
<1>5. node'[m] = PageServed(m, nd, q) /\ maxAsduDataSize' = maxAsduDataSize
  BY <1>1
<1>6. nd = node[m]
  OBVIOUS
<1> HIDE DEF nd, q
<1>7. /\ nd \in OtauNode /\ q \in ReqIds \cup {Refused} /\ nd.state = "WaitPageSpacing"
      /\ f \in PageFrames(m, nd, q) /\ f.node = n /\ f.status = "SUCCESS"
  BY <1>2, <1>3, <1>4 DEF nd, q
<1>8. /\ BlockStatus(nd) = "SUCCESS" /\ ~BlockHeld(m, nd) /\ ~PageDone(nd)
      /\ PageOk(m, nd, q) /\ f.node = m /\ pr.maxDataSize = BlockBytes(m, nd)
  BY <1>4, <1>7, PageResponseData
<1>9. SamePlace(nd, pr) /\ pr.rawFile = nd.rawFile /\ pr.lastZclCmd = nd.lastZclCmd
  BY <1>4, <1>7, PageResponseKeeps
<1>10. pr.file = nd.file /\ pr.fileVersion = nd.fileVersion
  BY <1>4, <1>7, ResponsesKeepImage
<1>11. node'[m] = pr
  BY <1>5, <1>7, <1>8, Zenon DEF PageServed
<1>12. n = m
  BY <1>7, <1>8
<1> HIDE DEF pr
<1> QED
  BY <1>5, <1>6, <1>7, <1>8, <1>9, <1>10, <1>11, <1>12 DEF DataFrom, SamePlace

(* No other step sends data: the other responses are of other commands, and *)
(* the rest sends nothing.                                                  *)
LEMMA OthersSendNoData ==
    ASSUME NEW m \in Nodes,
           \/ QueryNextImageRequest(m) \/ ImagePageRequest(m) \/ UpgradeEndRequest(m)
           \/ ConfirmIgnored(m) \/ (\E noAck \in BOOLEAN : ConfirmFailed(m, noAck))
           \/ MalformedQuery(m) \/ StrayZclFrame(m) \/ UserStep(m) \/ TimeStep(m),
           NEW n
    PROVE  ~DataSent(n)
<1>1. ASSUME NEW cmd, NEW status, NEW r, cmd # "blockRsp",
             apsPending' \subseteq apsPending \cup Sent(m, cmd, status, r)
      PROVE  ~DataSent(n)
  <2>1. \A f \in Sent(m, cmd, status, r) : f.cmd = cmd
    BY DEF Sent
  <2> QED
    BY <1>1, <2>1 DEF DataSent
<1>2. CASE apsPending' \subseteq apsPending
  BY <1>2 DEF DataSent
<1>3. CASE QueryNextImageRequest(m)
  <2>1. PICK nd \in UpdateChecked(m, [Received(node[m], "query") EXCEPT !.queried = TRUE]),
             r \in Outcomes :
           apsPending' = IF QueryStatus(m, nd) = "" THEN apsPending
                         ELSE apsPending \cup Sent(m, "queryRsp", QueryStatus(m, nd), r)
    BY <1>3, Zenon DEF QueryNextImageRequest
  <2>2. apsPending' \subseteq apsPending \cup Sent(m, "queryRsp", QueryStatus(m, nd), r)
    BY <2>1
  <2> QED
    BY <1>1, <2>2
<1>4. CASE ImagePageRequest(m)
  <2>1. \/ apsPending' = apsPending
        \/ \E r : apsPending' = apsPending \cup Sent(m, "defaultRsp", "ABORT", r)
    BY <1>4, Zenon DEF ImagePageRequest
  <2> QED
    BY <1>1, <1>2, <2>1
<1>5. CASE UpgradeEndRequest(m)
  <2>1. \E r : \/ apsPending' = apsPending \cup Sent(m, "defaultRsp", "ABORT", r)
               \/ apsPending' = apsPending \cup Sent(m, "endRsp", "SUCCESS", r)
               \/ apsPending' = apsPending \cup Sent(m, "defaultRsp", "SUCCESS", r)
    BY <1>5, Zenon DEF UpgradeEndRequest
  <2> QED
    BY <1>1, <2>1
<1>6. CASE ConfirmIgnored(m) \/ (\E noAck \in BOOLEAN : ConfirmFailed(m, noAck))
  <2>1. apsPending' \subseteq apsPending
    BY <1>6 DEF ConfirmIgnored, ConfirmFailed
  <2> QED
    BY <1>2, <2>1
<1>7. CASE MalformedQuery(m) \/ StrayZclFrame(m) \/ UserStep(m) \/ TimeStep(m)
  <2>1. apsPending' = apsPending
    BY <1>7, Zenon DEF MalformedQuery, StrayZclFrame, UserStep, TimeStep, AbortClicked,
                       UpdateClicked, FileSelectClicked, ResponseAges, ActivityAges,
                       TrackedAges, sessionVars
  <2> QED
    BY <1>2, <2>1
<1> QED
  BY <1>3, <1>4, <1>5, <1>6, <1>7

(* Whatever step sends data composed it from a node like that. *)
LEMMA DataSentFrom ==
    ASSUME TypeOK, Next, NEW n, DataSent(n)
    PROVE  DataFrom(n)
<1>1. CASE \/ PageTimerInactive \/ CleanupTimerFired \/ TrackerTick \/ QueryClicked
           \/ PageRequestBoxToggled \/ OtauDeactivated
  <2>1. apsPending' = apsPending
    BY <1>1, Zenon DEF PageTimerInactive, CleanupTimerFired, TrackerTick, QueryClicked,
                       PageRequestBoxToggled, OtauDeactivated, sessionVars
  <2> QED
    BY <2>1 DEF DataSent
<1> QED
  BY <1>1, BlockRequestData, ConfirmData, PageTimerData, OthersSendNoData
  DEF Next, TimerStep, DeviceStep, ConfirmStep

----------------------------------------------------------------------------
(* The theorems about data.                                                 *)

(* A delivered response leaves the size that is sent. *)
LEMMA DeliveredSize ==
    ASSUME NEW nd \in OtauNode
    PROVE  Delivered(nd).maxDataSize = nd.maxDataSize
  BY DEF Delivered, OtauNode

(* The bytes of a block of data are in the file and in the frame, and in a  *)
(* page they are not more than those of the block before.                   *)
LEMMA DataFits ==
    ASSUME TypeOK, Next, NEW n \in Nodes, DataSent(n)
    PROVE  /\ node'[n].offset + node'[n].maxDataSize <= RawSize[node'[n].rawFile]
           /\ node'[n].maxDataSize + RSP_HEADER_SIZE <= maxAsduDataSize'
           /\ node'[n].lastZclCmd = "page" => node'[n].maxDataSize <= node[n].maxDataSize
<1>1. PICK nd \in OtauNode :
         /\ BlockStatus(nd) = "SUCCESS"
         /\ node'[n].offset = nd.offset /\ node'[n].rawFile = nd.rawFile
         /\ node'[n].lastZclCmd = nd.lastZclCmd
         /\ node'[n].maxDataSize = BlockBytes(n, nd)
         /\ maxAsduDataSize' = maxAsduDataSize
         /\ nd.lastZclCmd = "page" => nd \in {node[n], Delivered(node[n])}
  BY DataSentFrom, Zenon DEF DataFrom
<1>2. AsduTypeOK /\ node[n] \in OtauNode
  BY DEF TypeOK, AsduTypeOK
<1>3. /\ nd.offset + BlockBytes(n, nd) <= RawSize[nd.rawFile]
      /\ BlockBytes(n, nd) + RSP_HEADER_SIZE <= maxAsduDataSize
      /\ BlockBytes(n, nd) <= nd.maxDataSize
  BY <1>1, <1>2, BlockBytesBounds
<1>4. nd.lastZclCmd = "page" => nd.maxDataSize = node[n].maxDataSize
  BY <1>1, <1>2, DeliveredSize
<1> QED
  BY <1>1, <1>3, <1>4

(* Every block of data lies inside the file it is read from and fits the    *)
(* frame size in force (imageBlockResponse), whatever the device asked for, *)
(* whichever file the user chose and whenever the size was reduced, and the *)
(* blocks of a page never grow.                                             *)
THEOREM BlocksAlwaysFit == Spec => BlocksFit
<1> DEFINE Fit == \A n \in Nodes : DataSent(n) =>
               /\ node'[n].offset + node'[n].maxDataSize <= RawSize[node'[n].rawFile]
               /\ node'[n].maxDataSize + RSP_HEADER_SIZE <= maxAsduDataSize'
               /\ node'[n].lastZclCmd = "page" => node'[n].maxDataSize <= node[n].maxDataSize
<1>1. TypeOK /\ [Next]_vars => [Fit]_vars
  BY DataFits
<1>2. Spec => [][Fit]_vars
  BY <1>1, TypeCorrect, PTL DEF Spec
<1> QED
  BY <1>2 DEF BlocksFit

(* The data of a page stays inside the page the device asked for, though    *)
(* blocks that were refused advance the page by sizes it does not bound,    *)
(* as long as the page is not at the end of the range of the counters.      *)
THEOREM DataStaysInPage == Spec => DataWithinPage
<1> DEFINE Within(n) == /\ node'[n].maxDataSize > 0
                        /\ node'[n].offset >= node'[n].pageOffset
                        /\ node'[n].offset + node'[n].maxDataSize
                              <= node'[n].pageOffset + node'[n].pageSize
           InPage == \A n \in Nodes :
               DataSent(n) /\ node'[n].lastZclCmd = "page" /\ PageInRange(node'[n])
                  => Within(n)
<1>1. TransferInv /\ [Next]_vars => [InPage]_vars
  <2> SUFFICES ASSUME TransferInv, Next, NEW n \in Nodes, DataSent(n),
                      node'[n].lastZclCmd = "page", PageInRange(node'[n])
               PROVE  Within(n)
    OBVIOUS
  <2>1. TypeOK /\ AsduTypeOK /\ node[n] \in OtauNode
    BY DEF TransferInv, PageInv, TypeOK, AsduTypeOK
  <2>2. PICK nd \in OtauNode :
           /\ BlockStatus(nd) = "SUCCESS" /\ ~BlockHeld(n, nd)
           /\ node'[n].offset = nd.offset
           /\ node'[n].pageOffset = nd.pageOffset /\ node'[n].pageSize = nd.pageSize
           /\ node'[n].lastZclCmd = nd.lastZclCmd
           /\ node'[n].maxDataSize = BlockBytes(n, nd)
           /\ ~PageDone(nd) /\ nd.state = "WaitPageSpacing"
           /\ \/ nd = node[n]
              \/ nd = Delivered(node[n]) /\ node[n].apsRequestId # INVALID_APS_REQ_ID
    BY <2>1, DataSentFrom DEF DataFrom
  <2>3. PageCounted(nd)
    <3>1. PageCounted(node[n]) /\ PageSafe(n, node[n], apsPending)
      BY DEF TransferInv, PagesCounted, PageInv, PagesSafe
    <3> QED
      BY <2>1, <2>2, <3>1, DeliveredCounted
  <2>4. nd.offset = nd.pageOffset + nd.pageBytesDone
    BY <2>2, <2>3 DEF PageCounted, Waiting, PageInRange
  <2>5. /\ nd.offset \in 0 .. U32 - 1 /\ nd.pageOffset \in 0 .. U32 - 1
        /\ nd.pageSize \in 0 .. U16 - 1 /\ nd.pageBytesDone \in 0 .. U16 - 1
    BY NodeNumbers
  <2>6. BlockBytes(n, nd) <= nd.pageSize - nd.pageBytesDone
    <3>1. nd.pageSize - nd.pageBytesDone \in 0 .. U32 - 1
      BY <2>2, <2>5, Widths DEF PageDone
    <3>2. (nd.pageSize - nd.pageBytesDone) % U32 = nd.pageSize - nd.pageBytesDone
      BY <3>1, ModSmall, Widths
    <3>3. PageRoom(nd.pageSize, nd.pageBytesDone) = nd.pageSize - nd.pageBytesDone
      BY <3>2 DEF PageRoom
    <3> QED
      BY <2>1, <2>2, <3>3, BlockBytesBounds
  <2>7. BlockBytes(n, nd) \in Nat /\ BlockBytes(n, nd) # 0
    <3>1. BlockBytes(n, nd) \in 0 .. U8 - 1
      BY <2>1, <2>2, BlockBytesBounds
    <3>2. BlockBytes(n, nd) # 0
      BY <2>2 DEF BlockHeld
    <3> QED
      BY <3>1, <3>2, Widths
  <2> DEFINE bytes == BlockBytes(n, nd)
  <2> HIDE DEF bytes
  <2>8. bytes > 0 /\ nd.offset >= nd.pageOffset
        /\ nd.offset + bytes <= nd.pageOffset + nd.pageSize
    BY <2>4, <2>5, <2>6, <2>7, Widths DEF bytes
  <2> QED
    BY <2>2, <2>8 DEF bytes
<1>2. Spec => [][InPage]_vars
  BY <1>1, TransferInvariant, PTL DEF Spec
<1> QED
  BY <1>2 DEF DataWithinPage

(* No FLS-H that must not get them is sent data of an older image, whatever *)
(* file the user chooses after queryNextImageResponse() has looked.         *)
THEOREM FlsHAreProtected == Spec => FlsHProtected
<1> DEFINE Protected == \A n \in FlsHNodes :
               DataSent(n) => FileVersion[node'[n].rawFile] >= FLS_H_VERSION
<1>1. TransferInv /\ [Next]_vars => [Protected]_vars
  <2> SUFFICES ASSUME TransferInv, Next, NEW n \in FlsHNodes, DataSent(n)
               PROVE  FileVersion[node'[n].rawFile] >= FLS_H_VERSION
    OBVIOUS
  <2>1. TypeOK /\ TypeOK'
    BY NextType DEF TransferInv, PageInv
  <2>2. n \in Nodes
    BY <2>1 DEF DataSent, TypeOK, Frame
  <2>3. PICK nd \in OtauNode :
           /\ BlockStatus(nd) = "SUCCESS" /\ nd.rawFile = node[n].rawFile
           /\ node'[n].rawFile = nd.rawFile
    BY <2>1, DataSentFrom, Zenon DEF DataFrom
  <2>4. nd.rawFile # NoImage
    <3>1. nd.offset < RawSize[nd.rawFile]
      BY <2>3, Zenon DEF BlockStatus
    <3>2. nd.offset \in Nat
      BY NodeNumbers, Widths
    <3> QED
      BY <3>1, <3>2, ServerAssumption DEF ServerAssumption
  <2> QED
    BY <2>2, <2>3, <2>4 DEF TransferInv, FlsHFiles
<1>2. Spec => [][Protected]_vars
  BY <1>1, TransferInvariant, PTL DEF Spec
<1> QED
  BY <1>2 DEF FlsHProtected

----------------------------------------------------------------------------
(* Offers and slots.                                                        *)

(* An offer is made only while the tracker has room, and marks the device.  *)
LEMMA OfferMarks ==
    ASSUME NEW n, NEW nd, QueryStatus(n, nd) = "SUCCESS"
    PROVE  ~Busy
  BY Zenon DEF QueryStatus

(* A device that is marked while there is room is in the tracker. *)
LEMMA MarkedIsTracked ==
    ASSUME TrackerTypeOK, NEW n \in Nodes, MarkOtauActivity(n), ~Busy
    PROVE  \E i \in DOMAIN otauTracker' : otauTracker'[i] = n
<1>1. CASE n \in Tracked
  BY <1>1 DEF MarkOtauActivity, Tracked
<1>2. CASE n \notin Tracked
  <2>1. otauTracker' = Append(otauTracker, n) /\ otauTracker \in Seq(Nodes)
    BY <1>2 DEF MarkOtauActivity, TrackerTypeOK
  <2>2. /\ otauTracker' \in Seq(Nodes) /\ Len(otauTracker) \in Nat
        /\ Len(otauTracker') = Len(otauTracker) + 1
        /\ otauTracker'[Len(otauTracker) + 1] = n
    BY <2>1, AppendProperties
  <2>3. Len(otauTracker) + 1 \in DOMAIN otauTracker'
    BY <2>2
  <2> QED
    BY <2>2, <2>3
<1> QED
  BY <1>1, <1>2

(* The frames of the other handlers are no offers. *)
LEMMA OthersOfferNothing ==
    ASSUME Next, NEW f \in apsPending' \ apsPending, f.cmd = "queryRsp"
    PROVE  \E n \in Nodes : QueryNextImageRequest(n)
<1>1. ASSUME NEW m, NEW nd, NEW r
      PROVE  f \notin BlockFrames(m, nd, r) /\ f \notin PageFrames(m, nd, r)
  BY DEF BlockFrames, PageFrames, Sent
<1>2. ASSUME NEW m \in Nodes, ImageBlockRequest(m)
      PROVE  FALSE
  <2>1. \E nd, r : apsPending' = apsPending \cup BlockFrames(m, nd, r)
    BY <1>2, Zenon DEF ImageBlockRequest
  <2> QED
    BY <1>1, <2>1
<1>3. ASSUME NEW m \in Nodes, ImagePageRequest(m) \/ UpgradeEndRequest(m)
      PROVE  FALSE
  <2>1. \/ apsPending' = apsPending
        \/ \E r : \/ apsPending' = apsPending \cup Sent(m, "defaultRsp", "ABORT", r)
                  \/ apsPending' = apsPending \cup Sent(m, "endRsp", "SUCCESS", r)
                  \/ apsPending' = apsPending \cup Sent(m, "defaultRsp", "SUCCESS", r)
    BY <1>3, Zenon DEF ImagePageRequest, UpgradeEndRequest
  <2> QED
    BY <2>1 DEF Sent
<1>4. ASSUME NEW m \in Nodes, ConfirmSucceeded(m)
      PROVE  FALSE
  <2>1. PICK id \in ReqIds, r \in Outcomes :
           LET nd    == Delivered(node[m])
               paged == nd.zclCommandId = "blockRsp" /\ nd.state = "WaitPageSpacing"
           IN  apsPending' = (apsPending \ InFlight(m, id))
                                \cup (IF paged THEN PageFrames(m, nd, r) ELSE {})
    BY <1>4, Zenon DEF ConfirmSucceeded
  <2>2. f \in PageFrames(m, Delivered(node[m]), r)
    BY <2>1
  <2> QED
    BY <1>1, <2>2
<1>5. ASSUME NEW m \in Nodes,
             ConfirmIgnored(m) \/ (\E noAck \in BOOLEAN : ConfirmFailed(m, noAck))
      PROVE  FALSE
  BY <1>5 DEF ConfirmIgnored, ConfirmFailed
<1>6. CASE PageTimerServes
  <2>1. PICK r \in DistinctOutcomes :
           apsPending' = apsPending \cup
               UNION {PageFrames(m, node[m], r[m]) :
                        m \in {k \in Nodes : node[k].state = "WaitPageSpacing"}}
    BY <1>6, Zenon DEF PageTimerServes
  <2>2. \E m \in Nodes : f \in PageFrames(m, node[m], r[m])
    BY <2>1
  <2> QED
    BY <1>1, <2>2
<1>7. ASSUME NEW m \in Nodes,
             MalformedQuery(m) \/ StrayZclFrame(m) \/ UserStep(m) \/ TimeStep(m)
      PROVE  apsPending' = apsPending
  BY <1>7, Zenon DEF MalformedQuery, StrayZclFrame, UserStep, TimeStep, AbortClicked,
                     UpdateClicked, FileSelectClicked, ResponseAges, ActivityAges,
                     TrackedAges, sessionVars
<1>8. CASE \/ PageTimerInactive \/ CleanupTimerFired \/ TrackerTick \/ QueryClicked
           \/ PageRequestBoxToggled \/ OtauDeactivated
  <2>1. apsPending' = apsPending
    BY <1>8, Zenon DEF PageTimerInactive, CleanupTimerFired, TrackerTick, QueryClicked,
                       PageRequestBoxToggled, OtauDeactivated, sessionVars
  <2> QED
    BY <2>1
<1> QED
  BY <1>2, <1>3, <1>4, <1>5, <1>6, <1>7, <1>8
  DEF Next, TimerStep, DeviceStep, ConfirmStep

(* A device that is offered an image (queryNextImageResponse) has one of    *)
(* the OTAU_MAX_ACTIVE slots.                                               *)
THEOREM OffersHoldSlots == Spec => OfferHoldsSlot
<1> DEFINE Holds == \A f \in apsPending' \ apsPending :
               f.cmd = "queryRsp" /\ f.status = "SUCCESS" =>
                  \E i \in DOMAIN otauTracker' : otauTracker'[i] = f.node
<1>1. TrackerInv /\ [Next]_vars => [Holds]_vars
  <2> SUFFICES ASSUME TrackerInv, Next, NEW f \in apsPending' \ apsPending,
                      f.cmd = "queryRsp", f.status = "SUCCESS"
               PROVE  \E i \in DOMAIN otauTracker' : otauTracker'[i] = f.node
    OBVIOUS
  <2>1. PICK n \in Nodes : QueryNextImageRequest(n)
    BY OthersOfferNothing
  <2>2. PICK nd \in UpdateChecked(n, [Received(node[n], "query") EXCEPT !.queried = TRUE]),
             r \in Outcomes :
           /\ apsPending' = IF QueryStatus(n, nd) = "" THEN apsPending
                            ELSE apsPending \cup Sent(n, "queryRsp", QueryStatus(n, nd), r)
           /\ QueryStatus(n, nd) = "SUCCESS" => MarkOtauActivity(n)
    BY <2>1, Zenon DEF QueryNextImageRequest
  <2>3. f \in Sent(n, "queryRsp", QueryStatus(n, nd), r)
    BY <2>2
  <2>4. f.node = n /\ QueryStatus(n, nd) = "SUCCESS"
    BY <2>3 DEF Sent
  <2>5. ~Busy
    BY <2>4, OfferMarks
  <2> QED
    BY <2>2, <2>4, <2>5, MarkedIsTracked DEF TrackerInv
<1>2. Spec => []TrackerInv
  BY ServerImplementsTracker, TrackerInvariant, PTL
<1>3. Spec => [][Holds]_vars
  BY <1>1, <1>2, PTL DEF Spec
<1> QED
  BY <1>3 DEF OfferHoldsSlot

----------------------------------------------------------------------------
(* Images and the cleanup timer.                                            *)

(* The step either runs the timer, or gives no image, or is the user's      *)
(* choice of a file for this very device.                                   *)
KeepsCleanup(n) ==
    node'[n].hasData /\ ~cleanupTimer' =>
        (node[n].hasData /\ ~cleanupTimer) \/ FileSelectClicked(n)

(* A confirm takes images away at most. *)
LEMMA ConfirmKeepsCleanup ==
    ASSUME TypeOK, NEW m \in Nodes, ConfirmStep(m), NEW n \in Nodes
    PROVE  KeepsCleanup(n)
<1>1. node[m] \in OtauNode /\ AsduTypeOK
  BY DEF TypeOK, AsduTypeOK
<1>2. cleanupTimer' = cleanupTimer
  BY Zenon DEF ConfirmStep, ConfirmIgnored, ConfirmFailed, ConfirmSucceeded
<1>3. SUFFICES node'[n].hasData => node[n].hasData
  BY <1>2 DEF KeepsCleanup
<1>4. CASE ConfirmIgnored(m)
  BY <1>4 DEF ConfirmIgnored
<1>5. CASE \E noAck \in BOOLEAN : ConfirmFailed(m, noAck)
  <2> DEFINE nd == [node[m] EXCEPT !.apsRequestId = INVALID_APS_REQ_ID]
  <2>1. node' = [node EXCEPT ![m] = nd]
    BY <1>5 DEF ConfirmFailed
  <2>2. nd.hasData = node[m].hasData
    BY <1>1 DEF OtauNode
  <2> HIDE DEF nd
  <2> QED
    BY <2>1, <2>2 DEF TypeOK
<1>6. CASE ConfirmSucceeded(m)
  <2> DEFINE nd == Delivered(node[m])
             paged == nd.zclCommandId = "blockRsp" /\ nd.state = "WaitPageSpacing"
  <2>1. PICK r \in Outcomes :
           node' = [node EXCEPT ![m] = IF paged THEN PageResponse(m, nd, r) ELSE nd]
    BY <1>6, Zenon DEF ConfirmSucceeded
  <2>2. nd \in OtauNode /\ r \in ReqIds \cup {Refused}
    BY <1>1, DeliveredType, OutcomesType
  <2>3. nd.hasData => node[m].hasData
    <3> DEFINE b == node[m].hasData /\ node[m].zclCommandId # "endRsp"
               d == (node[m].pageBytesDone + node[m].maxDataSize) % U16
               o == (node[m].offset + node[m].maxDataSize) % U32
    <3>1. nd \in {[node[m] EXCEPT !.apsRequestId = INVALID_APS_REQ_ID,
                                  !.pageBytesDone = d, !.offset = o],
                  [node[m] EXCEPT !.apsRequestId = INVALID_APS_REQ_ID, !.hasData = b]}
      BY DEF Delivered
    <3>2. b => node[m].hasData
      OBVIOUS
    <3> HIDE DEF nd, b, d, o
    <3> QED
      BY <1>1, <3>1, <3>2 DEF OtauNode
  <2> HIDE DEF nd
  <2> DEFINE after == IF paged THEN PageResponse(m, nd, r) ELSE nd
  <2>4. after.hasData = nd.hasData
    BY <1>1, <2>2, ResponsesKeepImage
  <2>5. node' = [node EXCEPT ![m] = after]
    BY <2>1
  <2> HIDE DEF after
  <2> QED
    BY <2>3, <2>4, <2>5 DEF TypeOK
<1> QED
  BY <1>4, <1>5, <1>6 DEF ConfirmStep

(* Of the small steps only the choice of a file gives an image, and that to *)
(* the device it is chosen for.                                             *)
LEMMA SmallStepsKeepCleanup ==
    ASSUME TypeOK, NEW m \in Nodes, StrayZclFrame(m) \/ UserStep(m) \/ TimeStep(m),
           NEW n \in Nodes
    PROVE  KeepsCleanup(n)
<1>1. node[m] \in OtauNode
  BY DEF TypeOK
<1>2. CASE FileSelectClicked(m)
  <2>1. m # n => node'[n] = node[n]
    BY <1>2 DEF FileSelectClicked, TypeOK
  <2>2. cleanupTimer' = cleanupTimer
    BY <1>2, Zenon DEF FileSelectClicked
  <2> QED
    BY <1>2, <2>1, <2>2 DEF KeepsCleanup
<1>3. CASE ~FileSelectClicked(m)
  <2>1. cleanupTimer' = cleanupTimer
    BY <1>3, Zenon DEF StrayZclFrame, UserStep, TimeStep, AbortClicked, UpdateClicked,
                       ResponseAges, ActivityAges, TrackedAges, sessionVars
  <2>2. SUFFICES node'[n].hasData => node[n].hasData
    BY <2>1 DEF KeepsCleanup
  <2> DEFINE SameImage(nd) ==
               nd.hasData = node[m].hasData /\ node' = [node EXCEPT ![m] = nd]
  <2>3. node' = node \/ \E nd : SameImage(nd)
    <3>1. CASE StrayZclFrame(m)
      <4>1. PICK cmd : node' = [node EXCEPT ![m] = Received(node[m], cmd)]
        BY <3>1 DEF StrayZclFrame
      <4>2. Received(node[m], cmd).hasData = node[m].hasData
        BY <1>1 DEF Received, OtauNode
      <4> QED
        BY <4>1, <4>2
    <3>2. CASE AbortClicked(m)
      <4> DEFINE nd == [node[m] EXCEPT !.permitUpdate = FALSE, !.state = "Abort"]
      <4>1. node' = [node EXCEPT ![m] = nd]
        BY <3>2 DEF AbortClicked, TypeOK
      <4>2. nd.hasData = node[m].hasData
        BY <1>1 DEF OtauNode
      <4> QED
        BY <4>1, <4>2
    <3>3. CASE UpdateClicked(m)
      <4> DEFINE b == node[m].permitUpdate \/ node[m].hasData
                 nd == [node[m] EXCEPT !.state = "Idle", !.permitUpdate = b]
      <4>1. node' = [node EXCEPT ![m] = nd]
        BY <1>1, <3>3 DEF UpdateClicked, TypeOK, OtauNode
      <4> HIDE DEF b
      <4>2. nd.hasData = node[m].hasData
        BY <1>1 DEF OtauNode
      <4> QED
        BY <4>1, <4>2
    <3>4. CASE ResponseAges(m)
      <4>1. PICK x : node' = [node EXCEPT ![m] = [node[m] EXCEPT !.lastResponseTime = x]]
        BY <3>4 DEF ResponseAges, TypeOK
      <4>2. [node[m] EXCEPT !.lastResponseTime = x].hasData = node[m].hasData
        BY <1>1 DEF OtauNode
      <4> QED
        BY <4>1, <4>2
    <3>5. CASE ActivityAges(m)
      <4>1. PICK x : node' = [node EXCEPT ![m] = [node[m] EXCEPT !.lastActivity = x]]
        BY <3>5 DEF ActivityAges, TypeOK
      <4>2. [node[m] EXCEPT !.lastActivity = x].hasData = node[m].hasData
        BY <1>1 DEF OtauNode
      <4> QED
        BY <4>1, <4>2
    <3>6. CASE TrackedAges(m)
      BY <3>6 DEF TrackedAges, sessionVars
    <3> QED
      BY <1>3, <3>1, <3>2, <3>3, <3>4, <3>5, <3>6 DEF UserStep, TimeStep
  <2> QED
    BY <2>3 DEF TypeOK
<1> QED
  BY <1>2, <1>3

(* A device holds an image without the cleanup timer, which alone takes it  *)
(* away again (cleanupTimerFired), only where the user chose the file.      *)
THEOREM CleanupTimerIsKept == Spec => CleanupTimerKept
<1>1. TypeOK /\ [Next]_vars => [\A n \in Nodes : KeepsCleanup(n)]_vars
  <2> SUFFICES ASSUME TypeOK, Next, NEW n \in Nodes
               PROVE  KeepsCleanup(n)
    OBVIOUS
  <2>1. ASSUME NEW m \in Nodes, DeviceStep(m) \/ MalformedQuery(m)
        PROVE  cleanupTimer'
    BY <2>1, Zenon DEF DeviceStep, QueryNextImageRequest, ImageBlockRequest,
                       ImagePageRequest, UpgradeEndRequest, MalformedQuery
  <2>2. CASE PageTimerServes
    <3>1. PICK r \in DistinctOutcomes :
             node' = [m \in Nodes |-> PageServed(m, node[m], r[m])]
      BY <2>2, Zenon DEF PageTimerServes
    <3>2. node[n] \in OtauNode /\ r[n] \in ReqIds \cup {Refused} /\ AsduTypeOK
      BY OutcomesType DEF DistinctOutcomes, TypeOK, AsduTypeOK
    <3>3. PageServed(n, node[n], r[n]).hasData = node[n].hasData
      BY <3>2, ResponsesKeepImage
    <3>4. cleanupTimer' = cleanupTimer
      BY <2>2, Zenon DEF PageTimerServes
    <3> QED
      BY <3>1, <3>3, <3>4 DEF KeepsCleanup
  <2>3. CASE CleanupTimerFired
    <3>1. cleanupTimer' = (\E m \in Nodes : node'[m].hasData)
      BY <2>3, Zenon DEF CleanupTimerFired
    <3> QED
      BY <3>1, Zenon DEF KeepsCleanup
  <2>4. CASE \/ PageTimerInactive \/ TrackerTick \/ QueryClicked
             \/ PageRequestBoxToggled \/ OtauDeactivated
    <3>1. node' = node /\ cleanupTimer' = cleanupTimer
      BY <2>4, Zenon DEF PageTimerInactive, TrackerTick, QueryClicked, PageRequestBoxToggled,
                         OtauDeactivated, sessionVars
    <3> QED
      BY <3>1 DEF KeepsCleanup
  <2>5. CASE \E m \in Nodes : DeviceStep(m) \/ MalformedQuery(m)
    BY <2>1, <2>5, Zenon DEF KeepsCleanup
  <2> QED
    BY <2>2, <2>3, <2>4, <2>5, ConfirmKeepsCleanup, SmallStepsKeepCleanup DEF Next, TimerStep
<1>2. Spec => [][\A n \in Nodes : KeepsCleanup(n)]_vars
  BY <1>1, TypeCorrect, PTL DEF Spec
<1> QED
  BY <1>2 DEF CleanupTimerKept, KeepsCleanup
=============================================================================
