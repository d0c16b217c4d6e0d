------------------------ MODULE OtauDelivery_proofs ------------------------
(* Proof that the server, the devices and the air between them implement    *)
(* OtauUpdate: a device gets an image from its first byte to its last,      *)
(* whatever is lost, repeated or overtaken.                                 *)
EXTENDS OtauDelivery, OtauTransfer_proofs

----------------------------------------------------------------------------
(* Pieces of images.                                                        *)

(* A piece of an image is a sequence of as many bytes. *)
LEMMA BytesSeq ==
    ASSUME NEW f \in Images, NEW from \in Nat, NEW count \in Nat
    PROVE  /\ Bytes(f, from, count) \in Seq(Images \X Nat)
           /\ Len(Bytes(f, from, count)) = count
           /\ \A i \in 1 .. count : Bytes(f, from, count)[i] = <<f, from + i>>
<1> DEFINE b == Bytes(f, from, count)
<1>1. b \in [1 .. count -> Images \X Nat]
  BY DEF Bytes
<1>2. b \in Seq(Images \X Nat)
  BY <1>1, SeqDef
<1>3. DOMAIN b = 1 .. Len(b) /\ Len(b) \in Nat
  BY <1>2, LenProperties
<1>4. Len(b) = count
  BY <1>1, <1>3
<1> QED
  BY <1>2, <1>4 DEF Bytes

(* No bytes at all are the beginning of every image. *)
LEMMA NoBytes ==
    ASSUME NEW f
    PROVE  Bytes(f, 0, 0) = << >> /\ Len(<< >>) = 0
<1>1. 1 .. 0 = {}
  OBVIOUS
<1> QED
  BY <1>1 DEF Bytes

(* Two pieces that join make one. *)
LEMMA BytesJoin ==
    ASSUME NEW f \in Images, NEW k \in Nat, NEW j \in Nat
    PROVE  Bytes(f, 0, k) \o Bytes(f, k, j) = Bytes(f, 0, k + j)
<1> DEFINE a == Bytes(f, 0, k)
           b == Bytes(f, k, j)
           c == Bytes(f, 0, k + j)
<1>1. /\ a \in Seq(Images \X Nat) /\ Len(a) = k
      /\ \A i \in 1 .. k : a[i] = <<f, 0 + i>>
  BY BytesSeq
<1>2. /\ b \in Seq(Images \X Nat) /\ Len(b) = j
      /\ \A i \in 1 .. j : b[i] = <<f, k + i>>
  BY BytesSeq
<1>3. /\ c \in Seq(Images \X Nat) /\ Len(c) = k + j
      /\ \A i \in 1 .. k + j : c[i] = <<f, 0 + i>>
  <2>1. k + j \in Nat /\ 0 \in Nat
    OBVIOUS
  <2> QED
    BY <2>1, BytesSeq
<1> HIDE DEF a, b, c
<1>4. /\ a \o b \in Seq(Images \X Nat) /\ Len(a \o b) = k + j
      /\ \A i \in 1 .. k + j : (a \o b)[i] = IF i <= k THEN a[i] ELSE b[i - k]
  BY <1>1, <1>2, ConcatProperties
<1>5. \A i \in 1 .. k + j : (a \o b)[i] = c[i]
  <2> SUFFICES ASSUME NEW i \in 1 .. k + j
               PROVE  (a \o b)[i] = c[i]
    OBVIOUS
  <2>1. CASE i <= k
    BY <1>1, <1>3, <1>4, <2>1, SMTT(40)
  <2>2. CASE ~(i <= k)
    <3>1. i - k \in 1 .. j /\ k + (i - k) = 0 + i
      BY <2>2
    <3>2. b[i - k] = <<f, 0 + i>>
      BY <1>2, <3>1
    <3> QED
      BY <1>3, <1>4, <2>2, <3>2
  <2> QED
    BY <2>1, <2>2
<1>6. a \o b = c
  BY <1>3, <1>4, <1>5, SeqEqual
<1> QED
  BY <1>6 DEF a, b, c

(* The version of an image names it, and no version names none. *)
LEMMA ImageOfVersion ==
    /\ \A f \in Images : ImageOf(FileVersion[f]) = f
    /\ ImageOf(NoVersion) = NoImage
<1>1. \A f, g \in Images : FileVersion[f] = FileVersion[g] => f = g
  BY DeliveryAssumption DEF DeliveryAssumption
<1>2. \A f \in Images : FileVersion[f] \in Int
  BY ServerAssumption DEF ServerAssumption, Files
<1>3. \A f \in Images : ImageOf(FileVersion[f]) = f
  <2> SUFFICES ASSUME NEW f \in Images
               PROVE  ImageOf(FileVersion[f]) = f
    OBVIOUS
  <2>1. ImageOf(FileVersion[f]) = CHOOSE g \in Images : FileVersion[g] = FileVersion[f]
    BY DEF ImageOf
  <2> QED
    BY <1>1, <2>1
<1>4. ImageOf(NoVersion) = NoImage
  BY <1>2, DeliveryAssumption DEF DeliveryAssumption, ImageOf
<1> QED
  BY <1>3, <1>4

----------------------------------------------------------------------------
(* The inductive invariant.  A device that asks for the version it was      *)
(* offered is answered from the image of that version, because files are    *)
(* replaced by newer ones only: what the device was offered is no newer     *)
(* than the image blocks are read from, and that is no newer than the file  *)
(* whose version the server compares and writes into its responses.         *)

(* v is the version of an image that is no newer than the one in rawFile. *)
NotNewer(v, nd) == v <= FileVersion[nd.rawFile]

VersionsOrdered ==
    \A n \in Nodes :
        /\ FileVersion[node[n].rawFile] <= FileVersion[node[n].file]
        /\ node[n].fileVersion \in Int => NotNewer(node[n].fileVersion, node[n])

(* A device has been offered nothing, or has the first bytes of an image.   *)
DeviceOK(d, nd) ==
    /\ \/ d.version = NoVersion /\ d.size = 0 /\ d.flash = << >>
       \/ \E f \in Images : /\ d.version = FileVersion[f] /\ d.size = RawSize[f]
                            /\ NotNewer(d.version, nd)
                            /\ \E k \in 0 .. RawSize[f] : d.flash = Bytes(f, 0, k)
    /\ d.running = NoVersion \/ \E f \in Images : d.running = FileVersion[f]

DeviceRecord == [version : Int \cup {NoVersion}, size : Nat, flash : Seq(Images \X Nat),
                 running : Int \cup {NoVersion}]

(* An offer names an image that has been copied to rawFile; a block has the *)
(* bytes of the image its version names.                                    *)
MessageOK(m, nd) ==
    /\ m.to \in Nodes
    /\ m.cmd \in {"stop", "queryRsp", "blockRsp", "endRsp"}
    /\ m.cmd = "queryRsp" =>
          \E f \in Images : /\ m.version = FileVersion[f] /\ m.size = RawSize[f]
                            /\ NotNewer(m.version, nd)
    /\ m.cmd = "blockRsp" =>
          \E f \in Images : /\ m.version = FileVersion[f]
                            /\ m.offset \in Nat
                            /\ \E k \in Nat : /\ m.offset + k <= RawSize[f]
                                              /\ m.data = Bytes(f, m.offset, k)

DeliveryInv ==
    /\ TransferInv
    /\ VersionsOrdered
    /\ dev \in [Nodes -> DeviceRecord]
    /\ \A n \in Nodes : DeviceOK(dev[n], node[n])
    /\ \A m \in air : MessageOK(m, node[m.to])

(* Fresh devices have been offered nothing. *)
LEMMA InitDelivery == DeliveryInit => DeliveryInv
<1> SUFFICES ASSUME DeliveryInit
             PROVE  DeliveryInv
  OBVIOUS
<1>1. TransferInv /\ air = {}
  BY InitTransfer DEF DeliveryInit
<1>2. FreshDevice \in DeviceRecord
  <2>1. << >> \in Seq(Images \X Nat)
    BY EmptySeq
  <2> QED
    BY <2>1 DEF FreshDevice, DeviceRecord
<1>3. dev = [n \in Nodes |-> FreshDevice]
  BY DEF DeliveryInit
<1>4. \A n \in Nodes : DeviceOK(dev[n], node[n])
  BY <1>3 DEF DeviceOK, FreshDevice
<1>5. VersionsOrdered
  <2>1. \A n \in Nodes : /\ node[n].file = NoImage /\ node[n].rawFile = NoImage
                         /\ node[n].fileVersion = FileVersion[NoImage]
    BY DEF DeliveryInit, Init, FreshNode
  <2>2. FileVersion[NoImage] \in Int
    BY ServerAssumption DEF ServerAssumption, Files
  <2> QED
    BY <2>1, <2>2 DEF VersionsOrdered, NotNewer
<1> QED
  BY <1>1, <1>2, <1>3, <1>4, <1>5 DEF DeliveryInv

----------------------------------------------------------------------------
(* Steps of the server.                                                     *)

(* The server in its network takes the steps of OtauServer. *)
LEMMA StepIsNext == ServerStep => Next
  BY Zenon DEF ServerStep, Next, Request, DeviceStep

(* Whatever happens to a node, its request still names the same version, or *)
(* the one its device asks for in this step.                                *)
VersionKept(n) == node'[n].fileVersion = node[n].fileVersion \/ Asks(n)

(* Steps of one device leave the versions of the others alone. *)
LEMMA OneVersionMoves ==
    ASSUME TypeOK, NEW n \in Nodes, NEW nd, node' = [node EXCEPT ![n] = nd],
           nd.fileVersion = node[n].fileVersion \/ Asks(n)
    PROVE  \A m \in Nodes : VersionKept(m)
  BY DEF VersionKept, TypeOK

(* A query does not touch the version of the block request. *)
LEMMA QueryKeepsVersion ==
    ASSUME TypeOK, NEW n \in Nodes, QueryNextImageRequest(n)
    PROVE  \A m \in Nodes : VersionKept(m)
<1> DEFINE rq == [Received(node[n], "query") EXCEPT !.queried = TRUE]
<1>1. node[n] \in OtauNode
  BY DEF TypeOK
<1>2. PICK nd \in UpdateChecked(n, rq), r \in Outcomes :
         node' = [node EXCEPT ![n] = QueryResponse(nd, QueryStatus(n, nd), r)]
  BY Zenon DEF QueryNextImageRequest
<1>3. rq \in OtauNode /\ rq.fileVersion = node[n].fileVersion
  <2>1. Received(node[n], "query") \in OtauNode
    BY <1>1, ReceivedType DEF ReqCmds
  <2>2. Received(node[n], "query").fileVersion = node[n].fileVersion
    BY <1>1 DEF Received, OtauNode
  <2> QED
    BY <2>1, <2>2 DEF OtauNode
<1> HIDE DEF rq
<1>4. nd \in OtauNode /\ nd.fileVersion = rq.fileVersion
  <2>1. nd \in OtauNode
    BY <1>2, <1>3, UpdateCheckedType
  <2>2. \/ nd \in {rq, [rq EXCEPT !.hasData = TRUE]}
        \/ \E f : nd \in {[rq EXCEPT !.file = f], [rq EXCEPT !.file = f, !.hasData = TRUE]}
    BY <1>2, Zenon DEF UpdateChecked
  <2> QED
    BY <1>3, <2>1, <2>2 DEF OtauNode
<1> DEFINE offer == IF QueryStatus(n, nd) = "SUCCESS"
                    THEN [nd EXCEPT !.rawFile = nd.file] ELSE nd
           qr == QueryResponse(nd, QueryStatus(n, nd), r)
<1>5. offer \in OtauNode /\ offer.fileVersion = nd.fileVersion
  BY <1>4 DEF OtauNode
<1>6. qr.fileVersion = offer.fileVersion
  <2>1. qr \in {[offer EXCEPT !.state = "Idle"],
                [offer EXCEPT !.state = "WaitConfirm", !.apsRequestId = r,
                              !.zclCommandId = "queryRsp"]}
    BY DEF QueryResponse
  <2> HIDE DEF offer, qr
  <2> QED
    BY <1>5, <2>1 DEF OtauNode
<1> HIDE DEF offer
<1>7. qr.fileVersion = node[n].fileVersion
  BY <1>3, <1>4, <1>5, <1>6
<1> QED
  BY <1>2, <1>7, OneVersionMoves

(* The other requests store the version that the device asks for, or none. *)
LEMMA RequestKeepsVersion ==
    ASSUME TypeOK, NEW n \in Nodes, Request(n)
    PROVE  \A m \in Nodes : VersionKept(m)
<1>1. node[n] \in OtauNode
  BY DEF TypeOK
<1>2. CASE ImageBlockRequest(n) /\ Asks(n)
  <2>1. \E nd : node' = [node EXCEPT ![n] = nd]
    BY <1>2, Zenon DEF ImageBlockRequest
  <2> QED
    BY <1>2, <2>1, OneVersionMoves
<1>3. CASE ImagePageRequest(n) /\ (pageRequestEnabled /\ node[n].state # "Abort" => Asks(n))
  <2> DEFINE nd == Received(node[n], "page")
  <2>1. nd.state = node[n].state /\ nd.fileVersion = node[n].fileVersion /\ nd \in OtauNode
    BY <1>1, ReceivedType DEF Received, OtauNode, ReqCmds
  <2>2. CASE pageRequestEnabled /\ nd.state # "Abort"
    <3>1. \E x : node' = [node EXCEPT ![n] = x]
      BY <1>3, Zenon DEF ImagePageRequest
    <3>2. Asks(n)
      BY <1>3, <2>1, <2>2
    <3> QED
      BY <3>1, <3>2, OneVersionMoves
  <2>3. CASE ~(pageRequestEnabled /\ nd.state # "Abort")
    <3>1. \/ node' = [node EXCEPT ![n] = nd]
          \/ \E r \in Outcomes : node' = [node EXCEPT ![n] = DefaultResponse(nd, r)]
      BY <1>3, <2>3, Zenon DEF ImagePageRequest
    <3>2. \A r : DefaultResponse(nd, r).fileVersion = nd.fileVersion
      <4> HIDE DEF nd
      <4> QED
        BY <2>1 DEF DefaultResponse, OtauNode
    <3> HIDE DEF nd
    <3> QED
      BY <2>1, <3>1, <3>2, OneVersionMoves
  <2> QED
    BY <2>2, <2>3
<1>4. CASE UpgradeEndRequest(n)
  <2> DEFINE nd == [Received(node[n], "end") EXCEPT !.state = "Idle"]
             done == [nd EXCEPT !.hasData = FALSE, !.permitUpdate = FALSE]
  <2>1. PICK r \in Outcomes :
           \/ node' = [node EXCEPT ![n] = DefaultResponse(nd, r)]
           \/ node' = [node EXCEPT ![n] = UpgradeEndResponse(done, r)]
    BY <1>4, Zenon DEF UpgradeEndRequest
  <2>2. /\ "fileVersion" \in DOMAIN nd /\ "fileVersion" \in DOMAIN done
        /\ nd.fileVersion = node[n].fileVersion /\ done.fileVersion = node[n].fileVersion
    BY <1>1 DEF Received, OtauNode
  <2> HIDE DEF nd, done
  <2>3. /\ DefaultResponse(nd, r).fileVersion = node[n].fileVersion
        /\ UpgradeEndResponse(done, r).fileVersion = node[n].fileVersion
    BY <2>2 DEF DefaultResponse, UpgradeEndResponse
  <2> QED
    BY <2>1, <2>3, OneVersionMoves
<1> QED
  BY <1>2, <1>3, <1>4, QueryKeepsVersion DEF Request

(* Confirms and timers answer the request as it is stored. *)
LEMMA ConfirmKeepsVersion ==
    ASSUME TypeOK, NEW n \in Nodes, ConfirmStep(n)
    PROVE  \A m \in Nodes : VersionKept(m)
<1>1. node[n] \in OtauNode /\ AsduTypeOK
  BY DEF TypeOK, AsduTypeOK
<1>2. CASE ConfirmIgnored(n)
  BY <1>2 DEF ConfirmIgnored, VersionKept
<1>3. ASSUME NEW noAck \in BOOLEAN, ConfirmFailed(n, noAck)
      PROVE  \A m \in Nodes : VersionKept(m)
  <2> DEFINE nd == [node[n] EXCEPT !.apsRequestId = INVALID_APS_REQ_ID]
  <2>1. node' = [node EXCEPT ![n] = nd]
    BY <1>3 DEF ConfirmFailed
  <2>2. nd.fileVersion = node[n].fileVersion
    BY <1>1 DEF OtauNode
  <2> QED
    BY <2>1, <2>2, OneVersionMoves
<1>4. CASE ConfirmSucceeded(n)
  <2> DEFINE nd == Delivered(node[n])
             paged == nd.zclCommandId = "blockRsp" /\ nd.state = "WaitPageSpacing"
             aft(r) == IF paged THEN PageResponse(n, nd, r) ELSE nd
  <2>1. PICK r \in Outcomes :
           node' = [node EXCEPT ![n] = IF paged THEN PageResponse(n, nd, r) ELSE nd]
    BY <1>4, Zenon DEF ConfirmSucceeded
  <2>2. nd \in OtauNode /\ r \in ReqIds \cup {Refused}
    BY <1>1, DeliveredType, OutcomesType
  <2>3. nd.fileVersion = node[n].fileVersion
    BY <1>1 DEF Delivered, OtauNode
  <2> HIDE DEF nd
  <2>4. aft(r).fileVersion = nd.fileVersion
    BY <1>1, <2>2, ResponsesKeepImage
  <2>5. node' = [node EXCEPT ![n] = aft(r)]
    BY <2>1
  <2> HIDE DEF aft
  <2> QED
    BY <2>3, <2>4, <2>5, OneVersionMoves
<1> QED
  BY <1>2, <1>3, <1>4 DEF ConfirmStep

(* So do frames without an answer, the user and the passing of time. *)
LEMMA SmallStepsKeepVersion ==
    ASSUME TypeOK, NEW n \in Nodes,
           MalformedQuery(n) \/ StrayZclFrame(n) \/ UserStep(n) \/ TimeStep(n)
    PROVE  \A m \in Nodes : VersionKept(m)
<1>1. node[n] \in OtauNode
  BY DEF TypeOK
<1>2. \A m \in Nodes \ {n} : node'[m] = node[m]
  BY DEF MalformedQuery, StrayZclFrame, UserStep, TimeStep, AbortClicked, UpdateClicked,
         FileSelectClicked, ResponseAges, ActivityAges, TrackedAges, sessionVars, TypeOK
<1>3. SUFFICES node'[n].fileVersion = node[n].fileVersion
  BY <1>2 DEF VersionKept
<1>4. CASE MalformedQuery(n) \/ StrayZclFrame(n)
  <2>1. \E cmd : node'[n] = Received(node[n], cmd)
    BY <1>4 DEF MalformedQuery, StrayZclFrame, TypeOK
  <2>2. \A cmd : Received(node[n], cmd).fileVersion = node[n].fileVersion
    BY <1>1 DEF Received, OtauNode
  <2> QED
    BY <2>1, <2>2
<1>5. ASSUME NEW x, NEW y,
             node'[n] \in {[node[n] EXCEPT !.state = x, !.permitUpdate = y],
                           [node[n] EXCEPT !.file = x],
                           [node[n] EXCEPT !.file = x, !.hasData = TRUE,
                                           !.lastActivity = "fresh"],
                           [node[n] EXCEPT !.lastResponseTime = x],
                           [node[n] EXCEPT !.lastActivity = x]}
      PROVE  node'[n].fileVersion = node[n].fileVersion
  BY <1>1, <1>5 DEF OtauNode
<1>6. CASE AbortClicked(n)
  <2>1. node'[n] = [node[n] EXCEPT !.state = "Abort", !.permitUpdate = FALSE]
    BY <1>1, <1>6 DEF AbortClicked, TypeOK, OtauNode
  <2> QED
    BY <1>5, <2>1
<1>7. CASE UpdateClicked(n)
  <2> DEFINE b == node[n].permitUpdate \/ node[n].hasData
  <2>1. node'[n] = [node[n] EXCEPT !.state = "Idle", !.permitUpdate = b]
    BY <1>1, <1>7 DEF UpdateClicked, TypeOK, OtauNode
  <2> HIDE DEF b
  <2> QED
    BY <1>5, <2>1
<1>8. CASE FileSelectClicked(n)
  <2>1. \E f : node'[n] \in {[node[n] EXCEPT !.file = f],
                             [node[n] EXCEPT !.file = f, !.hasData = TRUE,
                                             !.lastActivity = "fresh"]}
    BY <1>8 DEF FileSelectClicked, TypeOK
  <2> QED
    BY <1>5, <2>1
<1>9. CASE ResponseAges(n)
  <2>1. \E x : node'[n] = [node[n] EXCEPT !.lastResponseTime = x]
    BY <1>9 DEF ResponseAges, TypeOK
  <2> QED
    BY <1>5, <2>1
<1>10. CASE ActivityAges(n)
  <2>1. \E x : node'[n] = [node[n] EXCEPT !.lastActivity = x]
    BY <1>10 DEF ActivityAges, TypeOK
  <2> QED
    BY <1>5, <2>1
<1>11. CASE TrackedAges(n)
  BY <1>11 DEF TrackedAges, sessionVars
<1> QED
  BY <1>4, <1>6, <1>7, <1>8, <1>9, <1>10, <1>11 DEF UserStep, TimeStep

(* Every step of the server. *)
LEMMA StepKeepsVersion ==
    ASSUME TypeOK, ServerStep
    PROVE  \A m \in Nodes : VersionKept(m)
<1>1. CASE PageTimerServes
  <2> SUFFICES ASSUME NEW n \in Nodes
               PROVE  VersionKept(n)
    OBVIOUS
  <2>1. PICK r \in DistinctOutcomes :
           node' = [m \in Nodes |-> PageServed(m, node[m], r[m])]
    BY <1>1, Zenon DEF PageTimerServes
  <2>2. node[n] \in OtauNode /\ r[n] \in ReqIds \cup {Refused} /\ AsduTypeOK
    BY OutcomesType DEF DistinctOutcomes, TypeOK, AsduTypeOK
  <2>3. PageServed(n, node[n], r[n]).fileVersion = node[n].fileVersion
    BY <2>2, ResponsesKeepImage
  <2> QED
    BY <2>1, <2>3 DEF VersionKept
<1>2. CASE CleanupTimerFired
  BY <1>2 DEF CleanupTimerFired, TypeOK, OtauNode, VersionKept
<1>3. CASE \/ PageTimerInactive \/ TrackerTick \/ QueryClicked
           \/ PageRequestBoxToggled \/ OtauDeactivated
  <2>1. node' = node
    BY <1>3, Zenon DEF PageTimerInactive, TrackerTick, QueryClicked, PageRequestBoxToggled,
                       OtauDeactivated, sessionVars
  <2> QED
    BY <2>1 DEF VersionKept
<1> QED
  BY <1>1, <1>2, <1>3, RequestKeepsVersion, ConfirmKeepsVersion, SmallStepsKeepVersion
  DEF ServerStep, TimerStep

----------------------------------------------------------------------------
(* What a step of the server does to the versions.                          *)

(* The version of every file is a number. *)
LEMMA VersionNumbers ==
    ASSUME NEW nd \in OtauNode
    PROVE  /\ FileVersion[nd.file] \in Int /\ FileVersion[nd.rawFile] \in Int
           /\ nd.file \in Files /\ nd.rawFile \in Files
  BY NodeNumbers, ServerAssumption DEF ServerAssumption

(* Blocks are read from a file that only gets newer, and never newer than   *)
(* the one selected.                                                        *)
LEMMA VersionsAdvance ==
    ASSUME DeliveryInv, ServerStep, Forward
    PROVE  /\ VersionsOrdered'
           /\ \A n \in Nodes : FileVersion[node[n].rawFile] <= FileVersion[node'[n].rawFile]
<1>1. TypeOK /\ TypeOK'
  BY StepIsNext, NextType DEF DeliveryInv, TransferInv, PageInv
<1>2. ASSUME NEW n \in Nodes
      PROVE  /\ FileVersion[node[n].rawFile] <= FileVersion[node'[n].rawFile]
             /\ FileVersion[node'[n].rawFile] <= FileVersion[node'[n].file]
             /\ node'[n].fileVersion \in Int =>
                   node'[n].fileVersion <= FileVersion[node'[n].rawFile]
  <2>1. node[n] \in OtauNode /\ node'[n] \in OtauNode
    BY <1>1 DEF TypeOK
  <2>2. /\ FileVersion[node[n].file] \in Int /\ FileVersion[node[n].rawFile] \in Int
        /\ FileVersion[node'[n].file] \in Int /\ FileVersion[node'[n].rawFile] \in Int
    BY <2>1, VersionNumbers
  <2>3. node'[n].rawFile = node[n].rawFile \/ node'[n].rawFile = node'[n].file
    <3>1. Stepped(n)
      BY <1>1, StepIsNext, NextMoves
    <3> QED
      BY <3>1 DEF Stepped, RawFileKept
  <2>4. /\ FileVersion[node[n].rawFile] <= FileVersion[node[n].file]
        /\ node[n].fileVersion \in Int => node[n].fileVersion <= FileVersion[node[n].rawFile]
    BY DEF DeliveryInv, VersionsOrdered, NotNewer
  <2>5. FileVersion[node[n].file] <= FileVersion[node'[n].file]
    BY DEF Forward
  <2>6. /\ FileVersion[node[n].rawFile] <= FileVersion[node'[n].rawFile]
        /\ FileVersion[node'[n].rawFile] <= FileVersion[node'[n].file]
    BY <2>2, <2>3, <2>4, <2>5
  <2>7. dev[n].version \in Int => dev[n].version <= FileVersion[node[n].rawFile]
    BY DeliveryAssumption DEF DeliveryAssumption, DeliveryInv, DeviceOK, NotNewer
  <2>8. node'[n].fileVersion \in {node[n].fileVersion, dev[n].version}
    <3>1. VersionKept(n)
      BY <1>1, StepKeepsVersion
    <3> QED
      BY <3>1 DEF VersionKept, Asks
  <2> QED
    BY <2>2, <2>4, <2>6, <2>7, <2>8
<1> QED
  BY <1>2 DEF VersionsOrdered, NotNewer

(* An offer names the file it has just copied, and that is an image. *)
LEMMA OfferedIsCopied ==
    ASSUME TypeOK, Next, NEW f \in apsPending' \ apsPending,
           f.cmd = "queryRsp", f.status = "SUCCESS"
    PROVE  /\ node'[f.node].rawFile = node'[f.node].file
           /\ node'[f.node].file \in Images
<1>1. PICK n \in Nodes : QueryNextImageRequest(n)
  BY OthersOfferNothing
<1> DEFINE rq == [Received(node[n], "query") EXCEPT !.queried = TRUE]
<1>2. PICK nd \in UpdateChecked(n, rq), r \in Outcomes :
         /\ node' = [node EXCEPT ![n] = QueryResponse(nd, QueryStatus(n, nd), r)]
         /\ apsPending' = IF QueryStatus(n, nd) = "" THEN apsPending
                          ELSE apsPending \cup Sent(n, "queryRsp", QueryStatus(n, nd), r)
  BY <1>1, Zenon DEF QueryNextImageRequest
<1>3. f \in Sent(n, "queryRsp", QueryStatus(n, nd), r)
  BY <1>2
<1>4. f.node = n /\ QueryStatus(n, nd) = "SUCCESS"
  BY <1>3 DEF Sent
<1>5. nd \in OtauNode
  <2>1. Received(node[n], "query") \in OtauNode
    BY ReceivedType DEF TypeOK, ReqCmds
  <2>2. rq \in OtauNode
    BY <2>1 DEF OtauNode
  <2> HIDE DEF rq
  <2> QED
    BY <1>2, <2>2, UpdateCheckedType
<1>6. nd.file \in Images
  <2>1. RawSize[nd.file] # 0
    BY <1>4, Zenon DEF QueryStatus
  <2> QED
    BY <1>5, <2>1, NodeNumbers, ServerAssumption DEF ServerAssumption, Files
<1> DEFINE offer == [nd EXCEPT !.rawFile = nd.file]
           qr == QueryResponse(nd, "SUCCESS", r)
<1>7. offer \in OtauNode /\ offer.rawFile = nd.file /\ offer.file = nd.file
  BY <1>5 DEF OtauNode
<1>8. qr.rawFile = nd.file /\ qr.file = nd.file
  <2>1. qr \in {[offer EXCEPT !.state = "Idle"],
                [offer EXCEPT !.state = "WaitConfirm", !.apsRequestId = r,
                              !.zclCommandId = "queryRsp"]}
    BY DEF QueryResponse
  <2> HIDE DEF offer, qr
  <2> QED
    BY <1>7, <2>1 DEF OtauNode
<1>9. node'[n] = qr
  BY <1>2, <1>4 DEF TypeOK
<1> QED
  BY <1>4, <1>6, <1>8, <1>9

(* A block of data is read from the image whose version it names: its       *)
(* request passed the comparison of versions, and the versions are ordered. *)
LEMMA DataIsOfImage ==
    ASSUME TypeOK, Next, VersionsOrdered', NEW n \in Nodes, DataSent(n)
    PROVE  /\ node'[n].file \in Images /\ node'[n].rawFile = node'[n].file
           /\ node'[n].offset \in Nat /\ node'[n].maxDataSize \in Nat
           /\ node'[n].offset + node'[n].maxDataSize <= RawSize[node'[n].file]
<1>1. PICK nd \in OtauNode :
         /\ BlockStatus(nd) = "SUCCESS"
         /\ node'[n].offset = nd.offset /\ node'[n].rawFile = nd.rawFile
         /\ node'[n].file = nd.file /\ node'[n].fileVersion = nd.fileVersion
  BY DataSentFrom, Zenon DEF DataFrom
<1>2. nd.fileVersion = FileVersion[nd.file] /\ nd.offset < RawSize[nd.rawFile]
  BY <1>1 DEF BlockStatus
<1>3. /\ nd.offset \in Nat /\ nd.file \in Files /\ nd.rawFile \in Files
      /\ FileVersion[nd.file] \in Int /\ FileVersion[nd.rawFile] \in Int
  BY NodeNumbers, VersionNumbers, Widths
<1>4. nd.rawFile \in Images
  BY <1>2, <1>3, ServerAssumption DEF ServerAssumption, Files
<1>5. /\ FileVersion[nd.rawFile] <= FileVersion[nd.file]
      /\ FileVersion[nd.file] <= FileVersion[nd.rawFile]
  BY <1>1, <1>2, <1>3 DEF VersionsOrdered, NotNewer
<1>6. FileVersion[nd.rawFile] = FileVersion[nd.file]
  BY <1>3, <1>5
<1>7. nd.file = nd.rawFile
  BY <1>3, <1>4, <1>6, DeliveryAssumption DEF DeliveryAssumption, Files
<1>8. TypeOK'
  BY NextType
<1>9. node'[n].maxDataSize \in Nat
  BY <1>8, NodeNumbers, Widths DEF TypeOK
<1>10. node'[n].offset + node'[n].maxDataSize <= RawSize[node'[n].rawFile]
  BY DataFits
<1> QED
  BY <1>1, <1>3, <1>4, <1>7, <1>9, <1>10

(* So every response the server sends is one the devices can rely on. *)
LEMMA SentIsGood ==
    ASSUME TypeOK, Next, VersionsOrdered', NEW f \in apsPending' \ apsPending,
           NEW m, m = Message(f)
    PROVE  MessageOK(m, node'[m.to])
<1>1. f \in Frame
  BY NextType DEF TypeOK
<1>2. f.node \in Nodes /\ f.cmd \in RspCmds
  BY <1>1 DEF Frame
<1>3. CASE f.status # "SUCCESS" \/ f.cmd = "defaultRsp"
  <2>1. m = Stop(f.node)
    BY <1>3 DEF Message
  <2> QED
    BY <1>2, <2>1 DEF Stop, MessageOK
<1>4. CASE f.status = "SUCCESS" /\ f.cmd # "defaultRsp"
  <2> DEFINE nd == node'[f.node]
             bytes == Bytes(nd.rawFile, nd.offset, nd.maxDataSize)
  <2>1. /\ m.to = f.node /\ m.cmd = f.cmd /\ m.version = FileVersion[nd.file]
        /\ f.cmd = "queryRsp" => m.size = RawSize[nd.file]
        /\ f.cmd = "blockRsp" => m.offset = nd.offset /\ m.data = bytes
    BY <1>4 DEF Message
  <2>2. CASE f.cmd = "queryRsp"
    <3>1. nd.rawFile = nd.file /\ nd.file \in Images
      BY <1>4, <2>2, OfferedIsCopied
    <3>2. FileVersion[nd.file] \in Int
      BY <3>1, ServerAssumption DEF ServerAssumption, Files
    <3> HIDE DEF nd, bytes
    <3> QED
      BY <1>2, <2>1, <2>2, <3>1, <3>2 DEF MessageOK, NotNewer, nd
  <2>3. CASE f.cmd = "blockRsp"
    <3>1. DataSent(f.node)
      BY <1>4, <2>3 DEF DataSent
    <3>2. /\ nd.file \in Images /\ nd.rawFile = nd.file
          /\ nd.offset \in Nat /\ nd.maxDataSize \in Nat
          /\ nd.offset + nd.maxDataSize <= RawSize[nd.file]
      BY <1>2, <3>1, DataIsOfImage
    <3>3. m.data = Bytes(nd.file, m.offset, nd.maxDataSize)
      BY <2>1, <2>3, <3>2
    <3> HIDE DEF nd, bytes
    <3> QED
      BY <1>2, <2>1, <2>3, <3>2, <3>3 DEF MessageOK
  <2>4. CASE f.cmd = "endRsp"
    BY <1>2, <2>1, <2>4 DEF MessageOK
  <2> QED
    BY <1>2, <1>4, <2>2, <2>3, <2>4 DEF RspCmds
<1> QED
  BY <1>3, <1>4

(* A response that is on the way when the server moves on stays good, and   *)
(* what a device has does too.                                              *)
LEMMA StepKeepsDelivery ==
    ASSUME DeliveryInv, ServerStep, Forward, OnAir, dev' = dev
    PROVE  DeliveryInv'
<1>1. TypeOK /\ Next /\ VersionsOrdered'
  BY StepIsNext, VersionsAdvance DEF DeliveryInv, TransferInv, PageInv
<1>2. TransferInv' /\ TypeOK'
  BY <1>1, NextTransfer, NextType DEF DeliveryInv
<1>3. ASSUME NEW n \in Nodes, NEW v \in Int, NotNewer(v, node[n])
      PROVE  NotNewer(v, node'[n])
  <2>1. node[n] \in OtauNode /\ node'[n] \in OtauNode
    BY <1>1, <1>2 DEF TypeOK
  <2>2. FileVersion[node[n].rawFile] \in Int /\ FileVersion[node'[n].rawFile] \in Int
    BY <2>1, VersionNumbers
  <2>3. FileVersion[node[n].rawFile] <= FileVersion[node'[n].rawFile]
    BY VersionsAdvance
  <2> QED
    BY <1>3, <2>2, <2>3 DEF NotNewer
<1>4. \A f \in Images : FileVersion[f] \in Int
  BY ServerAssumption DEF ServerAssumption, Files
<1>5. ASSUME NEW n \in Nodes
      PROVE  DeviceOK(dev[n], node'[n])
  <2>1. DeviceOK(dev[n], node[n])
    BY DEF DeliveryInv
  <2> QED
    BY <1>3, <1>4, <2>1 DEF DeviceOK
<1>6. ASSUME NEW m \in air'
      PROVE  MessageOK(m, node'[m.to])
  <2>1. CASE m \in air
    <3>1. MessageOK(m, node[m.to])
      BY <2>1 DEF DeliveryInv
    <3> QED
      BY <1>3, <1>4, <3>1 DEF MessageOK
  <2>2. CASE m \notin air
    <3>1. PICK f \in apsPending' \ apsPending : m = Message(f)
      BY <2>2, Zenon DEF OnAir
    <3> QED
      BY <1>1, <3>1, SentIsGood
  <2> QED
    BY <2>1, <2>2
<1> QED
  BY <1>1, <1>2, <1>5, <1>6 DEF DeliveryInv

----------------------------------------------------------------------------
(* What arrives at a device.                                                *)

(* What a device stands for in OtauUpdate: it is getting nothing and has no *)
(* byte, or it has k bytes of image f.                                      *)
Empty(d) == ImageOf(d.version) = NoImage /\ Done(d) = 0

Holds(d, f, k) ==
    /\ d.version = FileVersion[f] /\ d.size = RawSize[f] /\ d.flash = Bytes(f, 0, k)
    /\ Len(d.flash) = k /\ ImageOf(d.version) = f /\ Done(d) = k

(* A device without a version is getting nothing. *)
LEMMA NothingOffered ==
    ASSUME NEW d, d.version = NoVersion, d.flash = << >>
    PROVE  Empty(d)
  BY ImageOfVersion, NoBytes DEF Empty, Done

(* A device with the first bytes of an image has as many of it. *)
LEMMA FirstBytes ==
    ASSUME NEW d, NEW f \in Images, NEW k \in Nat, d.version = FileVersion[f],
           d.size = RawSize[f], d.flash = Bytes(f, 0, k)
    PROVE  Holds(d, f, k)
<1>1. Len(d.flash) = k
  <2>1. 0 \in Nat
    OBVIOUS
  <2> QED
    BY <2>1, BytesSeq, ZenonT(60)
<1>2. ImageOf(d.version) = f
  BY ImageOfVersion
<1> QED
  BY <1>1, <1>2 DEF Holds, Done

(* What the response m does to a device, in terms of OtauUpdate. *)
TakenStep(d, d2) ==
    \/ d2 = d
    \/ /\ Done(d2) = 0 /\ d2.running = d.running
       /\ ImageOf(d2.version) \in Images \cup {NoImage}
    \/ /\ ImageOf(d2.version) = ImageOf(d.version) /\ d2.running = d.running
       /\ \/ Done(d2) = Done(d)
          \/ /\ ImageOf(d.version) \in Images
             /\ Done(d2) \in Done(d) + 1 .. RawSize[ImageOf(d.version)]
    \/ /\ ImageOf(d.version) \in Images /\ Done(d) = RawSize[ImageOf(d.version)]
       /\ ImageOf(d2.running) = ImageOf(d.version) /\ Empty(d2)

(* A device that is told to stop has nothing. *)
LEMMA StopTaken ==
    ASSUME NEW nd, NEW d \in DeviceRecord, DeviceOK(d, nd),
           NEW d2, d2 = [d EXCEPT !.version = NoVersion, !.size = 0, !.flash = << >>]
    PROVE  d2 \in DeviceRecord /\ DeviceOK(d2, nd) /\ TakenStep(d, d2)
<1>1. /\ d2.version = NoVersion /\ d2.size = 0 /\ d2.flash = << >> /\ d2.running = d.running
      /\ d2 \in DeviceRecord
  <2>1. << >> \in Seq(Images \X Nat)
    BY EmptySeq
  <2> QED
    BY <2>1 DEF DeviceRecord
<1>2. Empty(d2)
  BY <1>1, NothingOffered
<1>3. DeviceOK(d2, nd)
  BY <1>1 DEF DeviceOK
<1> QED
  BY <1>1, <1>2, <1>3 DEF TakenStep, Empty

(* A device that takes an offer starts at the first byte of the image. *)
LEMMA OfferTaken ==
    ASSUME NEW nd, NEW d \in DeviceRecord, DeviceOK(d, nd), NEW f \in Images,
           NotNewer(FileVersion[f], nd),
           NEW d2, d2 = [d EXCEPT !.version = FileVersion[f], !.size = RawSize[f],
                                  !.flash = << >>]
    PROVE  d2 \in DeviceRecord /\ DeviceOK(d2, nd) /\ TakenStep(d, d2)
<1>1. FileVersion[f] \in Int /\ RawSize[f] \in Nat
  BY ServerAssumption, Widths DEF ServerAssumption, Files
<1>2. /\ d2.version = FileVersion[f] /\ d2.size = RawSize[f] /\ d2.running = d.running
      /\ d2.flash = << >> /\ d2 \in DeviceRecord
  <2>1. << >> \in Seq(Images \X Nat)
    BY EmptySeq
  <2> QED
    BY <1>1, <2>1 DEF DeviceRecord
<1>3. d2.flash = Bytes(f, 0, 0)
  BY <1>2, NoBytes
<1>4. Holds(d2, f, 0)
  BY <1>2, <1>3, FirstBytes
<1>5. 0 \in 0 .. RawSize[f]
  BY <1>1
<1>6. DeviceOK(d2, nd)
  BY <1>2, <1>3, <1>5 DEF DeviceOK
<1> QED
  BY <1>2, <1>4, <1>6 DEF TakenStep, Holds

(* A device that takes a block has the first bytes of the same image. *)
LEMMA BlockTaken ==
    ASSUME NEW nd, NEW d \in DeviceRecord, DeviceOK(d, nd), NEW f \in Images,
           d.version = FileVersion[f], NEW j \in Nat, Len(d.flash) + j <= RawSize[f],
           NEW d2, d2 = [d EXCEPT !.flash = @ \o Bytes(f, Len(d.flash), j)]
    PROVE  d2 \in DeviceRecord /\ DeviceOK(d2, nd) /\ TakenStep(d, d2)
<1>1. FileVersion[f] \in Int /\ RawSize[f] \in Nat /\ NoVersion \notin Int
  BY ServerAssumption, DeliveryAssumption, Widths
  DEF ServerAssumption, DeliveryAssumption, Files
<1>2. PICK k \in 0 .. RawSize[f] :
         d.size = RawSize[f] /\ NotNewer(d.version, nd) /\ d.flash = Bytes(f, 0, k)
  <2>1. PICK g \in Images :
           /\ d.version = FileVersion[g] /\ d.size = RawSize[g] /\ NotNewer(d.version, nd)
           /\ \E k \in 0 .. RawSize[g] : d.flash = Bytes(g, 0, k)
    BY <1>1 DEF DeviceOK
  <2>2. g = f
    BY <2>1, DeliveryAssumption DEF DeliveryAssumption
  <2> QED
    BY <2>1, <2>2
<1>3. k \in Nat /\ k + j \in Nat
  BY <1>1, <1>2
<1>4. Holds(d, f, k)
  BY <1>2, <1>3, FirstBytes
<1>5. Len(d.flash) = k /\ k + j \in 0 .. RawSize[f]
  BY <1>1, <1>3, <1>4 DEF Holds
<1> DEFINE fl == d.flash \o Bytes(f, Len(d.flash), j)
<1>6. fl = Bytes(f, 0, k + j)
  BY <1>2, <1>3, <1>5, BytesJoin
<1>7. fl \in Seq(Images \X Nat)
  <2>1. 0 \in Nat
    OBVIOUS
  <2>2. Bytes(f, 0, k + j) \in Seq(Images \X Nat)
    BY <1>3, <2>1, BytesSeq, Zenon
  <2> QED
    BY <1>6, <2>2
<1>8. d2 = [d EXCEPT !.flash = fl]
  OBVIOUS
<1> HIDE DEF fl
<1>9. /\ d2.version = d.version /\ d2.size = d.size /\ d2.running = d.running
      /\ d2.flash = fl /\ d2 \in DeviceRecord
  BY <1>7, <1>8 DEF DeviceRecord
<1>10. Holds(d2, f, k + j)
  BY <1>2, <1>3, <1>6, <1>9, FirstBytes
<1>11. DeviceOK(d2, nd)
  BY <1>2, <1>5, <1>6, <1>9 DEF DeviceOK
<1>12. /\ ImageOf(d2.version) = f /\ ImageOf(d.version) = f
       /\ Done(d) = k /\ Done(d2) = k + j
  BY <1>4, <1>10 DEF Holds
<1>13. Done(d2) = Done(d) \/ Done(d2) \in Done(d) + 1 .. RawSize[ImageOf(d.version)]
  BY <1>1, <1>3, <1>5, <1>12
<1> QED
  BY <1>9, <1>11, <1>12, <1>13 DEF TakenStep

(* A device that is told to install has a complete image. *)
LEMMA EndTaken ==
    ASSUME NEW nd, NEW d \in DeviceRecord, DeviceOK(d, nd), Complete(d),
           NEW d2, d2 = [FreshDevice EXCEPT !.running = d.version]
    PROVE  d2 \in DeviceRecord /\ DeviceOK(d2, nd) /\ TakenStep(d, d2)
<1>1. PICK f \in Images :
         /\ d.version = FileVersion[f] /\ d.size = RawSize[f]
         /\ \E k \in 0 .. RawSize[f] : d.flash = Bytes(f, 0, k)
  BY DEF DeviceOK, Complete
<1>2. PICK k \in 0 .. RawSize[f] : d.flash = Bytes(f, 0, k)
  BY <1>1
<1>3. FileVersion[f] \in Int /\ RawSize[f] \in Nat
  BY ServerAssumption, Widths DEF ServerAssumption, Files
<1>4. Holds(d, f, k)
  BY <1>1, <1>2, <1>3, FirstBytes
<1>5. k = RawSize[f]
  BY <1>1, <1>4 DEF Holds, Complete
<1>6. /\ d2.version = NoVersion /\ d2.size = 0 /\ d2.flash = << >>
      /\ d2.running = FileVersion[f] /\ d2 \in DeviceRecord
  <2>1. << >> \in Seq(Images \X Nat)
    BY EmptySeq
  <2> QED
    BY <1>1, <1>3, <2>1 DEF DeviceRecord, FreshDevice
<1>7. Empty(d2)
  BY <1>6, NothingOffered
<1>8. ImageOf(d2.running) = f
  BY <1>6, ImageOfVersion
<1>9. DeviceOK(d2, nd)
  BY <1>6 DEF DeviceOK
<1> QED
  BY <1>4, <1>5, <1>6, <1>7, <1>8, <1>9 DEF TakenStep, Holds

(* Whatever arrives, and however often. *)
LEMMA ResponseTaken ==
    ASSUME NEW nd, NEW d \in DeviceRecord, DeviceOK(d, nd), NEW m, MessageOK(m, nd),
           NEW d2, d2 = Taken(d, m)
    PROVE  d2 \in DeviceRecord /\ DeviceOK(d2, nd) /\ TakenStep(d, d2)
<1>1. CASE d2 = d
  BY <1>1 DEF TakenStep
<1>2. CASE m.cmd = "stop"
  BY <1>2, StopTaken DEF Taken
<1>3. CASE m.cmd = "queryRsp" /\ m.version # d.version
  <2>1. PICK f \in Images : /\ m.version = FileVersion[f] /\ m.size = RawSize[f]
                            /\ NotNewer(m.version, nd)
    BY <1>3 DEF MessageOK
  <2>2. d2 = [d EXCEPT !.version = FileVersion[f], !.size = RawSize[f], !.flash = << >>]
    BY <1>3, <2>1 DEF Taken
  <2> QED
    BY <2>1, <2>2, OfferTaken
<1>4. CASE m.cmd = "blockRsp" /\ m.version = d.version /\ m.offset = Len(d.flash)
  <2>1. PICK f \in Images, j \in Nat :
           /\ m.version = FileVersion[f] /\ m.offset + j <= RawSize[f]
           /\ m.data = Bytes(f, m.offset, j)
    BY <1>4 DEF MessageOK
  <2>2. d2 = [d EXCEPT !.flash = @ \o m.data]
    BY <1>4 DEF Taken
  <2>3. d2 = [d EXCEPT !.flash = @ \o Bytes(f, Len(d.flash), j)]
    BY <1>4, <2>1, <2>2
  <2>4. d.version = FileVersion[f] /\ Len(d.flash) + j <= RawSize[f]
    BY <1>4, <2>1
  <2> QED
    BY <2>3, <2>4, BlockTaken
<1>5. CASE m.cmd = "endRsp" /\ Complete(d)
  <2>1. d2 = [FreshDevice EXCEPT !.running = d.version]
    BY <1>5 DEF Taken
  <2> QED
    BY <1>5, <2>1, EndTaken
<1> QED
  BY <1>1, <1>2, <1>3, <1>4, <1>5, Zenon DEF Taken

(* A response that arrives keeps the invariant. *)
LEMMA ArrivesKeepsDelivery ==
    ASSUME DeliveryInv, NEW m \in air, Arrives(m)
    PROVE  /\ DeliveryInv'
           /\ m.to \in Nodes /\ TakenStep(dev[m.to], dev'[m.to])
           /\ \A n \in Nodes : n # m.to => dev'[n] = dev[n]
<1>1. MessageOK(m, node[m.to]) /\ m.to \in Nodes
  BY DEF DeliveryInv, MessageOK
<1>2. dev[m.to] \in DeviceRecord /\ DeviceOK(dev[m.to], node[m.to])
  BY <1>1 DEF DeliveryInv
<1> DEFINE d2 == Taken(dev[m.to], m)
<1>3. d2 \in DeviceRecord /\ DeviceOK(d2, node[m.to]) /\ TakenStep(dev[m.to], d2)
  BY <1>1, <1>2, ResponseTaken
<1>4. dev' = [dev EXCEPT ![m.to] = d2] /\ UNCHANGED vars /\ air' = air
  BY DEF Arrives
<1> HIDE DEF d2
<1>5. /\ dev' \in [Nodes -> DeviceRecord] /\ dev'[m.to] = d2
      /\ \A n \in Nodes : n # m.to => dev'[n] = dev[n]
  BY <1>1, <1>3, <1>4 DEF DeliveryInv
<1>6. node' = node
  BY <1>4 DEF vars, sessionVars
<1>7. TransferInv'
  BY <1>4, NextTransfer DEF DeliveryInv
<1>8. VersionsOrdered'
  BY <1>6 DEF DeliveryInv, VersionsOrdered
<1>9. \A n \in Nodes : DeviceOK(dev'[n], node'[n])
  BY <1>3, <1>5, <1>6 DEF DeliveryInv
<1>10. \A x \in air' : MessageOK(x, node'[x.to])
  BY <1>4, <1>6 DEF DeliveryInv
<1> QED
  BY <1>1, <1>3, <1>5, <1>7, <1>8, <1>9, <1>10 DEF DeliveryInv

----------------------------------------------------------------------------
(* The refinement.                                                          *)

(* The invariant is one. *)
LEMMA NextDelivery == DeliveryInv /\ [DeliveryNext]_deliveryVars => DeliveryInv'
<1> SUFFICES ASSUME DeliveryInv, [DeliveryNext]_deliveryVars
             PROVE  DeliveryInv'
  OBVIOUS
<1>1. CASE ServerStep /\ Forward /\ OnAir /\ UNCHANGED dev
  BY <1>1, StepKeepsDelivery
<1>2. ASSUME NEW m \in air, Arrives(m)
      PROVE  DeliveryInv'
  BY <1>2, ArrivesKeepsDelivery
<1>3. ASSUME UNCHANGED <<vars, dev>>, air' \subseteq air
      PROVE  DeliveryInv'
  <2>1. node' = node /\ dev' = dev
    BY <1>3 DEF vars, sessionVars
  <2>2. TransferInv'
    BY <1>3, NextTransfer DEF DeliveryInv
  <2> QED
    BY <1>3, <2>1, <2>2 DEF DeliveryInv, VersionsOrdered
<1> QED
  BY <1>1, <1>2, <1>3 DEF DeliveryNext, deliveryVars, Lost

(* A response that arrives is a step of OtauUpdate, or changes nothing.     *)
LEMMA ArrivesUpdates ==
    ASSUME DeliveryInv, NEW m \in air, Arrives(m)
    PROVE  [Update!Next]_(Update!updateVars)
<1> DEFINE n == m.to
           d == dev[n]
           d2 == dev'[n]
<1>1. n \in Nodes /\ TakenStep(d, d2) /\ \A k \in Nodes : k # n => dev'[k] = dev[k]
  BY ArrivesKeepsDelivery
<1>2. /\ Getting' = [Getting EXCEPT ![n] = ImageOf(d2.version)]
      /\ Got' = [Got EXCEPT ![n] = Done(d2)]
      /\ Installed' = [Installed EXCEPT ![n] = ImageOf(d2.running)]
  BY <1>1 DEF Getting, Got, Installed
<1>3. /\ Getting[n] = ImageOf(d.version) /\ Got[n] = Done(d)
      /\ Installed[n] = ImageOf(d.running)
      /\ Getting = [Getting EXCEPT ![n] = ImageOf(d.version)]
      /\ Got = [Got EXCEPT ![n] = Done(d)]
      /\ Installed = [Installed EXCEPT ![n] = ImageOf(d.running)]
  BY <1>1 DEF Getting, Got, Installed
<1>4. CASE d2 = d
  BY <1>2, <1>3, <1>4 DEF Update!updateVars
<1>5. CASE /\ Done(d2) = 0 /\ d2.running = d.running
           /\ ImageOf(d2.version) \in Images \cup {NoImage}
  <2>1. Update!Offer(n) \/ Update!GiveUp(n)
    BY <1>2, <1>3, <1>5 DEF Update!Offer, Update!GiveUp
  <2> QED
    BY <1>1, <2>1 DEF Update!Next
<1>6. CASE /\ ImageOf(d2.version) = ImageOf(d.version) /\ d2.running = d.running
           /\ \/ Done(d2) = Done(d)
              \/ /\ ImageOf(d.version) \in Images
                 /\ Done(d2) \in Done(d) + 1 .. RawSize[ImageOf(d.version)]
  <2>1. CASE Done(d2) = Done(d)
    BY <1>2, <1>3, <1>6, <2>1 DEF Update!updateVars
  <2>2. CASE Done(d2) # Done(d)
    <3>1. Update!Receive(n)
      BY <1>2, <1>3, <1>6, <2>2 DEF Update!Receive
    <3> QED
      BY <1>1, <3>1 DEF Update!Next
  <2> QED
    BY <2>1, <2>2
<1>7. CASE /\ ImageOf(d.version) \in Images /\ Done(d) = RawSize[ImageOf(d.version)]
           /\ ImageOf(d2.running) = ImageOf(d.version) /\ Empty(d2)
  <2>1. Update!Install(n)
    BY <1>2, <1>3, <1>7 DEF Update!Install, Empty
  <2> QED
    BY <1>1, <2>1 DEF Update!Next
<1> QED
  BY <1>1, <1>4, <1>5, <1>6, <1>7 DEF TakenStep

(* Whatever is lost, repeated or overtaken on the way, and whatever the     *)
(* user chooses, permits and aborts meanwhile, a device gets an image from  *)
(* its first byte to its last and installs complete images only: blocks     *)
(* are read from rawFile, the copy queryNextImageResponse() makes, while    *)
(* imageBlockResponse() compares versions with the file that is selected.   *)
THEOREM DeliveryImplementsUpdate == DeliverySpec => ImplementsUpdate
<1>1. DeliveryInit => Update!Init
  <2> SUFFICES ASSUME DeliveryInit
               PROVE  Update!Init
    OBVIOUS
  <2>1. dev = [n \in Nodes |-> FreshDevice]
    BY DEF DeliveryInit
  <2>2. FreshDevice.version = NoVersion /\ FreshDevice.running = NoVersion
        /\ FreshDevice.flash = << >>
    BY DEF FreshDevice
  <2>3. Empty(FreshDevice) /\ ImageOf(FreshDevice.running) = NoImage
    BY <2>2, NothingOffered, ImageOfVersion
  <2> QED
    BY <2>1, <2>3 DEF Update!Init, Getting, Got, Installed, Empty
<1>2. DeliveryInv /\ [DeliveryNext]_deliveryVars => [Update!Next]_(Update!updateVars)
  <2> SUFFICES ASSUME DeliveryInv, [DeliveryNext]_deliveryVars
               PROVE  [Update!Next]_(Update!updateVars)
    OBVIOUS
  <2>1. CASE dev' = dev
    BY <2>1 DEF Update!updateVars, Getting, Got, Installed
  <2>2. CASE \E m \in air : Arrives(m)
    BY <2>2, ArrivesUpdates
  <2> QED
    BY <2>1, <2>2 DEF DeliveryNext, deliveryVars, Lost
<1>3. DeliverySpec => []DeliveryInv
  BY InitDelivery, NextDelivery, PTL DEF DeliverySpec
<1>4. DeliverySpec => Update!Spec
  BY <1>1, <1>2, <1>3, PTL DEF DeliverySpec, Update!Spec
<1> QED
  BY <1>4 DEF ImplementsUpdate
=============================================================================
