------------------------ MODULE OtauDownload_proofs ------------------------
(***************************************************************************)
(* Proofs about the online check, for every collection of files, every     *)
(* index and any number of unanswered downloads.                           *)
(*                                                                         *)
(* A callback of the downloader does not say what it answers.  That it     *)
(* still stores a file under its own name needs AnswersInTime: as long as  *)
(* no download has outlived its timeout, at most one is unanswered, and it *)
(* is the one of the front of the queue.                                   *)
(***************************************************************************)
EXTENDS OtauDownload, SequenceTheorems, TLAPS

Distinct(q) == \A i, j \in DOMAIN q : q[i].file = q[j].file => i = j

(* Without overdue answers. *)
AnswersInTime ==
    ~overdue =>
        /\ indexInFlight <= 1
        /\ indexInFlight > 0 => downloadState = "WaitIndexResponse"
        /\ \A f \in OtaFiles : filesInFlight[f] > 0 =>
              /\ filesInFlight[f] = 1
              /\ downloadState = "WaitOtaFileResponse" /\ f = downloads[1].file

DownloadInv ==
    /\ DownloadTypeOK /\ DownloadTimerArmed /\ QueueDistinct /\ WaitsForFront
    /\ AnswersInTime /\ StoredUnderOwnName

----------------------------------------------------------------------------
(* The queue.                                                               *)

(* The last element takes the place of the first, which is gone. *)
LEMMA DropFrontProperties ==
    ASSUME NEW S, NEW q \in Seq(S), q # << >>
    PROVE  /\ DropFront(q) \in Seq(S)
           /\ Len(DropFront(q)) = Len(q) - 1
           /\ \A i \in DOMAIN DropFront(q) :
                DropFront(q)[i] = IF i = 1 THEN q[Len(q)] ELSE q[i]
<1>1. Len(q) \in Nat \ {0} /\ DOMAIN q = 1 .. Len(q) /\ \A i \in 1 .. Len(q) : q[i] \in S
  BY LenProperties, ElementOfSeq, EmptySeq
<1>2. CASE Len(q) = 1
  BY <1>2, EmptySeq DEF DropFront
<1>3. CASE Len(q) # 1
  <2> DEFINE s == SubSeq(q, 1, Len(q) - 1)
             last == q[Len(q)]
  <2>1. /\ s \in Seq(S) /\ Len(s) = Len(q) - 1
        /\ \A i \in 1 .. Len(q) - 1 : s[i] = q[i]
    <3>1. \A i \in 1 .. Len(q) - 1 : q[i] \in S
      BY <1>1
    <3>2. /\ s \in Seq(S) /\ Len(s) = IF 1 <= Len(q) - 1 THEN Len(q) - 1 - 1 + 1 ELSE 0
          /\ \A i \in 1 .. (Len(q) - 1) - 1 + 1 : s[i] = q[1 + i - 1]
      BY <1>1, <3>1, SubSeqProperties
    <3> QED
      BY <1>1, <1>3, <3>2
  <2>2. last \in S
    BY <1>1
  <2>3. DropFront(q) = [s EXCEPT ![1] = last]
    BY <1>3 DEF DropFront
  <2> HIDE DEF s, last
  <2>4. 1 \in 1 .. Len(s) /\ DOMAIN s = 1 .. Len(s)
    BY <1>1, <1>3, <2>1, LenProperties
  <2>5. [s EXCEPT ![1] = last] \in Seq(S) /\ Len([s EXCEPT ![1] = last]) = Len(s)
    BY <2>1, <2>2, <2>4, ExceptSeq
  <2>6. \A i \in 1 .. Len(s) : [s EXCEPT ![1] = last][i] = IF i = 1 THEN last ELSE s[i]
    BY <2>4
  <2>7. DOMAIN [s EXCEPT ![1] = last] = 1 .. Len(s)
    BY <2>4
  <2> QED
    BY <2>1, <2>3, <2>5, <2>6, <2>7 DEF last
<1> QED
  BY <1>2, <1>3

(* A queue without duplicates has none when its front is taken away. *)
LEMMA DropFrontDistinct ==
    ASSUME NEW S, NEW q \in Seq(S), q # << >>, Distinct(q)
    PROVE  Distinct(DropFront(q))
<1> DEFINE r == DropFront(q)
<1>1. /\ r \in Seq(S) /\ Len(r) = Len(q) - 1
      /\ \A i \in DOMAIN r : r[i] = IF i = 1 THEN q[Len(q)] ELSE q[i]
  BY DropFrontProperties
<1> HIDE DEF r
<1>2. /\ Len(q) \in Nat \ {0} /\ DOMAIN q = 1 .. Len(q) /\ DOMAIN r = 1 .. Len(q) - 1
  BY <1>1, LenProperties, EmptySeq
<1> SUFFICES ASSUME NEW i \in DOMAIN r, NEW j \in DOMAIN r, r[i].file = r[j].file PROVE i = j
  BY DEF Distinct, r
<1> DEFINE from(k) == IF k = 1 THEN Len(q) ELSE k
<1>3. \A k \in DOMAIN r : from(k) \in DOMAIN q /\ r[k] = q[from(k)]
  BY <1>1, <1>2
<1>4. from(i) = from(j)
  BY <1>3 DEF Distinct
<1> QED
  BY <1>2, <1>4

(* Entries that are new, taken in order, leave the queue without doubles. *)
LEMMA EnqueueProperties ==
    ASSUME DownloadTypeOK, Distinct(downloads), NEW matching \in SUBSET OtaFiles, NEW n \in Nat,
           NEW pos \in [1 .. n -> NewEntries(matching)], InOrder(pos, NewEntries(matching))
    PROVE  /\ Enqueue(pos) \in Seq(DownloadOtaFile)
           /\ Distinct(Enqueue(pos))
<1> DEFINE t == [k \in DOMAIN pos |-> [file |-> remoteIndex[pos[k]], retry |-> 0]]
           q == downloads
<1>1. DOMAIN pos = 1 .. n
  OBVIOUS
<1>2. \A k \in 1 .. n : /\ pos[k] \in DOMAIN remoteIndex
                        /\ remoteIndex[pos[k]] \in OtaFiles
                        /\ remoteIndex[pos[k]] \notin Queued(q)
                        /\ \A j \in 1 .. pos[k] - 1 : remoteIndex[j] # remoteIndex[pos[k]]
  BY DEF NewEntries
<1>3. remoteIndex \in Seq(OtaFiles)
  BY DownloadAssumption, EmptySeq DEF DownloadTypeOK
<1>4. DOMAIN remoteIndex = 1 .. Len(remoteIndex) /\ Len(remoteIndex) \in Nat
  BY <1>3, LenProperties
<1>5. t \in Seq(DownloadOtaFile) /\ Len(t) = n /\ \A k \in 1 .. n : t[k].file = remoteIndex[pos[k]]
  <2>1. \A k \in 1 .. n : [file |-> remoteIndex[pos[k]], retry |-> 0] \in DownloadOtaFile
    BY <1>2 DEF DownloadOtaFile, MAX_DOWNLOAD_RETRY
  <2>2. t \in [1 .. n -> DownloadOtaFile]
    BY <1>1, <2>1
  <2>3. t \in Seq(DownloadOtaFile)
    BY <2>2, SeqDef
  <2>4. Len(t) = n
    BY <2>2, <2>3, LenProperties
  <2> QED
    BY <1>1, <2>3, <2>4
<1>6. q \in Seq(DownloadOtaFile) /\ DOMAIN q = 1 .. Len(q) /\ Len(q) \in Nat
  BY LenProperties DEF DownloadTypeOK
<1> HIDE DEF t, q
<1>7. /\ q \o t \in Seq(DownloadOtaFile) /\ Len(q \o t) = Len(q) + n
      /\ \A i \in 1 .. Len(q) + n : (q \o t)[i] = IF i <= Len(q) THEN q[i] ELSE t[i - Len(q)]
  BY <1>5, <1>6, ConcatProperties
<1>8. DOMAIN (q \o t) = 1 .. Len(q) + n
  BY <1>7, LenProperties
<1>9. \A k \in 1 .. n : \A i \in DOMAIN q : t[k].file # q[i].file
  BY <1>2, <1>5, <1>6 DEF Queued
<1>10. ASSUME NEW j \in 1 .. n, NEW k \in 1 .. n, t[j].file = t[k].file PROVE j = k
  <2>1. remoteIndex[pos[j]] = remoteIndex[pos[k]]
    BY <1>5, <1>10
  <2>2. pos[j] \in Nat /\ pos[k] \in Nat /\ pos[j] >= 1 /\ pos[k] >= 1
    BY <1>2, <1>4
  <2>3. pos[j] = pos[k]
    BY <1>2, <2>1, <2>2
  <2>4. \A a, b \in 1 .. n : a < b => pos[a] < pos[b]
    BY <1>1 DEF InOrder
  <2> QED
    BY <2>2, <2>3, <2>4
<1>11. Distinct(q \o t)
  <2> DEFINE s == q \o t
  <2> HIDE DEF s
  <2> SUFFICES ASSUME NEW i \in 1 .. Len(q) + n, NEW j \in 1 .. Len(q) + n, s[i].file = s[j].file
               PROVE  i = j
    BY <1>8 DEF Distinct, s
  <2>1. CASE i <= Len(q) /\ j <= Len(q)
    <3>1. s[i] = q[i] /\ s[j] = q[j] /\ i \in DOMAIN q /\ j \in DOMAIN q
      BY <1>6, <1>7, <2>1 DEF s
    <3> QED
      BY <3>1 DEF Distinct, q
  <2>2. CASE ~(i <= Len(q)) /\ ~(j <= Len(q))
    <3>1. /\ i - Len(q) \in 1 .. n /\ j - Len(q) \in 1 .. n
          /\ s[i] = t[i - Len(q)] /\ s[j] = t[j - Len(q)]
      BY <1>6, <1>7, <2>2 DEF s
    <3>2. i - Len(q) = j - Len(q)
      BY <1>10, <3>1
    <3> QED
      BY <1>6, <3>2
  <2>3. CASE i <= Len(q) /\ ~(j <= Len(q))
    <3>1. i \in DOMAIN q /\ j - Len(q) \in 1 .. n /\ s[i] = q[i] /\ s[j] = t[j - Len(q)]
      BY <1>6, <1>7, <2>3 DEF s
    <3> QED
      BY <1>9, <3>1
  <2>4. CASE ~(i <= Len(q)) /\ j <= Len(q)
    <3>1. j \in DOMAIN q /\ i - Len(q) \in 1 .. n /\ s[j] = q[j] /\ s[i] = t[i - Len(q)]
      BY <1>6, <1>7, <2>4 DEF s
    <3> QED
      BY <1>9, <3>1
  <2> QED
    BY <2>1, <2>2, <2>3, <2>4
<1>12. Enqueue(pos) = q \o t
  BY DEF Enqueue, q, t
<1> QED
  BY <1>7, <1>11, <1>12
----------------------------------------------------------------------------
(* The steps.                                                               *)

(* The front of a queue that is not empty. *)
LEMMA Front ==
    ASSUME DownloadTypeOK, downloads # << >>
    PROVE  /\ downloads \in Seq(DownloadOtaFile) /\ 1 \in DOMAIN downloads
           /\ downloads[1].file \in OtaFiles /\ downloads[1].retry \in 0 .. MAX_DOWNLOAD_RETRY
<1>1. downloads \in Seq(DownloadOtaFile)
  BY DEF DownloadTypeOK
<1>2. 1 \in DOMAIN downloads
  BY <1>1, LenProperties, EmptySeq
<1>3. downloads[1] \in DownloadOtaFile
  BY <1>1, <1>2, ElementOfSeq, LenProperties
<1> QED
  BY <1>1, <1>2, <1>3 DEF DownloadOtaFile

(* Leaving the states that wait with nothing unanswered, or late. *)
LEMMA NobodyWaits ==
    ASSUME DownloadInv, downloadState \notin {"WaitIndexResponse", "WaitOtaFileResponse"}, ~overdue
    PROVE  indexInFlight = 0 /\ \A f \in OtaFiles : filesInFlight[f] = 0
<1>1. indexInFlight \in Nat /\ \A f \in OtaFiles : filesInFlight[f] \in Nat
  BY DEF DownloadInv, DownloadTypeOK
<1> QED
  BY <1>1 DEF DownloadInv, AnswersInTime

(* The request for the index keeps the invariant. *)
LEMMA RequestIndexKeeps ==
    ASSUME DownloadInv, DownloadRequestIndex \/ TimerInitial \/ TimerRequestIndex
    PROVE  DownloadInv'
<1>1. UNCHANGED <<downloads, remoteIndex, imgDir, filesInFlight, overdue>>
  BY Zenon DEF DownloadRequestIndex, TimerInitial, TimerRequestIndex
<1>2. downloadState \in {"Initial", "RequestIndex"}
  BY DEF DownloadRequestIndex, TimerInitial, TimerRequestIndex
<1>3. /\ downloadState' \in {"Initial", "RequestIndex", "WaitIndexResponse"}
      /\ downloadTimer' \in BOOLEAN /\ (downloadState' # "Initial" => downloadTimer')
      /\ \/ UNCHANGED indexInFlight
         \/ downloadState' = "WaitIndexResponse" /\ indexInFlight' = OneMore(indexInFlight)
  BY DEF DownloadRequestIndex, TimerInitial, TimerRequestIndex, GoTo
<1>4. indexInFlight \in 0 .. MaxInFlight /\ MaxInFlight \in Nat \ {0}
  BY DownloadAssumption DEF DownloadInv, DownloadTypeOK
<1>5. indexInFlight' \in 0 .. MaxInFlight
  BY <1>3, <1>4 DEF OneMore
<1>6. DownloadTypeOK'
  BY <1>1, <1>3, <1>5 DEF DownloadInv, DownloadTypeOK, DownloadStates
<1>7. AnswersInTime'
  <2> SUFFICES ASSUME ~overdue PROVE AnswersInTime'
    BY <1>1 DEF AnswersInTime
  <2>1. indexInFlight = 0 /\ \A f \in OtaFiles : filesInFlight[f] = 0
    BY <1>2, NobodyWaits
  <2> QED
    BY <1>1, <1>3, <1>4, <2>1 DEF AnswersInTime, OneMore
<1> QED
  BY <1>1, <1>3, <1>6, <1>7
  DEF DownloadInv, DownloadTimerArmed, QueueDistinct, WaitsForFront, StoredUnderOwnName

(* So do the answer to it and its timeout. *)
LEMMA IndexAnswerKeeps ==
    ASSUME DownloadInv, TimerWaitIndexResponse \/ IndexFailed \/ IndexDone
    PROVE  DownloadInv'
<1>1. UNCHANGED <<downloads, imgDir, filesInFlight>>
  BY Zenon DEF TimerWaitIndexResponse, IndexFailed, IndexDone
<1>2. /\ downloadState' \in {downloadState, "Initial", "ProcessIndex"}
      /\ downloadTimer' \in BOOLEAN /\ (downloadState' # "Initial" => downloadTimer')
      /\ remoteIndex' \in IndexFiles \cup {<< >>}
  BY DEF TimerWaitIndexResponse, IndexFailed, IndexDone, StoreIndex, GoTo, DownloadInv,
         DownloadTypeOK, DownloadTimerArmed
<1>3. indexInFlight \in 0 .. MaxInFlight /\ MaxInFlight \in Nat \ {0}
  BY DownloadAssumption DEF DownloadInv, DownloadTypeOK
<1>4. /\ overdue' \in BOOLEAN /\ (overdue => overdue')
      /\ \/ UNCHANGED indexInFlight /\ (~overdue' => ~(indexInFlight > 0))
         \/ indexInFlight > 0 /\ indexInFlight' = indexInFlight - 1
  <2>1. CASE TimerWaitIndexResponse
    BY <2>1, Zenon DEF TimerWaitIndexResponse
  <2>2. CASE IndexFailed \/ IndexDone
    BY <2>2, Zenon DEF IndexFailed, IndexDone, DownloadInv, DownloadTypeOK
  <2> QED
    BY <2>1, <2>2
<1>5. indexInFlight' \in 0 .. MaxInFlight
  BY <1>3, <1>4
<1>6. DownloadTypeOK'
  BY <1>1, <1>2, <1>4, <1>5 DEF DownloadInv, DownloadTypeOK, DownloadStates
<1>7. ASSUME ~overdue' PROVE AnswersInTime'
  <2>1. ~overdue
    BY <1>4, <1>7
  <2>2. downloadState = "WaitIndexResponse"
    <3>1. indexInFlight > 0 => downloadState = "WaitIndexResponse"
      BY <2>1 DEF DownloadInv, AnswersInTime
    <3> QED
      BY <3>1, Zenon DEF TimerWaitIndexResponse, IndexFailed, IndexDone
  <2>3. \A f \in OtaFiles : ~(filesInFlight[f] > 0)
    BY <2>1, <2>2 DEF DownloadInv, AnswersInTime
  <2>4. indexInFlight <= 1
    BY <2>1 DEF DownloadInv, AnswersInTime
  <2>5. indexInFlight' = 0
    BY <1>3, <1>4, <1>7, <2>4
  <2> QED
    BY <1>1, <2>3, <2>5 DEF AnswersInTime
<1>8. AnswersInTime'
  BY <1>7 DEF AnswersInTime
<1> QED
  BY <1>1, <1>2, <1>4, <1>6, <1>8
  DEF DownloadInv, DownloadTimerArmed, QueueDistinct, WaitsForFront, StoredUnderOwnName

(* So does the processing of the index. *)
LEMMA ProcessIndexKeeps ==
    ASSUME DownloadInv, TimerProcessIndex
    PROVE  DownloadInv'
<1>1. UNCHANGED <<remoteIndex, imgDir, indexInFlight, filesInFlight, overdue>>
  BY Zenon DEF TimerProcessIndex
<1>2. downloadState = "ProcessIndex"
  BY Zenon DEF TimerProcessIndex
<1>3. /\ downloadState' \in {"Initial", "RequestOtaFile"}
      /\ downloadTimer' \in BOOLEAN /\ (downloadState' # "Initial" => downloadTimer')
  BY DEF TimerProcessIndex, GoTo
<1>4. downloads' \in Seq(DownloadOtaFile) /\ Distinct(downloads')
  <2>1. CASE UNCHANGED downloads
    BY <2>1 DEF DownloadInv, DownloadTypeOK, QueueDistinct, Distinct
  <2>2. ASSUME NEW matching \in SUBSET OtaFiles, NEW n \in 0 .. Len(remoteIndex),
               NEW pos \in [1 .. n -> NewEntries(matching)],
               InOrder(pos, NewEntries(matching)), downloads' = Enqueue(pos)
        PROVE  downloads' \in Seq(DownloadOtaFile) /\ Distinct(downloads')
    <3>1. remoteIndex \in Seq(OtaFiles)
      BY DownloadAssumption, EmptySeq DEF DownloadInv, DownloadTypeOK
    <3>2. n \in Nat
      BY <3>1, LenProperties
    <3> QED
      BY <2>2, <3>2, EnqueueProperties DEF DownloadInv, QueueDistinct, Distinct
  <2> QED
    BY <2>1, <2>2, Zenon DEF TimerProcessIndex
<1>5. DownloadTypeOK'
  BY <1>1, <1>3, <1>4 DEF DownloadInv, DownloadTypeOK, DownloadStates
<1>6. AnswersInTime'
  <2> SUFFICES ASSUME ~overdue PROVE AnswersInTime'
    BY <1>1 DEF AnswersInTime
  <2>1. indexInFlight = 0 /\ \A f \in OtaFiles : filesInFlight[f] = 0
    BY <1>2, NobodyWaits
  <2> QED
    BY <1>1, <2>1 DEF AnswersInTime
<1> QED
  BY <1>1, <1>3, <1>4, <1>5, <1>6
  DEF DownloadInv, DownloadTimerArmed, QueueDistinct, Distinct, WaitsForFront, StoredUnderOwnName

(* So does the request for the file at the front. *)
LEMMA RequestOtaFileKeeps ==
    ASSUME DownloadInv, TimerRequestOtaFile
    PROVE  DownloadInv'
<1>1. UNCHANGED <<remoteIndex, imgDir, indexInFlight, overdue>>
  BY Zenon DEF TimerRequestOtaFile
<1>2. downloadState = "RequestOtaFile"
  BY Zenon DEF TimerRequestOtaFile
<1>3. downloads \in Seq(DownloadOtaFile) /\ Distinct(downloads) /\ DownloadTypeOK
  BY DEF DownloadInv, DownloadTypeOK, QueueDistinct, Distinct
<1>4. filesInFlight \in [OtaFiles -> 0 .. MaxInFlight] /\ MaxInFlight \in Nat \ {0}
  BY DownloadAssumption DEF DownloadInv, DownloadTypeOK
<1>5. ~overdue => indexInFlight = 0 /\ \A f \in OtaFiles : filesInFlight[f] = 0
  BY <1>2, NobodyWaits
<1>6. CASE downloads # << >> /\ RetryLeft /\ RequestFront
  <2> DEFINE d == [downloads[1] EXCEPT !.retry = @ + 1]
             r == [downloads EXCEPT ![1] = d]
  <2>1. /\ 1 \in DOMAIN downloads /\ downloads[1].file \in OtaFiles
        /\ downloads[1].retry \in 0 .. MAX_DOWNLOAD_RETRY
    BY <1>3, <1>6, Front
  <2>2. downloads[1] \in DownloadOtaFile
    BY <1>3, <2>1, ElementOfSeq, LenProperties
  <2>3. d \in DownloadOtaFile /\ d.file = downloads[1].file /\ d.retry \in 1 .. MAX_DOWNLOAD_RETRY
    BY <1>6, <2>1, <2>2 DEF DownloadOtaFile, RetryLeft, MAX_DOWNLOAD_RETRY
  <2>4. downloads' = r
    BY <1>6, Zenon DEF RequestFront
  <2> HIDE DEF d
  <2>5. r \in Seq(DownloadOtaFile) /\ Len(r) = Len(downloads)
    BY <1>3, <2>1, <2>3, ExceptSeq, LenProperties
  <2>6. DOMAIN r = DOMAIN downloads /\ \A i \in DOMAIN downloads : r[i].file = downloads[i].file
    BY <2>1, <2>3
  <2>7. r[1] = d /\ r # << >>
    <3>1. 1 \in DOMAIN r
      BY <2>1, <2>6
    <3> QED
      BY <2>1, <3>1
  <2>8. Distinct(downloads')
    BY <1>3, <2>4, <2>6 DEF Distinct
  <2>9. /\ downloadState' = "WaitOtaFileResponse" /\ downloadTimer' = TRUE
        /\ filesInFlight' = [filesInFlight EXCEPT ![downloads[1].file] = OneMore(@)]
    BY <1>6, Zenon DEF RequestFront, GoTo
  <2>10. filesInFlight' \in [OtaFiles -> 0 .. MaxInFlight]
    BY <1>4, <2>1, <2>9 DEF OneMore
  <2>11. DownloadTypeOK'
    BY <1>1, <1>3, <2>4, <2>5, <2>9, <2>10 DEF DownloadTypeOK, DownloadStates
  <2>12. WaitsForFront'
    BY <2>3, <2>4, <2>7 DEF WaitsForFront
  <2>13. ASSUME ~overdue, NEW f \in OtaFiles, filesInFlight'[f] > 0
         PROVE  filesInFlight'[f] = 1 /\ f = downloads'[1].file
    <3>1. filesInFlight[f] = 0
      BY <1>5, <2>13
    <3>2. f = downloads[1].file
      BY <1>4, <2>1, <2>9, <2>13, <3>1
    <3>3. filesInFlight'[f] = 1
      BY <1>4, <2>1, <2>9, <3>1, <3>2 DEF OneMore
    <3> QED
      BY <2>3, <2>4, <2>7, <3>2, <3>3
  <2>14. AnswersInTime'
    BY <1>1, <1>5, <2>9, <2>13 DEF AnswersInTime
  <2> QED
    BY <1>1, <2>8, <2>9, <2>11, <2>12, <2>14
    DEF DownloadInv, DownloadTimerArmed, QueueDistinct, Distinct, StoredUnderOwnName
<1>7. CASE /\ UNCHANGED filesInFlight
           /\ \/ GoTo("Initial", FALSE) /\ UNCHANGED downloads
              \/ /\ downloads # << >> /\ downloads' = DropFront(downloads)
                 /\ GoTo("RequestOtaFile", TRUE)
  <2>1. /\ downloadState' \in {"Initial", "RequestOtaFile"}
        /\ downloadTimer' \in BOOLEAN /\ (downloadState' # "Initial" => downloadTimer')
    BY <1>7 DEF GoTo
  <2>2. downloads' \in Seq(DownloadOtaFile) /\ Distinct(downloads')
    BY <1>3, <1>7, DropFrontProperties, DropFrontDistinct
  <2>3. UNCHANGED filesInFlight
    BY <1>7
  <2>4. DownloadTypeOK'
    BY <1>1, <1>3, <2>1, <2>2, <2>3 DEF DownloadTypeOK, DownloadStates
  <2>5. AnswersInTime'
    BY <1>1, <1>5, <2>3 DEF AnswersInTime
  <2> QED
    BY <1>1, <2>1, <2>2, <2>4, <2>5
    DEF DownloadInv, DownloadTimerArmed, QueueDistinct, Distinct, WaitsForFront, StoredUnderOwnName
<1> QED
  BY <1>6, <1>7, Zenon DEF TimerRequestOtaFile

(* So does the timeout of that request. *)
LEMMA WaitOtaFileResponseKeeps ==
    ASSUME DownloadInv, TimerWaitOtaFileResponse
    PROVE  DownloadInv'
<1>1. UNCHANGED <<downloads, remoteIndex, imgDir, indexInFlight, filesInFlight>>
  BY Zenon DEF TimerWaitOtaFileResponse
<1>2. downloadState = "WaitOtaFileResponse" /\ downloadState' = "RequestOtaFile" /\ downloadTimer'
  BY Zenon DEF TimerWaitOtaFileResponse, GoTo
<1>3. /\ overdue' \in BOOLEAN /\ (overdue => overdue')
      /\ ~overdue' => \A f \in OtaFiles : ~(filesInFlight[f] > 0)
  BY Zenon DEF TimerWaitOtaFileResponse
<1>4. downloadTimer' \in BOOLEAN
  BY Zenon DEF TimerWaitOtaFileResponse, GoTo
<1>5. DownloadTypeOK'
  BY <1>1, <1>2, <1>3, <1>4 DEF DownloadInv, DownloadTypeOK, DownloadStates
<1>6. AnswersInTime'
  <2> SUFFICES ASSUME ~overdue' PROVE AnswersInTime'
    BY DEF AnswersInTime
  <2>1. indexInFlight <= 1 /\ ~(indexInFlight > 0)
    BY <1>2, <1>3 DEF DownloadInv, AnswersInTime
  <2> QED
    BY <1>1, <1>3, <2>1 DEF AnswersInTime
<1> QED
  BY <1>1, <1>2, <1>3, <1>5, <1>6
  DEF DownloadInv, DownloadTimerArmed, QueueDistinct, WaitsForFront, StoredUnderOwnName

(* The data of a callback, whichever file it belongs to. *)
LEMMA OtaFileAnswerKeeps ==
    ASSUME DownloadInv, NEW f \in OtaFiles, OtaFileFailed(f) \/ OtaFileDone(f)
    PROVE  DownloadInv'
<1>1. UNCHANGED <<remoteIndex, indexInFlight, overdue>>
  BY Zenon DEF OtaFileFailed, OtaFileDone
<1>2. filesInFlight[f] > 0 /\ filesInFlight' = [filesInFlight EXCEPT ![f] = @ - 1]
  BY Zenon DEF OtaFileFailed, OtaFileDone
<1>3. filesInFlight \in [OtaFiles -> 0 .. MaxInFlight] /\ MaxInFlight \in Nat \ {0}
  BY DownloadAssumption DEF DownloadInv, DownloadTypeOK
<1>4. /\ filesInFlight' \in [OtaFiles -> 0 .. MaxInFlight]
      /\ \A g \in OtaFiles : filesInFlight'[g] <= filesInFlight[g]
      /\ filesInFlight'[f] = filesInFlight[f] - 1
  BY <1>2, <1>3
<1>5. CASE UNCHANGED <<downloadState, downloadTimer, downloads, imgDir>>
  <2>1. DownloadTypeOK'
    BY <1>1, <1>4, <1>5 DEF DownloadInv, DownloadTypeOK
  <2>2. AnswersInTime'
    <3> SUFFICES ASSUME ~overdue PROVE AnswersInTime'
      BY <1>1 DEF AnswersInTime
    <3>1. ASSUME NEW g \in OtaFiles, filesInFlight'[g] > 0
          PROVE  /\ filesInFlight'[g] = 1
                 /\ downloadState = "WaitOtaFileResponse" /\ g = downloads[1].file
      <4>1. filesInFlight[g] > 0
        BY <1>3, <1>4, <3>1
      <4> QED
        BY <1>3, <1>4, <3>1, <4>1 DEF DownloadInv, AnswersInTime
    <3> QED
      BY <1>1, <1>5, <3>1 DEF DownloadInv, AnswersInTime
  <2> QED
    BY <1>1, <1>5, <2>1, <2>2
    DEF DownloadInv, DownloadTimerArmed, QueueDistinct, WaitsForFront, StoredUnderOwnName
<1>6. CASE downloadState = "WaitOtaFileResponse" /\ downloads # << >> /\ StoreOtaFile(f)
  <2>1. /\ downloads \in Seq(DownloadOtaFile) /\ Distinct(downloads) /\ DownloadTypeOK
        /\ imgDir \in [OtaFiles -> OtaFiles \cup {Garbage, None}]
    BY DEF DownloadInv, DownloadTypeOK, QueueDistinct, Distinct
  <2>2. /\ downloads' = DropFront(downloads)
        /\ downloadState' = "RequestOtaFile" /\ downloadTimer' = TRUE
    BY <1>6, Zenon DEF StoreOtaFile, GoTo
  <2>3. downloads' \in Seq(DownloadOtaFile) /\ Distinct(downloads')
    BY <1>6, <2>1, <2>2, DropFrontProperties, DropFrontDistinct
  <2>4. downloads[1].file \in OtaFiles
    BY <1>6, <2>1, Front
  <2>5. \/ imgDir' = imgDir
        \/ \E data \in {f, Garbage, None} : imgDir' = [imgDir EXCEPT ![downloads[1].file] = data]
    BY <1>6 DEF StoreOtaFile
  <2>6. imgDir' \in [OtaFiles -> OtaFiles \cup {Garbage, None}]
    BY <2>1, <2>4, <2>5
  <2>7. DownloadTypeOK'
    BY <1>1, <1>4, <2>1, <2>2, <2>3, <2>6 DEF DownloadTypeOK, DownloadStates
  <2>8. ASSUME ~overdue
        PROVE  /\ \A g \in OtaFiles : ~(filesInFlight'[g] > 0)
               /\ ~(indexInFlight > 0) /\ f = downloads[1].file
    <3>1. filesInFlight[f] = 1 /\ f = downloads[1].file
      BY <1>2, <2>8 DEF DownloadInv, AnswersInTime
    <3>2. \A g \in OtaFiles : g # f => ~(filesInFlight[g] > 0)
      BY <2>8, <3>1 DEF DownloadInv, AnswersInTime
    <3>3. \A g \in OtaFiles : ~(filesInFlight'[g] > 0)
      BY <1>2, <1>3, <3>1, <3>2
    <3>4. ~(indexInFlight > 0)
      BY <1>6, <2>8 DEF DownloadInv, AnswersInTime
    <3> QED
      BY <3>1, <3>3, <3>4
  <2>9. AnswersInTime'
    BY <1>1, <2>8 DEF DownloadInv, AnswersInTime
  <2>10. StoredUnderOwnName'
    <3> SUFFICES ASSUME ~overdue, NEW g \in OtaFiles PROVE imgDir'[g] \in {g, Garbage, None}
      BY <1>1 DEF StoredUnderOwnName
    <3>1. imgDir[g] \in {g, Garbage, None}
      BY DEF DownloadInv, StoredUnderOwnName
    <3> QED
      BY <2>1, <2>5, <2>8, <3>1
  <2> QED
    BY <2>2, <2>3, <2>7, <2>9, <2>10
    DEF DownloadInv, DownloadTimerArmed, QueueDistinct, Distinct, WaitsForFront
<1> QED
  BY <1>5, <1>6, Zenon DEF OtaFileFailed, OtaFileDone

(* The invariant holds in every state. *)
LEMMA DownloadInvariant == DownloadSpec => []DownloadInv
<1>1. DownloadInit => DownloadInv
  <2> SUFFICES ASSUME DownloadInit PROVE DownloadInv
    OBVIOUS
  <2>1. downloads \in Seq(DownloadOtaFile) /\ DOMAIN downloads = {}
    BY EmptySeq DEF DownloadInit
  <2>2. DownloadTypeOK
    <3>1. /\ imgDir \in [OtaFiles -> OtaFiles \cup {Garbage, None}]
          /\ indexInFlight \in 0 .. MaxInFlight /\ filesInFlight \in [OtaFiles -> 0 .. MaxInFlight]
      BY DownloadAssumption DEF DownloadInit
    <3>2. /\ downloadState \in DownloadStates /\ downloadTimer \in BOOLEAN
          /\ remoteIndex \in IndexFiles \cup {<< >>} /\ overdue \in BOOLEAN
      BY Zenon DEF DownloadInit, DownloadStates
    <3> QED
      BY <2>1, <3>1, <3>2 DEF DownloadTypeOK
  <2>3. AnswersInTime
    BY DEF DownloadInit, AnswersInTime
  <2> QED
    BY <2>1, <2>2, <2>3
    DEF DownloadInit, DownloadInv, DownloadTimerArmed, QueueDistinct, WaitsForFront,
        StoredUnderOwnName
<1>2. DownloadInv /\ [DownloadNext]_downloadVars => DownloadInv'
  <2> SUFFICES ASSUME DownloadInv, [DownloadNext]_downloadVars PROVE DownloadInv'
    OBVIOUS
  <2>1. CASE UNCHANGED downloadVars
    BY <2>1 DEF downloadVars, DownloadInv, DownloadTypeOK, DownloadTimerArmed, QueueDistinct,
                WaitsForFront, AnswersInTime, StoredUnderOwnName
  <2> QED
    BY <2>1, RequestIndexKeeps, IndexAnswerKeeps, ProcessIndexKeeps, RequestOtaFileKeeps,
       WaitOtaFileResponseKeeps, OtaFileAnswerKeeps, Zenon
    DEF DownloadNext, DownloadTimerFired
<1> QED
  BY <1>1, <1>2, PTL DEF DownloadSpec

(* The variables keep their types; above all no file is asked for more than *)
(* MAX_DOWNLOAD_RETRY times while it is in the queue.                       *)
THEOREM DownloadTypeCorrect == DownloadSpec => []DownloadTypeOK
<1>1. DownloadInv => DownloadTypeOK
  BY DEF DownloadInv
<1> QED
  BY <1>1, DownloadInvariant, PTL

(* Whatever answers are lost, late or doubled, a check that has begun has   *)
(* its timer running, so that m_downloadState can always go on.             *)
THEOREM TimerAlwaysArmed == DownloadSpec => []DownloadTimerArmed
<1>1. DownloadInv => DownloadTimerArmed
  BY DEF DownloadInv
<1> QED
  BY <1>1, DownloadInvariant, PTL

(* m_downloads never holds a file twice, although finished and abandoned    *)
(* entries are replaced by the last one and a cancelled check leaves the    *)
(* rest of its queue to the next.                                           *)
THEOREM QueueStaysDistinct == DownloadSpec => []QueueDistinct
<1>1. DownloadInv => QueueDistinct
  BY DEF DownloadInv
<1> QED
  BY <1>1, DownloadInvariant, PTL

(* downloadedStoreOtaFile() never meets an empty queue, and the front of    *)
(* the queue is a file that was asked for.                                  *)
THEOREM AnswersMeetTheFront == DownloadSpec => []WaitsForFront
<1>1. DownloadInv => WaitsForFront
  BY DEF DownloadInv
<1> QED
  BY <1>1, DownloadInvariant, PTL

(* A file is stored under its own name as long as no answer came after its  *)
(* timeout, although a callback does not say which file it brings.          *)
THEOREM FilesKeepTheirNames == DownloadSpec => []StoredUnderOwnName
<1>1. DownloadInv => StoredUnderOwnName
  BY DEF DownloadInv
<1> QED
  BY <1>1, DownloadInvariant, PTL
=============================================================================
