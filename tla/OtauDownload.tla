---------------------------- MODULE OtauDownload ----------------------------
(***************************************************************************)
(* The online check of the OTA server: it downloads the index of a public  *)
(* collection of OTA files, queues the files that fit a known device and   *)
(* are not in the image folder yet, and downloads them one by one.         *)
(*                                                                         *)
(* A state machine driven by one single shot timer, which also is the      *)
(* timeout of each download, and by the callbacks of the downloader, which *)
(* carry no hint about the request they belong to.                         *)
(*                                                                         *)
(* OTA files stand for themselves, their SHA-512 and the file name that is *)
(* made from it.                                                           *)
(***************************************************************************)
EXTENDS Naturals, Sequences

CONSTANTS
    OtaFiles,         \* the files in the online collection
    IndexFiles,       \* contents the index may have: sequences of OtaFiles
    Garbage,          \* downloaded data that is not an OTA file
    None,             \* no such file
    MaxInFlight       \* bound: unanswered downloads of one kind

MAX_DOWNLOAD_RETRY == 2

ASSUME DownloadAssumption ==
    /\ IndexFiles \subseteq Seq(OtaFiles)
    /\ Garbage \notin OtaFiles /\ None \notin OtaFiles
    /\ MaxInFlight \in Nat \ {0}

DownloadStates == {"Initial", "RequestIndex", "WaitIndexResponse", "ProcessIndex",
                   "RequestOtaFile", "WaitOtaFileResponse"}

DownloadOtaFile == [file : OtaFiles, retry : 0 .. MAX_DOWNLOAD_RETRY]

VARIABLES
    downloadState,    \* m_downloadState
    downloadTimer,    \* is m_downloadTimer running?
    downloads,        \* m_downloads
    remoteIndex,      \* content of ota_remote_index.json
    imgDir,           \* content of the image folder, by file name
    indexInFlight,    \* unanswered downloads of the index
    filesInFlight,    \* unanswered downloads of each file
    overdue           \* history: has a download ever outlived its timeout?

downloadVars == <<downloadState, downloadTimer, downloads, remoteIndex, imgDir,
                  indexInFlight, filesInFlight, overdue>>

DownloadInit ==
    /\ downloadState = "Initial"
    /\ downloadTimer = FALSE
    /\ downloads = << >>
    /\ remoteIndex = << >>
    /\ imgDir = [f \in OtaFiles |-> None]
    /\ indexInFlight = 0
    /\ filesInFlight = [f \in OtaFiles |-> 0]
    /\ overdue = FALSE

(* createLocalFileIndex() lists the files by the SHA-512 of their content;  *)
(* a file that does not parse is not listed.                                *)
LocalIndex == {imgDir[f] : f \in OtaFiles} \cap OtaFiles

(* N_Download() (external): one more download that may be answered. *)
OneMore(n) == IF n < MaxInFlight THEN n + 1 ELSE n

GoTo(state, timer) == downloadState' = state /\ downloadTimer' = timer

----------------------------------------------------------------------------
(* downloadRequestIndex(): the "check online" button. *)
DownloadRequestIndex ==
    /\ downloadState = "Initial"
    /\ GoTo("RequestIndex", TRUE)
    /\ UNCHANGED <<downloads, remoteIndex, imgDir, indexInFlight, filesInFlight, overdue>>

----------------------------------------------------------------------------
(* downloadTimerFired(), by state.                                          *)

TimerInitial ==
    /\ downloadTimer /\ downloadState = "Initial"
    /\ GoTo("Initial", FALSE)
    /\ UNCHANGED <<downloads, remoteIndex, imgDir, indexInFlight, filesInFlight, overdue>>

(* The age of the index is never recorded, so it is always fetched anew. *)
TimerRequestIndex ==
    /\ downloadTimer /\ downloadState = "RequestIndex"
    /\ \/ \* no index URL is configured
          /\ GoTo("Initial", FALSE)
          /\ UNCHANGED indexInFlight
       \/ /\ GoTo("WaitIndexResponse", TRUE)
          /\ indexInFlight' = OneMore(indexInFlight)
    /\ UNCHANGED <<downloads, remoteIndex, imgDir, filesInFlight, overdue>>

TimerWaitIndexResponse ==
    /\ downloadTimer /\ downloadState = "WaitIndexResponse"
    /\ GoTo("Initial", FALSE)
    /\ overdue' = (overdue \/ indexInFlight > 0)
    /\ UNCHANGED <<downloads, remoteIndex, imgDir, indexInFlight, filesInFlight>>

(* Of two definitions below that look alike, the first has a mistake that   *)
(* the properties must notice.                                              *)

Queued(q) == {q[i].file : i \in DOMAIN q}

NewEntriesAgain(matching) ==
    {i \in DOMAIN remoteIndex : remoteIndex[i] \in matching \ LocalIndex}

(* The entries of the index that are put into the queue: not in the image   *)
(* folder, not in the queue, and not named by an entry before.              *)
NewEntries(matching) ==
    {i \in DOMAIN remoteIndex :
        /\ remoteIndex[i] \in matching \ (LocalIndex \cup Queued(downloads))
        /\ \A j \in 1 .. i - 1 : remoteIndex[j] # remoteIndex[i]}

(* pos lists the numbers in S in their order. *)
InOrder(pos, S) ==
    /\ \A j, k \in DOMAIN pos : j < k => pos[j] < pos[k]
    /\ S = {pos[k] : k \in DOMAIN pos}

(* The queue with the listed entries of the index at its end. *)
Enqueue(pos) ==
    downloads \o [k \in DOMAIN pos |-> [file |-> remoteIndex[pos[k]], retry |-> 0]]

(* matching: the files of the index that fit a device known by now. *)
TimerProcessIndex ==
    /\ downloadTimer /\ downloadState = "ProcessIndex"
    /\ \/ \* no device has told its manufacturer code
          /\ GoTo("Initial", FALSE)
          /\ UNCHANGED downloads
       \/ \E matching \in SUBSET OtaFiles :
          \E n \in 0 .. Len(remoteIndex) :
          \E pos \in [1 .. n -> NewEntries(matching)] :
              /\ InOrder(pos, NewEntries(matching))
              /\ downloads' = Enqueue(pos)
              /\ IF downloads' = << >> THEN GoTo("Initial", FALSE)
                                       ELSE GoTo("RequestOtaFile", TRUE)
    /\ UNCHANGED <<remoteIndex, imgDir, indexInFlight, filesInFlight, overdue>>

(* m_downloads.front() = m_downloads.back(); m_downloads.pop_back() *)
DropFront(q) ==
    IF Len(q) = 1 THEN << >> ELSE [SubSeq(q, 1, Len(q) - 1) EXCEPT ![1] = q[Len(q)]]

RequestFrontForever ==
    /\ downloads' = downloads
    /\ GoTo("WaitOtaFileResponse", TRUE)
    /\ filesInFlight' = [filesInFlight EXCEPT ![downloads[1].file] = OneMore(@)]

RequestFront ==
    /\ downloads' = [downloads EXCEPT ![1].retry = @ + 1]
    /\ GoTo("WaitOtaFileResponse", TRUE)
    /\ filesInFlight' = [filesInFlight EXCEPT ![downloads[1].file] = OneMore(@)]

RetryLeftOnceMore == downloads[1].retry <= MAX_DOWNLOAD_RETRY

RetryLeft == downloads[1].retry < MAX_DOWNLOAD_RETRY

TimerRequestOtaFile ==
    /\ downloadTimer /\ downloadState = "RequestOtaFile"
    /\ \/ /\ downloads = << >>
          /\ GoTo("Initial", FALSE)
          /\ UNCHANGED <<downloads, filesInFlight>>
       \/ /\ downloads # << >> /\ RetryLeft
          /\ RequestFront
       \/ /\ downloads # << >> /\ ~RetryLeft
          /\ downloads' = DropFront(downloads)
          /\ GoTo("RequestOtaFile", TRUE)
          /\ UNCHANGED filesInFlight
    /\ UNCHANGED <<remoteIndex, imgDir,
                   indexInFlight, overdue>>

TimerWaitOtaFileResponse ==
    /\ downloadTimer /\ downloadState = "WaitOtaFileResponse"
    /\ GoTo("RequestOtaFile", TRUE)
    /\ overdue' = (overdue \/ \E f \in OtaFiles : filesInFlight[f] > 0)
    /\ UNCHANGED <<downloads, remoteIndex, imgDir, indexInFlight, filesInFlight>>

DownloadTimerFired ==
    \/ TimerInitial \/ TimerRequestIndex \/ TimerWaitIndexResponse
    \/ TimerProcessIndex \/ TimerRequestOtaFile \/ TimerWaitOtaFileResponse

----------------------------------------------------------------------------
(* Callbacks of the downloader.                                             *)

(* downloadIndexCallback() with an error, whatever the state is by now. *)
IndexFailed ==
    /\ indexInFlight > 0
    /\ indexInFlight' = indexInFlight - 1
    /\ downloadState' = "Initial"
    /\ UNCHANGED <<downloadTimer, downloads, remoteIndex, imgDir, filesInFlight, overdue>>

StoreIndexWithoutTimer ==
    /\ remoteIndex' \in IndexFiles
    /\ downloadState' = "ProcessIndex"
    /\ downloadTimer' = FALSE

StoreIndex ==
    /\ remoteIndex' \in IndexFiles
    /\ GoTo("ProcessIndex", TRUE)

(* downloadedStoreIndex(): ignored if late; too small, or the file cannot   *)
(* be written (it may be gone then); or stored.                             *)
IndexDone ==
    /\ indexInFlight > 0
    /\ indexInFlight' = indexInFlight - 1
    /\ \/ /\ downloadState # "WaitIndexResponse"
          /\ UNCHANGED <<downloadState, downloadTimer, remoteIndex>>
       \/ /\ downloadState = "WaitIndexResponse"
          /\ downloadState' = "Initial"
          /\ remoteIndex' \in {remoteIndex, << >>}
          /\ UNCHANGED downloadTimer
       \/ /\ downloadState = "WaitIndexResponse"
          /\ StoreIndex
    /\ UNCHANGED <<downloads, imgDir, filesInFlight, overdue>>

(* downloadOtaFileCallback() with an error: nothing but the timeout. *)
OtaFileFailed(f) ==
    /\ filesInFlight[f] > 0
    /\ filesInFlight' = [filesInFlight EXCEPT ![f] = @ - 1]
    /\ UNCHANGED <<downloadState, downloadTimer, downloads, remoteIndex, imgDir,
                   indexInFlight, overdue>>

StoreUnderBack(f) ==
    /\ downloads' = DropFront(downloads)
    /\ imgDir' \in {imgDir} \cup {[imgDir EXCEPT ![downloads[Len(downloads)].file] = data] :
                                    data \in {f, Garbage, None}}
    /\ GoTo("RequestOtaFile", TRUE)

(* downloadedStoreOtaFile(): the data is stored under the name of the file  *)
(* at the front of the queue, which is thereby done, whether the data was   *)
(* too small to keep, or the old file was removed and could not be written. *)
StoreOtaFile(f) ==
    /\ downloads' = DropFront(downloads)
    /\ imgDir' \in {imgDir} \cup {[imgDir EXCEPT ![downloads[1].file] = data] :
                                    data \in {f, Garbage, None}}
    /\ GoTo("RequestOtaFile", TRUE)

OtaFileDone(f) ==
    /\ filesInFlight[f] > 0
    /\ filesInFlight' = [filesInFlight EXCEPT ![f] = @ - 1]
    /\ \/ /\ downloadState # "WaitOtaFileResponse" \/ downloads = << >>
          /\ UNCHANGED <<downloadState, downloadTimer, downloads, imgDir>>
       \/ /\ downloadState = "WaitOtaFileResponse" /\ downloads # << >>
          /\ StoreOtaFile(f)
    /\ UNCHANGED <<remoteIndex, indexInFlight, overdue>>

DownloadNext ==
    \/ DownloadRequestIndex
    \/ DownloadTimerFired
    \/ IndexFailed \/ IndexDone
    \/ \E f \in OtaFiles : OtaFileFailed(f) \/ OtaFileDone(f)

DownloadSpec == DownloadInit /\ [][DownloadNext]_downloadVars

(* The timer of the Qt event loop fires; the downloader owes nothing. *)
DownloadLiveSpec == DownloadSpec /\ WF_downloadVars(DownloadTimerFired)

----------------------------------------------------------------------------
DownloadTypeOK ==
    /\ downloadState \in DownloadStates
    /\ downloadTimer \in BOOLEAN
    /\ downloads \in Seq(DownloadOtaFile)
    /\ remoteIndex \in IndexFiles \cup {<< >>}
    /\ imgDir \in [OtaFiles -> OtaFiles \cup {Garbage, None}]
    /\ indexInFlight \in 0 .. MaxInFlight
    /\ filesInFlight \in [OtaFiles -> 0 .. MaxInFlight]
    /\ overdue \in BOOLEAN

(* The state machine cannot get stuck on an answer that never comes: in     *)
(* every state but the initial one its timer runs, whatever callbacks were  *)
(* late, lost or doubled.                                                   *)
DownloadTimerArmed == downloadState # "Initial" => downloadTimer

(* No file is queued twice, although the queue survives a cancelled check   *)
(* and its order changes with every file that is taken out.                 *)
QueueDistinct ==
    \A i, j \in DOMAIN downloads : downloads[i].file = downloads[j].file => i = j

(* While a file is waited for, it is the one at the front of the queue that *)
(* was asked for, and the queue is not empty: the queue only changes with   *)
(* the state.                                                               *)
WaitsForFront ==
    downloadState = "WaitOtaFileResponse" =>
        downloads # << >> /\ downloads[1].retry \in 1 .. MAX_DOWNLOAD_RETRY

(* A file found under the name of f is f, or was damaged on the way, as     *)
(* long as no download has outlived its timeout: the callback stores what   *)
(* it gets under the name at the front of the queue, whatever was asked for *)
(* and however the queue was reordered in the meantime.                     *)
StoredUnderOwnName ==
    ~overdue => \A f \in OtaFiles : imgDir[f] \in {f, Garbage, None}

(* An online check ends, even if the downloader never answers: every queued *)
(* file is given up after MAX_DOWNLOAD_RETRY attempts.                      *)
CheckEnds == (downloadState # "Initial") ~> (downloadState = "Initial")
=============================================================================
