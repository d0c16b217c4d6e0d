----------------------------- MODULE OtauFiles -----------------------------
(***************************************************************************)
(* The image folder and what is read from it: the local index of the OTA   *)
(* files (createLocalFileIndex), the search for an update when a device    *)
(* queries (checkForUpdateImageImage), the file a user chooses for a       *)
(* device, and the editor tab of the control widget, which opens and saves *)
(* files of the same folder.                                               *)
(*                                                                         *)
(* The folder changes at any moment; the index and the files in memory are *)
(* copies.  The session of one device is kept as far as its file goes.     *)
(*                                                                         *)
(* Definitions marked "mistake" are never used.  Each is a later one with  *)
(* one thing wrong that a property must notice.                            *)
(***************************************************************************)
EXTENDS OtauFile

CONSTANTS
    PathOrder,       \* the file names, in the order QDir lists them
    Kind,            \* what the ending of a name stands for: ota, bin, other
    SavePath,        \* .bin and .GCF are saved as .zigbee
    NoPath,          \* no file is open in the editor
    Contents,        \* what others, users and downloads, put into each file
    DeviceCode,      \* manufacturer code (and image type) of the device
    SwVersions,      \* software versions the device may report
    EditCodes, EditVersions    \* what may be typed into the editor

Paths == Range(PathOrder)
AllContents == UNION {Contents[p] : p \in Paths}

ASSUME FilesAssumption ==
    /\ PathOrder \in Seq(Paths)
    /\ Kind \in [Paths -> {"ota", "bin", "other"}]
    /\ SavePath \in [Paths -> Paths]
    /\ NoPath \notin Paths
    /\ \A p \in Paths : Contents[p] \subseteq Seq(Nat)
    /\ SwVersions \subseteq Nat /\ EditCodes \subseteq Nat /\ EditVersions \subseteq Nat

VARIABLES
    disk,        \* the folder: the content of every file that exists
    index,       \* ota_index.json
    fresh,       \* the folder did not change since the index was written
    session,     \* file and hasData of the OtauNode; where the file comes from and
                 \* the version it was to be newer than
    editPath,    \* m_path
    editOf       \* m_editOf

filesVars == <<disk, index, fresh>>
editVars == <<editPath, editOf>>
vars == <<filesVars, session, editVars>>

----------------------------------------------------------------------------
(* createLocalFileIndex().                                                  *)

(* Mistake: files of the same version count as the same. *)
SameFileVersion(arr, other) ==
    FromArray(EmptyOtauFile, arr).file.fileVersion
        = FromArray(EmptyOtauFile, other).file.fileVersion

(* Two files with the same hash are listed once. *)
SameFile(arr, other) == arr = other

IndexEntry(p, arr) ==
    LET of == FromArray(EmptyOtauFile, arr).file
    IN  [path |-> p, sha512 |-> arr, mfcode |-> of.manufacturerCode,
         fileVersion |-> of.fileVersion]

(* The i-th name stands for a file that can be parsed, whatever the name. *)
Parses(d, i) ==
    PathOrder[i] \in DOMAIN d /\ FromArray(EmptyOtauFile, d[PathOrder[i]]).ok

(* The files that are listed: all that parse, but no copies of earlier ones. *)
Listed(d) ==
    {i \in DOMAIN PathOrder :
        /\ Parses(d, i)
        /\ \A j \in 1 .. i - 1 :
              Parses(d, j) => ~SameFile(d[PathOrder[i]], d[PathOrder[j]])}

(* idx has the entries of the listed files, in their order. *)
IsIndexOf(idx, d) ==
    \E n \in 0 .. Len(PathOrder) :
    \E pos \in [1 .. n -> Listed(d)] :
        /\ \A j, k \in 1 .. n : j < k => pos[j] < pos[k]
        /\ Listed(d) = {pos[k] : k \in 1 .. n}
        /\ idx = [k \in 1 .. n |-> IndexEntry(PathOrder[pos[k]], d[PathOrder[pos[k]]])]

----------------------------------------------------------------------------
NoSession == [file |-> EmptyOtauFile, hasData |-> FALSE, origin |-> "none", soughtFor |-> 0]

(* The folder is empty, or holds files already when the plugin starts. *)
Init ==
    /\ disk \in UNION {{d \in [ps -> AllContents] : \A p \in ps : d[p] \in Contents[p]} :
                       ps \in SUBSET Paths}
    /\ IsIndexOf(index, disk)
    /\ fresh = TRUE
    /\ session = NoSession
    /\ editPath = NoPath /\ editOf = EmptyOtauFile

(* Someone adds, replaces or removes a file. *)
FilePut(p) ==
    /\ \E c \in Contents[p] : disk' = [q \in DOMAIN disk \cup {p} |->
                                      IF q = p THEN c ELSE disk[q]]
    /\ fresh' = FALSE
    /\ UNCHANGED <<index, session, editVars>>

FileRemoved(p) ==
    /\ p \in DOMAIN disk
    /\ disk' = [q \in DOMAIN disk \ {p} |-> disk[q]]
    /\ fresh' = FALSE
    /\ UNCHANGED <<index, session, editVars>>

(* At the start of the plugin and after downloads. *)
CreateLocalFileIndex ==
    /\ IsIndexOf(index', disk)
    /\ fresh' = TRUE
    /\ UNCHANGED <<disk, session, editVars>>

----------------------------------------------------------------------------
(* checkForUpdateImageImage().                                              *)

(* Mistake: an image of the version the device runs counts as an update. *)
EligibleAgain(e, v) ==
    e.mfcode = DeviceCode /\ e.fileVersion >= v /\ e.path \in DOMAIN disk

(* An entry is for the device, newer than its software, and still there. *)
Eligible(e, v) ==
    e.mfcode = DeviceCode /\ e.fileVersion > v /\ e.path \in DOMAIN disk

(* The file the search finds: of the first eligible entry, or none. *)
UpdateFile(v) ==
    IF \E i \in DOMAIN index : Eligible(index[i], v)
    THEN index[CHOOSE i \in DOMAIN index :
                  /\ Eligible(index[i], v)
                  /\ \A j \in 1 .. i - 1 : ~Eligible(index[j], v)].path
    ELSE NoPath

(* queryNextImageRequest(): a device that reports version v and has no file *)
(* yet gets the update that the index names, if that can be read.           *)
QueryNextImageRequest(v) ==
    /\ ~session.hasData
    /\ LET p       == UpdateFile(v)
           cleared == [session.file EXCEPT !.subElements = << >>]
           read    == ReadFile(cleared, Kind[p], disk[p])
       IN  session' = IF p = NoPath THEN [session EXCEPT !.file = cleared]
                      ELSE [file |-> read.file, hasData |-> read.ok,
                            origin |-> IF ~fresh THEN "stale"
                                       ELSE IF Kind[p] = "bin" THEN "wrapped" ELSE "index",
                            soughtFor |-> IF fresh THEN v ELSE 0]
    /\ UNCHANGED <<filesVars, editVars>>

(* The session loses its file: the upgrade ends, or cleanupTimerFired(). *)
FileReleased ==
    /\ session.hasData
    /\ session' = [session EXCEPT !.hasData = FALSE]
    /\ UNCHANGED <<filesVars, editVars>>

----------------------------------------------------------------------------
(* The control widget.                                                      *)

(* fileSelectClicked(): the dialog does not show .bin files. *)
FileSelectClicked(p) ==
    /\ p \in DOMAIN disk /\ Kind[p] # "bin"
    /\ LET read == ReadFile(session.file, Kind[p], disk[p])
       IN  session' = [session EXCEPT !.file = read.file, !.origin = "user",
                                      !.soughtFor = 0, !.hasData = @ \/ read.ok]
    /\ UNCHANGED <<filesVars, editVars>>

(* openClicked(): the path is taken over before the file has been read, and *)
(* is empty after the dialog was cancelled.                                 *)
OpenClicked(p) ==
    /\ p \in DOMAIN disk
    /\ editPath' = p
    /\ editOf' = ReadFile(editOf, Kind[p], disk[p]).file
    /\ UNCHANGED <<filesVars, session>>

OpenCancelled ==
    /\ editPath' = NoPath
    /\ UNCHANGED <<filesVars, session, editOf>>

(* Sub element "upgrade image", which saveClicked() preserves: the last one *)
(* with that tag, or else one whose tag and length are not initialised.     *)
UpgradeImages(of) ==
    {i \in DOMAIN of.subElements : of.subElements[i].tag = TAG_UPGRADE_IMAGE}

LastUpgradeImage(of) == of.subElements[Max(UpgradeImages(of))]

Preserved(of) ==
    IF UpgradeImages(of) # {} THEN {<<LastUpgradeImage(of)>>}
    ELSE {<<[tag |-> t, length |-> l, data |-> << >>]>> :
            t \in {TAG_UPGRADE_IMAGE, TAG_UPGRADE_IMAGE + 1}, l \in {0, 1}}

(* OtauFileLoader::saveFile(). *)
SaveFile(p, of) ==
    disk' = [q \in DOMAIN disk \cup {p} |-> IF q = p THEN ToArray(of) ELSE disk[q]]

(* saveClicked(): without a path the file cannot be opened for writing. *)
SaveClicked ==
    \E code \in EditCodes, version \in EditVersions, subs \in Preserved(editOf) :
        LET edited == [editOf EXCEPT !.manufacturerCode = code, !.fileVersion = version,
                                     !.subElements = subs]
        IN  IF editPath = NoPath
            THEN editOf' = edited /\ UNCHANGED <<filesVars, session, editPath>>
            ELSE LET p == SavePath[editPath]
                 IN  /\ editPath' = p
                     /\ editOf' = Packed(edited).file
                     /\ SaveFile(p, edited)
                     /\ fresh' = FALSE
                     /\ UNCHANGED <<index, session>>

----------------------------------------------------------------------------
Next ==
    \/ \E p \in Paths : FilePut(p) \/ FileRemoved(p)
    \/ CreateLocalFileIndex
    \/ \E v \in SwVersions : QueryNextImageRequest(v)
    \/ FileReleased
    \/ \E p \in Paths : FileSelectClicked(p) \/ OpenClicked(p)
    \/ OpenCancelled \/ SaveClicked

Spec == Init /\ [][Next]_vars

----------------------------------------------------------------------------
(* An image that the search found in an index that was up to date is for    *)
(* the device and newer than the version it reported, although the header   *)
(* compared is that of the index and the image is read from the folder.     *)
(* Not so an OTA file under the name of a firmware binary: readFile() wraps *)
(* it and leaves the header of the node's file as it was.                   *)
FoundImageFits ==
    session.hasData /\ session.origin = "index" =>
        /\ session.file.manufacturerCode = DeviceCode
        /\ session.file.fileVersion > session.soughtFor

(* The search misses nothing: with an index that is up to date a device     *)
(* without a file gets one if the folder holds a newer image for it.        *)
UpdateFound ==
    [][\A v \in SwVersions : QueryNextImageRequest(v) /\ fresh
          /\ (\E p \in DOMAIN disk :
                LET read == ReadFile(EmptyOtauFile, Kind[p], disk[p])
                IN  /\ read.ok /\ read.file.manufacturerCode = DeviceCode
                    /\ read.file.fileVersion > v)
       => session'.hasData]_vars

(* The fields of a file are those of its image. *)
HeaderOf(of) ==
    /\ Len(of.raw) <= of.totalImageSize
    /\ of.totalImageSize >= MANDATORY_HEADER_LENGTH =>
          /\ Len(of.raw) >= MANDATORY_HEADER_LENGTH
          /\ of.raw[1] = MAGIC
          /\ Cell(of.raw, 3) = of.manufacturerCode
          /\ Cell(of.raw, 4) = of.fileVersion

(* The header the server announces and compares requests with is that of    *)
(* the image it sends, also after the user chose a file that cannot be      *)
(* read while the session kept the one before; and the image is never       *)
(* longer than the size announced.  An image that announces a size below    *)
(* that of a header is cut off in the header.                               *)
HeaderOfImage == HeaderOf(session.file)

(* What the editor saves can be read again: the file has the edited header, *)
(* the upgrade image and nothing else, and is an image of the size it       *)
(* announces, also when the file opened was truncated or had other parts.   *)
SavedFileReadable ==
    [][SaveClicked /\ editPath # NoPath /\ UpgradeImages(editOf) # {}
          /\ LastUpgradeImage(editOf).data # << >>
       => LET read == FromArray(EmptyOtauFile, disk'[editPath'])
          IN  /\ read.ok
              /\ read.file.manufacturerCode \in EditCodes
              /\ read.file.fileVersion \in EditVersions
              /\ read.file.subElements = <<LastUpgradeImage(editOf)>>
              /\ read.file.raw = disk'[editPath']
              /\ Len(read.file.raw) = read.file.totalImageSize]_vars
=============================================================================
