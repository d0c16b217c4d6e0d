# A verification of the STD OTAU plugin

The STD OTAU plugin of deCONZ is a ZigBee Over-the-Air-Upgrade server: devices
ask it for firmware images, and it sends them block by block or page by page.
This directory holds TLA+ modules that model the plugin from its source, TLC
configurations that check them on small instances, and TLAPS proofs of what
holds for every instance. `PROJECT.json` lists the runs, the source lines each
definition stands for, the hazards and the theorems.

File and line numbers refer to the repository (`src/`).

## Inventory

| Component | State | Operations | Correct when |
|---|---|---|---|
| Upgrade sessions (`std_otau_plugin.cpp`, `otau_node.*`) | one `OtauNode` record per device: state, remembered request id, request and page fields, selected file, offered image; page and cleanup timer; `m_nNoAckErrors`, `m_maxAsduDataSize` | `apsdeDataIndication` with its four handlers, `apsdeDataConfirm`, `imagePageTimerFired`, `cleanupTimerFired` | a page never waits for a confirm that cannot come; blocks lie in the image and the page; pages and waits end |
| Activity tracker | `m_otauTracker`, activity timer | `markOtauActivity`, `activityTimerFired` | at most `OTAU_MAX_ACTIVE` different devices, silent ones leave |
| Online check | `m_downloadState`, timer, queue `m_downloads`, image folder | `downloadRequestIndex`, `downloadTimerFired`, downloader callbacks | never stuck, always ends, files stored under their own names |
| Control widget | page request box; changes the selected session | query, abort, update, select file | choices take effect without mixing images |
| Local index, update selection | `ota_index.json`, the image folder | `createLocalFileIndex`, `checkForUpdateImageImage` | a newer image for the device is found, and what is found fits |
| File format, file loader | none | `fromArray`, `toArray`, `readFile`, `saveFile` | header and data of a session belong together, also after a failed read; what is packed can be parsed |
| File editor of the widget | `m_path`, `m_editOf` | `openClicked`, `saveClicked` | a saved file has the edited header and the opened image |
| Node registry (`OtauModel`) | the list of records, the record that is shown | `getNode`, `nodeEvent`, `checkIfNewOtauNode`, `activatedNodeAtRow`, the addresses the handlers store | one record per device; confirms and images go to their device |
| Devices and network (external) | what a device was offered and has got; responses on the way | send requests, take or drop responses | a device gets one image, whole |
| Image notify, match descriptor, actor interface, display | none of their own that a session depends on | | |

**Interaction.** Everything runs in the Qt event loop, so a handler is atomic.
Handlers of different devices, confirms of requests in flight, timers, downloader
callbacks and the user's clicks interleave. The sessions share the APS layer (whose
8 bit request ids are reused), the tracker, the one page timer, and the frame size.
A confirm names a device and an id and nothing else; a download callback names nothing.

**What is hard.** Late confirms whose id was reused; requests that arrive in the
middle of a page; confirms and timer that both drive a page; single shot timers
that are not restarted; counters at their widths; the user who changes a file
during a transfer; downloads that answer after their timeout; network addresses that
change hands; blocks of a page, which are sent without acknowledgement; files that
cannot be read, are truncated or change after they were indexed. `hazards` in
`PROJECT.json` lists them by line.

## Modules

| Module | Models |
|---|---|
| `OtauTracker` | the activity tracker, also the abstract specification of it that the server implements |
| `OtauBlocks` | the size of a block, with the integer widths as parameters |
| `OtauServer` | the sessions, timers, confirms, widget buttons; extends the two above |
| `OtauServerHistory` | `OtauServer` with history variables, for statements about the past |
| `OtauUpdate` | abstract specification: what the server promises a device |
| `OtauDelivery` | `OtauServer` with the devices and a network that loses, repeats and reorders; implements `OtauUpdate` |
| `OtauRegistry` | the list of records and who is found in it |
| `OtauFile` | the file format and the file loader, as operators |
| `OtauFiles` | the image folder, the index, the search, the editor; extends `OtauFile` |
| `OtauDownload` | the online check |
| `MC...` | instances for TLC, restricted next-state relations, views |
| `OtauTracker_proofs`, `OtauServer_proofs`, `OtauPages_proofs`, `OtauTransfer_proofs`, `OtauDelivery_proofs`, `OtauRegistry_proofs`, `OtauDownload_proofs`, `OtauFiles_proofs` | the proofs |

Definitions marked "mistake" are never used by a specification. Each is a later
definition with one thing wrong, and substituting it must violate a property.

### OtauServer

`node[n]` is the `OtauNode` of device `n`. `imgBlockReq` is spread over the fields
`fileVersion`, `offset`, `maxDataSize`, `pageBytesDone`, `pageSize`; `pageOffset`
is the offset in `imgPageReq`. `file` is the selected file and `rawFile` the copy
of its bytes that is made when the image is offered. Elapsed timers are
abstracted to the thresholds the code compares them with; the actions
`ResponseAges`, `ActivityAges` and `TrackedAges` move them on at any moment.

Each handler is one action, including the response it sends: `QueryNextImageRequest`,
`ImageBlockRequest`, `ImagePageRequest`, `UpgradeEndRequest`, `StrayZclFrame`
(general ZCL frames, which only overwrite `lastZclCmd`), `MalformedQuery`,
`ConfirmIgnored`, `ConfirmFailed`, `ConfirmSucceeded`, `PageTimerServes`,
`PageTimerInactive`, `CleanupTimerFired`, `TrackerTick` and the clicks. The functions
that compute a response (`imageBlockResponse`, `imagePageResponse`, ...) are operators
that return the changed record (`BlockResponse`, `PageResponse`), the frames
(`BlockFrames`, `PageFrames`) and the C++ return value (`BlockSent`, `PageOk`).
The retry counters the constructor leaves uninitialised start as `Uninit`, a value
no counter takes.

The APS layer is external: a request is refused or gets an id no request in flight
has; a confirm comes for a request in flight, or for one this plugin does not follow
(image notifies, other plugins: `apsdeDataConfirm` is called for those too), whose id
is not in use. `apsPending` are the responses in flight.

Abstracted: a file's version stands for manufacturer code, image type and version
together; vendor, FLS-H software and OSRAM prefix are attributes of a device.
What the search of the folder finds is a choice: nothing, a file of `UpdateFiles`, one that
cannot be read, or (`WrappedUpdates`) an OTA file under the name of a firmware binary, which
`readFile` wraps without touching header and raw data, so that the session has those it had
before.
Left out: endpoints, sequence numbers and transmit options, fields that are only
displayed (`m_offset`, `m_status`, elapsed time), the plugin's state label,
`upgradeEndReq` (it is echoed), the frames of image notifies. A device is assumed
to have its extended address and to keep its record; `OtauRegistry` asks when that is so.

### OtauDelivery and OtauUpdate

`OtauUpdate` says what a device may rely on: it is offered an image, gets more of it,
installs it when it has all of it, or gives up. `OtauDelivery` adds to the server a
device and the responses on the air. `Message` puts a response together from the
record as the code does: the version is that of the selected file, the bytes those of
the image copied at the query. A response may be lost when it is sent or later, may
arrive any number of times and in any order. The device is external and does what the
protocol asks of a client: it asks for the version it was offered at the end of what it
has, takes a block only if it names this version and continues what it has, starts
again when another version is offered, stops on an error status, and ends the upgrade
when it is complete.

The refinement maps a device to the image of its version and to how much of that image
it has (-1 if its bytes are not the beginning of that image, a value `OtauUpdate` never
takes). `Forward` is an assumption about the user and the folder: the file of a device
is replaced only by a newer one. It is needed. Version and bytes of a response come from
different copies, so if the user goes back to an older file during a transfer, a block of
the newer image can be sent with the older version; and a request for any version
(`DONT_CARE_FILE_VERSION`), which the devices of this module do not send, is answered
with the new file's version and the old image's bytes.

### OtauRegistry

`nodes` is `m_nodes`, searched by `GetNode` for the first record that has the extended
or the network address. Devices join, leave and get other network addresses. A query
stores the sender's address in the record that was found, a block request the extended
address of its payload. A page request is ignored, refused or starts a page. Of a session the record keeps what tells for whom it is: the
file, the permission, a page under way, an awaited confirm. History variables:
`chosenFor` (the device whose row the user had selected when choosing the file), `owner`
and `clean`, which stays true while no network address was used by two devices and
the core knew the extended address of every sender. The sorted view of the table is a
permutation of the rows, and the code maps a clicked row back to the model.

### OtauFile and OtauFiles

A file is a sequence of cells, one per field of the format that is compared or that
decides about the rest: magic, header length and control, manufacturer code, version,
total size, then the sub elements (tag, length, bytes). Manufacturer code stands for
code and image type together. `FromArray` searches the header, reads the sub
elements as far as they fit and sets the image to the part of the array the total size
names; when it fails it leaves behind the fields it had replaced. `ReadFile`
adds the container a `.bin` gets. A hash is the content itself.

In `OtauFiles` the folder changes at any moment, while index, session and editor hold
copies. The index is described by what it contains (`IsIndexOf`): the files that parse, in
the order of the folder, without later copies of the same content. `session.origin` and
`soughtFor` are history variables: where the file came from ("index", "stale" if the index
was older than the folder, "wrapped" if it is an OTA file under the name of a firmware
binary, "user") and which version it was to be newer than. `FoundImageFits` is about the
first of these: `readFile()` wraps a binary without setting the header of the node's file,
so for a wrapped file the header is whatever the session had before. A sub element that `saveClicked` writes
without having found one has any tag and length (uninitialised in the code).

### OtauDownload

A file stands for its content, SHA-512 and file name. `indexInFlight` and
`filesInFlight` count unanswered downloads, which may be answered at any time or never;
the history variable `overdue` tells whether one has outlived its 20 s timeout. Which index entries match
a known device is a free choice. `m_downloadIndexAge` is never assigned, so the index
is always fetched anew.

## Runs

| Run | Shows |
|---|---|
| `tracker` | four devices, three slots: bounded, no duplicates, slots are freed |
| `server_full` | every action with one device: types; a page that remembers a request id has that block in flight (`ConfirmAwaited`); retry counters are set where read and below their limits (`RetriesBounded`); only a switched off OTA server makes a waiting node lose the timer (`PageTimerKept`); a file is kept without the cleanup timer only if the user chose it for a device that is silent (`CleanupTimerKept`) |
| `server_transfer` | the counters of a page agree (`PageAccounting`); data lies inside the image and fits the frame, and the blocks of a page never grow (`BlocksFit`); data is not empty and stays in the page (`DataWithinPage`, for pages that end a block before the end of the number range) |
| `server_offer` | two devices of different vendors, a file that fails to load, changing choices, one slot: `BlocksFit`; who is offered an image holds a slot (`OfferHoldsSlot`); FLS-H get no old image (`FlsHProtected`) |
| `server_page_ends` | pages that can be filled (`Fillable`) end (`PageEnds`), silent devices are given up (`GivesUp`) |
| `download` | with lost and late answers: the timer runs in every state but the initial one, the queue has no duplicates, the file waited for is at the front, and the check ends; as long as no download has outlived its timeout, no file is stored under another's name |
| `registry` | two devices, four network addresses: while `clean`, a device has one record (`UniqueRecords`), a record that awaits a confirm will be found by it (`ConfirmFindsRecord`), and no image goes to another device than the one it was chosen for (`ImageForItsDevice`) |
| `files` | three files with complete, wrapped, truncated, header-only, too short and Legrand contents: what an up-to-date index finds is newer and for the device (`FoundImageFits`), nothing is missed (`UpdateFound`), the header that is announced is that of the bytes that are sent and there are no more bytes than announced (`HeaderOfImage`), saved files can be read (`SavedFileReadable`) |
| `delivery` | the server implements `OtauUpdate` (`ImplementsUpdate`): a device never holds bytes of two images, has no gaps and installs complete images only |

Three runs end in a violation; each refutes what a comment or document says:

| Run | Counterexample |
|---|---|
| `server_end_without_update` | the ABORT for an upgrade end "_without_ any update happening before" (`std_otau_plugin.cpp:2375`) is skipped for a device that was sent nothing but blocks with a refusing status, since every confirmed block response advances the offset that is tested |
| `registry_takeover` | "Select your device from the list (match the IEEE address)" (`README.md:18`), but a device that gets the network address of one that has left finds its record, which then takes the new extended address and keeps file and permission; the user of this run selects in the table only (`TableNext`) |
| `files_backup` | `checkForUpdateImageImage` "Checks if a new otau image for the node is available in the otau folder." (`std_otau_plugin.cpp:647`), but it stops at the first newer entry of the index, and the index lists files whatever their name: an older image whose name `readFile` refuses, such as a backup, keeps the device from a readable, still newer image |

Behaviours met while modelling that a reader may not expect, and that the properties
take into account:

- A general ZCL frame of the device in the middle of a page overwrites `lastZclCmd`; the
  page then neither continues nor counts a retry (`imagePageTimerFired`) until the device
  asks again. `PageEnds` is checked for devices that send none.
- A page can go on for ever. Past the end of the image each block is answered
  MALFORMED_COMMAND, and its confirm still adds the size that was asked for to the 16 bit
  `pageBytesDone` (`std_otau_plugin.cpp:579`). The page ends when the count is at least the
  page size (2285), which a count that wraps round may step over: with a page size of 0xFFFF
  and blocks of 40 bytes it does so turn after turn, since it stays a multiple of 8. A size
  of 0 does not move the count at all. `Fillable` excludes both from `PageEnds`: the blocks
  are not of size 0, and one that starts in the page cannot make the count wrap.
- Switching the OTA server off while a node waits stops the page timer for good;
  `PageTimerKept` states exactly this exception.
- A success does not reset `m_nNoAckErrors`, the "number of consecutive NO_ACK errors"
  (`std_otau_plugin.cpp:47`): `ConfirmSucceeded` leaves it alone.
- Choosing a file does not start the cleanup timer; `CleanupTimerKept` states exactly
  this exception.
- A block that is not acknowledged is repeated without limit.
- A refused block advances the page by the size that was asked for. Close to the end of the
  32 bit range the offset then wraps to the beginning of the file and the page goes on
  there; `PageInRange` excludes this from `DataWithinPage`. The offsets of `server_transfer`
  reach this case.
- The confirm of an upgrade end response takes the file from the session, also one the
  user selected in the meantime.

### Bounds

- The widths `U8`, `U16`, `U32` and the sizes are scaled down together (for instance
  8 bit = 4 values, frames of 3 bytes with a header of 1), keeping their order, so
  that pages of several blocks, a short last block, the old stack's limit, the reduced
  frame and wrap-arounds of the page counter are reached with images of 3 bytes. The page
  size 7 of `server_transfer`, the largest below `U16`, makes the counter wrap inside a page.
- `server_page_ends` has page sizes on both sides of the boundary of `Fillable` (4 and 5
  with `U16` 6 and `U8` 3), block sizes with and without 0, and offsets inside and past the
  image. Without either half of `Fillable` TLC finds a page that does not end.
- One or two request ids: enough for an old frame in flight next to a new one, and for
  reuse of an id by the other device.
- Retry limits of 2 instead of 10 and 5: the first failure and the giving up differ.
- `NO_ACK_THRESHOLD` between 0 and 3: the count and the fallback are reached, and the
  fallback at once where the run is not about it.
- One tracker slot for two devices; three for four in `tracker`.
- Registry: four addresses let each of two devices move once without a takeover, and
  three records suffice for a duplicate. `CleanView` compares states that are
  no longer `clean` by the shape of the registry only; apart from their type, the
  properties ask nothing of them.
- Delivery: images of two bytes and one, blocks of one byte, two responses on the way: a
  late or repeated block of the first image meets the second one. `MCServerStep` leaves
  out the steps that send nothing and change no field a response is made of.
- Files: `OneAtATime` lets the session and the editor work one after the other, since they
  share nothing but the folder, whose other contents are like those the editor saves.
- The full `Next` is explored for one device. The other server runs leave out
  actions that do not bear on their question, and start, where the question is about
  transfers, in a state in which the image has been offered (`OfferedInit`), which the full
  model reaches by select, update, query and confirm.
- Downloads: three files, an index of four entries with a duplicate, up
  to two unanswered downloads of each.

`LiveView` hides fields of a record that no action reads before they are set again
(the comment at its definition lists them); it and the other views are used for safety
runs only, and so is the symmetry of devices and addresses in `registry`.

### Fairness

The page, activity and download timers fire because the Qt event loop runs (weak
fairness). Time passes (weak fairness of `ResponseAges`, `ActivityAges`). `PageEnds`, which
is about pages that can be filled,
needs one thing more: of the blocks that are sent again and again one is confirmed as
delivered (strong fairness of `ConfirmSucceeded`), because the server repeats an
unacknowledged block without limit. The devices and the user owe nothing; the
downloader owes nothing either.

## Proofs

Every safety property the passing runs check is also a theorem, for any set of devices,
addresses, files, contents and request ids, and any widths and limits that satisfy the
named assumptions. TLC evaluates the assumptions on every instance, and they hold for the
constants of the source:

- `TrackerAssumption`, `ServerAssumption`, `StrayAssumption`: types of the constants; no
  image has no bytes (`RawSize[NoImage] = 0`).
- `BlocksAssumption`: the order of the widths and sizes, and that the 32 bit range is a
  multiple of the 16 bit one (`U32 % U16 = 0`). Without this `PageAccounting` is false: when
  the offset wraps, the two counters of a page would part.
- `DeliveryAssumption`: a version names one image. `DownloadAssumption`, `FileAssumption`,
  `FilesAssumption`: types; files are sequences of numbers, the folder has an order.

| Module | Theorems | Inductive invariant |
|---|---|---|
| `OtauTracker_proofs` | `TrackerTypeCorrect`, `TrackerIsBounded`, `SlotsAreReclaimable` | type, bound, distinctness, running timer |
| `OtauServer_proofs` | `TypeCorrect`, `ServerImplementsTracker`, `ServerTrackerBounded` | `TypeOK` |
| `OtauPages_proofs` | `ConfirmIsAwaited`, `RetriesAreBounded`, `PageTimerIsKept` | `PageInv`: `TypeOK` and `PagesSafe` |
| `OtauTransfer_proofs` | `PagesAreAccounted`, `BlocksAlwaysFit`, `DataStaysInPage`, `FlsHAreProtected`, `OffersHoldSlots`, `CleanupTimerIsKept` | `TransferInv`: `PageInv`, `PagesCounted`, `FlsHFiles` |
| `OtauDelivery_proofs` | `DeliveryImplementsUpdate` | `DeliveryInv`: `TransferInv`, `VersionsOrdered`, `DeviceOK`, `MessageOK` |
| `OtauRegistry_proofs` | `RegistryTypeCorrect`, `RecordsAreUnique`, `ConfirmsFindRecords`, `ImagesGoToTheirDevice` | `RegistryInv`: types and `CleanInv` |
| `OtauDownload_proofs` | `DownloadTypeCorrect`, `TimerAlwaysArmed`, `QueueStaysDistinct`, `AnswersMeetTheFront`, `FilesKeepTheirNames` | `DownloadInv` |
| `OtauFiles_proofs` | `FoundImagesFit`, `UpdatesAreFound`, `HeadersMatchImages`, `SavedFilesAreReadable` | `FilesInv`, `FormatInv` |

The arguments:

- **Tracker and server.** `TypeCorrect` has one lemma per operator and action. It needs
  that the size of a block is bounded by the request (`BlockDataSizeBounds`) and that
  sums are reduced to their width. The server implements `TrackerSpec` under the identity
  mapping, since every action is `MarkOtauActivity`, `TrackerElapses`, `ActivityTimerFired`
  or leaves the tracker alone; `ServerTrackerBounded` follows.
- **Pages.** The two page properties are proved together: a confirm may raise the block
  retry counter without the test for giving up, which is harmless only because a node with
  a block in flight has a counter of 0, and that is known only through `ConfirmAwaited`.
  That a step of one device keeps the pages of the others needs that request ids in
  flight are not given out twice.
- **Transfers.** Both counters of a page advance by the same amount and are then reduced,
  one modulo `U32`, the other modulo `U16`; `CountersAgree` is the lemma about that. For
  pages in range `PagesCounted` adds that no counter has wrapped, so the position is exactly
  the start of the page plus the bytes done, and that a page that awaits a confirm is not
  done; then the room left in the page bounds the block (`DataStaysInPage`). Only the
  offer checks the version for an FLS-H, so `FlsHFiles` says that the copied image of such
  a node is one that was checked, or none.
- **Delivery.** The version of a response comes from the selected file, its bytes from the
  copy made at the query. `VersionsOrdered` puts them in a line: what a request names is at
  most the version of the copy, which is at most that of the selected file (`Forward`).
  If a device accepts a block, its own version equals the last of the three, so all are equal and
  the bytes are of that image. `MessageOK` and `DeviceOK` say the same of the
  responses on the way and of what the devices hold. If a device took blocks
  without comparing versions, the step for `Arrives` would not be provable.
- **Registry.** While `clean`, an address has one owner; `CleanInv` says that every record
  has an extended address of its own and a network address its device has used, and
  therefore (`FindsOwnRecord`) the first record that fits is the device's own.
- **Online check.** `DownloadInv` adds to the four properties that, unless a download is
  overdue, the only ones in flight are those the state waits for (`AnswersInTime`); this
  is what makes the callback store the right content.
- **Index and search.** While the index is up to date, each entry has the header of the
  file it names and each file that parses is listed, itself or a copy of it
  (`IndexFits`). Reading again does not depend on what the session held (`ParsedAlike`).
  `UpdatesAreFound` needs that every name in the folder is one `readFile()` reads; without
  that it is false, which is the run `files_backup`.
- **File format.** The sub elements are a recursive function. That it exists, that it
  satisfies its equation (`ElementsUnfold`) and that its values are sub elements of which
  none has more bytes than its length says (`ElementsType`) is shown with a least
  counterexample: positions grow with every turn and end with the array. `HeadersMatchImages`
  then needs only the header: a total size of at least a header can only be read
  from an array that holds one. `SavedFilesAreReadable` shows that `FromArray` undoes
  `Packed` for a file with one sub element that is not empty.

Only model-checked are the liveness properties, which are out of the prover's reach:
`QuietSlotsFreed`, `PageEnds`, `GivesUp` and `CheckEnds`; and the three statements that
are refuted.

## Plan

All the modules, runs and safety theorems that were planned are there. Left to do:

1. An inductive invariant about the history variables of `OtauServerHistory`, to state what
   an upgrade end does guarantee where the comment it refutes promises more.
2. The safety part of the liveness arguments as theorems: a measure that every page timer
   step, respectively every download timer step, decreases.

## Not modelled

The frame of an image notify and its addressee: the server waits for nothing
after it (its confirm is modelled), and a device that gets one merely queries.
The match descriptor answer and the actor interface change no session. The widget's
texts, the table model and the plugin interface are presentation.
`unicastUpgradeEndRequest()` is connected to a signal that is never emitted.
