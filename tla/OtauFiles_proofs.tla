-------------------------- MODULE OtauFiles_proofs --------------------------
(***************************************************************************)
(* Proofs about the local index, the search for an update and the file     *)
(* format, for every folder, every content and every order of the names.   *)
(*                                                                         *)
(* What the search finds is read from the folder, what it compares is in   *)
(* the index.  IndexFits says how the two belong together while the index  *)
(* is up to date: each entry has the header of the file it names, and each *)
(* file that parses has an entry, of itself or of a copy.                  *)
(*                                                                         *)
(* FormatInv says what reading and packing leave behind: files of cells,   *)
(* headers that are those of the images.  The loop over the sub elements   *)
(* is a recursive function, which exists because its positions grow.       *)
(***************************************************************************)
EXTENDS OtauFiles, SequenceTheorems, WellFoundedInduction, TLAPS

(* The relation that induction on the numbers rests on. *)
Below == {ss \in Nat \X Nat : ss[1] < ss[2]}

(* A set of numbers that is not empty has a least one. *)
LEMMA LeastPosition ==
    ASSUME NEW T, T \subseteq Nat, T # {}
    PROVE  \E x \in T : \A y \in T : x <= y
<1>1. IsWellFoundedOn(Below, Nat)
  BY NatLessThanWellFounded DEF Below, OpToRel
<1>2. \E x \in T : \A y \in T : ~(<<y, x>> \in Below)
  BY <1>1, WFMin
<1>3. \A x, y \in Nat : <<y, x>> \notin Below => x <= y
  BY DEF Below
<1> QED
  BY <1>2, <1>3

----------------------------------------------------------------------------
(* Reading.                                                                 *)

(* What an array that can be parsed makes of a file does not depend on the  *)
(* file that is replaced.                                                   *)
LEMMA ParsedAlike ==
    ASSUME NEW of, NEW of2, NEW arr, FromArray(of, arr).ok
    PROVE  /\ FromArray(of2, arr).ok /\ FromArray(of2, arr).file = FromArray(of, arr).file
           /\ arr # << >>
<1> DEFINE offset == MagicAt(arr)
           short == Len(arr) < MANDATORY_HEADER_LENGTH \/ offset < 0
           small == Cell(arr, offset + 1) < MANDATORY_HEADER_LENGTH
           parsed == ParsedFile(arr, offset)
<1>1. \A x : FromArray(x, arr) =
                IF short THEN [ok |-> FALSE, file |-> x]
                ELSE IF small
                THEN [ok |-> FALSE, file |-> [x EXCEPT !.headerLength = Cell(arr, offset + 1)]]
                ELSE [ok |-> parsed.subElements # << >>, file |-> parsed]
  BY Zenon DEF FromArray
<1>2. arr = << >> => short
  BY DEF MANDATORY_HEADER_LENGTH
<1> HIDE DEF short, small, parsed, offset
<1>3. ~short /\ ~small
  BY <1>1
<1> QED
  BY <1>1, <1>2, <1>3

(* A file that parses is read, unless its name says it is not to be. *)
LEMMA ReadsParsed ==
    ASSUME NEW of, NEW kind \in {"ota", "bin"}, NEW arr, FromArray(EmptyOtauFile, arr).ok
    PROVE  ReadFile(of, kind, arr).ok
<1>1. arr # << >>
  BY ParsedAlike
<1>2. FromArray([of EXCEPT !.subElements = << >>], arr).ok
  BY ParsedAlike
<1> QED
  BY <1>1, <1>2 DEF ReadFile

(* What is read under the name of an OTA file has the header the index has. *)
LEMMA ReadsHeader ==
    ASSUME NEW of, NEW kind, kind # "bin", NEW arr, ReadFile(of, kind, arr).ok
    PROVE  /\ kind = "ota" /\ FromArray(EmptyOtauFile, arr).ok
           /\ ReadFile(of, kind, arr).file = FromArray(EmptyOtauFile, arr).file
<1> DEFINE cleared == [of EXCEPT !.subElements = << >>]
<1>1. kind = "ota" /\ arr # << >> /\ ReadFile(of, kind, arr) = FromArray(cleared, arr)
  BY DEF ReadFile
<1> HIDE DEF cleared
<1> QED
  BY <1>1, ParsedAlike

----------------------------------------------------------------------------
(* The inductive invariant.                                                 *)

(* Every entry is that of a file in the folder that parses. *)
IndexSound(idx, d) ==
    \A i \in DOMAIN idx :
        \E p \in DOMAIN d : idx[i] = IndexEntry(p, d[p]) /\ FromArray(EmptyOtauFile, d[p]).ok

(* Every file of the folder that parses has an entry, or a copy of it has. *)
IndexComplete(idx, d) ==
    \A p \in DOMAIN d :
        FromArray(EmptyOtauFile, d[p]).ok =>
            \E i \in DOMAIN idx, q \in DOMAIN d : idx[i] = IndexEntry(q, d[q]) /\ d[q] = d[p]

IndexFits(idx, d) == IndexSound(idx, d) /\ IndexComplete(idx, d)

FilesInv ==
    /\ DOMAIN disk \subseteq Paths
    /\ editPath \in Paths \cup {NoPath}
    /\ \E n \in Nat : DOMAIN index = 1 .. n
    /\ fresh => IndexFits(index, disk)
    /\ FoundImageFits

(* The names are numbered. *)
LEMMA PathNumbers ==
    /\ Len(PathOrder) \in Nat /\ DOMAIN PathOrder = 1 .. Len(PathOrder)
    /\ \A p \in Paths : \E i \in DOMAIN PathOrder : PathOrder[i] = p
<1>1. PathOrder \in Seq(Paths)
  BY FilesAssumption DEF FilesAssumption
<1> QED
  BY <1>1, LenProperties DEF Paths, Range

(* createLocalFileIndex() makes an index that fits the folder: of the files *)
(* with the same content the first is listed.                               *)
LEMMA IndexIsMade ==
    ASSUME NEW d, DOMAIN d \subseteq Paths, NEW idx, IsIndexOf(idx, d)
    PROVE  IndexFits(idx, d) /\ \E n \in Nat : DOMAIN idx = 1 .. n
<1>0. PICK n \in 0 .. Len(PathOrder) :
         \E pos \in [1 .. n -> Listed(d)] :
            /\ Listed(d) = {pos[k] : k \in 1 .. n}
            /\ idx = [k \in 1 .. n |-> IndexEntry(PathOrder[pos[k]], d[PathOrder[pos[k]]])]
  BY Zenon DEF IsIndexOf
<1>1. PICK pos \in [1 .. n -> Listed(d)] :
         /\ Listed(d) = {pos[k] : k \in 1 .. n}
         /\ idx = [k \in 1 .. n |-> IndexEntry(PathOrder[pos[k]], d[PathOrder[pos[k]]])]
  BY <1>0
<1>2. DOMAIN idx = 1 .. n /\ n \in Nat
  BY <1>1, PathNumbers
<1>3. IndexSound(idx, d)
  <2> SUFFICES ASSUME NEW k \in 1 .. n
               PROVE  \E p \in DOMAIN d : /\ idx[k] = IndexEntry(p, d[p])
                                          /\ FromArray(EmptyOtauFile, d[p]).ok
    BY <1>2 DEF IndexSound
  <2>1. pos[k] \in Listed(d)
    BY <1>1
  <2>2. /\ PathOrder[pos[k]] \in DOMAIN d
        /\ FromArray(EmptyOtauFile, d[PathOrder[pos[k]]]).ok
    BY <2>1 DEF Listed, Parses
  <2>3. idx[k] = IndexEntry(PathOrder[pos[k]], d[PathOrder[pos[k]]])
    BY <1>1
  <2> QED
    BY <2>2, <2>3
<1>4. IndexComplete(idx, d)
  <2> SUFFICES ASSUME NEW p \in DOMAIN d, FromArray(EmptyOtauFile, d[p]).ok
               PROVE  \E i \in DOMAIN idx, q \in DOMAIN d :
                         idx[i] = IndexEntry(q, d[q]) /\ d[q] = d[p]
    BY DEF IndexComplete
  <2> DEFINE T == {i \in DOMAIN PathOrder : Parses(d, i) /\ d[PathOrder[i]] = d[p]}
  <2>1. T \subseteq Nat /\ T # {}
    <3>1. PICK i \in DOMAIN PathOrder : PathOrder[i] = p
      BY PathNumbers
    <3>2. i \in T
      BY <3>1 DEF Parses
    <3> QED
      BY <3>2, PathNumbers
  <2>2. PICK i \in T : \A j \in T : i <= j
    <3> HIDE DEF T
    <3> QED
      BY <2>1, LeastPosition
  <2>3. i \in DOMAIN PathOrder /\ Parses(d, i) /\ d[PathOrder[i]] = d[p]
    BY <2>2
  <2>4. ASSUME NEW j \in 1 .. i - 1, Parses(d, j)
        PROVE  d[PathOrder[j]] # d[p]
    <3>1. j \in DOMAIN PathOrder /\ ~(i <= j)
      BY <2>3, PathNumbers
    <3> QED
      BY <2>2, <2>4, <3>1
  <2>5. i \in Listed(d)
    BY <2>3, <2>4 DEF Listed, SameFile
  <2>6. PICK k \in 1 .. n : pos[k] = i
    BY <1>1, <2>5
  <2>7. idx[k] = IndexEntry(PathOrder[i], d[PathOrder[i]]) /\ PathOrder[i] \in DOMAIN d
    BY <1>1, <2>3, <2>6 DEF Parses
  <2> QED
    BY <1>2, <2>3, <2>7
<1> QED
  BY <1>2, <1>3, <1>4 DEF IndexFits

(* The search finds the path of an eligible entry, if there is one. *)
LEMMA SearchFinds ==
    ASSUME NEW v, \E n \in Nat : DOMAIN index = 1 .. n, DOMAIN disk \subseteq Paths
    PROVE  /\ (\E i \in DOMAIN index : Eligible(index[i], v)) => UpdateFile(v) # NoPath
           /\ UpdateFile(v) # NoPath =>
                 \E i \in DOMAIN index : Eligible(index[i], v) /\ UpdateFile(v) = index[i].path
<1> DEFINE T == {i \in DOMAIN index : Eligible(index[i], v)}
           First(i) == /\ Eligible(index[i], v)
                       /\ \A j \in 1 .. i - 1 : ~Eligible(index[j], v)
<1>1. CASE T = {}
  <2>1. ~\E i \in DOMAIN index : Eligible(index[i], v)
    BY <1>1
  <2> QED
    BY <2>1 DEF UpdateFile
<1>2. CASE T # {}
  <2>1. T \subseteq Nat
    OBVIOUS
  <2>2. PICK i \in T : \A j \in T : i <= j
    <3> HIDE DEF T
    <3> QED
      BY <1>2, <2>1, LeastPosition
  <2>3. i \in DOMAIN index /\ First(i)
    BY <2>2
  <2> DEFINE k == CHOOSE k \in DOMAIN index : First(k)
  <2>4. k \in DOMAIN index /\ First(k)
    BY <2>3
  <2>5. UpdateFile(v) = index[k].path
    BY <2>3 DEF UpdateFile
  <2>6. index[k].path \in Paths
    BY <2>4 DEF Eligible
  <2> QED
    BY <2>4, <2>5, <2>6, FilesAssumption DEF FilesAssumption
<1> QED
  BY <1>1, <1>2

----------------------------------------------------------------------------
(* The steps.                                                               *)

(* The index is made before the first step. *)
LEMMA InitFiles == Init => FilesInv
<1> SUFFICES ASSUME Init
             PROVE  FilesInv
  OBVIOUS
<1>1. DOMAIN disk \subseteq Paths
  BY DEF Init
<1>2. IndexFits(index, disk) /\ \E n \in Nat : DOMAIN index = 1 .. n
  BY <1>1, IndexIsMade DEF Init
<1>3. FoundImageFits
  BY DEF Init, NoSession, FoundImageFits
<1> QED
  BY <1>1, <1>2, <1>3 DEF FilesInv, Init

(* What the search finds in an index that fits has the header it looked for. *)
LEMMA QueryFits ==
    ASSUME FilesInv, NEW v \in SwVersions, QueryNextImageRequest(v)
    PROVE  FoundImageFits'
<1> DEFINE p == UpdateFile(v)
           cleared == [session.file EXCEPT !.subElements = << >>]
           read == ReadFile(cleared, Kind[p], disk[p])
<1>1. ~session.hasData
  BY Zenon DEF QueryNextImageRequest
<1>2. session' = IF p = NoPath THEN [session EXCEPT !.file = cleared]
                 ELSE [file |-> read.file, hasData |-> read.ok,
                       origin |-> IF ~fresh THEN "stale"
                                  ELSE IF Kind[p] = "bin" THEN "wrapped" ELSE "index",
                       soughtFor |-> IF fresh THEN v ELSE 0]
  BY Zenon DEF QueryNextImageRequest
<1>3. CASE p = NoPath
  <2>1. session' = [session EXCEPT !.file = cleared]
    BY <1>2, <1>3
  <2>2. ~session'.hasData
    BY <1>1, <2>1
  <2> QED
    BY <2>2 DEF FoundImageFits
<1>4. CASE p # NoPath
  <2> SUFFICES ASSUME session'.hasData, session'.origin = "index"
               PROVE  /\ session'.file.manufacturerCode = DeviceCode
                      /\ session'.file.fileVersion > session'.soughtFor
    BY DEF FoundImageFits
  <2> HIDE DEF p, read
  <2>1. /\ session'.file = read.file /\ read.ok
        /\ fresh /\ Kind[p] # "bin" /\ session'.soughtFor = v
    BY <1>2, <1>4
  <2>2. PICK i \in DOMAIN index : Eligible(index[i], v) /\ p = index[i].path
    BY <1>4, SearchFinds DEF FilesInv, p
  <2>3. PICK q \in DOMAIN disk : index[i] = IndexEntry(q, disk[q])
    BY <2>1 DEF FilesInv, IndexFits, IndexSound
  <2> DEFINE of == FromArray(EmptyOtauFile, disk[q]).file
  <2>4. /\ index[i].path = q /\ index[i].mfcode = of.manufacturerCode
        /\ index[i].fileVersion = of.fileVersion
    BY <2>3 DEF IndexEntry
  <2>5. read.file = of
    BY <2>1, <2>2, <2>4, ReadsHeader DEF read
  <2> HIDE DEF of
  <2> QED
    BY <2>1, <2>2, <2>4, <2>5 DEF Eligible
<1> QED
  BY <1>3, <1>4

(* Every step keeps the invariant. *)
LEMMA NextFiles == FilesInv /\ [Next]_vars => FilesInv'
<1> SUFFICES ASSUME FilesInv, [Next]_vars
             PROVE  FilesInv'
  OBVIOUS
<1> USE DEF FilesInv
<1>1. ASSUME NEW p \in Paths, FilePut(p) \/ FileRemoved(p)
      PROVE  FilesInv'
  <2>1. DOMAIN disk' \subseteq Paths
    BY <1>1 DEF FilePut, FileRemoved
  <2> QED
    BY <1>1, <2>1 DEF FilePut, FileRemoved, editVars, FoundImageFits
<1>2. CASE CreateLocalFileIndex
  <2>1. IndexFits(index', disk) /\ \E n \in Nat : DOMAIN index' = 1 .. n
    BY <1>2, IndexIsMade DEF CreateLocalFileIndex
  <2> QED
    BY <1>2, <2>1 DEF CreateLocalFileIndex, editVars, FoundImageFits
<1>3. ASSUME NEW v \in SwVersions, QueryNextImageRequest(v)
      PROVE  FilesInv'
  <2>1. UNCHANGED <<filesVars, editVars>>
    BY <1>3, Zenon DEF QueryNextImageRequest
  <2> QED
    BY <1>3, <2>1, QueryFits DEF filesVars, editVars
<1>4. CASE FileReleased
  <2>1. session' = [session EXCEPT !.hasData = FALSE] /\ session.hasData
    BY <1>4 DEF FileReleased
  <2>2. session'.hasData = FALSE \/ session'.hasData = session.hasData
    BY <2>1
  <2>3. FoundImageFits'
    BY <2>1, <2>2 DEF FoundImageFits
  <2> QED
    BY <1>4, <2>3 DEF FileReleased, filesVars, editVars
<1>5. ASSUME NEW p \in Paths, FileSelectClicked(p)
      PROVE  FilesInv'
  <2>1. \E x, y : session' = [session EXCEPT !.file = x, !.origin = "user",
                                             !.soughtFor = 0, !.hasData = y]
    BY <1>5 DEF FileSelectClicked
  <2>2. FoundImageFits'
    BY <2>1 DEF FoundImageFits
  <2> QED
    BY <1>5, <2>2 DEF FileSelectClicked, filesVars, editVars
<1>6. CASE (\E p \in Paths : OpenClicked(p)) \/ OpenCancelled
  BY <1>6 DEF OpenClicked, OpenCancelled, filesVars, FoundImageFits
<1>7. CASE SaveClicked
  <2>1. \/ UNCHANGED <<filesVars, session, editPath>>
        \/ /\ editPath # NoPath /\ editPath' = SavePath[editPath] /\ ~fresh'
           /\ DOMAIN disk' = DOMAIN disk \cup {SavePath[editPath]}
           /\ UNCHANGED <<index, session>>
    BY <1>7 DEF SaveClicked, SaveFile
  <2>2. editPath # NoPath => SavePath[editPath] \in Paths
    BY FilesAssumption DEF FilesAssumption
  <2> QED
    BY <2>1, <2>2 DEF filesVars, FoundImageFits
<1>8. CASE UNCHANGED vars
  BY <1>8 DEF vars, filesVars, editVars, FoundImageFits
<1> QED
  BY <1>1, <1>2, <1>3, <1>4, <1>5, <1>6, <1>7, <1>8 DEF Next

(* The invariant holds in every state. *)
LEMMA FilesInvariant == Spec => []FilesInv
  BY InitFiles, NextFiles, PTL DEF Spec

(* What checkForUpdateImageImage() finds with an index that is up to date   *)
(* is an image for the device, newer than the version it reported.          *)
THEOREM FoundImagesFit == Spec => []FoundImageFits
<1>1. FilesInv => FoundImageFits
  BY DEF FilesInv
<1> QED
  BY <1>1, FilesInvariant, PTL

(* If every name in the folder is one that readFile() reads, then           *)
(* checkForUpdateImageImage() misses no image: the only reason for a device *)
(* to go without is a file under another name, which is listed in the index *)
(* all the same.                                                            *)
THEOREM UpdatesAreFound ==
    ASSUME \A p \in Paths : Kind[p] # "other"
    PROVE  Spec => UpdateFound
<1> DEFINE Newer(p, v) ==
             LET read == ReadFile(EmptyOtauFile, Kind[p], disk[p])
             IN  /\ read.ok /\ read.file.manufacturerCode = DeviceCode
                 /\ read.file.fileVersion > v
           Found == \A v \in SwVersions :
             QueryNextImageRequest(v) /\ fresh /\ (\E p \in DOMAIN disk : Newer(p, v))
                => session'.hasData
<1>1. FilesInv /\ [Next]_vars => [Found]_vars
  <2> SUFFICES ASSUME FilesInv, NEW v \in SwVersions, QueryNextImageRequest(v), fresh,
                      NEW p \in DOMAIN disk, Newer(p, v)
               PROVE  session'.hasData
    BY Zenon
  <2>1. p \in Paths /\ Kind[p] \in {"ota", "bin"} /\ v \in Nat
    BY FilesAssumption DEF FilesInv, FilesAssumption
  <2> DEFINE of == FromArray(EmptyOtauFile, disk[p]).file
  <2>2. /\ FromArray(EmptyOtauFile, disk[p]).ok /\ of.manufacturerCode = DeviceCode
        /\ of.fileVersion > v
    <3>1. CASE Kind[p] = "ota"
      BY <3>1, ReadsHeader
    <3>2. CASE Kind[p] = "bin"
      <4>1. \E x : ReadFile(EmptyOtauFile, Kind[p], disk[p]).file
                     \in {EmptyOtauFile, [EmptyOtauFile EXCEPT !.subElements = x]}
        BY <3>2 DEF ReadFile
      <4>2. ReadFile(EmptyOtauFile, Kind[p], disk[p]).file.fileVersion = 0
        BY <4>1 DEF EmptyOtauFile
      <4> QED
        BY <2>1, <4>2
    <3> QED
      BY <2>1, <3>1, <3>2
  <2>3. PICK i \in DOMAIN index, q \in DOMAIN disk :
           index[i] = IndexEntry(q, disk[q]) /\ disk[q] = disk[p]
    BY <2>2 DEF FilesInv, IndexFits, IndexComplete
  <2>4. Eligible(index[i], v)
    <3>1. /\ index[i].path = q /\ index[i].mfcode = of.manufacturerCode
          /\ index[i].fileVersion = of.fileVersion
      BY <2>3 DEF IndexEntry
    <3> HIDE DEF of
    <3> QED
      BY <2>2, <3>1 DEF Eligible
  <2> DEFINE f == UpdateFile(v)
             cleared == [session.file EXCEPT !.subElements = << >>]
             read == ReadFile(cleared, Kind[f], disk[f])
  <2>5. f # NoPath /\ \E k \in DOMAIN index : f = index[k].path
    BY <2>4, SearchFinds DEF FilesInv
  <2>6. f \in DOMAIN disk /\ FromArray(EmptyOtauFile, disk[f]).ok
    <3> HIDE DEF f
    <3> QED
      BY <2>5 DEF FilesInv, IndexFits, IndexSound, IndexEntry
  <2>7. Kind[f] \in {"ota", "bin"}
    BY <2>6, FilesAssumption DEF FilesInv, FilesAssumption
  <2>8. read.ok
    BY <2>6, <2>7, ReadsParsed
  <2>9. f # NoPath => session'.hasData = read.ok
    <3>1. \E x, y : f # NoPath => session' = [file |-> read.file, hasData |-> read.ok,
                                              origin |-> x, soughtFor |-> y]
      BY Zenon DEF QueryNextImageRequest
    <3> HIDE DEF f, read
    <3> QED
      BY <3>1
  <2> QED
    BY <2>5, <2>8, <2>9
<1>2. Spec => [][Found]_vars
  BY <1>1, FilesInvariant, PTL DEF Spec
<1> QED
  BY <1>2 DEF UpdateFound

----------------------------------------------------------------------------
(* fromArray(), for every array.                                            *)

(* What the loop adds at position p, if f are the elements from later ones. *)
ElementsFrom(arr, offset, mfcode, total, f, p) ==
    IF p + SEGMENT_HEADER_LENGTH >= Len(arr) THEN << >>
    ELSE IF mfcode = LEGRAND /\ SubElementEnd(arr, p) - offset = total
    THEN <<SubElementAt(arr, p)>>
    ELSE <<SubElementAt(arr, p)>> \o f[SubElementEnd(arr, p)]

(* f gives the elements from every position. *)
IsElements(arr, offset, mfcode, total, f) ==
    f = [p \in Nat |-> ElementsFrom(arr, offset, mfcode, total, f, p)]

(* Every sub element that is read ends behind its tag and inside the array. *)
LEMMA ElementEnds ==
    ASSUME NEW arr \in Seq(Nat), NEW p \in Nat, p + SEGMENT_HEADER_LENGTH < Len(arr)
    PROVE  /\ SubElementEnd(arr, p) \in Nat
           /\ SubElementEnd(arr, p) >= p + SEGMENT_HEADER_LENGTH
           /\ SubElementEnd(arr, p) <= Len(arr)
           /\ SubElementEnd(arr, p) - (p + SEGMENT_HEADER_LENGTH) <= Cell(arr, p + 1)
<1>1. Len(arr) \in Nat /\ \A i \in 1 .. Len(arr) : arr[i] \in Nat
  BY LenProperties, ElementOfSeq
<1>2. Cell(arr, p + 1) \in Nat
  BY <1>1 DEF Cell
<1> QED
  BY <1>1, <1>2 DEF SubElementEnd, LesserOf, SEGMENT_HEADER_LENGTH

(* The loop over the sub elements computes a function: the positions grow,  *)
(* and beyond the end there is nothing to read.                             *)
LEMMA ElementsExist ==
    ASSUME NEW arr \in Seq(Nat), NEW offset, NEW mfcode, NEW total
    PROVE  \E f : IsElements(arr, offset, mfcode, total, f)
<1> DEFINE S(f, p) == ElementsFrom(arr, offset, mfcode, total, f, p)
           L == Len(arr)
           Part(n, f) == [p \in Nat |-> IF p + n >= L THEN S(f, p) ELSE << >>]
           T == {n \in Nat : ~\E f : f = Part(n, f)}
<1>0. L \in Nat
  BY LenProperties
<1>1. \A f : \A p \in Nat : p + SEGMENT_HEADER_LENGTH >= L => S(f, p) = << >>
  BY DEF ElementsFrom
<1>2. \A f, g : \A p \in Nat :
         p + SEGMENT_HEADER_LENGTH < L /\ f[SubElementEnd(arr, p)] = g[SubElementEnd(arr, p)]
            => S(f, p) = S(g, p)
  BY DEF ElementsFrom
<1>3. \A p \in Nat : p + SEGMENT_HEADER_LENGTH < L =>
         SubElementEnd(arr, p) \in Nat /\ SubElementEnd(arr, p) >= p + SEGMENT_HEADER_LENGTH
  BY ElementEnds
<1> HIDE DEF L, S
<1>4. T = {}
  <2> SUFFICES ASSUME T # {}
               PROVE  FALSE
    OBVIOUS
  <2>1. PICK k \in T : \A j \in T : k <= j
    <3>1. T \subseteq Nat
      OBVIOUS
    <3> HIDE DEF T
    <3> QED
      BY <3>1, LeastPosition
  <2>2. CASE k = 0
    <3> DEFINE f == [p \in Nat |-> << >>]
    <3>1. \A p \in Nat : p + k >= L => S(f, p) = << >>
      BY <1>0, <1>1, <2>2 DEF SEGMENT_HEADER_LENGTH
    <3>2. f = Part(k, f)
      BY <3>1, Zenon
    <3> QED
      BY <2>1, <3>2
  <2>3. CASE k # 0
    <3>1. k \in Nat /\ k - 1 \in Nat /\ ~(k <= k - 1)
      BY <2>1, <2>3
    <3>2. k - 1 \notin T
      BY <2>1, <3>1
    <3>3. PICK g : g = Part(k - 1, g)
      BY <3>1, <3>2
    <3> DEFINE f == Part(k, g)
    <3>4. ASSUME NEW p \in Nat, p + k >= L
          PROVE  S(f, p) = S(g, p)
      <4>1. CASE p + SEGMENT_HEADER_LENGTH >= L
        BY <1>1, <4>1
      <4>2. CASE p + SEGMENT_HEADER_LENGTH < L
        <5> DEFINE e == SubElementEnd(arr, p)
        <5>1. e \in Nat /\ e >= p + SEGMENT_HEADER_LENGTH
          BY <1>3, <4>2
        <5> HIDE DEF e
        <5>2. e + (k - 1) >= L /\ e + k >= L
          BY <1>0, <3>1, <3>4, <5>1 DEF SEGMENT_HEADER_LENGTH
        <5>3. f[e] = S(g, e)
          BY <5>1, <5>2
        <5>4. g[e] = Part(k - 1, g)[e]
          BY <3>3
        <5>5. Part(k - 1, g)[e] = S(g, e)
          BY <5>1, <5>2
        <5> HIDE DEF f
        <5> QED
          <6>1. f[e] = g[e]
            BY <5>3, <5>4, <5>5, Zenon
          <6> QED
            BY <1>2, <4>2, <6>1, Zenon DEF e
      <4> QED
        BY <1>0, <4>1, <4>2 DEF SEGMENT_HEADER_LENGTH
    <3>5. Part(k, g) = Part(k, f)
      BY <3>4, Zenon
    <3>6. \E h : h = Part(k, h)
      BY <3>5, Zenon
    <3> QED
      BY <2>1, <3>6
  <2> QED
    BY <2>2, <2>3
<1>5. PICK f : f = Part(L, f)
  BY <1>0, <1>4
<1>6. Part(L, f) = [p \in Nat |-> S(f, p)]
  BY <1>0
<1> QED
  BY <1>5, <1>6, Zenon DEF S, IsElements

(* One turn of the loop. *)
LEMMA ElementsUnfold ==
    ASSUME NEW arr \in Seq(Nat), NEW p \in Nat, NEW offset, NEW mfcode, NEW total
    PROVE  SubElements(arr, p, offset, mfcode, total) =
             IF p + SEGMENT_HEADER_LENGTH >= Len(arr) THEN << >>
             ELSE IF mfcode = LEGRAND /\ SubElementEnd(arr, p) - offset = total
             THEN <<SubElementAt(arr, p)>>
             ELSE <<SubElementAt(arr, p)>>
                     \o SubElements(arr, SubElementEnd(arr, p), offset, mfcode, total)
<1> DEFINE f == CHOOSE f : IsElements(arr, offset, mfcode, total, f)
<1>1. \A q : SubElements(arr, q, offset, mfcode, total) = f[q]
  BY Zenon DEF SubElements, ElementsFrom, IsElements
<1>2. IsElements(arr, offset, mfcode, total, f)
  BY ElementsExist, Zenon
<1>3. f[p] = ElementsFrom(arr, offset, mfcode, total, f, p)
  <2> HIDE DEF f
  <2> QED
    BY <1>2 DEF IsElements
<1> HIDE DEF f
<1> QED
  BY <1>1, <1>3, Zenon DEF ElementsFrom

(* A sub element as fromArray() and the container leave it: of the bytes    *)
(* that the length names there may be some missing, but none too many.      *)
SubElement ==
    {s \in [tag : Nat, length : Nat, data : Seq(Nat)] : Len(s.data) <= s.length}

OtaFile ==
    [headerLength : Nat, fieldControl : Nat, manufacturerCode : Nat, fileVersion : Nat,
     totalImageSize : Nat, subElements : Seq(SubElement), raw : Seq(Nat)]

(* A field that is read is a number. *)
LEMMA CellIsNumber ==
    ASSUME NEW arr \in Seq(Nat), NEW p \in Nat
    PROVE  Cell(arr, p) \in Nat
<1>1. Len(arr) \in Nat /\ \A i \in 1 .. Len(arr) : arr[i] \in Nat
  BY LenProperties, ElementOfSeq
<1> QED
  BY <1>1 DEF Cell

(* What is read at a position is a sub element. *)
LEMMA ElementType ==
    ASSUME NEW arr \in Seq(Nat), NEW p \in Nat, p + SEGMENT_HEADER_LENGTH < Len(arr)
    PROVE  SubElementAt(arr, p) \in SubElement
<1> DEFINE q == p + SEGMENT_HEADER_LENGTH
           e == SubElementEnd(arr, p)
           data == SubSeq(arr, q + 1, e)
<1>1. /\ e \in Nat /\ q <= e /\ e <= Len(arr) /\ e - q <= Cell(arr, p + 1)
      /\ Len(arr) \in Nat /\ q \in Nat
  BY ElementEnds, LenProperties DEF SEGMENT_HEADER_LENGTH
<1>2. Cell(arr, p) \in Nat /\ Cell(arr, p + 1) \in Nat
  BY CellIsNumber
<1> HIDE DEF e, q
<1>3. data \in Seq(Nat) /\ Len(data) = e - q
  <2>1. \A i \in q + 1 .. e : arr[i] \in Nat
    BY <1>1, ElementOfSeq
  <2> QED
    BY <1>1, <2>1, SubSeqProperties
<1>4. SubElementAt(arr, p) =
        [tag |-> Cell(arr, p), length |-> Cell(arr, p + 1), data |-> data]
  BY DEF SubElementAt, q, e
<1> HIDE DEF data
<1> QED
  BY <1>1, <1>2, <1>3, <1>4 DEF SubElement

(* The loop over the sub elements gives a sequence of them. *)
LEMMA ElementsType ==
    ASSUME NEW arr \in Seq(Nat), NEW start \in Nat, NEW offset, NEW mfcode, NEW total
    PROVE  SubElements(arr, start, offset, mfcode, total) \in Seq(SubElement)
<1> DEFINE L == Len(arr)
           Subs(p) == SubElements(arr, p, offset, mfcode, total)
           T == {n \in Nat : \E p \in Nat : p + n >= L /\ Subs(p) \notin Seq(SubElement)}
<1>3. T = {}
  <2> SUFFICES ASSUME T # {}
               PROVE  FALSE
    OBVIOUS
  <2>1. PICK k \in T : \A j \in T : k <= j
    <3>1. T \subseteq Nat
      OBVIOUS
    <3> HIDE DEF T
    <3> QED
      BY <3>1, LeastPosition
  <2>2. PICK p \in Nat : p + k >= L /\ Subs(p) \notin Seq(SubElement)
    BY <2>1
  <2>3. L \in Nat /\ k \in Nat
    BY LenProperties, <2>1
  <2>4. Subs(p) = IF p + SEGMENT_HEADER_LENGTH >= L THEN << >>
                  ELSE IF mfcode = LEGRAND /\ SubElementEnd(arr, p) - offset = total
                  THEN <<SubElementAt(arr, p)>>
                  ELSE <<SubElementAt(arr, p)>> \o Subs(SubElementEnd(arr, p))
    BY ElementsUnfold
  <2> HIDE DEF Subs
  <2>5. CASE p + SEGMENT_HEADER_LENGTH >= L
    <3>1. Subs(p) = << >>
      BY <2>5, <2>4
    <3> QED
      BY <2>2, <3>1
  <2>6. CASE p + SEGMENT_HEADER_LENGTH < L
    <3> DEFINE e == SubElementEnd(arr, p)
               s == SubElementAt(arr, p)
    <3>1. e \in Nat /\ e >= p + SEGMENT_HEADER_LENGTH /\ s \in SubElement
      BY <2>6, ElementEnds, ElementType
    <3>2. Subs(p) = <<s>> \/ Subs(p) = <<s>> \o Subs(e)
      <4>1. ~(p + SEGMENT_HEADER_LENGTH >= L)
        BY <2>3, <2>6 DEF SEGMENT_HEADER_LENGTH
      <4> QED
        BY <4>1, <2>4, Zenon
    <3> HIDE DEF e, s
    <3>3. /\ k - 1 \in Nat /\ ~(k <= k - 1) /\ e + (k - 1) >= L
      BY <2>2, <2>3, <2>6, <3>1 DEF SEGMENT_HEADER_LENGTH
    <3>4. k - 1 \notin T
      BY <2>1, <3>3
    <3>5. Subs(e) \in Seq(SubElement)
      BY <3>1, <3>3, <3>4
    <3>6. <<s>> \in Seq(SubElement) /\ <<s>> \o Subs(e) \in Seq(SubElement)
      BY <3>1, <3>5
    <3> QED
      BY <2>2, <3>2, <3>6
  <2> QED
    BY <2>3, <2>5, <2>6 DEF SEGMENT_HEADER_LENGTH
<1>4. Subs(start) \in Seq(SubElement)
  <2>1. L \in Nat /\ start + L >= L
    BY LenProperties
  <2> QED
    BY <1>3, <2>1
<1> QED
  BY <1>4

(* The magic is found where it is. *)
LEMMA MagicFound ==
    ASSUME NEW arr \in Seq(Nat)
    PROVE  /\ MagicAt(arr) \in Int
           /\ (\E p \in DOMAIN arr : arr[p] = MAGIC) => MagicAt(arr) >= 0
           /\ MagicAt(arr) >= 0 => /\ MagicAt(arr) < Len(arr)
                                   /\ arr[MagicAt(arr) + 1] = MAGIC
                                   /\ \A k \in 1 .. MagicAt(arr) : arr[k] # MAGIC
<1> DEFINE T == {p \in DOMAIN arr : arr[p] = MAGIC}
           First(p) == arr[p] = MAGIC /\ \A k \in 1 .. p - 1 : arr[k] # MAGIC
<1>0. Len(arr) \in Nat /\ DOMAIN arr = 1 .. Len(arr)
  BY LenProperties
<1>1. CASE T = {}
  <2>1. ~\E p \in DOMAIN arr : arr[p] = MAGIC
    BY <1>1
  <2>2. MagicAt(arr) = -1
    BY <2>1 DEF MagicAt
  <2>3. -1 \in Int /\ ~(-1 >= 0)
    OBVIOUS
  <2> QED
    BY <2>1, <2>2, <2>3, Zenon
<1>2. CASE T # {}
  <2>1. PICK p \in T : \A j \in T : p <= j
    <3>1. T \subseteq Nat
      BY <1>0
    <3> HIDE DEF T
    <3> QED
      BY <1>2, <3>1, LeastPosition
  <2>2. p \in DOMAIN arr /\ First(p)
    BY <1>0, <2>1
  <2> DEFINE m == CHOOSE i \in DOMAIN arr : First(i)
  <2>3. m \in DOMAIN arr /\ First(m)
    BY <2>2
  <2>4. MagicAt(arr) = m - 1
    BY <2>2 DEF MagicAt
  <2> HIDE DEF m
  <2> QED
    BY <1>0, <2>3, <2>4
<1> QED
  BY <1>1, <1>2

(* The optional fields are at most four. *)
LEMMA OptionalLengthIsNumber ==
    ASSUME NEW c \in Nat
    PROVE  OptionalLength(c) \in Nat
  BY DEF OptionalLength

----------------------------------------------------------------------------
(* part is what lies from m to n in the array. *)
IsPart(part, arr, m, n) ==
    /\ part \in Seq(Nat)
    /\ Len(part) = IF m <= n THEN n - m + 1 ELSE 0
    /\ \A i \in 1 .. n - m + 1 : part[i] = arr[m + i - 1]

(* A part of an array of numbers. *)
LEMMA PartOfArray ==
    ASSUME NEW arr, NEW m \in Int, NEW n \in Int, \A i \in m .. n : arr[i] \in Nat
    PROVE  IsPart(SubSeq(arr, m, n), arr, m, n)
BY SubSeqProperties DEF IsPart

(* A header that is accepted gives a file that has it. *)
LEMMA ParsedFileType ==
    ASSUME NEW arr \in Seq(Nat), NEW o \in Nat, o < Len(arr), arr[o + 1] = MAGIC
    PROVE  ParsedFile(arr, o) \in OtaFile /\ HeaderOf(ParsedFile(arr, o))
<1> DEFINE c(i) == Cell(arr, o + i)
           end == LesserOf(Len(arr), o + c(5))
           raw == SubSeq(arr, o + 1, end)
           subs == SubElements(arr, HeaderEnd(arr, o), o, c(3), c(5))
<1>1. Len(arr) \in Nat /\ \A i \in 1 .. Len(arr) : arr[i] \in Nat
  BY LenProperties, ElementOfSeq
<1>2. c(1) \in Nat /\ c(2) \in Nat /\ c(3) \in Nat /\ c(4) \in Nat /\ c(5) \in Nat
  <2>1. \A i \in 1 .. 5 : o + i \in Nat
    OBVIOUS
  <2>2. \A i \in 1 .. 5 : c(i) \in Nat
    BY <2>1, CellIsNumber
  <2> HIDE DEF c
  <2> QED
    BY <2>2
<1>3. ParsedFile(arr, o) =
        [headerLength |-> c(1), fieldControl |-> c(2), manufacturerCode |-> c(3),
         fileVersion |-> c(4), totalImageSize |-> c(5), subElements |-> subs, raw |-> raw]
  BY DEF ParsedFile
<1>4. subs \in Seq(SubElement)
  <2>1. HeaderEnd(arr, o) \in Nat
    <3>1. OptionalLength(c(2)) \in Nat
      BY <1>2, OptionalLengthIsNumber
    <3>2. HeaderEnd(arr, o) = o + GreaterOf(c(1), MANDATORY_HEADER_LENGTH + OptionalLength(c(2)))
      BY DEF HeaderEnd
    <3> DEFINE a == c(1)
               b == MANDATORY_HEADER_LENGTH + OptionalLength(c(2))
    <3>3. a \in Nat /\ b \in Nat
      <4>1. \A x \in Nat : MANDATORY_HEADER_LENGTH + x \in Nat
        BY DEF MANDATORY_HEADER_LENGTH
      <4> QED
        BY <1>2, <3>1, <4>1, Zenon
    <3> HIDE DEF a, b
    <3>4. o + GreaterOf(a, b) \in Nat
      BY <3>3 DEF GreaterOf
    <3> QED
      BY <3>2, <3>4, Zenon DEF a, b
  <2> QED
    BY <2>1, ElementsType
<1>5. /\ \A i \in 1 .. 5 : o + i < Len(arr) => c(i) = arr[o + i + 1]
      /\ c(5) # 0 => o + 5 < Len(arr)
  BY <1>1 DEF Cell
<1>6. /\ end \in Nat /\ o <= end /\ end <= Len(arr) /\ end - o <= c(5)
      /\ c(5) >= MANDATORY_HEADER_LENGTH => end >= o + MANDATORY_HEADER_LENGTH
  <2> DEFINE total == c(5)
             size == Len(arr)
  <2>1. /\ total \in Nat /\ size \in Nat /\ o < size /\ (total # 0 => o + 5 < size)
        /\ end = LesserOf(size, o + total)
    BY <1>1, <1>2, <1>5, Zenon
  <2> HIDE DEF total, size, end
  <2>2. /\ end \in Nat /\ o <= end /\ end <= size /\ end - o <= total
        /\ total >= MANDATORY_HEADER_LENGTH => end >= o + MANDATORY_HEADER_LENGTH
    BY <2>1 DEF LesserOf, MANDATORY_HEADER_LENGTH
  <2> QED
    BY <2>2, Zenon DEF total, size
<1> HIDE DEF end
<1>7. /\ raw \in Seq(Nat) /\ Len(raw) = end - o
      /\ \A i \in 1 .. end - o : raw[i] = arr[o + i]
  <2>1. \A i \in o + 1 .. end : arr[i] \in Nat
    BY <1>1, <1>6
  <2>2. /\ raw \in Seq(Nat)
        /\ Len(raw) = IF o + 1 <= end THEN end - (o + 1) + 1 ELSE 0
        /\ \A i \in 1 .. end - (o + 1) + 1 : raw[i] = arr[o + 1 + i - 1]
    <3>1. o + 1 \in Int /\ end \in Int
      BY <1>6
    <3>2. IsPart(raw, arr, o + 1, end)
      BY <2>1, <3>1, PartOfArray, Zenon
    <3> HIDE DEF raw
    <3> QED
      BY <3>2, Zenon DEF IsPart
  <2> HIDE DEF raw
  <2>3. end - (o + 1) + 1 = end - o /\ (~(o + 1 <= end) => end - o = 0)
    BY <1>6
  <2>4. ASSUME NEW i \in 1 .. end - o
        PROVE  raw[i] = arr[o + i]
    <3>1. i \in 1 .. end - (o + 1) + 1 /\ o + 1 + i - 1 = o + i
      BY <1>6
    <3> QED
      BY <2>2, <3>1, Zenon
  <2>5. Len(raw) = end - o
    BY <2>2, <2>3, Zenon
  <2> QED
    BY <2>2, <2>4, <2>5, Zenon
<1>8. c(5) >= MANDATORY_HEADER_LENGTH =>
         /\ Len(raw) >= MANDATORY_HEADER_LENGTH /\ raw[1] = MAGIC
         /\ Cell(raw, 3) = c(3) /\ Cell(raw, 4) = c(4)
  <2> SUFFICES ASSUME c(5) >= MANDATORY_HEADER_LENGTH
               PROVE  /\ Len(raw) >= MANDATORY_HEADER_LENGTH /\ raw[1] = MAGIC
                      /\ Cell(raw, 3) = c(3) /\ Cell(raw, 4) = c(4)
    OBVIOUS
  <2>1. end - o \in Nat /\ end - o >= 6
    BY <1>6 DEF MANDATORY_HEADER_LENGTH
  <2>2. raw[1] = arr[o + 1] /\ raw[4] = arr[o + 4] /\ raw[5] = arr[o + 5]
    <3>1. 1 \in 1 .. end - o /\ 4 \in 1 .. end - o /\ 5 \in 1 .. end - o
      BY <2>1
    <3> HIDE DEF raw
    <3> QED
      BY <1>7, <3>1, Zenon
  <2>3. c(3) = arr[o + 4] /\ c(4) = arr[o + 5]
    BY <1>1, <1>6, <2>1 DEF Cell
  <2>4. Cell(raw, 3) = raw[4] /\ Cell(raw, 4) = raw[5]
    <3> HIDE DEF raw
    <3> QED
      BY <1>7, <2>1 DEF Cell
  <2> QED
    BY <1>7, <2>1, <2>2, <2>3, <2>4 DEF MANDATORY_HEADER_LENGTH
<1> HIDE DEF c, raw, subs
<1> DEFINE of == ParsedFile(arr, o)
<1>9. of \in OtaFile
  BY <1>2, <1>3, <1>4, <1>7 DEF OtaFile
<1>10. /\ of.manufacturerCode = c(3) /\ of.fileVersion = c(4)
       /\ of.totalImageSize = c(5) /\ of.raw = raw
  BY <1>3
<1> HIDE DEF of
<1>11. HeaderOf(of)
  BY <1>6, <1>7, <1>8, <1>10, Zenon DEF HeaderOf
<1> QED
  BY <1>9, <1>11, Zenon DEF of

(* Other sub elements, or another header length, leave the rest of a file.  *)
LEMMA OtherParts ==
    ASSUME NEW of \in OtaFile, NEW subs \in Seq(SubElement), NEW len \in Nat,
           NEW new \in {[of EXCEPT !.subElements = subs], [of EXCEPT !.headerLength = len]}
    PROVE  new \in OtaFile /\ (HeaderOf(of) => HeaderOf(new))
<1>1. /\ new \in OtaFile
      /\ new.raw = of.raw /\ new.totalImageSize = of.totalImageSize
      /\ new.manufacturerCode = of.manufacturerCode /\ new.fileVersion = of.fileVersion
  BY DEF OtaFile
<1> QED
  BY <1>1, Zenon DEF HeaderOf

(* Whatever fromArray() is given, it leaves a file of which header and      *)
(* image belong together, if they did before.                               *)
LEMMA FromArrayType ==
    ASSUME NEW of \in OtaFile, NEW arr \in Seq(Nat)
    PROVE  /\ FromArray(of, arr).ok \in BOOLEAN
           /\ FromArray(of, arr).file \in OtaFile
           /\ HeaderOf(of) => HeaderOf(FromArray(of, arr).file)
<1> DEFINE offset == MagicAt(arr)
           len == Cell(arr, offset + 1)
           parsed == ParsedFile(arr, offset)
<1>1. FromArray(of, arr) =
         IF Len(arr) < MANDATORY_HEADER_LENGTH \/ offset < 0
         THEN [ok |-> FALSE, file |-> of]
         ELSE IF len < MANDATORY_HEADER_LENGTH
         THEN [ok |-> FALSE, file |-> [of EXCEPT !.headerLength = len]]
         ELSE [ok |-> parsed.subElements # << >>, file |-> parsed]
  BY Zenon DEF FromArray
<1>2. /\ offset \in Int
      /\ offset >= 0 => offset < Len(arr) /\ arr[offset + 1] = MAGIC
  BY MagicFound
<1>3. offset >= 0 => len \in Nat /\ parsed \in OtaFile /\ HeaderOf(parsed)
  <2> SUFFICES ASSUME offset >= 0
               PROVE  len \in Nat /\ parsed \in OtaFile /\ HeaderOf(parsed)
    OBVIOUS
  <2>1. offset \in Nat /\ offset + 1 \in Nat /\ offset < Len(arr) /\ arr[offset + 1] = MAGIC
    BY <1>2
  <2> HIDE DEF offset
  <2> QED
    BY <2>1, CellIsNumber, ParsedFileType
<1> HIDE DEF offset, len, parsed
<1>4. CASE Len(arr) < MANDATORY_HEADER_LENGTH \/ offset < 0
  <2>1. FromArray(of, arr) = [ok |-> FALSE, file |-> of]
    BY <1>1, <1>4, Zenon
  <2> QED
    BY <2>1
<1>5. CASE ~(Len(arr) < MANDATORY_HEADER_LENGTH \/ offset < 0)
  <2>1. offset >= 0
    BY <1>2, <1>5
  <2>2. CASE len < MANDATORY_HEADER_LENGTH
    <3> DEFINE new == [of EXCEPT !.headerLength = len]
    <3>1. FromArray(of, arr) = [ok |-> FALSE, file |-> new]
      BY <1>1, <1>5, <2>2
    <3>2. new \in OtaFile /\ (HeaderOf(of) => HeaderOf(new))
      <4>1. << >> \in Seq(SubElement)
        OBVIOUS
      <4> QED
        BY <1>3, <2>1, <4>1, OtherParts
    <3> HIDE DEF new
    <3> QED
      BY <3>1, <3>2
  <2>3. CASE ~(len < MANDATORY_HEADER_LENGTH)
    <3>1. FromArray(of, arr) = [ok |-> parsed.subElements # << >>, file |-> parsed]
      BY <1>1, <1>5, <2>3
    <3> QED
      BY <1>3, <2>1, <3>1
  <2> QED
    BY <2>2, <2>3
<1> QED
  BY <1>4, <1>5

(* The container that a firmware binary gets is a sub element. *)
LEMMA ContainerType ==
    ASSUME NEW arr \in Seq(Nat)
    PROVE  Container(arr) \in SubElement
<1> DEFINE data == <<0, Len(arr) + 1>> \o arr \o <<119, 0>>
<1>1. Len(arr) \in Nat
  BY LenProperties
<1>2. <<0, Len(arr) + 1>> \in Seq(Nat) /\ <<119, 0>> \in Seq(Nat)
  BY <1>1
<1>3. data \in Seq(Nat) /\ Len(data) \in Nat
  BY <1>2, ConcatProperties, LenProperties
<1>4. Container(arr) = [tag |-> TAG_UPGRADE_IMAGE, length |-> Len(data), data |-> data]
  BY DEF Container
<1> HIDE DEF data
<1> QED
  BY <1>3, <1>4, FileAssumption DEF SubElement, FileAssumption

(* The same for readFile(): it leaves header and image together. *)
LEMMA ReadFileType ==
    ASSUME NEW of \in OtaFile, NEW kind, NEW arr \in Seq(Nat)
    PROVE  /\ ReadFile(of, kind, arr).ok \in BOOLEAN
           /\ ReadFile(of, kind, arr).file \in OtaFile
           /\ HeaderOf(of) => HeaderOf(ReadFile(of, kind, arr).file)
<1> DEFINE cleared == [of EXCEPT !.subElements = << >>]
           wrapped == [of EXCEPT !.subElements = <<Container(arr)>>]
<1>1. ReadFile(of, kind, arr) =
         IF arr = << >> THEN [ok |-> FALSE, file |-> of]
         ELSE IF kind = "bin" THEN [ok |-> TRUE, file |-> wrapped]
         ELSE IF kind = "ota" THEN FromArray(cleared, arr)
         ELSE [ok |-> FALSE, file |-> cleared]
  BY Zenon DEF ReadFile
<1>2. cleared \in OtaFile /\ (HeaderOf(of) => HeaderOf(cleared))
  <2>1. << >> \in Seq(SubElement) /\ 0 \in Nat
    OBVIOUS
  <2> QED
    BY <2>1, OtherParts
<1>3. wrapped \in OtaFile /\ (HeaderOf(of) => HeaderOf(wrapped))
  <2>1. <<Container(arr)>> \in Seq(SubElement)
    BY ContainerType
  <2>2. 0 \in Nat
    OBVIOUS
  <2> QED
    BY <2>1, <2>2, OtherParts
<1> HIDE DEF cleared, wrapped
<1>4. /\ FromArray(cleared, arr).ok \in BOOLEAN
      /\ FromArray(cleared, arr).file \in OtaFile
      /\ HeaderOf(cleared) => HeaderOf(FromArray(cleared, arr).file)
  BY <1>2, FromArrayType
<1> DEFINE r == ReadFile(of, kind, arr)
<1>5. \/ r = [ok |-> FALSE, file |-> of] \/ r = [ok |-> TRUE, file |-> wrapped]
      \/ r = [ok |-> FALSE, file |-> cleared] \/ r = FromArray(cleared, arr)
  BY <1>1, Zenon
<1> HIDE DEF r
<1> DEFINE Good(x) == x.ok \in BOOLEAN /\ x.file \in OtaFile /\ (HeaderOf(of) => HeaderOf(x.file))
<1>6. /\ Good([ok |-> FALSE, file |-> of]) /\ Good([ok |-> TRUE, file |-> wrapped])
      /\ Good([ok |-> FALSE, file |-> cleared])
  BY <1>2, <1>3
<1>7. Good(FromArray(cleared, arr))
  BY <1>2, <1>4
<1> HIDE DEF Good
<1>8. Good(r)
  BY <1>5, <1>6, <1>7, Zenon
<1> QED
  BY <1>8, Zenon DEF Good, r

----------------------------------------------------------------------------
(* toArray().                                                               *)

(* The parts of a file with one part are that part. *)
LEMMA FlattenOne ==
    ASSUME NEW x
    PROVE  FlattenSeq(<<x>>) = x
<1> DEFINE P(f) == f = [i \in 1 .. Len(<<x>>) |-> IF i = 1 THEN <<x>>[i] ELSE f[i - 1] \o <<x>>[i]]
           flatten == CHOOSE f : P(f)
<1>1. Len(<<x>>) = 1
  OBVIOUS
<1>2. FlattenSeq(<<x>>) = flatten[1]
  BY <1>1 DEF FlattenSeq
<1>3. \E f : P(f)
  <2> DEFINE g == [i \in 1 .. 1 |-> x]
  <2>1. \A i \in 1 .. 1 : i = 1
    OBVIOUS
  <2>2. P(g)
    BY <1>1, <2>1
  <2> QED
    BY <2>2, Zenon
<1>4. P(flatten)
  <2> HIDE DEF P
  <2> QED
    BY <1>3, Zenon
<1>5. flatten[1] = x
  <2> HIDE DEF flatten
  <2> QED
    BY <1>1, <1>4
<1> QED
  BY <1>2, <1>5

(* Two arrays in a row. *)
LEMMA TwoParts ==
    ASSUME NEW x \in Seq(Nat), NEW y \in Seq(Nat)
    PROVE  /\ x \o y \in Seq(Nat)
           /\ Len(x \o y) = Len(x) + Len(y)
           /\ \A i \in 1 .. Len(x) + Len(y) :
                 (x \o y)[i] = IF i <= Len(x) THEN x[i] ELSE y[i - Len(x)]
BY ConcatProperties

(* arr is a header h of six fields, the optional fields z and the rest b. *)
IsThreeParts(arr, h, z, b) ==
    /\ arr \in Seq(Nat)
    /\ Len(arr) = 6 + Len(z) + Len(b)
    /\ \A i \in 1 .. 6 : arr[i] = h[i]
    /\ \A i \in 1 .. Len(b) : arr[6 + Len(z) + i] = b[i]

(* A header of six fields, the optional fields and the rest, in a row. *)
LEMMA ThreeParts ==
    ASSUME NEW h \in Seq(Nat), Len(h) = 6, NEW z \in Seq(Nat), NEW b \in Seq(Nat)
    PROVE  IsThreeParts(h \o z \o b, h, z, b)
<1> DEFINE arr == h \o z \o b
           front == h \o z
           nz == Len(z)
           nb == Len(b)
<1>1. nz \in Nat /\ nb \in Nat
  BY LenProperties
<1>2. /\ front \in Seq(Nat) /\ Len(front) = Len(h) + Len(z)
      /\ \A i \in 1 .. Len(h) + Len(z) :
            front[i] = IF i <= Len(h) THEN h[i] ELSE z[i - Len(h)]
  BY TwoParts, Zenon
<1>3. /\ front \in Seq(Nat) /\ Len(front) = 6 + nz
      /\ \A i \in 1 .. 6 + nz : front[i] = IF i <= 6 THEN h[i] ELSE z[i - 6]
  BY <1>2, Zenon
<1> HIDE DEF front
<1>4. /\ arr \in Seq(Nat) /\ Len(arr) = Len(front) + Len(b)
      /\ \A i \in 1 .. Len(front) + Len(b) :
            arr[i] = IF i <= Len(front) THEN front[i] ELSE b[i - Len(front)]
  <2>1. front \o b = arr
    BY Zenon DEF front
  <2>2. front \in Seq(Nat)
    BY <1>3, Zenon
  <2> HIDE DEF arr
  <2> QED
    BY <2>1, <2>2, TwoParts, Zenon
<1> HIDE DEF arr
<1> DEFINE nf == Len(front)
<1>5. /\ Len(arr) = nf + nb
      /\ \A i \in 1 .. nf + nb : arr[i] = IF i <= nf THEN front[i] ELSE b[i - nf]
  BY <1>4, Zenon
<1>6. nf = 6 + nz
  BY <1>3, Zenon
<1> HIDE DEF nf, nz, nb
<1>7. ASSUME NEW i \in 1 .. 6
      PROVE  arr[i] = h[i]
  <2>1. i \in 1 .. nf + nb /\ i <= nf /\ i <= 6 /\ i \in 1 .. 6 + nz
    BY <1>1, <1>6
  <2>2. arr[i] = front[i]
    BY <1>5, <2>1
  <2>3. front[i] = h[i]
    BY <1>3, <2>1
  <2> QED
    BY <2>2, <2>3
<1>8. ASSUME NEW i \in 1 .. nb
      PROVE  arr[6 + nz + i] = b[i]
  <2>1. 6 + nz + i \in 1 .. nf + nb /\ ~(6 + nz + i <= nf) /\ (6 + nz + i) - nf = i
    BY <1>1, <1>6
  <2> QED
    BY <1>5, <2>1
<1>9. Len(arr) = 6 + nz + nb
  BY <1>5, <1>6
<1> QED
  BY <1>4, <1>7, <1>8, <1>9, Zenon DEF nz, nb, arr, IsThreeParts

(* What toArray() makes of a file with one sub element. *)
LEMMA PackedOne ==
    ASSUME NEW of \in OtaFile, NEW s \in SubElement, of.subElements = <<s>>
    PROVE  LET len == MANDATORY_HEADER_LENGTH + OptionalLength(of.fieldControl)
               arr == Packed(of).array
           IN  /\ len \in Nat /\ len >= MANDATORY_HEADER_LENGTH
               /\ arr \in Seq(Nat)
               /\ Len(arr) = len + SEGMENT_HEADER_LENGTH + Len(s.data)
               /\ arr[1] = MAGIC /\ arr[2] = len /\ arr[3] = of.fieldControl
               /\ arr[4] = of.manufacturerCode /\ arr[5] = of.fileVersion
               /\ arr[6] = Len(arr)
               /\ arr[len + 1] = s.tag /\ arr[len + 2] = s.length
               /\ \A i \in 1 .. Len(s.data) : arr[len + 2 + i] = s.data[i]
               /\ Packed(of).file = [of EXCEPT !.headerLength = len,
                                               !.totalImageSize = Len(arr)]
<1> DEFINE opt == OptionalLength(of.fieldControl)
           len == MANDATORY_HEADER_LENGTH + opt
           parts == [i \in DOMAIN of.subElements |-> SubElementCells(of.subElements[i])]
           body == SubElementCells(s)
           total == len + Len(body)
           head == <<MAGIC, len, of.fieldControl, of.manufacturerCode, of.fileVersion, total>>
           zeros == [i \in 1 .. opt |-> 0]
           arr == head \o zeros \o body
           n == Len(s.data)
<1>1. FlattenSeq(parts) = body
  <2>1. parts = <<SubElementCells(s)>>
    OBVIOUS
  <2> HIDE DEF parts
  <2> QED
    BY <2>1, FlattenOne
<1>2. Packed(of) = [file |-> [of EXCEPT !.headerLength = len, !.totalImageSize = total],
                    array |-> arr]
  BY <1>1, Zenon DEF Packed
<1>3. /\ MAGIC \in Nat /\ of.fieldControl \in Nat
      /\ of.manufacturerCode \in Nat /\ of.fileVersion \in Nat
  BY FileAssumption DEF OtaFile, FileAssumption
<1>4. opt \in Nat
  BY <1>3, OptionalLengthIsNumber
<1> HIDE DEF opt
<1>5. len \in Nat /\ len = 6 + opt
  BY <1>4 DEF MANDATORY_HEADER_LENGTH
<1>6. s.tag \in Nat /\ s.length \in Nat /\ s.data \in Seq(Nat) /\ n \in Nat
  BY LenProperties DEF SubElement
<1> HIDE DEF len
<1>7. /\ body \in Seq(Nat) /\ Len(body) = 2 + n
      /\ body[1] = s.tag /\ body[2] = s.length
      /\ \A i \in 1 .. n : body[2 + i] = s.data[i]
  <2>1. <<s.tag, s.length>> \in Seq(Nat)
    BY <1>6
  <2>2. <<s.tag, s.length>> \o s.data = body
    BY Zenon DEF SubElementCells
  <2>3. Len(<<s.tag, s.length>>) = 2
    OBVIOUS
  <2> HIDE DEF body, n
  <2>4. /\ body \in Seq(Nat) /\ Len(body) = 2 + n
        /\ \A i \in 1 .. 2 + n :
              body[i] = IF i <= 2 THEN <<s.tag, s.length>>[i] ELSE s.data[i - 2]
    BY <1>6, <2>1, <2>2, <2>3, TwoParts, Zenon DEF n
  <2>5. 1 \in 1 .. 2 + n /\ 2 \in 1 .. 2 + n
    BY <1>6
  <2>6. body[1] = s.tag /\ body[2] = s.length
    BY <2>4, <2>5
  <2>7. ASSUME NEW i \in 1 .. n
        PROVE  body[2 + i] = s.data[i]
    <3>1. 2 + i \in 1 .. 2 + n /\ ~(2 + i <= 2) /\ (2 + i) - 2 = i
      BY <1>6
    <3> QED
      BY <2>4, <3>1
  <2> QED
    BY <2>4, <2>6, <2>7, Zenon
<1> HIDE DEF body, n
<1>8. total \in Nat /\ total = len + 2 + n
  BY <1>5, <1>6, <1>7
<1> HIDE DEF total
<1>9. /\ head \in Seq(Nat) /\ Len(head) = 6
      /\ head[1] = MAGIC /\ head[2] = len /\ head[3] = of.fieldControl
      /\ head[4] = of.manufacturerCode /\ head[5] = of.fileVersion /\ head[6] = total
  BY <1>3, <1>5, <1>8
<1>10. zeros \in Seq(Nat) /\ Len(zeros) = opt
  BY <1>4
<1> HIDE DEF head, zeros
<1>11. /\ arr \in Seq(Nat) /\ Len(arr) = 6 + Len(zeros) + Len(body)
       /\ \A i \in 1 .. 6 : arr[i] = head[i]
       /\ \A i \in 1 .. Len(body) : arr[6 + Len(zeros) + i] = body[i]
  <2>1. head \in Seq(Nat) /\ Len(head) = 6 /\ zeros \in Seq(Nat) /\ body \in Seq(Nat)
    BY <1>7, <1>9, <1>10, Zenon
  <2>2. IsThreeParts(arr, head, zeros, body)
    BY <2>1, ThreeParts, Zenon
  <2> HIDE DEF arr
  <2> QED
    BY <2>2, Zenon DEF IsThreeParts
<1> HIDE DEF arr
<1>12. 6 + Len(zeros) = len
  BY <1>5, <1>10
<1>13. Len(arr) = total
  <2>1. Len(arr) = len + (2 + n)
    BY <1>7, <1>11, <1>12
  <2> QED
    BY <1>5, <1>6, <1>8, <2>1
<1>14. \A i \in 1 .. 2 + n : arr[len + i] = body[i]
  BY <1>7, <1>11, <1>12, Zenon
<1>15. /\ arr[1] = MAGIC /\ arr[2] = len /\ arr[3] = of.fieldControl
       /\ arr[4] = of.manufacturerCode /\ arr[5] = of.fileVersion
       /\ arr[6] = Len(arr)
  <2>1. \A i \in {1, 2, 3, 4, 5, 6} : arr[i] = head[i]
    <3>1. \A i \in {1, 2, 3, 4, 5, 6} : i \in 1 .. 6
      OBVIOUS
    <3> QED
      BY <1>11, <3>1, Zenon
  <2> QED
    BY <1>9, <1>13, <2>1, Zenon
<1>16. arr[len + 1] = s.tag /\ arr[len + 2] = s.length
  <2>1. 1 \in 1 .. 2 + n /\ 2 \in 1 .. 2 + n
    BY <1>6
  <2> QED
    BY <1>7, <1>14, <2>1, Zenon
<1>17. \A i \in 1 .. n : arr[len + 2 + i] = s.data[i]
  <2> SUFFICES ASSUME NEW i \in 1 .. n
               PROVE  arr[len + 2 + i] = s.data[i]
    OBVIOUS
  <2>1. 2 + i \in 1 .. 2 + n /\ len + (2 + i) = len + 2 + i
    BY <1>5, <1>6
  <2> QED
    BY <1>7, <1>14, <2>1, Zenon
<1>18. /\ Packed(of).array = arr
       /\ Packed(of).file = [of EXCEPT !.headerLength = len, !.totalImageSize = Len(arr)]
  BY <1>2, <1>13
<1>19. len >= MANDATORY_HEADER_LENGTH /\ Len(arr) = len + SEGMENT_HEADER_LENGTH + n
  BY <1>4, <1>5, <1>8, <1>13 DEF MANDATORY_HEADER_LENGTH, SEGMENT_HEADER_LENGTH
<1> QED
  BY <1>5, <1>11, <1>15, <1>16, <1>17, <1>18, <1>19, Zenon DEF len, opt, n

(* A sub element that reaches to the end is the last one. *)
LEMMA OneElement ==
    ASSUME NEW arr \in Seq(Nat), NEW p \in Nat, p + SEGMENT_HEADER_LENGTH < Len(arr),
           SubElementEnd(arr, p) = Len(arr), NEW offset, NEW mfcode, NEW total
    PROVE  SubElements(arr, p, offset, mfcode, total) = <<SubElementAt(arr, p)>>
<1> DEFINE L == Len(arr)
           Subs(q) == SubElements(arr, q, offset, mfcode, total)
<1>1. L \in Nat /\ L + SEGMENT_HEADER_LENGTH >= L /\ ~(p + SEGMENT_HEADER_LENGTH >= L)
  BY LenProperties DEF SEGMENT_HEADER_LENGTH
<1>2. \A q \in Nat : Subs(q) = IF q + SEGMENT_HEADER_LENGTH >= L THEN << >>
                      ELSE IF mfcode = LEGRAND /\ SubElementEnd(arr, q) - offset = total
                      THEN <<SubElementAt(arr, q)>>
                      ELSE <<SubElementAt(arr, q)>> \o Subs(SubElementEnd(arr, q))
  BY ElementsUnfold
<1> HIDE DEF Subs, L
<1>3. Subs(L) = << >>
  BY <1>1, <1>2, Zenon
<1>4. \/ Subs(p) = <<SubElementAt(arr, p)>>
      \/ Subs(p) = <<SubElementAt(arr, p)>> \o << >>
  BY <1>1, <1>2, <1>3, Zenon DEF L
<1>5. <<SubElementAt(arr, p)>> \o << >> = <<SubElementAt(arr, p)>>
  OBVIOUS
<1> QED
  BY <1>4, <1>5, Zenon DEF Subs

(* What toArray() makes of a file with one sub element that is not empty,   *)
(* fromArray() makes the same file of again.                                *)
LEMMA PackedReads ==
    ASSUME NEW of \in OtaFile, NEW s \in SubElement, of.subElements = <<s>>, s.data # << >>
    PROVE  LET arr == Packed(of).array
               read == FromArray(EmptyOtauFile, arr)
           IN  /\ read.ok
               /\ read.file.manufacturerCode = of.manufacturerCode
               /\ read.file.fileVersion = of.fileVersion
               /\ read.file.subElements = <<s>>
               /\ read.file.raw = arr /\ Len(arr) = read.file.totalImageSize
<1> DEFINE opt == OptionalLength(of.fieldControl)
           len == MANDATORY_HEADER_LENGTH + opt
           arr == Packed(of).array
           L == Len(arr)
           n == Len(s.data)
<1>1. /\ len \in Nat /\ len >= MANDATORY_HEADER_LENGTH
      /\ arr \in Seq(Nat)
      /\ L = len + SEGMENT_HEADER_LENGTH + n
      /\ arr[1] = MAGIC /\ arr[2] = len /\ arr[3] = of.fieldControl
      /\ arr[4] = of.manufacturerCode /\ arr[5] = of.fileVersion
      /\ arr[6] = L
      /\ arr[len + 1] = s.tag /\ arr[len + 2] = s.length
      /\ \A i \in 1 .. n : arr[len + 2 + i] = s.data[i]
  BY PackedOne, Zenon
<1> HIDE DEF arr, len, opt
<1>2. /\ n \in Nat /\ n # 0 /\ n <= s.length /\ s.data \in Seq(Nat) /\ s.length \in Nat
      /\ s = [tag |-> s.tag, length |-> s.length, data |-> s.data]
  <2>1. s.data \in Seq(Nat) /\ n <= s.length /\ s.length \in Nat
    BY DEF SubElement
  <2>2. n \in Nat /\ n # 0
    BY <2>1, EmptySeq, LenProperties
  <2>3. s = [tag |-> s.tag, length |-> s.length, data |-> s.data]
    BY DEF SubElement
  <2> QED
    BY <2>1, <2>2, <2>3
<1> HIDE DEF n, L
<1>3. /\ L \in Nat /\ L > len + 2 /\ L = len + 2 + n
      /\ len \in Nat /\ len >= 6 /\ n \in Nat
  <2>1. /\ len \in Nat /\ len >= MANDATORY_HEADER_LENGTH
        /\ L = len + SEGMENT_HEADER_LENGTH + n /\ n \in Nat /\ n # 0
    BY <1>1, <1>2, Zenon
  <2> QED
    BY <2>1 DEF MANDATORY_HEADER_LENGTH, SEGMENT_HEADER_LENGTH
<1>4. MagicAt(arr) = 0
  <2>1. DOMAIN arr = 1 .. L
    BY <1>1, LenProperties DEF L
  <2>2. 1 \in DOMAIN arr /\ arr[1] = MAGIC
    BY <1>1, <1>3, <2>1
  <2> DEFINE m == MagicAt(arr)
  <2>3. m \in Int /\ m >= 0 /\ (m >= 0 => \A k \in 1 .. m : arr[k] # MAGIC)
    BY <1>1, <2>2, MagicFound
  <2> HIDE DEF m
  <2>4. 1 \notin 1 .. m
    BY <2>2, <2>3
  <2>5. m = 0
    BY <2>3, <2>4
  <2> QED
    BY <2>5 DEF m
<1>5. /\ Cell(arr, 0 + 1) = len /\ Cell(arr, 0 + 2) = of.fieldControl
      /\ Cell(arr, 0 + 3) = of.manufacturerCode /\ Cell(arr, 0 + 4) = of.fileVersion
      /\ Cell(arr, 0 + 5) = L
      /\ Cell(arr, len) = s.tag /\ Cell(arr, len + 1) = s.length
  <2>1. \A p \in Nat : p < L => Cell(arr, p) = arr[p + 1]
    BY <1>3 DEF Cell, L
  <2>2. \A p \in {1, 2, 3, 4, 5, len, len + 1} : p \in Nat /\ p < L
    BY <1>3
  <2>3. \A p \in {1, 2, 3, 4, 5, len, len + 1} : Cell(arr, p) = arr[p + 1]
    BY <2>1, <2>2, Zenon
  <2>4. /\ 1 + 1 = 2 /\ 2 + 1 = 3 /\ 3 + 1 = 4 /\ 4 + 1 = 5 /\ 5 + 1 = 6
        /\ (len + 1) + 1 = len + 2
        /\ 0 + 1 = 1 /\ 0 + 2 = 2 /\ 0 + 3 = 3 /\ 0 + 4 = 4 /\ 0 + 5 = 5
    BY <1>3
  <2>5. /\ arr[1] = MAGIC /\ arr[2] = len /\ arr[3] = of.fieldControl
        /\ arr[4] = of.manufacturerCode /\ arr[5] = of.fileVersion
        /\ arr[6] = L
        /\ arr[len + 1] = s.tag /\ arr[len + 2] = s.length
    BY <1>1, Zenon
  <2>6. /\ Cell(arr, 1) = arr[2] /\ Cell(arr, 2) = arr[3] /\ Cell(arr, 3) = arr[4]
        /\ Cell(arr, 4) = arr[5] /\ Cell(arr, 5) = arr[6]
        /\ Cell(arr, len) = arr[len + 1] /\ Cell(arr, len + 1) = arr[len + 2]
    BY <2>3, <2>4
  <2> QED
    BY <2>4, <2>5, <2>6
<1>6. HeaderEnd(arr, 0) = len
  <2>1. HeaderEnd(arr, 0) = 0 + GreaterOf(len, len)
    BY <1>5, Zenon DEF HeaderEnd, len, opt
  <2> QED
    BY <1>1, <2>1 DEF GreaterOf
<1>7. SubElementEnd(arr, len) = L
  <2>1. SubElementEnd(arr, len) = len + SEGMENT_HEADER_LENGTH
            + LesserOf(s.length, L - (len + SEGMENT_HEADER_LENGTH))
    BY <1>5, Zenon DEF SubElementEnd, L
  <2>2. L - (len + SEGMENT_HEADER_LENGTH) = n
    BY <1>3 DEF SEGMENT_HEADER_LENGTH
  <2>3. LesserOf(s.length, n) = n
    BY <1>2 DEF LesserOf
  <2> QED
    BY <1>3, <2>1, <2>2, <2>3 DEF SEGMENT_HEADER_LENGTH
<1>8. SubElementAt(arr, len) = s
  <2> DEFINE data == SubSeq(arr, len + 3, L)
  <2>1. SubElementAt(arr, len) = [tag |-> s.tag, length |-> s.length, data |-> data]
    <3>1. len + SEGMENT_HEADER_LENGTH + 1 = len + 3
      BY <1>1 DEF SEGMENT_HEADER_LENGTH
    <3> QED
      BY <1>5, <1>7, <3>1, Zenon DEF SubElementAt
  <2>2. /\ data \in Seq(Nat) /\ Len(data) = n
        /\ \A i \in 1 .. n : data[i] = arr[len + 2 + i]
    <3>1. \A i \in len + 3 .. L : arr[i] \in Nat
      <4>1. \A i \in len + 3 .. L : i \in 1 .. L
        BY <1>1, <1>3
      <4> QED
        BY <1>1, <4>1, ElementOfSeq DEF L
    <3>2. /\ data \in Seq(Nat)
          /\ Len(data) = IF len + 3 <= L THEN L - (len + 3) + 1 ELSE 0
          /\ \A i \in 1 .. L - (len + 3) + 1 : data[i] = arr[len + 3 + i - 1]
      <4>1. len + 3 \in Int /\ L \in Int
        BY <1>1, <1>3
      <4> QED
        BY <3>1, <4>1, SubSeqProperties
    <3>3. len + 3 <= L /\ L - (len + 3) + 1 = n
      BY <1>3
    <3>4. \A i \in 1 .. n : len + 3 + i - 1 = len + 2 + i
      BY <1>3
    <3> HIDE DEF data
    <3> QED
      BY <3>2, <3>3, <3>4
  <2> HIDE DEF data
  <2>3. \A i \in 1 .. n : data[i] = s.data[i]
    BY <1>1, <2>2
  <2>4. data = s.data
    BY <1>2, <2>2, <2>3, SeqEqual DEF n
  <2> QED
    BY <1>2, <2>1, <2>4, Zenon
<1>9. SubElements(arr, len, 0, of.manufacturerCode, L) = <<s>>
  <2>1. arr \in Seq(Nat) /\ len \in Nat /\ len + SEGMENT_HEADER_LENGTH < Len(arr)
    BY <1>1, <1>3 DEF L, SEGMENT_HEADER_LENGTH
  <2>2. SubElementEnd(arr, len) = Len(arr)
    BY <1>7 DEF L
  <2> QED
    BY <1>8, <2>1, <2>2, OneElement, Zenon
<1> DEFINE raw == SubSeq(arr, 0 + 1, LesserOf(Len(arr), 0 + L))
           parsed == [headerLength |-> len, fieldControl |-> of.fieldControl,
                      manufacturerCode |-> of.manufacturerCode, fileVersion |-> of.fileVersion,
                      totalImageSize |-> L, subElements |-> <<s>>, raw |-> raw]
<1>10. ParsedFile(arr, 0) = parsed
  BY <1>5, <1>6, <1>9, Zenon DEF ParsedFile
<1>11. raw = arr
  <2>1. LesserOf(Len(arr), 0 + L) = Len(arr) /\ 0 + 1 = 1
    BY <1>3 DEF LesserOf, L
  <2> QED
    BY <1>1, <2>1, SubSeqFull
<1>12. <<s>> # << >> /\ parsed.subElements = <<s>>
  OBVIOUS
<1> HIDE DEF raw, parsed
<1>13. FromArray(EmptyOtauFile, arr) = [ok |-> TRUE, file |-> parsed]
  <2>1. ~(L < MANDATORY_HEADER_LENGTH \/ 0 < 0) /\ ~(len < MANDATORY_HEADER_LENGTH)
    BY <1>3 DEF MANDATORY_HEADER_LENGTH
  <2>2. FromArray(EmptyOtauFile, arr) = [ok |-> parsed.subElements # << >>, file |-> parsed]
    BY <1>4, <1>5, <1>10, <2>1, Zenon DEF FromArray, L
  <2>3. (parsed.subElements # << >>) = TRUE
    BY <1>12
  <2> QED
    BY <2>2, <2>3
<1>14. /\ FromArray(EmptyOtauFile, arr).ok
       /\ FromArray(EmptyOtauFile, arr).file = parsed
  BY <1>13
<1>15. /\ parsed.manufacturerCode = of.manufacturerCode /\ parsed.fileVersion = of.fileVersion
       /\ parsed.subElements = <<s>> /\ parsed.raw = arr /\ parsed.totalImageSize = L
  BY <1>11 DEF parsed
<1> QED
  BY <1>14, <1>15, Zenon DEF arr, L

(* The sub element that saveClicked() keeps. *)
LEMMA PreservedType ==
    ASSUME NEW of \in OtaFile, NEW subs \in Preserved(of)
    PROVE  /\ \E s \in SubElement : subs = <<s>>
           /\ UpgradeImages(of) # {} =>
                 subs = <<LastUpgradeImage(of)>> /\ LastUpgradeImage(of) \in SubElement
<1> DEFINE U == UpgradeImages(of)
           n == Len(of.subElements)
<1>1. of.subElements \in Seq(SubElement)
  BY DEF OtaFile
<1>2. n \in Nat /\ U \subseteq 1 .. n /\ \A i \in 1 .. n : of.subElements[i] \in SubElement
  BY <1>1, LenProperties, ElementOfSeq DEF UpgradeImages
<1>3. CASE U # {}
  <2> DEFINE T == {n - i : i \in U}
  <2>1. T \subseteq Nat /\ T # {}
    <3>1. n \in Nat /\ U \subseteq 1 .. n
      BY <1>2
    <3> HIDE DEF U, n
    <3>2. \A i \in U : n - i \in Nat
      BY <3>1
    <3> QED
      BY <1>3, <3>2
  <2>2. PICK k \in T : \A j \in T : k <= j
    <3> HIDE DEF T
    <3> QED
      BY <2>1, LeastPosition
  <2>3. \E i \in U : \A j \in U : i >= j
    <3> HIDE DEF U, n
    <3>1. PICK i \in U : k = n - i
      BY <2>2
    <3>2. \A j \in U : n - i <= n - j
      BY <2>2, <3>1
    <3>3. \A j \in U : i >= j
      BY <1>2, <3>2
    <3> QED
      BY <3>3
  <2>4. Max(U) \in U
    BY <2>3, Zenon DEF Max
  <2>5. LastUpgradeImage(of) \in SubElement
    <3> HIDE DEF n
    <3> QED
      BY <1>2, <2>4 DEF LastUpgradeImage
  <2>6. subs = <<LastUpgradeImage(of)>>
    BY <1>3 DEF Preserved
  <2> QED
    BY <2>5, <2>6
<1>4. CASE U = {}
  <2>1. PICK t \in {TAG_UPGRADE_IMAGE, TAG_UPGRADE_IMAGE + 1}, l \in {0, 1} :
           subs = <<[tag |-> t, length |-> l, data |-> << >>]>>
    BY <1>4 DEF Preserved
  <2>2. t \in Nat /\ l \in Nat /\ << >> \in Seq(Nat) /\ Len(<< >>) <= l
    BY FileAssumption DEF FileAssumption
  <2>3. [tag |-> t, length |-> l, data |-> << >>] \in SubElement
    BY <2>2 DEF SubElement
  <2> QED
    BY <1>4, <2>1, <2>3, Zenon
<1> QED
  BY <1>3, <1>4

(* The file that saveClicked() makes of the form. *)
LEMMA EditedType ==
    ASSUME NEW of \in OtaFile, NEW code \in EditCodes, NEW version \in EditVersions,
           NEW s \in SubElement
    PROVE  LET edited == [of EXCEPT !.manufacturerCode = code, !.fileVersion = version,
                                    !.subElements = <<s>>]
           IN  /\ edited \in OtaFile /\ Packed(edited).file \in OtaFile
               /\ ToArray(edited) \in Seq(Nat)
<1> DEFINE edited == [of EXCEPT !.manufacturerCode = code, !.fileVersion = version,
                                !.subElements = <<s>>]
<1>1. code \in Nat /\ version \in Nat /\ <<s>> \in Seq(SubElement)
  BY FilesAssumption DEF FilesAssumption
<1>2. /\ edited \in OtaFile /\ edited.subElements = <<s>>
      /\ edited.manufacturerCode = code /\ edited.fileVersion = version
  BY <1>1 DEF OtaFile
<1> HIDE DEF edited
<1> DEFINE len == MANDATORY_HEADER_LENGTH + OptionalLength(edited.fieldControl)
           arr == Packed(edited).array
<1>3. /\ len \in Nat /\ arr \in Seq(Nat)
      /\ Packed(edited).file = [edited EXCEPT !.headerLength = len, !.totalImageSize = Len(arr)]
  BY <1>2, PackedOne, Zenon
<1> HIDE DEF len, arr
<1>4. Len(arr) \in Nat
  BY <1>3, LenProperties
<1>5. Packed(edited).file \in OtaFile
  BY <1>2, <1>3, <1>4 DEF OtaFile
<1> QED
  BY <1>2, <1>3, <1>5, Zenon DEF edited, arr, ToArray

----------------------------------------------------------------------------
(* The contents of the files and of what was read from them.                *)

Session ==
    [file : OtaFile, hasData : BOOLEAN,
     origin : {"none", "index", "wrapped", "stale", "user"}, soughtFor : Nat]

FormatInv ==
    /\ \A p \in DOMAIN disk : disk[p] \in Seq(Nat)
    /\ session \in Session /\ HeaderOf(session.file)
    /\ editOf \in OtaFile

(* An empty file has the header of its empty image. *)
LEMMA InitFormat == Init => FormatInv
<1> SUFFICES ASSUME Init
             PROVE  FormatInv
  OBVIOUS
<1>1. EmptyOtauFile \in OtaFile /\ HeaderOf(EmptyOtauFile)
  BY DEF EmptyOtauFile, OtaFile, HeaderOf, MANDATORY_HEADER_LENGTH
<1>2. session \in Session /\ session.file = EmptyOtauFile
  BY <1>1 DEF Init, NoSession, Session
<1>3. \A p \in DOMAIN disk : disk[p] \in Seq(Nat)
  <2>1. DOMAIN disk \subseteq Paths /\ \A p \in DOMAIN disk : disk[p] \in Contents[p]
    BY DEF Init
  <2> QED
    BY <2>1, FilesAssumption DEF FilesAssumption
<1> QED
  BY <1>1, <1>2, <1>3 DEF FormatInv, Init

(* Another file for the session. *)
LEMMA SessionFile ==
    ASSUME FormatInv, NEW of \in OtaFile, HeaderOf(of), NEW h \in BOOLEAN, NEW v \in Nat,
           NEW o \in {"none", "index", "wrapped", "stale", "user"},
           NEW new \in {[session EXCEPT !.file = of],
                        [session EXCEPT !.hasData = h],
                        [session EXCEPT !.file = of, !.origin = o, !.soughtFor = v, !.hasData = h],
                        [file |-> of, hasData |-> h, origin |-> o, soughtFor |-> v]}
    PROVE  new \in Session /\ HeaderOf(new.file)
<1> USE DEF Session
<1>0. session \in Session /\ HeaderOf(session.file)
  BY DEF FormatInv
<1>1. CASE new = [session EXCEPT !.file = of]
  <2>1. new \in Session /\ new.file = of
    BY <1>0, <1>1
  <2> QED
    BY <2>1
<1>2. CASE new = [session EXCEPT !.hasData = h]
  <2>1. new \in Session /\ new.file = session.file
    BY <1>0, <1>2
  <2> QED
    BY <1>0, <2>1
<1>3. CASE new = [session EXCEPT !.file = of, !.origin = o, !.soughtFor = v, !.hasData = h]
  <2>1. new \in Session /\ new.file = of
    BY <1>0, <1>3
  <2> QED
    BY <2>1
<1>4. CASE new = [file |-> of, hasData |-> h, origin |-> o, soughtFor |-> v]
  <2>1. new \in Session /\ new.file = of
    BY <1>4
  <2> QED
    BY <2>1
<1> QED
  BY <1>1, <1>2, <1>3, <1>4

(* Every step keeps the files readable and header and image together. *)
LEMMA NextFormat == FilesInv /\ FormatInv /\ [Next]_vars => FormatInv'
<1> SUFFICES ASSUME FilesInv, FormatInv, [Next]_vars
             PROVE  FormatInv'
  OBVIOUS
<1>1. ASSUME NEW p \in Paths, FilePut(p) \/ FileRemoved(p)
      PROVE  FormatInv'
  <2>1. \A q \in DOMAIN disk' : disk'[q] \in Seq(Nat)
    BY <1>1, FilesAssumption DEF FilePut, FileRemoved, FormatInv, FilesAssumption
  <2> QED
    BY <1>1, <2>1 DEF FilePut, FileRemoved, editVars, FormatInv
<1>2. CASE CreateLocalFileIndex
  BY <1>2 DEF CreateLocalFileIndex, editVars, FormatInv
<1>3. ASSUME NEW v \in SwVersions, QueryNextImageRequest(v)
      PROVE  FormatInv'
  <2> DEFINE p == UpdateFile(v)
             cleared == [session.file EXCEPT !.subElements = << >>]
             read == ReadFile(cleared, Kind[p], disk[p])
             origin == IF ~fresh THEN "stale"
                       ELSE IF Kind[p] = "bin" THEN "wrapped" ELSE "index"
             sought == IF fresh THEN v ELSE 0
  <2>1. session' = IF p = NoPath THEN [session EXCEPT !.file = cleared]
                   ELSE [file |-> read.file, hasData |-> read.ok,
                         origin |-> origin, soughtFor |-> sought]
    BY <1>3, Zenon DEF QueryNextImageRequest
  <2>2. UNCHANGED <<filesVars, editVars>>
    BY <1>3, Zenon DEF QueryNextImageRequest
  <2>3. cleared \in OtaFile /\ HeaderOf(cleared)
    <3>1. session.file \in OtaFile /\ HeaderOf(session.file)
      BY DEF FormatInv, Session
    <3>2. << >> \in Seq(SubElement) /\ 0 \in Nat
      OBVIOUS
    <3> QED
      BY <3>1, <3>2, OtherParts
  <2>4. /\ sought \in Nat
        /\ origin \in {"none", "index", "wrapped", "stale", "user"}
    BY FilesAssumption DEF FilesAssumption
  <2> HIDE DEF cleared, origin, sought, p
  <2>5. CASE p = NoPath
    <3>1. session' = [session EXCEPT !.file = cleared] /\ TRUE \in BOOLEAN
      BY <2>1, <2>5
    <3>2. session' \in Session /\ HeaderOf(session'.file)
      BY <2>3, <2>4, <3>1, SessionFile
    <3> QED
      BY <2>2, <3>2 DEF FormatInv, filesVars, editVars
  <2>6. CASE p # NoPath
    <3>1. disk[p] \in Seq(Nat)
      <4>1. \E i \in DOMAIN index : Eligible(index[i], v) /\ p = index[i].path
        BY <2>6, SearchFinds DEF FilesInv, p
      <4> QED
        BY <4>1 DEF Eligible, FormatInv
    <3>2. read.ok \in BOOLEAN /\ read.file \in OtaFile /\ HeaderOf(read.file)
      BY <2>3, <3>1, ReadFileType
    <3> HIDE DEF read
    <3>3. session' = [file |-> read.file, hasData |-> read.ok,
                      origin |-> origin, soughtFor |-> sought]
      BY <2>1, <2>6
    <3>4. session' \in Session /\ HeaderOf(session'.file)
      BY <2>4, <3>2, <3>3, SessionFile
    <3> QED
      BY <2>2, <3>4 DEF FormatInv, filesVars, editVars
  <2> QED
    BY <2>5, <2>6
<1>4. CASE FileReleased
  <2>1. session' = [session EXCEPT !.hasData = FALSE]
    BY <1>4 DEF FileReleased
  <2>2. session' \in Session /\ session'.file = session.file
    BY <2>1 DEF FormatInv, Session
  <2> QED
    BY <1>4, <2>2 DEF FileReleased, FormatInv, filesVars, editVars
<1>5. ASSUME NEW p \in Paths, FileSelectClicked(p)
      PROVE  FormatInv'
  <2> DEFINE read == ReadFile(session.file, Kind[p], disk[p])
             h == session.hasData \/ read.ok
  <2>1. /\ p \in DOMAIN disk
        /\ session' = [session EXCEPT !.file = read.file, !.origin = "user",
                                      !.soughtFor = 0, !.hasData = h]
        /\ UNCHANGED <<filesVars, editVars>>
    BY <1>5, Zenon DEF FileSelectClicked
  <2>2. session.file \in OtaFile /\ HeaderOf(session.file) /\ disk[p] \in Seq(Nat)
    BY <2>1 DEF FormatInv, Session
  <2>3. read.ok \in BOOLEAN /\ read.file \in OtaFile /\ HeaderOf(read.file)
    BY <2>2, ReadFileType
  <2>4. h \in BOOLEAN
    OBVIOUS
  <2> HIDE DEF read, h
  <2>5. session' \in Session /\ HeaderOf(session'.file)
    BY <2>1, <2>3, <2>4, SessionFile
  <2> QED
    BY <2>1, <2>5 DEF FormatInv, filesVars, editVars
<1>6. ASSUME NEW p \in Paths, OpenClicked(p)
      PROVE  FormatInv'
  <2>1. editOf' = ReadFile(editOf, Kind[p], disk[p]).file /\ p \in DOMAIN disk
    BY <1>6 DEF OpenClicked
  <2>2. editOf' \in OtaFile
    BY <2>1, ReadFileType DEF FormatInv
  <2> QED
    BY <1>6, <2>2 DEF OpenClicked, FormatInv, filesVars
<1>7. CASE OpenCancelled
  BY <1>7 DEF OpenCancelled, FormatInv, filesVars
<1>8. CASE SaveClicked
  <2>1. PICK code \in EditCodes, version \in EditVersions, subs \in Preserved(editOf) :
          LET edited == [editOf EXCEPT !.manufacturerCode = code, !.fileVersion = version,
                                       !.subElements = subs]
          IN  IF editPath = NoPath
              THEN editOf' = edited /\ UNCHANGED <<filesVars, session, editPath>>
              ELSE /\ editOf' = Packed(edited).file
                   /\ SaveFile(SavePath[editPath], edited)
                   /\ UNCHANGED session
    BY <1>8, Zenon DEF SaveClicked
  <2> DEFINE edited == [editOf EXCEPT !.manufacturerCode = code, !.fileVersion = version,
                                      !.subElements = subs]
  <2>2. edited \in OtaFile /\ Packed(edited).file \in OtaFile /\ ToArray(edited) \in Seq(Nat)
    <3>1. editOf \in OtaFile
      BY DEF FormatInv
    <3>2. PICK s \in SubElement : subs = <<s>>
      BY <3>1, PreservedType
    <3> QED
      BY <3>1, <3>2, EditedType
  <2> HIDE DEF edited
  <2>3. CASE editPath = NoPath
    <3>1. editOf' = edited /\ UNCHANGED <<filesVars, session>>
      BY <2>1, <2>3, Zenon DEF edited
    <3> QED
      BY <2>2, <3>1 DEF FormatInv, filesVars
  <2>4. CASE editPath # NoPath
    <3> DEFINE p == SavePath[editPath]
    <3>1. editOf' = Packed(edited).file /\ SaveFile(p, edited) /\ UNCHANGED session
      BY <2>1, <2>4, Zenon DEF edited
    <3>2. \A q \in DOMAIN disk' : disk'[q] \in Seq(Nat)
      BY <2>2, <3>1 DEF SaveFile, FormatInv
    <3> QED
      BY <2>2, <3>1, <3>2 DEF FormatInv
  <2> QED
    BY <2>3, <2>4
<1>9. CASE UNCHANGED vars
  BY <1>9 DEF vars, filesVars, editVars, FormatInv
<1> QED
  BY <1>1, <1>2, <1>3, <1>4, <1>5, <1>6, <1>7, <1>8, <1>9 DEF Next

(* Both invariants hold in every state. *)
LEMMA FormatInvariant == Spec => [](FilesInv /\ FormatInv)
  BY InitFiles, NextFiles, InitFormat, NextFormat, PTL DEF Spec

(* The header that queryNextImageResponse() announces is that of the image  *)
(* that imageBlockResponse() cuts into blocks, whatever files were chosen,  *)
(* found, truncated or not readable before.                                 *)
THEOREM HeadersMatchImages == Spec => []HeaderOfImage
<1>1. FormatInv => HeaderOfImage
  BY DEF FormatInv, HeaderOfImage
<1> QED
  BY <1>1, FormatInvariant, PTL

(* What saveClicked() writes is read again as the file that was edited: the *)
(* same header, the same upgrade image, nothing missing and nothing added.  *)
THEOREM SavedFilesAreReadable == Spec => SavedFileReadable
<1> DEFINE Saved ==
       SaveClicked /\ editPath # NoPath /\ UpgradeImages(editOf) # {}
          /\ LastUpgradeImage(editOf).data # << >>
       => LET read == FromArray(EmptyOtauFile, disk'[editPath'])
          IN  /\ read.ok
              /\ read.file.manufacturerCode \in EditCodes
              /\ read.file.fileVersion \in EditVersions
              /\ read.file.subElements = <<LastUpgradeImage(editOf)>>
              /\ read.file.raw = disk'[editPath']
              /\ Len(read.file.raw) = read.file.totalImageSize
<1>1. FormatInv => Saved
  <2> SUFFICES ASSUME FormatInv, SaveClicked, editPath # NoPath, UpgradeImages(editOf) # {},
                      LastUpgradeImage(editOf).data # << >>
               PROVE  LET read == FromArray(EmptyOtauFile, disk'[editPath'])
                      IN  /\ read.ok
                          /\ read.file.manufacturerCode \in EditCodes
                          /\ read.file.fileVersion \in EditVersions
                          /\ read.file.subElements = <<LastUpgradeImage(editOf)>>
                          /\ read.file.raw = disk'[editPath']
                          /\ Len(read.file.raw) = read.file.totalImageSize
    BY Zenon
  <2>1. PICK code \in EditCodes, version \in EditVersions, subs \in Preserved(editOf) :
          LET edited == [editOf EXCEPT !.manufacturerCode = code, !.fileVersion = version,
                                       !.subElements = subs]
          IN  editPath' = SavePath[editPath] /\ SaveFile(SavePath[editPath], edited)
    BY Zenon DEF SaveClicked
  <2> DEFINE s == LastUpgradeImage(editOf)
             edited == [editOf EXCEPT !.manufacturerCode = code, !.fileVersion = version,
                                      !.subElements = <<s>>]
             arr == Packed(edited).array
  <2>2. editOf \in OtaFile /\ subs = <<s>> /\ s \in SubElement
    BY PreservedType DEF FormatInv
  <2> HIDE DEF s
  <2>3. /\ edited \in OtaFile /\ edited.subElements = <<s>>
        /\ edited.manufacturerCode = code /\ edited.fileVersion = version
    <3>1. edited \in OtaFile
      BY <2>2, EditedType
    <3> QED
      BY <2>2, <3>1 DEF OtaFile
  <2>4. editPath' = SavePath[editPath] /\ SaveFile(SavePath[editPath], edited)
    BY <2>1, <2>2, Zenon
  <2> HIDE DEF edited
  <2>5. disk'[editPath'] = arr
    BY <2>4 DEF SaveFile, ToArray
  <2>6. LET read == FromArray(EmptyOtauFile, arr)
        IN  /\ read.ok
            /\ read.file.manufacturerCode = edited.manufacturerCode
            /\ read.file.fileVersion = edited.fileVersion
            /\ read.file.subElements = <<s>>
            /\ read.file.raw = arr /\ Len(arr) = read.file.totalImageSize
    BY <2>2, <2>3, PackedReads, Zenon DEF s
  <2> HIDE DEF arr
  <2> QED
    BY <2>3, <2>5, <2>6, Zenon DEF s
<1>2. Spec => [][Saved]_vars
  <2>1. FilesInv /\ FormatInv /\ [Next]_vars => [Saved]_vars
    BY <1>1
  <2> QED
    BY <2>1, FormatInvariant, PTL DEF Spec
<1> QED
  BY <1>2 DEF SavedFileReadable
=============================================================================
