------------------------ MODULE OtauRegistry_proofs ------------------------
(***************************************************************************)
(* Proofs about the registry of devices, for every set of devices and      *)
(* network addresses and every length of the list.                         *)
(*                                                                         *)
(* What the properties ask of the records needs a stronger invariant: every*)
(* record has an extended address, and the network address in it is one    *)
(* that no other device ever used.  Only then getNode(), which accepts     *)
(* either part of an address, finds the record of the device it is asked   *)
(* for (FindsOwnRecord).                                                   *)
(***************************************************************************)
EXTENDS OtauRegistry, SequenceTheorems, WellFoundedInduction, TLAPS

(* The relation that induction on the numbers rests on. *)
LessThan == {ss \in Nat \X Nat : ss[1] < ss[2]}

(* The numbers have no infinite descent. *)
LEMMA LessThanWellFounded == IsWellFoundedOn(LessThan, Nat)
  BY NatLessThanWellFounded DEF LessThan, OpToRel

(* What is not below is at least as large. *)
LEMMA LessThanMeaning == \A x, y \in Nat : <<y, x>> \notin LessThan => x <= y
  BY DEF LessThan

(* A set of numbers that is not empty has a least one. *)
LEMMA LeastNumber ==
    ASSUME NEW T, T \subseteq Nat, T # {}
    PROVE  \E x \in T : \A y \in T : x <= y
<1>1. \E x \in T : \A y \in T : ~(<<y, x>> \in LessThan)
  BY LessThanWellFounded, WFMin
<1> QED
  BY <1>1, LessThanMeaning

(* getNode() returns a row that fits, or none if there is none. *)
LEMMA GetNodeFits ==
    ASSUME NEW ns \in Seq(Record), NEW addr
    PROVE  /\ GetNode(ns, addr) \in 0 .. Len(ns)
           /\ GetNode(ns, addr) # 0 => Matches(ns[GetNode(ns, addr)], addr)
           /\ GetNode(ns, addr) = 0 => \A i \in DOMAIN ns : ~Matches(ns[i], addr)
<1> DEFINE T == {i \in DOMAIN ns : Matches(ns[i], addr)}
<1>1. DOMAIN ns = 1 .. Len(ns) /\ Len(ns) \in Nat
  BY LenProperties
<1>2. CASE T = {}
  <2>1. \A i \in DOMAIN ns : ~Matches(ns[i], addr)
    BY <1>2
  <2>2. GetNode(ns, addr) = 0
    BY <2>1 DEF GetNode
  <2> QED
    BY <1>1, <2>1, <2>2
<1>3. CASE T # {}
  <2>1. T \subseteq Nat
    BY <1>1
  <2>2. PICK i \in T : \A j \in T : i <= j
    <3> HIDE DEF T
    <3> QED
      BY <1>3, <2>1, LeastNumber
  <2>3. i \in DOMAIN ns /\ IsFirst(ns, addr, i)
    BY <1>1, <2>2 DEF IsFirst
  <2>4. GetNode(ns, addr) = CHOOSE k \in DOMAIN ns : IsFirst(ns, addr, k)
    BY <2>3 DEF GetNode, IsFirst
  <2>5. GetNode(ns, addr) \in DOMAIN ns /\ IsFirst(ns, addr, GetNode(ns, addr))
    BY <2>3, <2>4
  <2> QED
    BY <1>1, <2>5 DEF IsFirst
<1> QED
  BY <1>2, <1>3
----------------------------------------------------------------------------
(* Types.                                                                   *)

Responses(ns) == [row : DOMAIN ns, ext : Devices, image : Exts]
Address == [ext : Exts, nwk : Nwks]

(* Another record in a row. *)
LEMMA RowReplaced ==
    ASSUME NEW ns \in Seq(Record), NEW i \in DOMAIN ns, NEW r \in Record
    PROVE  /\ [ns EXCEPT ![i] = r] \in Seq(Record)
           /\ Len([ns EXCEPT ![i] = r]) = Len(ns)
           /\ DOMAIN [ns EXCEPT ![i] = r] = DOMAIN ns
           /\ \A j \in DOMAIN ns : [ns EXCEPT ![i] = r][j] = IF j = i THEN r ELSE ns[j]
<1>1. DOMAIN ns = 1 .. Len(ns) /\ Len(ns) \in Nat
  BY LenProperties
<1> DEFINE s == [ns EXCEPT ![i] = r]
<1>2. s \in Seq(Record) /\ DOMAIN s = DOMAIN ns
  BY ExceptSeq, <1>1
<1>3. Len(s) = Len(ns)
  BY ExceptSeq, <1>1
<1> QED
  BY <1>2, <1>3

(* getNode() with create adds a record of the address, or nothing. *)
LEMMA WithNodeType ==
    ASSUME NEW ns \in Seq(Record), NEW addr \in Address
    PROVE  /\ WithNode(ns, addr) \in Seq(Record)
           /\ DOMAIN ns \subseteq DOMAIN WithNode(ns, addr)
           /\ Len(ns) <= Len(WithNode(ns, addr))
           /\ \A j \in DOMAIN ns : WithNode(ns, addr)[j] = ns[j]
<1> DEFINE new == [ext |-> addr.ext, nwk |-> addr.nwk, hasData |-> FALSE,
                   permitUpdate |-> FALSE, paging |-> FALSE, awaits |-> FALSE,
                   chosenFor |-> NoAddr]
<1>1. DOMAIN ns = 1 .. Len(ns) /\ Len(ns) \in Nat
  BY LenProperties
<1>2. CASE WithNode(ns, addr) = ns
  BY <1>1, <1>2
<1>3. CASE WithNode(ns, addr) = Append(ns, new)
  <2>1. new \in Record
    BY DEF Record, Exts, Address
  <2> HIDE DEF new
  <2>2. /\ Append(ns, new) \in Seq(Record)
        /\ Len(Append(ns, new)) = Len(ns) + 1
        /\ \A j \in 1 .. Len(ns) : Append(ns, new)[j] = ns[j]
    BY <2>1, AppendProperties
  <2>3. DOMAIN Append(ns, new) = 1 .. Len(ns) + 1
    BY <2>1, AppendProperties
  <2> QED
    BY <1>1, <1>3, <2>2, <2>3
<1>4. WithNode(ns, addr) = ns \/ WithNode(ns, addr) = Append(ns, new)
  BY DEF WithNode
<1> QED
  BY <1>2, <1>3, <1>4

(* A response with the image of the record, or without one. *)
Responds(ns, i, r) == \E image \in {NoAddr, r.chosenFor} : Respond(ns, i, r, image)

(* What goes with a response is one of the two. *)
LEMMA ImageOfRecord ==
    ASSUME NEW ns, NEW i, NEW r, NEW image,
           image = ImageOf(r) \/ image = NoAddr, Respond(ns, i, r, image)
    PROVE  Responds(ns, i, r)
<1>1. image \in {NoAddr, r.chosenFor}
  BY DEF ImageOf
<1> QED
  BY <1>1, Zenon DEF Responds

(* A row that is replaced without a response. *)
LEMMA SilentlyReplaced ==
    ASSUME NEW ns, NEW i, NEW r, nodes' = [ns EXCEPT ![i] = r], UNCHANGED inFlight
    PROVE  Responds(ns, i, r)
<1>1. Respond(ns, i, r, NoAddr)
  BY Zenon DEF Respond
<1> QED
  BY <1>1, Zenon DEF Responds

(* Sending a response keeps the length of the list and the types. *)
LEMMA RespondType ==
    ASSUME NEW ns \in Seq(Record), NEW i \in DOMAIN ns, NEW r \in Record,
           inFlight \subseteq Responses(ns), Responds(ns, i, r)
    PROVE  /\ nodes' \in Seq(Record) /\ Len(nodes') = Len(ns) /\ DOMAIN nodes' = DOMAIN ns
           /\ inFlight' \subseteq Responses(ns)
<1>0. PICK image \in {NoAddr, r.chosenFor} : Respond(ns, i, r, image)
  BY Zenon DEF Responds
<1>1. CASE nodes' = [ns EXCEPT ![i] = r] /\ UNCHANGED inFlight
  BY <1>1, RowReplaced
<1>2. CASE /\ r.ext # NoAddr
           /\ nodes' = [ns EXCEPT ![i] = [r EXCEPT !.awaits = TRUE]]
           /\ inFlight' = {f \in inFlight : f.row # i} \cup
                          {[row |-> i, ext |-> r.ext,
                            image |-> image]}
  <2>1. [r EXCEPT !.awaits = TRUE] \in Record
    BY DEF Record
  <2>2. [row |-> i, ext |-> r.ext,
         image |-> image] \in Responses(ns)
    BY <1>2 DEF Responses, Record, Exts
  <2>3. inFlight' \subseteq Responses(ns)
    BY <1>2, <2>2
  <2> QED
    BY <1>2, <2>1, <2>3, RowReplaced
<1> QED
  BY <1>0, <1>1, <1>2, Zenon DEF Respond

(* The type of what the registry keeps, for a list of records. *)
LEMMA TypeOfRegistry ==
    ASSUME RegistryTypeOK
    PROVE  /\ nodes \in Seq(Record) /\ Len(nodes) \in Nat /\ DOMAIN nodes = 1 .. Len(nodes)
           /\ selected \in 0 .. Len(nodes) /\ inFlight \subseteq Responses(nodes)
           /\ \A d \in joined : FullAddress(d) \in Address /\ SrcAddresses(d) \subseteq Address
<1>1. /\ nodes \in Seq(Record) /\ selected \in 0 .. Len(nodes)
      /\ inFlight \subseteq Responses(nodes)
  BY DEF RegistryTypeOK, Responses
<1>2. ASSUME NEW d \in joined
      PROVE  FullAddress(d) \in Address /\ SrcAddresses(d) \subseteq Address
  BY DEF RegistryTypeOK, FullAddress, SrcAddresses, Address, Exts
<1> QED
  BY <1>1, <1>2, LenProperties
(* What every handler of a frame makes of the record it found: it may take  *)
(* addresses of the sender, and it starts no wait but by a response.        *)
Handled(d, src, old, r) ==
    /\ r \in Record
    /\ r.ext \in {old.ext, src.ext, d} /\ r.nwk \in {old.nwk, src.nwk}
    /\ r.chosenFor = old.chosenFor
    /\ r.awaits => old.awaits

(* Every handler of a request rewrites the record it was given, as Handled says. *)
LEMMA HandlersRespond ==
    ASSUME RegistryTypeOK, NEW d \in joined, NEW src \in SrcAddresses(d),
           NEW ns \in Seq(Record), NEW i \in DOMAIN ns,
           \/ QueryNextImageRequest(ns, i, src)
           \/ \E ieee \in BOOLEAN : ImageBlockRequest(ns, i, d, ieee)
           \/ ImagePageRequest(ns, i)
           \/ UpgradeEndRequest(ns, i)
    PROVE  \E r : Handled(d, src, ns[i], r) /\ Responds(ns, i, r)
<1>1. ns[i] \in Record
  BY ElementOfSeq, LenProperties
<1>2. d \in Devices /\ src \in Address
  BY TypeOfRegistry DEF RegistryTypeOK
<1>3. CASE QueryNextImageRequest(ns, i, src)
  <2> DEFINE r == [ns[i] EXCEPT !.ext = src.ext, !.nwk = src.nwk, !.paging = FALSE]
  <2>1. Handled(d, src, ns[i], r)
    BY <1>1, <1>2 DEF Handled, Record, Address
  <2>2. Respond(ns, i, r, ImageOf(r))
    BY <1>3, Zenon DEF QueryNextImageRequest
  <2>3. Responds(ns, i, r)
    BY <2>2, ImageOfRecord, Zenon
  <2> QED
    BY <2>1, <2>3, Zenon
<1>4. ASSUME NEW ieee \in BOOLEAN, ImageBlockRequest(ns, i, d, ieee)
      PROVE  \E r : Handled(d, src, ns[i], r) /\ Responds(ns, i, r)
  <2> DEFINE r == [ns[i] EXCEPT !.ext = IF ieee THEN d ELSE @, !.awaits = FALSE,
                                !.paging = FALSE]
  <2>1. Handled(d, src, ns[i], r)
    <3>1. CASE ieee
      BY <1>1, <1>2, <3>1 DEF Handled, Record, Address, Exts
    <3>2. CASE ~ieee
      BY <1>1, <1>2, <3>2 DEF Handled, Record, Address, Exts
    <3> QED
      BY <3>1, <3>2
  <2>2. Respond(ns, i, r, ImageOf(r))
    BY <1>4, Zenon DEF ImageBlockRequest
  <2>3. Responds(ns, i, r)
    BY <2>2, ImageOfRecord, Zenon
  <2> QED
    BY <2>1, <2>3, Zenon
<1>5. CASE ImagePageRequest(ns, i)
  <2>1. Handled(d, src, ns[i], ns[i])
    BY <1>1 DEF Handled
  <2>2. CASE nodes' = ns /\ UNCHANGED inFlight
    <3>1. nodes' = [ns EXCEPT ![i] = ns[i]]
      BY <2>2
    <3>2. Responds(ns, i, ns[i])
      BY <2>2, <3>1, SilentlyReplaced, Zenon
    <3> QED
      BY <2>1, <3>2, Zenon
  <2>3. CASE Respond(ns, i, ns[i], NoAddr)
    <3>1. Responds(ns, i, ns[i])
      BY <2>3, ImageOfRecord, Zenon
    <3> QED
      BY <2>1, <3>1, Zenon
  <2>4. CASE /\ nodes' = [ns EXCEPT ![i].awaits = FALSE, ![i].paging = TRUE]
             /\ UNCHANGED inFlight
    <3> DEFINE r == [ns[i] EXCEPT !.awaits = FALSE, !.paging = TRUE]
    <3>1. Handled(d, src, ns[i], r)
      BY <1>1, <1>2 DEF Handled, Record, Address
    <3>2. [ns EXCEPT ![i].awaits = FALSE, ![i].paging = TRUE] = [ns EXCEPT ![i] = r]
      BY <1>1 DEF Record
    <3>3. Responds(ns, i, r)
      BY <2>4, <3>2, SilentlyReplaced, Zenon
    <3> QED
      BY <3>1, <3>3, Zenon
  <2> QED
    BY <1>5, <2>2, <2>3, <2>4, Zenon DEF ImagePageRequest
<1>6. CASE UpgradeEndRequest(ns, i)
  <2>1. PICK ended \in BOOLEAN :
            Respond(ns, i, [ns[i] EXCEPT !.hasData = @ /\ ~ended,
                                         !.permitUpdate = @ /\ ~ended, !.paging = FALSE], NoAddr)
    BY <1>6, Zenon DEF UpgradeEndRequest
  <2> DEFINE r == [ns[i] EXCEPT !.hasData = @ /\ ~ended,
                                !.permitUpdate = @ /\ ~ended, !.paging = FALSE]
  <2>2. Handled(d, src, ns[i], r)
    BY <1>1, <1>2 DEF Handled, Record, Address
  <2>3. Responds(ns, i, r)
    BY <2>1, ImageOfRecord, Zenon
  <2> QED
    BY <2>2, <2>3, Zenon
<1> QED
  BY <1>3, <1>4, <1>5, <1>6, Zenon

(* Another record in the row of a list does not harm the type. *)
LEMMA TypeOfRow ==
    ASSUME RegistryTypeOK, NEW i \in DOMAIN nodes, NEW r \in Record,
           nodes' = [nodes EXCEPT ![i] = r], inFlight' \subseteq inFlight,
           UNCHANGED <<selected, seen, networkVars, clean>>
    PROVE  RegistryTypeOK'
<1>1. nodes' \in Seq(Record) /\ Len(nodes') = Len(nodes) /\ DOMAIN nodes' = DOMAIN nodes
  BY TypeOfRegistry, RowReplaced
<1>2. inFlight' \subseteq [row : DOMAIN nodes', ext : Devices, image : Exts]
  BY <1>1 DEF RegistryTypeOK
<1> QED
  BY <1>1, <1>2 DEF RegistryTypeOK, networkVars

(* A response keeps the types. *)
LEMMA TypeOfResponse ==
    ASSUME RegistryTypeOK, NEW ns \in Seq(Record), DOMAIN nodes \subseteq DOMAIN ns,
           Len(nodes) <= Len(ns), NEW i \in DOMAIN ns, NEW r \in Record, Responds(ns, i, r),
           UNCHANGED <<selected, seen, networkVars>>, clean' \in BOOLEAN
    PROVE  RegistryTypeOK'
<1>1. inFlight \subseteq Responses(ns)
  BY DEF RegistryTypeOK, Responses
<1>2. /\ nodes' \in Seq(Record) /\ Len(nodes') = Len(ns) /\ DOMAIN nodes' = DOMAIN ns
      /\ inFlight' \subseteq Responses(ns)
  BY <1>1, RespondType
<1>3. selected \in 0 .. Len(nodes')
  BY <1>2, TypeOfRegistry, LenProperties
<1> QED
  BY <1>2, <1>3 DEF RegistryTypeOK, networkVars, Responses
(* What a frame does to the registry: a record for the sender is found or   *)
(* added, and a handler replaces it.                                        *)
Indicated(d, src, ns, i, r) ==
    /\ ns = WithNode(nodes, src) /\ i = GetNode(ns, src)
    /\ ns \in Seq(Record) /\ i \in DOMAIN ns
    /\ Handled(d, src, ns[i], r) /\ Responds(ns, i, r)
    /\ clean' = (clean /\ src.ext # NoAddr)

(* apsdeDataIndication() hands the record it found, or a new one, to a handler. *)
LEMMA IndicationHandled ==
    ASSUME RegistryTypeOK, NEW d \in Devices, ApsdeDataIndication(d)
    PROVE  /\ d \in joined
           /\ UNCHANGED <<selected, seen, networkVars>>
           /\ \E src \in SrcAddresses(d) : \E ns, i, r : Indicated(d, src, ns, i, r)
<1>1. d \in joined /\ UNCHANGED <<selected, seen, networkVars>>
  BY Zenon DEF ApsdeDataIndication
<1>2. PICK src \in SrcAddresses(d) :
        LET ns == WithNode(nodes, src)
            i  == GetNode(ns, src)
        IN  /\ i # 0 /\ Len(ns) <= MAX_RECORDS
            /\ \/ QueryNextImageRequest(ns, i, src)
               \/ \E ieee \in BOOLEAN : ImageBlockRequest(ns, i, d, ieee)
               \/ ImagePageRequest(ns, i)
               \/ UpgradeEndRequest(ns, i)
            /\ clean' = (clean /\ src.ext # NoAddr)
  BY Zenon DEF ApsdeDataIndication
<1> DEFINE ns == WithNode(nodes, src)
           i  == GetNode(ns, src)
<1>3. ns \in Seq(Record)
  BY <1>1, TypeOfRegistry, WithNodeType
<1>4. i \in DOMAIN ns
  <2> HIDE DEF ns
  <2>1. i \in 0 .. Len(ns)
    BY <1>3, GetNodeFits
  <2>2. i # 0
    BY <1>2 DEF ns
  <2> QED
    BY <1>3, <2>1, <2>2, LenProperties
<1>5. \E r : Handled(d, src, ns[i], r) /\ Responds(ns, i, r)
  <2>1. \/ QueryNextImageRequest(ns, i, src)
        \/ \E ieee \in BOOLEAN : ImageBlockRequest(ns, i, d, ieee)
        \/ ImagePageRequest(ns, i)
        \/ UpgradeEndRequest(ns, i)
    BY <1>2, Zenon
  <2> HIDE DEF ns, i
  <2> QED
    BY <1>1, <1>3, <1>4, <2>1, HandlersRespond
<1>6. clean' = (clean /\ src.ext # NoAddr)
  BY <1>2, Zenon
<1> QED
  BY <1>1, <1>3, <1>4, <1>5, <1>6, Zenon DEF Indicated

(* The shown record that a click leaves. *)
LEMMA ClickedRecord ==
    ASSUME RegistryTypeOK, FileSelectClicked \/ UpdateClicked \/ AbortClicked
    PROVE  /\ selected \in DOMAIN nodes
           /\ \E r \in Record :
                /\ nodes' = [nodes EXCEPT ![selected] = r]
                /\ r.ext = nodes[selected].ext /\ r.nwk = nodes[selected].nwk
                /\ r.chosenFor \in {nodes[selected].chosenFor, seen}
                /\ r.awaits => nodes[selected].awaits
           /\ UNCHANGED <<selected, seen, inFlight, networkVars, clean>>
<1>1. selected # 0 /\ UNCHANGED <<selected, seen, inFlight, networkVars, clean>>
  BY Zenon DEF FileSelectClicked, UpdateClicked, AbortClicked, Shown
<1>2. selected \in DOMAIN nodes
  BY <1>1, TypeOfRegistry
<1>3. nodes[selected] \in Record
  BY <1>2, TypeOfRegistry, ElementOfSeq
<1> DEFINE old == nodes[selected]
           Fits(r) == /\ r \in Record /\ r.ext = old.ext /\ r.nwk = old.nwk
                      /\ r.chosenFor \in {old.chosenFor, seen} /\ (r.awaits => old.awaits)
<1>4. CASE FileSelectClicked
  <2>1. Fits([old EXCEPT !.hasData = TRUE, !.chosenFor = seen])
    BY <1>3 DEF Record, RegistryTypeOK
  <2>2. nodes' = [nodes EXCEPT ![selected] = [old EXCEPT !.hasData = TRUE, !.chosenFor = seen]]
    BY <1>4, Zenon DEF FileSelectClicked, Shown
  <2> QED
    BY <1>1, <1>2, <2>1, <2>2, Zenon
<1>5. CASE UpdateClicked
  <2> DEFINE r == [old EXCEPT !.permitUpdate = @ \/ old.hasData, !.paging = FALSE]
  <2>1. Fits(r)
    BY <1>3 DEF Record, RegistryTypeOK
  <2>2. nodes' = [nodes EXCEPT ![selected] = r]
    BY <1>5, Zenon DEF UpdateClicked, Shown
  <2> QED
    BY <1>1, <1>2, <2>1, <2>2, Zenon
<1>6. CASE AbortClicked
  <2> DEFINE r == [old EXCEPT !.permitUpdate = FALSE, !.paging = FALSE, !.awaits = FALSE]
  <2>1. Fits(r)
    BY <1>3 DEF Record, RegistryTypeOK
  <2>2. nodes' = [nodes EXCEPT ![selected] = r]
    BY <1>6, Zenon DEF AbortClicked, Shown
  <2> QED
    BY <1>1, <1>2, <2>1, <2>2, Zenon
<1> QED
  BY <1>4, <1>5, <1>6

(* The registry starts empty. *)
LEMMA InitType == Init => RegistryTypeOK
<1> SUFFICES ASSUME Init PROVE RegistryTypeOK
  OBVIOUS
<1>1. nodes \in Seq(Record) /\ Len(nodes) = 0
  BY EmptySeq DEF Init
<1>2. selected \in 0 .. Len(nodes)
  BY <1>1 DEF Init
<1> QED
  BY <1>1, <1>2 DEF Init, RegistryTypeOK, Exts
(* The page timer and a confirm change one record or none. *)
LEMMA PageTimerEffect ==
    ASSUME RegistryTypeOK, NEW i \in DOMAIN nodes, ImagePageTimerFired(i)
    PROVE  /\ \E r \in Record :
                /\ r.ext = nodes[i].ext /\ r.nwk = nodes[i].nwk
                /\ r.chosenFor = nodes[i].chosenFor
                /\ r.awaits => nodes[i].awaits
                /\ Responds(nodes, i, r)
           /\ UNCHANGED <<selected, seen, networkVars, clean>>
<1>1. nodes[i] \in Record
  BY TypeOfRegistry, ElementOfSeq
<1>2. UNCHANGED <<selected, seen, networkVars, clean>>
  BY Zenon DEF ImagePageTimerFired
<1>3. PICK more \in BOOLEAN :
         Respond(nodes, i, [nodes[i] EXCEPT !.paging = more], ImageOf(nodes[i]))
  BY Zenon DEF ImagePageTimerFired
<1> DEFINE r == [nodes[i] EXCEPT !.paging = more]
<1>4. /\ r \in Record /\ r.ext = nodes[i].ext /\ r.nwk = nodes[i].nwk
      /\ r.chosenFor = nodes[i].chosenFor /\ (r.awaits => nodes[i].awaits)
      /\ ImageOf(nodes[i]) = ImageOf(r)
  BY <1>1 DEF Record, ImageOf
<1>5. Responds(nodes, i, r)
  BY <1>3, <1>4, ImageOfRecord, Zenon
<1> QED
  BY <1>2, <1>4, <1>5, Zenon

(* A confirm is taken off the flight and changes at most the record it finds. *)
LEMMA ConfirmEffect ==
    ASSUME RegistryTypeOK, NEW f \in inFlight, ApsdeDataConfirm(f)
    PROVE  /\ f.row \in DOMAIN nodes
           /\ inFlight' = inFlight \ {f}
           /\ \E r \in Record :
                /\ r.ext = nodes[f.row].ext /\ r.nwk = nodes[f.row].nwk
                /\ r.chosenFor = nodes[f.row].chosenFor
                /\ r.awaits => nodes[f.row].awaits
                /\ GetNode(nodes, ConfirmAddress(f)) = f.row => ~r.awaits
                /\ nodes' = [nodes EXCEPT ![f.row] = r]
           /\ UNCHANGED <<selected, seen, networkVars, clean>>
<1>1. f.row \in DOMAIN nodes
  BY TypeOfRegistry DEF Responses
<1>2. nodes[f.row] \in Record
  BY <1>1, TypeOfRegistry, ElementOfSeq
<1>3. inFlight' = inFlight \ {f} /\ UNCHANGED <<selected, seen, networkVars, clean>>
  BY Zenon DEF ApsdeDataConfirm
<1>4. CASE GetNode(nodes, ConfirmAddress(f)) = f.row
  <2> DEFINE r == [nodes[f.row] EXCEPT !.awaits = FALSE]
  <2>1. /\ r \in Record /\ r.ext = nodes[f.row].ext /\ r.nwk = nodes[f.row].nwk
        /\ r.chosenFor = nodes[f.row].chosenFor /\ ~r.awaits
    BY <1>2 DEF Record
  <2>2. nodes' = [nodes EXCEPT ![f.row] = r]
    BY <1>4, Zenon DEF ApsdeDataConfirm
  <2> QED
    BY <1>1, <1>3, <2>1, <2>2, Zenon
<1>5. CASE GetNode(nodes, ConfirmAddress(f)) # f.row
  <2>1. nodes' = nodes
    BY <1>5, Zenon DEF ApsdeDataConfirm
  <2>2. nodes = [nodes EXCEPT ![f.row] = nodes[f.row]]
    BY <1>1, TypeOfRegistry
  <2> QED
    BY <1>1, <1>2, <1>3, <1>5, <2>1, <2>2, Zenon
<1> QED
  BY <1>4, <1>5

(* Every step keeps the types. *)
LEMMA NextType == RegistryTypeOK /\ [Next]_vars => RegistryTypeOK'
<1> SUFFICES ASSUME RegistryTypeOK, [Next]_vars PROVE RegistryTypeOK'
  OBVIOUS
<1>1. ASSUME NEW d \in Devices, NEW a \in Nwks, Joins(d, a) PROVE RegistryTypeOK'
  <2>1. /\ joined' \subseteq Devices /\ nwkOf' \in [Devices -> Nwks \cup {NoAddr}]
        /\ \A e \in joined' : nwkOf'[e] \in Nwks
    BY <1>1 DEF Joins, RegistryTypeOK
  <2>2. owner' \in [Nwks -> Exts]
    BY <1>1 DEF Joins, RegistryTypeOK, Exts
  <2>3. UNCHANGED <<nodes, selected, seen, inFlight>> /\ clean' \in BOOLEAN
    BY <1>1, Zenon DEF Joins, registryVars
  <2> QED
    BY <2>1, <2>2, <2>3 DEF RegistryTypeOK
<1>2. ASSUME NEW d \in Devices, Leaves(d) PROVE RegistryTypeOK'
  BY <1>2 DEF Leaves, RegistryTypeOK, registryVars
<1>3. ASSUME NEW d \in Devices, UpdatedSimpleDescriptor(d) PROVE RegistryTypeOK'
  <2>1. FullAddress(d) \in Address
    BY <1>3, TypeOfRegistry DEF UpdatedSimpleDescriptor
  <2>2. nodes' = WithNode(nodes, FullAddress(d))
    BY <1>3, Zenon DEF UpdatedSimpleDescriptor
  <2>3. /\ nodes' \in Seq(Record) /\ DOMAIN nodes \subseteq DOMAIN nodes'
        /\ Len(nodes) <= Len(nodes')
    BY <2>1, <2>2, WithNodeType, TypeOfRegistry
  <2>4. selected \in 0 .. Len(nodes') /\ inFlight \subseteq Responses(nodes')
    BY <2>3, TypeOfRegistry, LenProperties DEF Responses
  <2>5. UNCHANGED <<selected, seen, inFlight, joined, nwkOf, owner, clean>>
    BY <1>3, Zenon DEF UpdatedSimpleDescriptor, networkVars
  <2> QED
    BY <2>3, <2>4, <2>5 DEF RegistryTypeOK, Responses
<1>4. ASSUME NEW d \in Devices, NodeSelected(d) PROVE RegistryTypeOK'
  <2>1. selected' = GetNode(nodes, FullAddress(d))
    BY <1>4, Zenon DEF NodeSelected
  <2>2. selected' \in 0 .. Len(nodes)
    BY <2>1, TypeOfRegistry, GetNodeFits
  <2> QED
    BY <1>4, <2>2 DEF NodeSelected, RegistryTypeOK, networkVars, Exts
<1>5. ASSUME NEW d \in Devices, ApsdeDataIndication(d) PROVE RegistryTypeOK'
  <2>1. PICK src \in SrcAddresses(d) : \E ns, i, r : Indicated(d, src, ns, i, r)
    BY <1>5, IndicationHandled, Zenon
  <2>2. PICK ns, i, r : Indicated(d, src, ns, i, r)
    BY <2>1, Zenon
  <2>3. d \in joined /\ UNCHANGED <<selected, seen, networkVars>>
    BY <1>5, IndicationHandled, Zenon
  <2>4. DOMAIN nodes \subseteq DOMAIN ns /\ Len(nodes) <= Len(ns)
    BY <2>2, <2>3, TypeOfRegistry, WithNodeType DEF Indicated
  <2>5. /\ ns \in Seq(Record) /\ i \in DOMAIN ns /\ r \in Record /\ Responds(ns, i, r)
        /\ clean' \in BOOLEAN
    BY <2>2, Zenon DEF Indicated, Handled
  <2> QED
    BY <2>3, <2>4, <2>5, TypeOfResponse
<1>6. CASE NodeDeselected
  BY <1>6, TypeOfRegistry DEF NodeDeselected, RegistryTypeOK, networkVars, Exts
<1>7. ASSUME NEW i \in DOMAIN nodes, ActivatedNodeAtRow(i) PROVE RegistryTypeOK'
  <2>1. nodes[i] \in Record /\ i \in 0 .. Len(nodes)
    BY TypeOfRegistry, ElementOfSeq
  <2>2. selected' \in 0 .. Len(nodes) /\ seen' \in Exts
    BY <1>7, <2>1 DEF ActivatedNodeAtRow, Record
  <2> QED
    BY <1>7, <2>2 DEF ActivatedNodeAtRow, RegistryTypeOK, networkVars
<1>8. ASSUME NEW i \in DOMAIN nodes, ImagePageTimerFired(i) PROVE RegistryTypeOK'
  <2>1. PICK r \in Record : Responds(nodes, i, r)
    BY <1>8, PageTimerEffect, Zenon
  <2>2. UNCHANGED <<selected, seen, networkVars, clean>>
    BY <1>8, PageTimerEffect, Zenon
  <2>3. nodes \in Seq(Record) /\ Len(nodes) <= Len(nodes) /\ clean' \in BOOLEAN
    BY <2>2, TypeOfRegistry DEF RegistryTypeOK
  <2> QED
    BY <2>1, <2>2, <2>3, TypeOfResponse
<1>9. CASE FileSelectClicked \/ UpdateClicked \/ AbortClicked
  <2>1. PICK r \in Record : nodes' = [nodes EXCEPT ![selected] = r]
    BY <1>9, ClickedRecord, Zenon
  <2>2. /\ selected \in DOMAIN nodes /\ inFlight' \subseteq inFlight
        /\ UNCHANGED <<selected, seen, networkVars, clean>>
    BY <1>9, ClickedRecord, Zenon
  <2> QED
    BY <2>1, <2>2, TypeOfRow
<1>10. ASSUME NEW f \in inFlight, ApsdeDataConfirm(f) PROVE RegistryTypeOK'
  <2>1. PICK r \in Record : nodes' = [nodes EXCEPT ![f.row] = r]
    BY <1>10, ConfirmEffect, Zenon
  <2>2. /\ f.row \in DOMAIN nodes /\ inFlight' = inFlight \ {f}
        /\ UNCHANGED <<selected, seen, networkVars, clean>>
    BY <1>10, ConfirmEffect, Zenon
  <2>3. inFlight' \subseteq inFlight
    BY <2>2
  <2> QED
    BY <2>1, <2>2, <2>3, TypeOfRow
<1>11. CASE UNCHANGED vars
  BY <1>11 DEF vars, registryVars, networkVars, RegistryTypeOK
<1> QED
  BY <1>1, <1>2, <1>3, <1>4, <1>5, <1>6, <1>7, <1>8, <1>9, <1>10, <1>11, Zenon DEF Next

(* The variables of the registry keep their types: a row of the widget or   *)
(* of a response in flight is always a row of the list, whatever addresses  *)
(* devices take and whichever record getNode() finds for them.              *)
THEOREM RegistryTypeCorrect == Spec => []RegistryTypeOK
  BY InitType, NextType, PTL DEF Spec
----------------------------------------------------------------------------
(* The invariant of a clean network.                                        *)

(* Every record names a device, under a network address only that device    *)
(* ever used, and no two records name the same.                             *)
RecordsOK(ns, own) ==
    /\ \A i \in DOMAIN ns :
          /\ ns[i].ext \in Devices /\ own[ns[i].nwk] = ns[i].ext
          /\ ns[i].chosenFor \in {NoAddr, ns[i].ext}
    /\ \A i, j \in DOMAIN ns : ns[i].ext = ns[j].ext => i = j

(* Responses go to the device of their record, and a record that waits has  *)
(* one in flight.                                                           *)
FlightOK(ns, flight) ==
    /\ \A f \in flight : f.ext = ns[f.row].ext /\ f.image \in {NoAddr, f.ext}
    /\ \A i \in DOMAIN ns : ns[i].awaits => \E f \in flight : f.row = i

NetworkOK(nwk, own) == \A d \in Devices : nwk[d] # NoAddr => own[nwk[d]] = d

SelectedOK(ns, row, dev) == row # 0 => dev = ns[row].ext

CleanInv == clean => /\ RecordsOK(nodes, owner) /\ FlightOK(nodes, inFlight)
                     /\ NetworkOK(nwkOf, owner) /\ SelectedOK(nodes, selected, seen)

RegistryInv == RegistryTypeOK /\ CleanInv

(* In a clean network a record fits the address of a device only if it is   *)
(* the device's.                                                            *)
LEMMA FindsOwnRecord ==
    ASSUME RegistryTypeOK, NetworkOK(nwkOf, owner), NEW d \in Devices,
           NEW ns \in Seq(Record), RecordsOK(ns, owner)
    PROVE  /\ \A i \in DOMAIN ns : Matches(ns[i], FullAddress(d)) <=> ns[i].ext = d
           /\ \A i \in DOMAIN ns : ns[i].ext = d => GetNode(ns, FullAddress(d)) = i
           /\ GetNode(ns, FullAddress(d)) # 0 =>
                /\ GetNode(ns, FullAddress(d)) \in DOMAIN ns
                /\ ns[GetNode(ns, FullAddress(d))].ext = d
<1>1. \A i \in DOMAIN ns : ns[i] \in Record
  BY ElementOfSeq, LenProperties
<1>2. ASSUME NEW i \in DOMAIN ns
      PROVE  Matches(ns[i], FullAddress(d)) <=> ns[i].ext = d
  <2>1. ns[i].nwk # NoAddr
    BY <1>1, RegistryAssumption DEF Record
  <2>2. d # NoAddr
    BY RegistryAssumption
  <2>3. ASSUME ns[i].nwk = nwkOf[d] PROVE ns[i].ext = d
    BY <2>1, <2>3 DEF RecordsOK, NetworkOK
  <2> QED
    BY <2>2, <2>3 DEF Matches, FullAddress
<1> DEFINE k == GetNode(ns, FullAddress(d))
<1>3. /\ k \in 0 .. Len(ns)
      /\ k # 0 => Matches(ns[k], FullAddress(d))
      /\ k = 0 => \A i \in DOMAIN ns : ~Matches(ns[i], FullAddress(d))
  BY GetNodeFits
<1> HIDE DEF k
<1>4. k # 0 => k \in DOMAIN ns /\ ns[k].ext = d
  BY <1>2, <1>3, LenProperties
<1>5. \A i \in DOMAIN ns : ns[i].ext = d => k = i
  BY <1>2, <1>3, <1>4 DEF RecordsOK
<1> QED
  BY <1>2, <1>4, <1>5 DEF k

(* A record for a known device is added only if it has none. *)
LEMMA WithNodeKeepsRecords ==
    ASSUME RegistryTypeOK, NetworkOK(nwkOf, owner), NEW d \in joined, RecordsOK(nodes, owner)
    PROVE  /\ RecordsOK(WithNode(nodes, FullAddress(d)), owner)
           /\ \A i \in DOMAIN WithNode(nodes, FullAddress(d)) :
                i \notin DOMAIN nodes => ~WithNode(nodes, FullAddress(d))[i].awaits
<1> DEFINE addr == FullAddress(d)
           new == [ext |-> addr.ext, nwk |-> addr.nwk, hasData |-> FALSE,
                   permitUpdate |-> FALSE, paging |-> FALSE, awaits |-> FALSE,
                   chosenFor |-> NoAddr]
<1>1. d \in Devices /\ nwkOf[d] \in Nwks /\ owner[nwkOf[d]] = d
  BY RegistryAssumption DEF RegistryTypeOK, NetworkOK
<1>2. nodes \in Seq(Record) /\ DOMAIN nodes = 1 .. Len(nodes) /\ Len(nodes) \in Nat
  BY TypeOfRegistry
<1>3. CASE WithNode(nodes, addr) = nodes
  BY <1>3
<1>4. CASE GetNode(nodes, addr) = 0 /\ WithNode(nodes, addr) = Append(nodes, new)
  <2>1. \A i \in DOMAIN nodes : nodes[i].ext # d
    BY <1>1, <1>2, <1>4, FindsOwnRecord, GetNodeFits
  <2>2. new \in Record /\ new.ext = d /\ new.nwk = nwkOf[d] /\ new.chosenFor = NoAddr /\ ~new.awaits
    BY <1>1 DEF Record, Exts, FullAddress
  <2> DEFINE ns == Append(nodes, new)
  <2> HIDE DEF new
  <2>3. /\ DOMAIN ns = 1 .. Len(nodes) + 1
        /\ \A j \in 1 .. Len(nodes) : ns[j] = nodes[j]
        /\ ns[Len(nodes) + 1] = new
    BY <1>2, <2>2, AppendProperties
  <2> HIDE DEF ns
  <2>4. \A i \in DOMAIN ns : i \notin DOMAIN nodes => i = Len(nodes) + 1
    BY <1>2, <2>3
  <2>5. \A i \in DOMAIN ns : i \in DOMAIN nodes => ns[i] = nodes[i]
    BY <1>2, <2>3
  <2>6. \A i \in DOMAIN ns : i \notin DOMAIN nodes => ns[i] = new
    BY <2>3, <2>4
  <2>7. \A i \in DOMAIN ns : /\ ns[i].ext \in Devices /\ owner[ns[i].nwk] = ns[i].ext
                             /\ ns[i].chosenFor \in {NoAddr, ns[i].ext}
    BY <1>1, <2>2, <2>5, <2>6 DEF RecordsOK
  <2>8. ASSUME NEW i \in DOMAIN ns, NEW j \in DOMAIN ns, ns[i].ext = ns[j].ext PROVE i = j
    <3>1. CASE i \in DOMAIN nodes /\ j \in DOMAIN nodes
      BY <2>5, <2>8, <3>1 DEF RecordsOK
    <3>2. CASE i \notin DOMAIN nodes /\ j \notin DOMAIN nodes
      BY <2>4, <3>2
    <3>3. CASE ~(i \in DOMAIN nodes <=> j \in DOMAIN nodes)
      BY <2>1, <2>2, <2>5, <2>6, <2>8, <3>3
    <3> QED
      BY <3>1, <3>2, <3>3
  <2> QED
    BY <1>4, <2>2, <2>6, <2>7, <2>8 DEF RecordsOK, ns
<1>5. \/ WithNode(nodes, addr) = nodes
      \/ GetNode(nodes, addr) = 0 /\ WithNode(nodes, addr) = Append(nodes, new)
  BY DEF WithNode
<1> QED
  BY <1>3, <1>4, <1>5
(* A row may get another record of the same device. *)
LEMMA RowKeepsRecords ==
    ASSUME NEW own, NEW ns \in Seq(Record), RecordsOK(ns, own), NEW i \in DOMAIN ns,
           NEW r \in Record, r.ext = ns[i].ext, own[r.nwk] = r.ext,
           r.chosenFor \in {NoAddr, r.ext}
    PROVE  /\ RecordsOK([ns EXCEPT ![i] = r], own)
           /\ \A j \in DOMAIN ns : [ns EXCEPT ![i] = r][j].ext = ns[j].ext
<1> DEFINE s == [ns EXCEPT ![i] = r]
<1>1. DOMAIN s = DOMAIN ns /\ \A j \in DOMAIN ns : s[j] = IF j = i THEN r ELSE ns[j]
  BY RowReplaced
<1> HIDE DEF s
<1>2. \A j \in DOMAIN ns : s[j].ext = ns[j].ext
  BY <1>1
<1>3. \A j \in DOMAIN ns : own[s[j].nwk] = s[j].ext /\ s[j].chosenFor \in {NoAddr, s[j].ext}
  BY <1>1 DEF RecordsOK
<1> QED
  BY <1>1, <1>2, <1>3 DEF RecordsOK, s

(* So may a row whose record sends a response. *)
LEMMA RespondKeepsRecords ==
    ASSUME NEW own, NEW ns \in Seq(Record), RecordsOK(ns, own), FlightOK(ns, inFlight),
           inFlight \subseteq Responses(ns), NEW i \in DOMAIN ns,
           NEW r \in Record, r.ext = ns[i].ext, own[r.nwk] = r.ext,
           r.chosenFor \in {NoAddr, r.ext}, r.awaits => ns[i].awaits, Responds(ns, i, r)
    PROVE  /\ RecordsOK(nodes', own) /\ FlightOK(nodes', inFlight')
           /\ \A j \in DOMAIN ns : nodes'[j].ext = ns[j].ext
<1>0. PICK image \in {NoAddr, r.chosenFor} : Respond(ns, i, r, image)
  BY Zenon DEF Responds
<1>1. CASE nodes' = [ns EXCEPT ![i] = r] /\ UNCHANGED inFlight
  <2>1. /\ RecordsOK(nodes', own) /\ \A j \in DOMAIN ns : nodes'[j].ext = ns[j].ext
        /\ DOMAIN nodes' = DOMAIN ns
        /\ \A j \in DOMAIN ns : nodes'[j] = IF j = i THEN r ELSE ns[j]
    BY <1>1, RowKeepsRecords, RowReplaced
  <2>2. \A f \in inFlight' : f.ext = nodes'[f.row].ext /\ f.image \in {NoAddr, f.ext}
    BY <1>1, <2>1 DEF FlightOK, Responses
  <2>3. \A j \in DOMAIN nodes' : nodes'[j].awaits => ns[j].awaits
    BY <2>1
  <2>4. FlightOK(nodes', inFlight')
    BY <1>1, <2>1, <2>2, <2>3 DEF FlightOK
  <2> QED
    BY <2>1, <2>4
<1>2. CASE /\ r.ext # NoAddr
           /\ nodes' = [ns EXCEPT ![i] = [r EXCEPT !.awaits = TRUE]]
           /\ inFlight' = {f \in inFlight : f.row # i} \cup
                          {[row |-> i, ext |-> r.ext,
                            image |-> image]}
  <2> DEFINE q == [r EXCEPT !.awaits = TRUE]
             g == [row |-> i, ext |-> r.ext,
                   image |-> image]
  <2>1. /\ q \in Record /\ q.ext = r.ext /\ q.nwk = r.nwk /\ q.chosenFor = r.chosenFor
    BY DEF Record
  <2>2. g.row = i /\ g.ext = r.ext /\ g.image \in {NoAddr, g.ext}
    BY <1>2
  <2>3. nodes' = [ns EXCEPT ![i] = q] /\ inFlight' = {f \in inFlight : f.row # i} \cup {g}
    BY <1>2
  <2> HIDE DEF q, g
  <2>4. /\ RecordsOK(nodes', own) /\ \A j \in DOMAIN ns : nodes'[j].ext = ns[j].ext
        /\ DOMAIN nodes' = DOMAIN ns
        /\ \A j \in DOMAIN ns : nodes'[j] = IF j = i THEN q ELSE ns[j]
    BY <2>1, <2>3, RowKeepsRecords, RowReplaced
  <2>5. \A f \in inFlight : f.ext = nodes'[f.row].ext /\ f.image \in {NoAddr, f.ext}
    BY <2>4 DEF FlightOK, Responses
  <2>6. \A f \in inFlight' : f.ext = nodes'[f.row].ext /\ f.image \in {NoAddr, f.ext}
    BY <2>1, <2>2, <2>3, <2>4, <2>5
  <2>7. ASSUME NEW j \in DOMAIN nodes', nodes'[j].awaits PROVE \E f \in inFlight' : f.row = j
    <3>1. CASE j = i
      BY <2>2, <2>3, <3>1
    <3>2. CASE j # i
      <4>1. ns[j].awaits /\ j \in DOMAIN ns
        BY <2>4, <2>7, <3>2
      <4>2. PICK f \in inFlight : f.row = j
        BY <4>1 DEF FlightOK
      <4> QED
        BY <2>3, <3>2, <4>2
    <3> QED
      BY <3>1, <3>2
  <2>8. FlightOK(nodes', inFlight')
    BY <2>6, <2>7 DEF FlightOK
  <2> QED
    BY <2>4, <2>8
<1> QED
  BY <1>0, <1>1, <1>2, Zenon DEF Respond

(* A list to which a row was added keeps what concerns the others. *)
LEMMA LongerList ==
    ASSUME NEW ns, NEW ms, DOMAIN ns \subseteq DOMAIN ms, \A j \in DOMAIN ns : ms[j] = ns[j],
           \A j \in DOMAIN ms : j \notin DOMAIN ns => ~ms[j].awaits,
           NEW flight, flight \subseteq Responses(ns), FlightOK(ns, flight)
    PROVE  FlightOK(ms, flight)
<1>1. \A f \in flight : f.row \in DOMAIN ns
  BY DEF Responses
<1>2. \A f \in flight : f.ext = ms[f.row].ext /\ f.image \in {NoAddr, f.ext}
  BY <1>1 DEF FlightOK
<1>3. \A j \in DOMAIN ms : ms[j].awaits => \E f \in flight : f.row = j
  BY DEF FlightOK
<1> QED
  BY <1>2, <1>3 DEF FlightOK

(* An empty registry is clean. *)
LEMMA InitClean == Init => CleanInv
<1> SUFFICES ASSUME Init PROVE CleanInv
  OBVIOUS
<1>1. nodes = << >> /\ DOMAIN nodes = {}
  BY DEF Init
<1>2. NetworkOK(nwkOf, owner)
  BY DEF Init, NetworkOK
<1> QED
  BY <1>1, <1>2 DEF Init, CleanInv, RecordsOK, FlightOK, SelectedOK
(* A device that takes a free network address, or its own, keeps the        *)
(* network clean.                                                           *)
LEMMA JoinsClean ==
    ASSUME RegistryTypeOK, CleanInv, NEW d \in Devices, NEW a \in Nwks, Joins(d, a)
    PROVE  CleanInv'
<1> SUFFICES ASSUME clean' PROVE CleanInv'
  BY Zenon DEF CleanInv
<1>1. clean /\ owner[a] \in {NoAddr, d} /\ UNCHANGED <<nodes, selected, seen, inFlight>>
  BY Zenon DEF Joins, registryVars
<1>2. /\ owner' = IF owner[a] = NoAddr THEN [owner EXCEPT ![a] = d] ELSE owner
      /\ nwkOf' = [nwkOf EXCEPT ![d] = a]
  BY Zenon DEF Joins
<1>3. /\ RecordsOK(nodes, owner) /\ FlightOK(nodes, inFlight)
      /\ NetworkOK(nwkOf, owner) /\ SelectedOK(nodes, selected, seen)
  BY <1>1, Zenon DEF CleanInv
<1>4. NoAddr \notin Devices
  BY RegistryAssumption
<1>5. \A b \in Nwks : owner[b] # NoAddr => owner'[b] = owner[b]
  BY <1>2 DEF RegistryTypeOK
<1>6. owner'[a] = d
  BY <1>1, <1>2 DEF RegistryTypeOK
<1>7. RecordsOK(nodes, owner')
  <2>1. \A i \in DOMAIN nodes : nodes[i].nwk \in Nwks
    <3>1. \A i \in DOMAIN nodes : nodes[i] \in Record
      BY TypeOfRegistry, ElementOfSeq
    <3> QED
      BY <3>1 DEF Record
  <2> QED
    BY <1>3, <1>4, <1>5, <2>1 DEF RecordsOK
<1>8. NetworkOK(nwkOf', owner')
  <2> SUFFICES ASSUME NEW e \in Devices, nwkOf'[e] # NoAddr PROVE owner'[nwkOf'[e]] = e
    BY DEF NetworkOK
  <2>1. CASE e = d
    BY <1>2, <1>6, <2>1 DEF RegistryTypeOK
  <2>2. CASE e # d
    <3>1. nwkOf'[e] = nwkOf[e] /\ nwkOf[e] \in Nwks
      BY <1>2, <2>2 DEF RegistryTypeOK
    <3>2. owner[nwkOf[e]] = e
      BY <1>3, <3>1 DEF NetworkOK
    <3> QED
      BY <1>4, <1>5, <3>1, <3>2
  <2> QED
    BY <2>1, <2>2
<1> QED
  BY <1>1, <1>3, <1>7, <1>8 DEF CleanInv

(* A frame whose sender is known is handled in the record of that device. *)
LEMMA IndicationClean ==
    ASSUME RegistryTypeOK, CleanInv, NEW d \in Devices, ApsdeDataIndication(d)
    PROVE  CleanInv'
<1> SUFFICES ASSUME clean' PROVE CleanInv'
  BY Zenon DEF CleanInv
<1>1. PICK src \in SrcAddresses(d) : \E ns, i, r : Indicated(d, src, ns, i, r)
  BY IndicationHandled, Zenon
<1>2. PICK ns, i, r : Indicated(d, src, ns, i, r)
  BY <1>1, Zenon
<1>3. clean /\ src.ext # NoAddr
  BY <1>2, Zenon DEF Indicated
<1>4. src = FullAddress(d)
  BY <1>3 DEF SrcAddresses
<1>5. /\ RecordsOK(nodes, owner) /\ FlightOK(nodes, inFlight)
      /\ NetworkOK(nwkOf, owner) /\ SelectedOK(nodes, selected, seen)
  BY <1>3, Zenon DEF CleanInv
<1>6. d \in joined /\ UNCHANGED <<selected, seen, joined, nwkOf, owner>>
  BY IndicationHandled, Zenon DEF networkVars
<1>7. /\ ns \in Seq(Record) /\ i \in DOMAIN ns /\ r \in Record /\ Responds(ns, i, r)
      /\ r.ext \in {ns[i].ext, src.ext, d} /\ r.nwk \in {ns[i].nwk, src.nwk}
      /\ r.chosenFor = ns[i].chosenFor /\ (r.awaits => ns[i].awaits)
      /\ ns = WithNode(nodes, src) /\ i = GetNode(ns, src)
  BY <1>2, Zenon DEF Indicated, Handled
<1>8. RecordsOK(ns, owner) /\ \A j \in DOMAIN ns : j \notin DOMAIN nodes => ~ns[j].awaits
  BY <1>4, <1>5, <1>6, <1>7, WithNodeKeepsRecords
<1>9. DOMAIN nodes \subseteq DOMAIN ns /\ \A j \in DOMAIN nodes : ns[j] = nodes[j]
  BY <1>6, <1>7, TypeOfRegistry, WithNodeType
<1>10. inFlight \subseteq Responses(nodes) /\ inFlight \subseteq Responses(ns)
  BY <1>9, TypeOfRegistry DEF Responses
<1>11. FlightOK(ns, inFlight)
  BY <1>5, <1>8, <1>9, <1>10, LongerList
<1>12. ns[i].ext = d
  <2>1. i \in Nat /\ i # 0
    BY <1>7, LenProperties
  <2> QED
    BY <1>4, <1>5, <1>7, <1>8, <2>1, FindsOwnRecord
<1>13. owner[nwkOf[d]] = d
  BY <1>5, <1>6, RegistryAssumption DEF NetworkOK, RegistryTypeOK
<1>14. r.ext = ns[i].ext /\ owner[r.nwk] = r.ext
  BY <1>4, <1>7, <1>8, <1>12, <1>13 DEF FullAddress, RecordsOK
<1>15. r.chosenFor \in {NoAddr, r.ext}
  BY <1>7, <1>8, <1>14 DEF RecordsOK
<1>16. /\ RecordsOK(nodes', owner) /\ FlightOK(nodes', inFlight')
       /\ \A j \in DOMAIN ns : nodes'[j].ext = ns[j].ext
  BY <1>7, <1>8, <1>10, <1>11, <1>14, <1>15, RespondKeepsRecords
<1>17. SelectedOK(nodes', selected, seen)
  BY <1>5, <1>9, <1>16, TypeOfRegistry DEF SelectedOK
<1> QED
  BY <1>5, <1>6, <1>16, <1>17 DEF CleanInv

(* A record that changes but for its addresses, while no response is added. *)
LEMMA RowClean ==
    ASSUME RegistryTypeOK, CleanInv, NEW i \in DOMAIN nodes, NEW r \in Record,
           r.ext = nodes[i].ext, r.nwk = nodes[i].nwk,
           clean => r.chosenFor \in {NoAddr, r.ext}, r.awaits => nodes[i].awaits,
           inFlight' \subseteq inFlight,
           clean => \A f \in inFlight : f \notin inFlight' => f.row = i /\ ~r.awaits,
           nodes' = [nodes EXCEPT ![i] = r], UNCHANGED <<selected, seen, networkVars, clean>>
    PROVE  CleanInv'
<1> SUFFICES ASSUME clean' PROVE CleanInv'
  BY Zenon DEF CleanInv
<1>1. clean /\ UNCHANGED <<selected, seen, nwkOf, owner>>
  BY Zenon DEF networkVars
<1>2. /\ RecordsOK(nodes, owner) /\ FlightOK(nodes, inFlight)
      /\ NetworkOK(nwkOf, owner) /\ SelectedOK(nodes, selected, seen)
  BY <1>1, Zenon DEF CleanInv
<1>3. nodes \in Seq(Record) /\ inFlight \subseteq Responses(nodes)
  BY TypeOfRegistry
<1>4. owner[r.nwk] = r.ext
  BY <1>2 DEF RecordsOK
<1>5. RecordsOK(nodes', owner) /\ \A j \in DOMAIN nodes : nodes'[j].ext = nodes[j].ext
  BY <1>1, <1>2, <1>3, <1>4, RowKeepsRecords
<1>6. /\ DOMAIN nodes' = DOMAIN nodes
      /\ \A j \in DOMAIN nodes : nodes'[j] = IF j = i THEN r ELSE nodes[j]
  BY <1>3, RowReplaced
<1>7. \A f \in inFlight' : f.ext = nodes'[f.row].ext /\ f.image \in {NoAddr, f.ext}
  BY <1>2, <1>3, <1>5 DEF FlightOK, Responses
<1>8. ASSUME NEW j \in DOMAIN nodes', nodes'[j].awaits PROVE \E f \in inFlight' : f.row = j
  <2>1. nodes[j].awaits /\ j \in DOMAIN nodes /\ (j = i => r.awaits)
    BY <1>6, <1>8
  <2>2. PICK f \in inFlight : f.row = j
    BY <1>2, <2>1 DEF FlightOK
  <2>3. f \in inFlight'
    BY <1>1, <2>1, <2>2
  <2> QED
    BY <2>2, <2>3
<1>9. SelectedOK(nodes', selected, seen)
  BY <1>2, <1>5, TypeOfRegistry DEF SelectedOK
<1> QED
  BY <1>1, <1>2, <1>5, <1>7, <1>8, <1>9 DEF CleanInv, FlightOK

(* Every step keeps the invariant. *)
LEMMA NextClean == RegistryTypeOK /\ CleanInv /\ [Next]_vars => CleanInv'
<1> SUFFICES ASSUME RegistryTypeOK, CleanInv, [Next]_vars PROVE CleanInv'
  OBVIOUS
<1>1. ASSUME NEW d \in Devices, NEW a \in Nwks, Joins(d, a) PROVE CleanInv'
  BY <1>1, JoinsClean
<1>2. ASSUME NEW d \in Devices, Leaves(d) PROVE CleanInv'
  BY <1>2 DEF Leaves, CleanInv, registryVars
<1>3. ASSUME NEW d \in Devices, UpdatedSimpleDescriptor(d) PROVE CleanInv'
  <2> SUFFICES ASSUME clean' PROVE CleanInv'
    BY Zenon DEF CleanInv
  <2>1. /\ d \in joined /\ nodes' = WithNode(nodes, FullAddress(d))
        /\ clean /\ UNCHANGED <<selected, seen, inFlight, joined, nwkOf, owner>>
    BY <1>3, Zenon DEF UpdatedSimpleDescriptor, networkVars
  <2>2. /\ RecordsOK(nodes, owner) /\ FlightOK(nodes, inFlight)
        /\ NetworkOK(nwkOf, owner) /\ SelectedOK(nodes, selected, seen)
    BY <2>1, Zenon DEF CleanInv
  <2>3. /\ RecordsOK(nodes', owner)
        /\ \A j \in DOMAIN nodes' : j \notin DOMAIN nodes => ~nodes'[j].awaits
    BY <2>1, <2>2, WithNodeKeepsRecords
  <2>4. DOMAIN nodes \subseteq DOMAIN nodes' /\ \A j \in DOMAIN nodes : nodes'[j] = nodes[j]
    BY <2>1, TypeOfRegistry, WithNodeType
  <2>5. FlightOK(nodes', inFlight)
    BY <2>2, <2>3, <2>4, TypeOfRegistry, LongerList
  <2>6. SelectedOK(nodes', selected, seen)
    BY <2>2, <2>4, TypeOfRegistry DEF SelectedOK
  <2> QED
    BY <2>1, <2>2, <2>3, <2>5, <2>6 DEF CleanInv
<1>4. ASSUME NEW d \in Devices, NodeSelected(d) PROVE CleanInv'
  <2> SUFFICES ASSUME clean' PROVE CleanInv'
    BY Zenon DEF CleanInv
  <2>1. /\ selected' = GetNode(nodes, FullAddress(d)) /\ seen' = d
        /\ clean /\ UNCHANGED <<nodes, inFlight, nwkOf, owner>>
    BY <1>4, Zenon DEF NodeSelected, networkVars
  <2>2. RecordsOK(nodes, owner) /\ FlightOK(nodes, inFlight) /\ NetworkOK(nwkOf, owner)
    BY <2>1, Zenon DEF CleanInv
  <2>3. SelectedOK(nodes, selected', seen')
    BY <2>1, <2>2, TypeOfRegistry, FindsOwnRecord DEF SelectedOK
  <2> QED
    BY <2>1, <2>2, <2>3 DEF CleanInv
<1>5. ASSUME NEW d \in Devices, ApsdeDataIndication(d) PROVE CleanInv'
  BY <1>5, IndicationClean
<1>6. CASE NodeDeselected
  BY <1>6 DEF NodeDeselected, CleanInv, SelectedOK, networkVars
<1>7. ASSUME NEW i \in DOMAIN nodes, ActivatedNodeAtRow(i) PROVE CleanInv'
  BY <1>7 DEF ActivatedNodeAtRow, CleanInv, SelectedOK, networkVars
<1>8. ASSUME NEW i \in DOMAIN nodes, ImagePageTimerFired(i) PROVE CleanInv'
  <2> SUFFICES ASSUME clean' PROVE CleanInv'
    BY Zenon DEF CleanInv
  <2>1. PICK r \in Record :
          /\ r.ext = nodes[i].ext /\ r.nwk = nodes[i].nwk
          /\ r.chosenFor = nodes[i].chosenFor
          /\ r.awaits => nodes[i].awaits
          /\ Responds(nodes, i, r)
    BY <1>8, PageTimerEffect, Zenon
  <2>2. clean /\ UNCHANGED <<selected, seen, nwkOf, owner>>
    BY <1>8, PageTimerEffect, Zenon DEF networkVars
  <2>3. /\ RecordsOK(nodes, owner) /\ FlightOK(nodes, inFlight)
        /\ NetworkOK(nwkOf, owner) /\ SelectedOK(nodes, selected, seen)
    BY <2>2, Zenon DEF CleanInv
  <2>4. owner[r.nwk] = r.ext /\ r.chosenFor \in {NoAddr, r.ext}
    BY <2>1, <2>3 DEF RecordsOK
  <2>5. /\ RecordsOK(nodes', owner) /\ FlightOK(nodes', inFlight')
        /\ \A j \in DOMAIN nodes : nodes'[j].ext = nodes[j].ext
    BY <2>1, <2>3, <2>4, TypeOfRegistry, RespondKeepsRecords
  <2>6. SelectedOK(nodes', selected, seen)
    BY <2>3, <2>5, TypeOfRegistry DEF SelectedOK
  <2> QED
    BY <2>2, <2>3, <2>5, <2>6 DEF CleanInv
<1>9. CASE FileSelectClicked \/ UpdateClicked \/ AbortClicked
  <2>1. PICK r \in Record :
          /\ nodes' = [nodes EXCEPT ![selected] = r]
          /\ r.ext = nodes[selected].ext /\ r.nwk = nodes[selected].nwk
          /\ r.chosenFor \in {nodes[selected].chosenFor, seen}
          /\ r.awaits => nodes[selected].awaits
    BY <1>9, ClickedRecord, Zenon
  <2>2. /\ selected \in DOMAIN nodes /\ inFlight' = inFlight
        /\ UNCHANGED <<selected, seen, networkVars, clean>>
    BY <1>9, ClickedRecord, Zenon
  <2>3. selected # 0
    BY <2>2, TypeOfRegistry
  <2>4. clean => r.chosenFor \in {NoAddr, r.ext}
    BY <2>1, <2>2, <2>3 DEF CleanInv, RecordsOK, SelectedOK
  <2> QED
    BY <2>1, <2>2, <2>4, RowClean
<1>10. ASSUME NEW f \in inFlight, ApsdeDataConfirm(f) PROVE CleanInv'
  <2>1. PICK r \in Record :
          /\ r.ext = nodes[f.row].ext /\ r.nwk = nodes[f.row].nwk
          /\ r.chosenFor = nodes[f.row].chosenFor
          /\ r.awaits => nodes[f.row].awaits
          /\ GetNode(nodes, ConfirmAddress(f)) = f.row => ~r.awaits
          /\ nodes' = [nodes EXCEPT ![f.row] = r]
    BY <1>10, ConfirmEffect, Zenon
  <2>2. /\ f.row \in DOMAIN nodes /\ inFlight' = inFlight \ {f}
        /\ UNCHANGED <<selected, seen, networkVars, clean>>
    BY <1>10, ConfirmEffect, Zenon
  <2>3. f.ext \in Devices
    BY TypeOfRegistry DEF Responses
  <2>4. ASSUME clean PROVE r.chosenFor \in {NoAddr, r.ext} /\ ~r.awaits
    <3>1. /\ RecordsOK(nodes, owner) /\ FlightOK(nodes, inFlight) /\ NetworkOK(nwkOf, owner)
      BY <2>4, Zenon DEF CleanInv
    <3>2. GetNode(nodes, FullAddress(f.ext)) = f.row
      BY <2>2, <2>3, <3>1, TypeOfRegistry, FindsOwnRecord DEF FlightOK
    <3> QED
      BY <2>1, <2>2, <3>1, <3>2 DEF ConfirmAddress, RecordsOK
  <2>5. /\ inFlight' \subseteq inFlight
        /\ clean => \A g \in inFlight : g \notin inFlight' => g.row = f.row /\ ~r.awaits
    BY <2>2, <2>4
  <2> QED
    BY <2>1, <2>2, <2>4, <2>5, RowClean
<1>11. CASE UNCHANGED vars
  BY <1>11 DEF vars, registryVars, networkVars, CleanInv
<1> QED
  BY <1>1, <1>2, <1>3, <1>4, <1>5, <1>6, <1>7, <1>8, <1>9, <1>10, <1>11, Zenon DEF Next

(* The invariant holds in every state. *)
LEMMA RegistryInvariant == Spec => []RegistryInv
  BY InitType, NextType, InitClean, NextClean, PTL DEF Spec, RegistryInv

(* As long as no network address is taken over and the core names the       *)
(* senders, getNode() never adds a second record for a device, although     *)
(* records keep old network addresses and either address is enough to fit.  *)
THEOREM RecordsAreUnique == Spec => []UniqueRecords
<1>1. RegistryInv => UniqueRecords
  BY DEF RegistryInv, CleanInv, RecordsOK, UniqueRecords
<1> QED
  BY <1>1, RegistryInvariant, PTL

(* Under the same condition apsdeDataConfirm() finds the record that sent   *)
(* the response, so no record waits for a confirm that goes elsewhere.      *)
THEOREM ConfirmsFindRecords == Spec => []ConfirmFindsRecord
<1>1. RegistryInv => ConfirmFindsRecord
  <2> SUFFICES ASSUME RegistryInv, clean, NEW i \in DOMAIN nodes, nodes[i].awaits
               PROVE  \E f \in inFlight : f.row = i /\ GetNode(nodes, ConfirmAddress(f)) = i
    BY DEF ConfirmFindsRecord
  <2>1. /\ RegistryTypeOK /\ RecordsOK(nodes, owner) /\ FlightOK(nodes, inFlight)
        /\ NetworkOK(nwkOf, owner)
    BY DEF RegistryInv, CleanInv
  <2>2. PICK f \in inFlight : f.row = i
    BY <2>1 DEF FlightOK
  <2>3. f.ext = nodes[i].ext /\ f.ext \in Devices
    BY <2>1, <2>2 DEF FlightOK, RecordsOK
  <2>4. GetNode(nodes, FullAddress(f.ext)) = i
    BY <2>1, <2>3, TypeOfRegistry, FindsOwnRecord
  <2> QED
    BY <2>2, <2>4 DEF ConfirmAddress
<1> QED
  BY <1>1, RegistryInvariant, PTL

(* Under the same condition no response carries an image to another device  *)
(* than the one the user had selected when choosing the file.               *)
THEOREM ImagesGoToTheirDevice == Spec => []ImageForItsDevice
<1>1. RegistryInv => ImageForItsDevice
  BY DEF RegistryInv, CleanInv, FlightOK, ImageForItsDevice
<1> QED
  BY <1>1, RegistryInvariant, PTL
=============================================================================
