---------------------------- MODULE OtauRegistry ----------------------------
(***************************************************************************)
(* The registry of devices, OtauModel: a list of OtauNode records that is  *)
(* searched by extended or network address, and the record the control     *)
(* widget shows (m_ouNode).  The sessions of OtauServer assume that a      *)
(* device has one record; this module asks when that is so.                *)
(*                                                                         *)
(* Network addresses are given by the network and may change: a device     *)
(* that rejoins can get another one, also one that a device which has left *)
(* used before.  Records are never removed.                                *)
(*                                                                         *)
(* Of a session only what decides for whom it is: the chosen file, the     *)
(* permission to update, whether a page is being sent and whether the      *)
(* confirm of a response is awaited.  A request id is abstracted to the    *)
(* record that sent the request.                                           *)
(***************************************************************************)
EXTENDS Naturals, Sequences

CONSTANTS Devices,       \* devices, by extended address
          Nwks,          \* network addresses
          NoAddr,        \* no address
          MAX_RECORDS    \* bound of the model on the length of the registry

ASSUME RegistryAssumption == NoAddr \notin Devices \cup Nwks /\ MAX_RECORDS \in Nat

Exts == Devices \cup {NoAddr}

(* struct OtauNode.  chosenFor is the device whose row the user had         *)
(* selected when choosing the file that the record holds.                   *)
Record == [ext : Exts, nwk : Nwks, hasData : BOOLEAN, permitUpdate : BOOLEAN,
           paging : BOOLEAN, awaits : BOOLEAN, chosenFor : Exts]

(* A response in flight: its record, the address it goes to and, if it      *)
(* offers an image or carries data of one, the device that was chosen for.  *)
Response == [row : Nat, ext : Devices, image : Exts]

VARIABLES
    nodes,         \* m_nodes
    selected,      \* m_ouNode, as a row; 0 is the null pointer
    seen,          \* the device the user selected
    inFlight,      \* responses that were not confirmed (APS layer, external)
    joined,        \* devices in the network
    nwkOf,         \* the last network address of each device
    owner,         \* the first device that used each network address
    clean          \* no network address had two owners, and every frame named
                   \* the extended address of its sender

registryVars == <<nodes, selected, seen, inFlight>>
networkVars == <<joined, nwkOf, owner>>
vars == <<registryVars, networkVars, clean>>

Init ==
    /\ nodes = << >> /\ selected = 0 /\ seen = NoAddr /\ inFlight = {}
    /\ joined = {}
    /\ nwkOf = [d \in Devices |-> NoAddr]
    /\ owner = [a \in Nwks |-> NoAddr]
    /\ clean = TRUE

----------------------------------------------------------------------------
(* The network (external).                                                  *)

Joins(d, a) ==
    /\ \A e \in joined \ {d} : nwkOf[e] # a
    /\ joined' = joined \cup {d}
    /\ nwkOf' = [nwkOf EXCEPT ![d] = a]
    /\ owner' = IF owner[a] = NoAddr THEN [owner EXCEPT ![a] = d] ELSE owner
    /\ clean' = (clean /\ owner[a] \in {NoAddr, d})
    /\ UNCHANGED registryVars

Leaves(d) ==
    /\ d \in joined
    /\ joined' = joined \ {d}
    /\ UNCHANGED <<registryVars, nwkOf, owner, clean>>

(* The address the core gives of a device: with its extended address, or,   *)
(* when it does not know that, without.                                     *)
FullAddress(d) == [ext |-> d, nwk |-> nwkOf[d]]
SrcAddresses(d) == {FullAddress(d), [ext |-> NoAddr, nwk |-> nwkOf[d]]}

----------------------------------------------------------------------------
(* OtauModel::getNode().                                                    *)

(* Mistake: a device is recognised by its network address only. *)
MatchesNwk(r, addr) == r.nwk = addr.nwk

(* A record fits an address: either part is enough. *)
Matches(r, addr) ==
    \/ addr.ext # NoAddr /\ r.ext = addr.ext
    \/ r.nwk = addr.nwk

(* The row of the first record that fits; 0 stands for a null pointer. *)
IsFirst(ns, addr, i) ==
    /\ i \in DOMAIN ns /\ Matches(ns[i], addr)
    /\ \A j \in DOMAIN ns : j < i => ~Matches(ns[j], addr)

GetNode(ns, addr) ==
    IF \E i \in DOMAIN ns : Matches(ns[i], addr)
    THEN CHOOSE i \in DOMAIN ns : IsFirst(ns, addr, i)
    ELSE 0

(* getNode() with create: the list with a record for the address, if the    *)
(* address has both parts.                                                  *)
WithNode(ns, addr) ==
    IF GetNode(ns, addr) # 0 \/ addr.ext = NoAddr THEN ns
    ELSE Append(ns, [ext |-> addr.ext, nwk |-> addr.nwk, hasData |-> FALSE,
                     permitUpdate |-> FALSE, paging |-> FALSE, awaits |-> FALSE, chosenFor |-> NoAddr])

----------------------------------------------------------------------------
(* Events of the core: nodeEvent().                                         *)

(* checkIfNewOtauNode(), for an endpoint with the OTA cluster. *)
UpdatedSimpleDescriptor(d) ==
    /\ d \in joined
    /\ nodes' = WithNode(nodes, FullAddress(d))
    /\ Len(nodes') <= MAX_RECORDS
    /\ UNCHANGED <<selected, seen, inFlight, networkVars, clean>>

(* nodeSelected(), for a device the core knows: nothing happens while the   *)
(* registry is empty.                                                       *)
NodeSelected(d) ==
    /\ nwkOf[d] # NoAddr
    /\ nodes # << >>
    /\ selected' = GetNode(nodes, FullAddress(d))
    /\ seen' = d
    /\ UNCHANGED <<nodes, inFlight, networkVars, clean>>

NodeDeselected ==
    /\ selected' = 0
    /\ seen' = NoAddr
    /\ UNCHANGED <<nodes, inFlight, networkVars, clean>>

----------------------------------------------------------------------------
(* The user, in the control widget.                                         *)

(* Mistake: the row of the sorted view is used as a row of the model. *)
ActivatedNodeAtViewRow(i) ==
    /\ selected' = Len(nodes) + 1 - i
    /\ seen' = nodes[i].ext
    /\ UNCHANGED <<nodes, inFlight, networkVars, clean>>

(* otauTableActivated() and activatedNodeAtRow(): the row of the sorted     *)
(* view that was clicked, mapped to the model.                              *)
ActivatedNodeAtRow(i) ==
    /\ selected' = i
    /\ seen' = nodes[i].ext
    /\ UNCHANGED <<nodes, inFlight, networkVars, clean>>

(* The shown record changes. *)
Shown(r) ==
    /\ selected # 0
    /\ nodes' = [nodes EXCEPT ![selected] = r]
    /\ UNCHANGED <<selected, seen, inFlight, networkVars, clean>>

FileSelectClicked == Shown([nodes[selected] EXCEPT !.hasData = TRUE, !.chosenFor = seen])

UpdateClicked ==
    Shown([nodes[selected] EXCEPT !.permitUpdate = @ \/ nodes[selected].hasData,
                                  !.paging = FALSE])

(* The confirm of a response to an aborted node is ignored. *)
AbortClicked == Shown([nodes[selected] EXCEPT !.permitUpdate = FALSE, !.paging = FALSE,
                                              !.awaits = FALSE])

----------------------------------------------------------------------------
(* Frames of a device: apsdeDataIndication() and the handlers.              *)

(* The image that a query or block response offers or carries data of. *)
ImageOf(r) == IF r.hasData /\ r.permitUpdate THEN r.chosenFor ELSE NoAddr

(* Mistake: sends a response although the extended address is not known. *)
RespondToAnyone(ns, i, r, image) ==
    /\ nodes' = [ns EXCEPT ![i] = [r EXCEPT !.awaits = TRUE]]
    /\ inFlight' = {f \in inFlight : f.row # i} \cup
                   {[row |-> i, ext |-> r.ext, image |-> image]}

(* Record r takes row i and sends a response to its extended address: the   *)
(* APS layer accepts or refuses it, and without such an address nothing is  *)
(* sent.                                                                    *)
Respond(ns, i, r, image) ==
    \/ /\ r.ext # NoAddr
       /\ nodes' = [ns EXCEPT ![i] = [r EXCEPT !.awaits = TRUE]]
       /\ inFlight' = {f \in inFlight : f.row # i} \cup
                      {[row |-> i, ext |-> r.ext, image |-> image]}
    \/ /\ nodes' = [ns EXCEPT ![i] = r]
       /\ UNCHANGED inFlight

(* queryNextImageRequest() stores the address of the sender. *)
QueryNextImageRequest(ns, i, src) ==
    LET r == [ns[i] EXCEPT !.ext = src.ext, !.nwk = src.nwk, !.paging = FALSE]
    IN  Respond(ns, i, r, ImageOf(r))

(* imageBlockRequest() stores the extended address in the payload, if the   *)
(* device put it there, and forgets an outstanding response.                *)
ImageBlockRequest(ns, i, d, ieee) ==
    LET r == [ns[i] EXCEPT !.ext = IF ieee THEN d ELSE @, !.awaits = FALSE, !.paging = FALSE]
    IN  Respond(ns, i, r, ImageOf(r))

(* imagePageRequest(): ignored when the box is not checked, refused for an  *)
(* aborted record, else the start of a page, which the page timer sends.    *)
(* No page is left to wait for the confirm of the refusal.                  *)
ImagePageRequest(ns, i) ==
    \/ nodes' = ns /\ UNCHANGED inFlight
    \/ ~ns[i].paging /\ Respond(ns, i, ns[i], NoAddr)
    \/ /\ nodes' = [ns EXCEPT ![i].awaits = FALSE, ![i].paging = TRUE]
       /\ UNCHANGED inFlight

(* upgradeEndRequest(): after a transfer the record gives up its file. *)
UpgradeEndRequest(ns, i) ==
    \E ended \in BOOLEAN :
        Respond(ns, i, [ns[i] EXCEPT !.hasData = @ /\ ~ended,
                                     !.permitUpdate = @ /\ ~ended, !.paging = FALSE], NoAddr)

ApsdeDataIndication(d) ==
    /\ d \in joined
    /\ \E src \in SrcAddresses(d) :
          LET ns == WithNode(nodes, src)
              i  == GetNode(ns, src)
          IN  /\ i # 0 /\ Len(ns) <= MAX_RECORDS
              /\ \/ QueryNextImageRequest(ns, i, src)
                 \/ \E ieee \in BOOLEAN : ImageBlockRequest(ns, i, d, ieee)
                 \/ ImagePageRequest(ns, i)
                 \/ UpgradeEndRequest(ns, i)
              /\ clean' = (clean /\ src.ext # NoAddr)
    /\ UNCHANGED <<selected, seen, networkVars>>

(* imagePageTimerFired() sends the next block of a page, which goes on or   *)
(* ends: at its end, after too many retries or because it is aborted.       *)
ImagePageTimerFired(i) ==
    /\ nodes[i].paging /\ ~nodes[i].awaits
    /\ \E more \in BOOLEAN :
          Respond(nodes, i, [nodes[i] EXCEPT !.paging = more], ImageOf(nodes[i]))
    /\ UNCHANGED <<selected, seen, networkVars, clean>>

(* Mistake: the confirm is searched by network address only. *)
ConfirmNwkAddress(f) == [ext |-> NoAddr, nwk |-> nwkOf[f.ext]]

(* The destination a confirm names. *)
ConfirmAddress(f) == FullAddress(f.ext)

(* apsdeDataConfirm(): the id only fits the record that sent the request. *)
ApsdeDataConfirm(f) ==
    /\ inFlight' = inFlight \ {f}
    /\ nodes' = IF GetNode(nodes, ConfirmAddress(f)) = f.row
                THEN [nodes EXCEPT ![f.row].awaits = FALSE]
                ELSE nodes
    /\ UNCHANGED <<selected, seen, networkVars, clean>>

----------------------------------------------------------------------------
Next ==
    \/ \E d \in Devices :
          \/ \E a \in Nwks : Joins(d, a)
          \/ Leaves(d) \/ UpdatedSimpleDescriptor(d) \/ NodeSelected(d)
          \/ ApsdeDataIndication(d)
    \/ NodeDeselected
    \/ \E i \in DOMAIN nodes : ActivatedNodeAtRow(i) \/ ImagePageTimerFired(i)
    \/ FileSelectClicked \/ UpdateClicked \/ AbortClicked
    \/ \E f \in inFlight : ApsdeDataConfirm(f)

Spec == Init /\ [][Next]_vars

----------------------------------------------------------------------------
RegistryTypeOK ==
    /\ nodes \in Seq(Record)
    /\ selected \in 0 .. Len(nodes)
    /\ seen \in Exts
    /\ inFlight \subseteq [row : DOMAIN nodes, ext : Devices, image : Exts]
    /\ joined \subseteq Devices
    /\ nwkOf \in [Devices -> Nwks \cup {NoAddr}]
    /\ \A d \in joined : nwkOf[d] \in Nwks
    /\ owner \in [Nwks -> Exts]
    /\ clean \in BOOLEAN

(* While network addresses are not taken over and the core knows the        *)
(* senders, a device has at most one record, although devices move to other *)
(* addresses and their records keep the old ones until the next query.      *)
UniqueRecords ==
    clean => \A i, j \in DOMAIN nodes : nodes[i].ext = nodes[j].ext => i = j

(* Under the same condition a record that waits for a confirm gets it: the  *)
(* response is in flight, and its confirm will be matched to the record.    *)
ConfirmFindsRecord ==
    clean => \A i \in DOMAIN nodes : nodes[i].awaits =>
        \E f \in inFlight : f.row = i /\ GetNode(nodes, ConfirmAddress(f)) = i

(* Under the same condition an image goes to no other device than the one   *)
(* the user selected for it.                                                *)
ImageForItsDevice == clean => \A f \in inFlight : f.image \in {NoAddr, f.ext}

(* "Select your device from the list (match the IEEE address)": the same    *)
(* without the condition.                                                   *)
ImageForSelectedDevice == \A f \in inFlight : f.image \in {NoAddr, f.ext}
=============================================================================
