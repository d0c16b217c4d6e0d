---------------------------- MODULE OtauDelivery ----------------------------
(***************************************************************************)
(* OtauServer together with the devices it updates and the air between     *)
(* them.  The responses the server hands to the APS layer reach a device   *)
(* late, in any order, more than once or not at all; their confirms say    *)
(* little about that, since the blocks of a page are not acknowledged.     *)
(*                                                                         *)
(* A device (external) asks for the version it was offered, at the end of  *)
(* what it has.  It takes a block only if that names this version and      *)
(* continues what it has.                                                  *)
(*                                                                         *)
(* The file of a device is replaced only by a newer one: by the user, who  *)
(* upgrades, and by the local index, in which a later search finds a file  *)
(* newer than the software of the device.                                  *)
(***************************************************************************)
EXTENDS OtauServer, Sequences

CONSTANTS NoVersion,    \* the device has not been offered anything
          MAX_AIR       \* most responses on the way

ASSUME DeliveryAssumption ==
    /\ \A f, g \in Images : FileVersion[f] = FileVersion[g] => f = g
    /\ \A f \in Images : FileVersion[NoImage] < FileVersion[f]
    /\ NoVersion \notin Int
    /\ MAX_AIR \in Nat

VARIABLES dev,    \* per device: version and size offered, bytes got, image run
          air     \* the responses on the way

deliveryVars == <<vars, dev, air>>

FreshDevice == [version |-> NoVersion, size |-> 0, flash |-> << >>, running |-> NoVersion]

DeliveryInit ==
    /\ Init
    /\ dev = [n \in Nodes |-> FreshDevice]
    /\ air = {}

----------------------------------------------------------------------------
(* What a response says.  It is put together when it is sent.               *)

(* The bytes from position from on; each byte is an image and a position. *)
Bytes(f, from, count) == [i \in 1 .. count |-> <<f, from + i>>]

Stop(n) == [to |-> n, cmd |-> "stop", version |-> 0, size |-> 0, offset |-> 0,
            data |-> << >>]

Message(f) ==
    LET nd == node'[f.node]
    IN  IF f.status # "SUCCESS" \/ f.cmd = "defaultRsp" THEN Stop(f.node)
        ELSE [to |-> f.node, cmd |-> f.cmd,
              version |-> FileVersion[nd.file],
              size    |-> IF f.cmd = "queryRsp" THEN RawSize[nd.file] ELSE 0,
              offset  |-> IF f.cmd = "blockRsp" THEN nd.offset ELSE 0,
              data    |-> IF f.cmd = "blockRsp"
                          THEN Bytes(nd.rawFile, nd.offset, nd.maxDataSize) ELSE << >>]

(* New responses go on the air, or get lost at once. *)
OnAir ==
    /\ air' \in {air, air \cup {Message(f) : f \in apsPending' \ apsPending}}
    /\ Cardinality(air') <= MAX_AIR

----------------------------------------------------------------------------
(* The devices.                                                             *)

Complete(d) == d.version # NoVersion /\ Len(d.flash) = d.size

(* The requests of a device.  A page request may be ignored or refused. *)
Asks(n) ==
    /\ node'[n].fileVersion = dev[n].version
    /\ node'[n].offset = Len(dev[n].flash)

Request(n) ==
    \/ QueryNextImageRequest(n)
    \/ ImageBlockRequest(n) /\ Asks(n)
    \/ ImagePageRequest(n) /\ (pageRequestEnabled /\ node[n].state # "Abort" => Asks(n))
    \/ Complete(dev[n]) /\ UpgradeEndRequest(n)

(* What a device makes of a response. *)
Taken(d, m) ==
    IF m.cmd = "stop" THEN [d EXCEPT !.version = NoVersion, !.size = 0, !.flash = << >>]
    ELSE IF m.cmd = "queryRsp" /\ m.version # d.version
    THEN [d EXCEPT !.version = m.version, !.size = m.size, !.flash = << >>]
    ELSE IF m.cmd = "blockRsp" /\ m.version = d.version /\ m.offset = Len(d.flash)
    THEN [d EXCEPT !.flash = @ \o m.data]
    ELSE IF m.cmd = "endRsp" /\ Complete(d)
    THEN [FreshDevice EXCEPT !.running = d.version]
    ELSE d

(* A response arrives; it may arrive again. *)
Arrives(m) ==
    /\ dev' = [dev EXCEPT ![m.to] = Taken(@, m)]
    /\ UNCHANGED <<vars, air>>

Lost(m) ==
    /\ air' = air \ {m}
    /\ UNCHANGED <<vars, dev>>

----------------------------------------------------------------------------
(* The file of a device is replaced only by a newer one. *)
Forward == \A n \in Nodes : FileVersion[node[n].file] <= FileVersion[node'[n].file]

ServerStep ==
    \/ \E n \in Nodes :
          \/ Request(n) \/ MalformedQuery(n) \/ StrayZclFrame(n)
          \/ ConfirmStep(n) \/ UserStep(n) \/ TimeStep(n)
    \/ TimerStep
    \/ QueryClicked \/ PageRequestBoxToggled \/ OtauDeactivated

DeliveryNext ==
    \/ ServerStep /\ Forward /\ OnAir /\ UNCHANGED dev
    \/ \E m \in air : Arrives(m) \/ Lost(m)

DeliverySpec == DeliveryInit /\ [][DeliveryNext]_deliveryVars

----------------------------------------------------------------------------
(* The image of a version, and how much of it a device has: -1 if what it   *)
(* has is not the beginning of that image.                                  *)
ImageOf(v) ==
    IF \E f \in Images : FileVersion[f] = v
    THEN CHOOSE f \in Images : FileVersion[f] = v ELSE NoImage

Done(d) ==
    IF d.flash = Bytes(ImageOf(d.version), 0, Len(d.flash)) THEN Len(d.flash) ELSE -1

(* The state of OtauUpdate that a state of the devices stands for. *)
Getting == [n \in Nodes |-> ImageOf(dev[n].version)]
Got == [n \in Nodes |-> Done(dev[n])]
Installed == [n \in Nodes |-> ImageOf(dev[n].running)]

Update == INSTANCE OtauUpdate WITH
    Size <- RawSize, image <- Getting, done <- Got, installed <- Installed

(* The server, whatever is lost, repeated or overtaken, and whatever the    *)
(* user chooses, permits and aborts, does what OtauUpdate promises: a       *)
(* device never holds bytes of two images, has no gaps and installs only    *)
(* complete images.                                                         *)
ImplementsUpdate == Update!Spec
=============================================================================
