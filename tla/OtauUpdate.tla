----------------------------- MODULE OtauUpdate -----------------------------
(***************************************************************************)
(* What the OTA server promises a device: it gets an image from its first  *)
(* byte to its last, whatever happens on the way, and installs nothing but *)
(* complete images.  A device may be offered another image at any time and *)
(* then starts again, and it may give up.                                  *)
(***************************************************************************)
EXTENDS Integers

CONSTANTS Nodes, Images, NoImage,
          Size    \* number of bytes of each image

VARIABLES image,       \* what each device is getting
          done,        \* how many bytes of it the device has
          installed    \* the image a device got last as a whole

updateVars == <<image, done, installed>>

Init ==
    /\ image = [n \in Nodes |-> NoImage]
    /\ done = [n \in Nodes |-> 0]
    /\ installed = [n \in Nodes |-> NoImage]

Offer(n) ==
    /\ \E f \in Images : image' = [image EXCEPT ![n] = f]
    /\ done' = [done EXCEPT ![n] = 0]
    /\ UNCHANGED installed

Receive(n) ==
    /\ image[n] \in Images
    /\ \E k \in done[n] + 1 .. Size[image[n]] : done' = [done EXCEPT ![n] = k]
    /\ UNCHANGED <<image, installed>>

Install(n) ==
    /\ image[n] \in Images /\ done[n] = Size[image[n]]
    /\ installed' = [installed EXCEPT ![n] = image[n]]
    /\ image' = [image EXCEPT ![n] = NoImage]
    /\ done' = [done EXCEPT ![n] = 0]

GiveUp(n) ==
    /\ image' = [image EXCEPT ![n] = NoImage]
    /\ done' = [done EXCEPT ![n] = 0]
    /\ UNCHANGED installed

Next == \E n \in Nodes : Offer(n) \/ Receive(n) \/ Install(n) \/ GiveUp(n)

Spec == Init /\ [][Next]_updateVars
=============================================================================
