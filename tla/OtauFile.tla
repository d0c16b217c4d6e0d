------------------------------ MODULE OtauFile ------------------------------
(***************************************************************************)
(* The OTA file format: OtauFile::fromArray() and toArray(), and the file  *)
(* loader OtauFileLoader.                                                  *)
(*                                                                         *)
(* A byte array is a sequence of cells.  Every field is one cell, whatever *)
(* its width, and all lengths count cells; the manufacturer code stands    *)
(* for the image type too.  Header fields that are only carried along are  *)
(* left out, the values of the optional ones are 0.                        *)
(***************************************************************************)
EXTENDS Integers, SequencesExt

CONSTANTS MAGIC,               \* upgradeFileId, 0x0BEEF11E
          LEGRAND,             \* manufacturer code 0x1021
          TAG_UPGRADE_IMAGE

ASSUME FileAssumption == {MAGIC, LEGRAND, TAG_UPGRADE_IMAGE} \subseteq Nat

(* upgradeFileId, headerLength, headerFieldControl, manufacturerCode,       *)
(* fileVersion, totalImageSize; then tag and length of a sub element.       *)
MANDATORY_HEADER_LENGTH == 6
SEGMENT_HEADER_LENGTH == 2

(* OtauFile::OtauFile(). *)
EmptyOtauFile ==
    [headerLength |-> 0, fieldControl |-> 0, manufacturerCode |-> 0, fileVersion |-> 0,
     totalImageSize |-> 0, subElements |-> << >>, raw |-> << >>]

(* The optional fields of a header: security credential version (bit 0),    *)
(* destination (bit 1), minimal and maximal hardware version (bit 2).       *)
OptionalLength(fieldControl) ==
    (fieldControl % 2) + ((fieldControl \div 2) % 2) + 2 * ((fieldControl \div 4) % 2)

LesserOf(a, b) == IF a < b THEN a ELSE b
GreaterOf(a, b) == IF a > b THEN a ELSE b

----------------------------------------------------------------------------
(* toArray(): the lengths in the header are computed anew.                  *)

SubElementCells(sub) == <<sub.tag, sub.length>> \o sub.data

(* Mistake: the total image size of the file that was read is kept. *)
PackedOldSize(of) ==
    LET body == FlattenSeq([i \in DOMAIN of.subElements |-> SubElementCells(of.subElements[i])])
        opt  == OptionalLength(of.fieldControl)
        len  == MANDATORY_HEADER_LENGTH + opt
    IN  [file  |-> [of EXCEPT !.headerLength = len],
         array |-> <<MAGIC, len, of.fieldControl, of.manufacturerCode, of.fileVersion,
                     of.totalImageSize>> \o [i \in 1 .. opt |-> 0] \o body]

Packed(of) ==
    LET body == FlattenSeq([i \in DOMAIN of.subElements |-> SubElementCells(of.subElements[i])])
        opt  == OptionalLength(of.fieldControl)
        len  == MANDATORY_HEADER_LENGTH + opt
    IN  [file  |-> [of EXCEPT !.headerLength = len, !.totalImageSize = len + Len(body)],
         array |-> <<MAGIC, len, of.fieldControl, of.manufacturerCode, of.fileVersion,
                     len + Len(body)>> \o [i \in 1 .. opt |-> 0] \o body]

ToArray(of) == Packed(of).array

----------------------------------------------------------------------------
(* fromArray().                                                             *)

(* A read of the stream at position p (from 0) gives 0 past the end. *)
Cell(arr, p) == IF p < Len(arr) THEN arr[p + 1] ELSE 0

(* The sub element at position p and where it ends: a length beyond the end *)
(* of the array is cut.                                                     *)
SubElementEnd(arr, p) ==
    LET q == p + SEGMENT_HEADER_LENGTH
    IN  q + LesserOf(Cell(arr, p + 1), Len(arr) - q)

SubElementAt(arr, p) ==
    [tag |-> Cell(arr, p), length |-> Cell(arr, p + 1),
     data |-> SubSeq(arr, p + SEGMENT_HEADER_LENGTH + 1, SubElementEnd(arr, p))]

(* The loop over the sub elements, from position start.  A tag at the very  *)
(* end is dropped, and a Legrand file ends with its total image size.       *)
SubElements(arr, start, offset, mfcode, total) ==
    LET elements[p \in Nat] ==
          IF p + SEGMENT_HEADER_LENGTH >= Len(arr) THEN << >>
          ELSE IF mfcode = LEGRAND /\ SubElementEnd(arr, p) - offset = total
          THEN <<SubElementAt(arr, p)>>
          ELSE <<SubElementAt(arr, p)>> \o elements[SubElementEnd(arr, p)]
    IN  elements[start]

(* The position of the file magic, or -1. *)
MagicAt(arr) ==
    IF \E p \in DOMAIN arr : arr[p] = MAGIC
    THEN (CHOOSE p \in DOMAIN arr : arr[p] = MAGIC /\ \A k \in 1 .. p - 1 : arr[k] # MAGIC) - 1
    ELSE -1

(* Where the sub elements start: after the optional fields that the control *)
(* field names and whatever else the header length covers.                  *)
HeaderEnd(arr, offset) ==
    offset + GreaterOf(Cell(arr, offset + 1),
                       MANDATORY_HEADER_LENGTH + OptionalLength(Cell(arr, offset + 2)))

(* The fields of the file once the header has been accepted. *)
ParsedFile(arr, offset) ==
    LET mfcode == Cell(arr, offset + 3)
        total  == Cell(arr, offset + 5)
    IN  [headerLength |-> Cell(arr, offset + 1), fieldControl |-> Cell(arr, offset + 2),
         manufacturerCode |-> mfcode, fileVersion |-> Cell(arr, offset + 4),
         totalImageSize |-> total,
         subElements |-> SubElements(arr, HeaderEnd(arr, offset), offset, mfcode, total),
         raw |-> SubSeq(arr, offset + 1, LesserOf(Len(arr), offset + total))]

(* Mistake: a file without sub elements does not replace the raw data. *)
FromArrayKeepsRaw(of, arr) ==
    LET offset == MagicAt(arr)
        parsed == ParsedFile(arr, offset)
    IN  IF Len(arr) < MANDATORY_HEADER_LENGTH \/ offset < 0
        THEN [ok |-> FALSE, file |-> of]
        ELSE IF Cell(arr, offset + 1) < MANDATORY_HEADER_LENGTH
        THEN [ok |-> FALSE, file |-> [of EXCEPT !.headerLength = Cell(arr, offset + 1)]]
        ELSE [ok |-> parsed.subElements # << >>,
              file |-> IF parsed.subElements # << >> THEN parsed
                       ELSE [parsed EXCEPT !.raw = of.raw]]

(* fromArray(): what it returns and the file it leaves.  The early returns  *)
(* keep the fields of the previous file, the last one does not.             *)
FromArray(of, arr) ==
    LET offset == MagicAt(arr)
        parsed == ParsedFile(arr, offset)
    IN  IF Len(arr) < MANDATORY_HEADER_LENGTH \/ offset < 0
        THEN [ok |-> FALSE, file |-> of]
        ELSE IF Cell(arr, offset + 1) < MANDATORY_HEADER_LENGTH
        THEN [ok |-> FALSE, file |-> [of EXCEPT !.headerLength = Cell(arr, offset + 1)]]
        ELSE [ok |-> parsed.subElements # << >>, file |-> parsed]

----------------------------------------------------------------------------
(* OtauFileLoader::readFile(), by the kind of the file name: "ota" are the  *)
(* endings that are parsed, "bin" the ones that are wrapped in a container, *)
(* of which neither header nor raw data is set.                             *)
Container(arr) ==
    LET data == <<0, Len(arr) + 1>> \o arr \o <<119, 0>>
    IN  [tag |-> TAG_UPGRADE_IMAGE, length |-> Len(data), data |-> data]

ReadFile(of, kind, arr) ==
    LET cleared == [of EXCEPT !.subElements = << >>]
    IN  IF arr = << >> THEN [ok |-> FALSE, file |-> of]
        ELSE IF kind = "bin"
        THEN [ok |-> TRUE, file |-> [of EXCEPT !.subElements = <<Container(arr)>>]]
        ELSE IF kind = "ota" THEN FromArray(cleared, arr)
        ELSE [ok |-> FALSE, file |-> cleared]
=============================================================================
