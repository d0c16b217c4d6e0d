----------------------------- MODULE OtauBlocks -----------------------------
(***************************************************************************)
(* How many bytes of the image one image block response carries.           *)
(*                                                                         *)
(* The integers of the request keep their C++ widths: U8, U16 and U32 are  *)
(* the numbers of values of uint8_t, uint16_t and uint32_t.  They and the  *)
(* limits of the source are parameters, so that small instances can reach  *)
(* the wrap-arounds and the boundary cases.                                *)
(***************************************************************************)
EXTENDS Integers

CONSTANTS
    U8, U16, U32,          \* 2^8, 2^16, 2^32
    MAX_ASDU_SIZE,         \* initial m_maxAsduDataSize (82)
    MAX_SAFE_ASDU_SIZE,    \* its fallback after NO_ACK errors (57)
    RSP_HEADER_SIZE,       \* ZCL header and block response header (17)
    MAX_BLOCK_SIZE,        \* most data bytes ever put in a block (50)
    MAX_OLD_BLOCK_SIZE     \* most for old BitCloud stacks (40)

ASSUME BlocksAssumption ==
    /\ {U8, U16, U32} \subseteq Nat
    /\ U8 <= U16 /\ U16 <= U32 /\ U32 % U16 = 0
    /\ {MAX_ASDU_SIZE, MAX_SAFE_ASDU_SIZE, RSP_HEADER_SIZE} \subseteq Nat
    /\ {MAX_BLOCK_SIZE, MAX_OLD_BLOCK_SIZE} \subseteq Nat \ {0}
    /\ RSP_HEADER_SIZE < MAX_SAFE_ASDU_SIZE
    /\ MAX_SAFE_ASDU_SIZE <= MAX_ASDU_SIZE
    /\ MAX_ASDU_SIZE < U8
    /\ U8 > 1

MinOf(a, b) == IF a < b THEN a ELSE b

(* MAX_DATA_SIZE, which follows m_maxAsduDataSize. *)
MAX_DATA_SIZE(asdu) == MinOf(MAX_BLOCK_SIZE, asdu - RSP_HEADER_SIZE)

(* A mistake the properties must notice: no look at the space in the page.  *)
PageRoomIgnored(pageSize, pageBytesDone) == U32

(* pageSize - pageBytesDone, computed as int and cast to uint32_t. *)
PageRoom(pageSize, pageBytesDone) == (pageSize - pageBytesDone) % U32

(* A mistake the properties must notice: reading past the end of the image. *)
BlockDataSizePastEnd(maxDataSize, asdu, small, rest, room) ==
    LET asked == MinOf(maxDataSize, MAX_DATA_SIZE(asdu))
    IN  MinOf(IF small THEN MinOf(asked, MAX_OLD_BLOCK_SIZE) ELSE asked, room)

(* The size of the data of a response to a request for maxDataSize bytes    *)
(* at offset < rawSize.  small: the device has the old BitCloud stack;      *)
(* room: what is left of the page, or a bound above U8 outside a page.      *)
BlockDataSize(maxDataSize, asdu, small, rest, room) ==
    LET asked  == MinOf(maxDataSize, MAX_DATA_SIZE(asdu))
        vendor == IF small THEN MinOf(asked, MAX_OLD_BLOCK_SIZE) ELSE asked
    IN  MinOf(MinOf(vendor, rest), room)
=============================================================================
