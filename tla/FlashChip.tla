----------------------------- MODULE FlashChip -----------------------------
(***************************************************************************)
(* What the serial flash promises over SPI, with no state machine: the     *)
(* byte that comes back is a function of the bytes clocked in since the    *)
(* chip was last deselected.  SpiFlash.tla is shown to implement it.       *)
(*                                                                         *)
(* A byte of flash is represented by its index in the image, so a reply    *)
(* says which byte was read.                                               *)
(***************************************************************************)
EXTENDS Integers, Sequences

CONSTANTS
  BASE,         \* values of a byte (256)
  OFFS,         \* values of the address's byte-in-page field (512)
  PAGE_BYTES,   \* bytes in a page (264)
  PAGE_COUNT,   \* pages (2048)
  StatusCmds,   \* the status opcodes, CMD_STATUS and CMD_STATUS_LOW
  DUMMIES,      \* don't-care bytes before the data (4)
  FF,           \* the byte 0xFF
  STATUS_READY, \* the status byte
  MaxSent       \* bound: bytes clocked in one selection

Byte == 0 .. (BASE - 1)
FLASH_SIZE == PAGE_BYTES * PAGE_COUNT
Reply == (0 .. (FLASH_SIZE - 1)) \cup {FF, STATUS_READY}

VARIABLES
  present,  \* a flash image has been loaded
  sent,     \* bytes clocked in since the chip was last deselected
  reply,    \* the byte that came back for the last one
  fresh     \* nobody has read it yet

chipVars == <<present, sent, reply, fresh>>

\* The address field: 24 bits, the page above the byte within the page.
\* An offset past the page is taken as its last byte.
Page(a) == (a \div OFFS) % PAGE_COUNT
Offset(a) == IF a % OFFS >= PAGE_BYTES THEN PAGE_BYTES - 1 ELSE a % OFFS
IndexOf(a) == Page(a) * PAGE_BYTES + Offset(a)
Field(b1, b2, b3) == (b1 * BASE + b2) * BASE + b3

\* Bytes before the data of a read: opcode, address, don't-cares.
Lead == 4 + DUMMIES

ReplyTo(s) ==
  IF Len(s) = 1 THEN FF
  ELSE IF s[1] \in StatusCmds THEN STATUS_READY
  ELSE IF Len(s) <= Lead THEN FF
  ELSE (IndexOf(Field(s[2], s[3], s[4])) + (Len(s) - Lead - 1)) % FLASH_SIZE

ChipInit ==
  present = FALSE /\ sent = << >> /\ reply = 0 /\ fresh = FALSE

Load == present' = TRUE /\ UNCHANGED <<sent, reply, fresh>>

\* Without an image the bus floats: 0xFF, and nothing is remembered.
Exchange(b) ==
  /\ sent' = IF present THEN Append(sent, b) ELSE sent
  /\ reply' = IF present THEN ReplyTo(sent') ELSE FF
  /\ fresh' = TRUE
  /\ UNCHANGED present

Take == fresh' = FALSE /\ UNCHANGED <<present, sent, reply>>

Deselect == sent' = << >> /\ UNCHANGED <<present, reply, fresh>>

ChipNext == Load \/ (\E b \in Byte : Exchange(b)) \/ Take \/ Deselect
ChipSpec == ChipInit /\ [][ChipNext]_chipVars
=============================================================================
