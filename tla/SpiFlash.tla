------------------------------ MODULE SpiFlash ------------------------------
(***************************************************************************)
(* The AT45DB041 of src/flash.c behind SCI1 of src/io.c: the command state *)
(* machine cy_flash_xfer steps once per byte clocked out, and the serial   *)
(* port registers through which the guest drives it.                       *)
(*                                                                         *)
(* The guest is arbitrary: it writes the transmit register, reads the      *)
(* receive register and moves chip select in any order, so commands are    *)
(* cut short at every byte, replies are left unread, and bytes are clocked *)
(* while the chip is not selected -- which the code does not notice.       *)
(***************************************************************************)
EXTENDS Integers, Sequences

CONSTANTS BASE, OFFS, PAGE_BYTES, PAGE_COUNT, StatusCmds, DUMMIES,
          FF, STATUS_READY, MaxSent

ASSUME GeometryAssumption ==
  /\ BASE \in Nat \ {0} /\ OFFS \in Nat \ {0}
  /\ PAGE_BYTES \in Nat \ {0} /\ PAGE_COUNT \in Nat \ {0}
  /\ PAGE_BYTES <= OFFS
ASSUME DummiesAssumption == DUMMIES \in Nat
ASSUME ReplyAssumption == FF \notin Nat /\ STATUS_READY \notin Nat

VARIABLES
  flash,        \* c->flash is not NULL
  spi_in,       \* the byte that came back
  spi_pending,  \* it has not been read: RDRF
  spi_state,    \* 0 command, 1 address, 2 status, 3 don't-care, 4 data
  spi_cmd, spi_argn, spi_arg, spi_dummy, spi_addr,
  sent          \* history: bytes clocked since the last deselect

chip == <<spi_state, spi_cmd, spi_argn, spi_arg, spi_dummy, spi_addr>>
vars == <<flash, spi_in, spi_pending, chip, sent>>

Byte == 0 .. (BASE - 1)
FLASH_SIZE == PAGE_BYTES * PAGE_COUNT

\* Variant: offsets past the page not clamped.
AddressUnclamped(b1, b2, b3) ==
  LET a == (b1 * BASE + b2) * BASE + b3
  IN  ((a \div OFFS) % PAGE_COUNT) * PAGE_BYTES + (a % OFFS)

\* Index in the image of the 24-bit address field in three bytes.
AddressOf(b1, b2, b3) ==
  LET a == (b1 * BASE + b2) * BASE + b3
      page == (a \div OFFS) % PAGE_COUNT
      off == a % OFFS
  IN  page * PAGE_BYTES + (IF off >= PAGE_BYTES THEN PAGE_BYTES - 1 ELSE off)

-----------------------------------------------------------------------------
(* cy_flash_xfer, one disjunct per state: the byte out, the reply in. *)

ExpectCommand(out) ==
  /\ spi_state = 0
  /\ spi_cmd' = out
  /\ spi_argn' = 0
  /\ spi_state' = IF out \in StatusCmds THEN 2 ELSE 1
  /\ spi_in' = FF
  /\ UNCHANGED <<spi_arg, spi_dummy, spi_addr>>

\* Variant: one address byte too many.
CollectAddressFour(out) ==
  /\ spi_state = 1
  /\ spi_arg' = [spi_arg EXCEPT ![spi_argn + 1] = out]
  /\ spi_argn' = spi_argn + 1
  /\ IF spi_argn' <= 3
       THEN UNCHANGED <<spi_state, spi_dummy, spi_addr>>
       ELSE /\ spi_addr' = AddressOf(spi_arg'[1], spi_arg'[2], spi_arg'[3])
            /\ spi_dummy' = DUMMIES
            /\ spi_state' = 3
  /\ spi_in' = FF
  /\ UNCHANGED spi_cmd

CollectAddress(out) ==
  /\ spi_state = 1
  /\ spi_arg' = [spi_arg EXCEPT ![spi_argn + 1] = out]
  /\ spi_argn' = spi_argn + 1
  /\ IF spi_argn' < 3
       THEN UNCHANGED <<spi_state, spi_dummy, spi_addr>>
       ELSE /\ spi_addr' = AddressOf(spi_arg'[1], spi_arg'[2], spi_arg'[3])
            /\ spi_dummy' = DUMMIES
            /\ spi_state' = 3
  /\ spi_in' = FF
  /\ UNCHANGED spi_cmd

ReadStatus(out) ==
  /\ spi_state = 2
  /\ spi_in' = STATUS_READY
  /\ UNCHANGED chip

SkipDummy(out) ==
  /\ spi_state = 3 /\ spi_dummy > 0
  /\ spi_dummy' = spi_dummy - 1
  /\ spi_in' = FF
  /\ UNCHANGED <<spi_state, spi_cmd, spi_argn, spi_arg, spi_addr>>

StreamData(out) ==
  /\ spi_state = 4 \/ (spi_state = 3 /\ spi_dummy = 0)
  /\ spi_state' = 4
  /\ spi_in' = spi_addr % FLASH_SIZE
  /\ spi_addr' = spi_addr + 1
  /\ UNCHANGED <<spi_cmd, spi_argn, spi_arg, spi_dummy>>

NoFlash == spi_in' = FF /\ UNCHANGED chip

cy_flash_xfer(out) ==
  IF ~flash THEN NoFlash
  ELSE ExpectCommand(out) \/ CollectAddress(out) \/ ReadStatus(out)
         \/ SkipDummy(out) \/ StreamData(out)

\* Variant: deselecting forgets the command but not the state.
DeselectKeepsState ==
  /\ spi_cmd' = 0 /\ spi_argn' = 0
  /\ UNCHANGED <<spi_state, spi_arg, spi_dummy, spi_addr>>

cy_flash_deselect ==
  /\ spi_state' = 0 /\ spi_cmd' = 0 /\ spi_argn' = 0
  /\ UNCHANGED <<spi_arg, spi_dummy, spi_addr>>

-----------------------------------------------------------------------------
(* The registers. *)

\* A write to TDR1 clocks one byte each way.
WriteTdr1 == \E out \in Byte :
  /\ Len(sent) < MaxSent
  /\ cy_flash_xfer(out)
  /\ spi_pending' = TRUE
  /\ sent' = IF flash THEN Append(sent, out) ELSE sent
  /\ UNCHANGED flash

\* Reading RDR1 takes RDRF down; SSR1 reports it, RDY is always set.
ReadRdr1 ==
  /\ spi_pending' = FALSE
  /\ UNCHANGED <<flash, spi_in, chip, sent>>

ReadSsr1 == [tdre |-> TRUE, tend |-> TRUE, rdrf |-> spi_pending]

\* A one in the chip-select bit (it is active low) ends the command; a zero
\* does nothing, so selecting does not begin one.
WriteCs == \E high \in BOOLEAN :
  /\ IF high THEN cy_flash_deselect /\ sent' = << >>
             ELSE UNCHANGED <<chip, sent>>
  /\ UNCHANGED <<flash, spi_in, spi_pending>>

\* cy_flash_load; a frontend loads before the guest runs, a harness may
\* load again.
Load == flash' = TRUE /\ UNCHANGED <<spi_in, spi_pending, chip, sent>>

Init ==
  /\ flash = FALSE /\ spi_in = 0 /\ spi_pending = FALSE
  /\ spi_state = 0 /\ spi_cmd = 0 /\ spi_argn = 0
  /\ spi_arg = [k \in 1 .. 3 |-> 0] /\ spi_dummy = 0 /\ spi_addr = 0
  /\ sent = << >>

Next == WriteTdr1 \/ ReadRdr1 \/ WriteCs \/ Load
Spec == Init /\ [][Next]_vars

-----------------------------------------------------------------------------
(* Properties. *)

TypeOK ==
  /\ flash \in BOOLEAN
  /\ spi_in \in Nat \cup {FF, STATUS_READY}
  /\ spi_pending \in BOOLEAN
  /\ spi_state \in 0 .. 4
  /\ spi_cmd \in Byte
  /\ spi_argn \in 0 .. 3
  /\ spi_arg \in [1 .. 3 -> Byte]
  /\ spi_dummy \in 0 .. DUMMIES
  /\ spi_addr \in Nat
  /\ sent \in Seq(Byte)

\* Where the state machine stands is determined by the bytes clocked since
\* the last deselect, whatever an earlier, abandoned command left behind in
\* its registers; in particular spi_arg is never indexed past its end
\* (flash.c:95).
StateFollowsBytes ==
  LET n == Len(sent)
      read == n >= 1 /\ sent[1] \notin StatusCmds
  IN  /\ (spi_state = 0) <=> (n = 0)
      /\ (spi_state = 2) <=> (n >= 1 /\ sent[1] \in StatusCmds)
      /\ (spi_state = 1) <=> (read /\ n <= 3)
      /\ (spi_state = 3) <=> (read /\ n >= 4 /\ n <= 4 + DUMMIES)
      /\ spi_state = 1 => /\ spi_argn = n - 1
                          /\ \A k \in 1 .. spi_argn : spi_arg[k] = sent[k + 1]
      /\ spi_state = 3 => spi_dummy = 4 + DUMMIES - n
      /\ spi_state = 4 => n > 4 + DUMMIES
      /\ spi_state \in {3, 4} =>
           spi_addr = AddressOf(sent[2], sent[3], sent[4])
                        + (IF n > 4 + DUMMIES THEN n - 4 - DUMMIES ELSE 0)

Chip == INSTANCE FlashChip
          WITH present <- flash, reply <- spi_in, fresh <- spi_pending

\* The port and the state machine together are the chip: every byte read
\* back is the one the bytes since chip select call for.
ImplementsChip == Chip!ChipSpec
=============================================================================
