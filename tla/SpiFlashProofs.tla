--------------------------- MODULE SpiFlashProofs ---------------------------
(***************************************************************************)
(* The serial flash for every geometry: the state machine of               *)
(* cy_flash_xfer stays where the bytes since chip select put it, and so    *)
(* answers every byte as FlashChip says.  StateFollowsBytes is inductive   *)
(* together with the types; it is what lets a reply computed from          *)
(* registers be compared with one computed from the bytes.                 *)
(***************************************************************************)
EXTENDS SpiFlash, TLAPS

FlashInv == TypeOK /\ StateFollowsBytes

-----------------------------------------------------------------------------

LEMMA AddressType ==
  ASSUME NEW b1 \in Byte, NEW b2 \in Byte, NEW b3 \in Byte
  PROVE  AddressOf(b1, b2, b3) \in Nat
<1> DEFINE a == (b1 * BASE + b2) * BASE + b3
           page == (a \div OFFS) % PAGE_COUNT
           off == a % OFFS
<1>1. b1 \in Nat /\ b2 \in Nat /\ b3 \in Nat /\ BASE \in Nat
  BY GeometryAssumption DEF Byte
<1>2. b1 * BASE + b2 \in Nat
  BY <1>1
<1>3. a \in Nat
  BY <1>1, <1>2
<1> HIDE DEF a
<1>4. page \in Nat
  BY <1>3, GeometryAssumption
<1>5. off \in Nat
  BY <1>3, GeometryAssumption
<1>6. PAGE_BYTES - 1 \in Nat
  BY GeometryAssumption
<1> HIDE DEF page, off
<1>7. page * PAGE_BYTES \in Nat
  BY <1>4, GeometryAssumption
<1>8. page * PAGE_BYTES + (IF off >= PAGE_BYTES THEN PAGE_BYTES - 1 ELSE off)
        \in Nat
  BY <1>5, <1>6, <1>7
<1> QED
  BY <1>8 DEF AddressOf, a, page, off

LEMMA InitFlash == Init => FlashInv
<1> SUFFICES ASSUME Init PROVE FlashInv
  OBVIOUS
<1>1. 0 \in Byte
  BY GeometryAssumption DEF Byte
<1>2. TypeOK
  <2>1. spi_arg \in [1 .. 3 -> Byte]
    BY <1>1 DEF Init
  <2>2. 0 \in 0 .. DUMMIES
    BY DummiesAssumption
  <2>3. << >> \in Seq(Byte)
    OBVIOUS
  <2>4. flash \in BOOLEAN /\ spi_pending \in BOOLEAN
    BY Zenon DEF Init
  <2>5. /\ spi_in \in Nat \cup {FF, STATUS_READY} /\ spi_state \in 0 .. 4
        /\ spi_argn \in 0 .. 3 /\ spi_addr \in Nat /\ spi_cmd \in Byte
        /\ spi_dummy \in 0 .. DUMMIES
    BY <1>1, <2>2 DEF Init
  <2>6. sent \in Seq(Byte)
    BY <2>3 DEF Init
  <2> QED
    BY <2>1, <2>4, <2>5, <2>6 DEF TypeOK
<1>3. StateFollowsBytes
  BY DEF Init, StateFollowsBytes
<1> QED
  BY <1>2, <1>3 DEF FlashInv

\* One byte through the state machine.
LEMMA XferInv ==
  ASSUME FlashInv, NEW out \in Byte, flash, cy_flash_xfer(out),
         sent' = Append(sent, out), UNCHANGED flash, spi_pending' = TRUE
  PROVE  FlashInv'
<1> USE DEF FlashInv
<1> DEFINE n == Len(sent)
<1>1. /\ sent \in Seq(Byte) /\ n \in Nat /\ Len(sent') = n + 1
      /\ sent' \in Seq(Byte)
      /\ \A k \in 1 .. n : sent'[k] = sent[k] /\ sent[k] \in Byte
      /\ sent'[n + 1] = out
  BY DEF TypeOK
<1>2. CASE ExpectCommand(out)
  <2>1. n = 0
    BY <1>2 DEF StateFollowsBytes, ExpectCommand
  <2>2. TypeOK'
    BY <1>1, <1>2 DEF TypeOK, ExpectCommand
  <2>3. StateFollowsBytes'
    BY <1>1, <1>2, <2>1, DummiesAssumption
       DEF StateFollowsBytes, ExpectCommand, TypeOK
  <2> QED
    BY <2>2, <2>3
<1>3. CASE CollectAddress(out)
  <2>1. /\ n >= 1 /\ n <= 3 /\ sent[1] \notin StatusCmds /\ spi_argn = n - 1
        /\ \A k \in 1 .. spi_argn : spi_arg[k] = sent[k + 1]
    BY <1>3 DEF StateFollowsBytes, CollectAddress
  <2>2. /\ spi_arg' \in [1 .. 3 -> Byte]
        /\ spi_arg' = [spi_arg EXCEPT ![n] = out] /\ spi_argn' = n
    BY <1>1, <1>3, <2>1 DEF TypeOK, CollectAddress
  <2>3. \A k \in 1 .. spi_argn' : spi_arg'[k] = sent'[k + 1]
    BY <1>1, <2>1, <2>2 DEF TypeOK
  <2>4. CASE n < 3
    <3>1. TypeOK'
      BY <1>1, <1>3, <2>1, <2>2, <2>4 DEF TypeOK, CollectAddress
    <3>2. spi_state' = 1
      BY <1>3, <2>1, <2>2, <2>4 DEF CollectAddress
    <3>3. StateFollowsBytes'
      BY <1>1, <2>1, <2>2, <2>3, <2>4, <3>2, DummiesAssumption
         DEF StateFollowsBytes
    <3> QED
      BY <3>1, <3>3
  <2>5. CASE n = 3
    <3>1. /\ spi_state' = 3 /\ spi_dummy' = DUMMIES
          /\ spi_addr' = AddressOf(spi_arg'[1], spi_arg'[2], spi_arg'[3])
      BY <1>3, <2>1, <2>2, <2>5 DEF CollectAddress
    <3>2. /\ spi_arg'[1] = sent'[2] /\ spi_arg'[2] = sent'[3]
          /\ spi_arg'[3] = sent'[4]
      <4>1. spi_argn' = 3
        BY <2>2, <2>5
      <4>2. 1 \in 1 .. spi_argn' /\ 2 \in 1 .. spi_argn' /\ 3 \in 1 .. spi_argn'
        BY <4>1
      <4>3. /\ spi_arg'[1] = sent'[1 + 1] /\ spi_arg'[2] = sent'[2 + 1]
            /\ spi_arg'[3] = sent'[3 + 1]
        BY <2>3, <4>2
      <4> QED
        BY <4>3
    <3>3. spi_addr' \in Nat
      <4>1. /\ spi_arg'[1] \in Byte /\ spi_arg'[2] \in Byte
            /\ spi_arg'[3] \in Byte
        BY <2>2
      <4> QED
        BY <3>1, <4>1, AddressType
    <3>4. TypeOK'
      <4>1. flash' \in BOOLEAN
        BY DEF TypeOK
      <4>2. /\ spi_in' \in Nat \cup {FF, STATUS_READY} /\ spi_state' \in 0 .. 4
            /\ spi_argn' \in 0 .. 3 /\ spi_cmd' \in Byte
        BY <1>3, <2>2, <2>5, <3>1 DEF TypeOK, CollectAddress
      <4>3. spi_dummy' \in 0 .. DUMMIES
        BY <3>1, DummiesAssumption
      <4> QED
        BY <1>1, <2>2, <3>3, <4>1, <4>2, <4>3 DEF TypeOK
    <3>5. /\ spi_addr' = AddressOf(sent'[2], sent'[3], sent'[4])
          /\ spi_addr' + 0 = spi_addr'
      <4>1. spi_addr' = AddressOf(sent'[2], sent'[3], sent'[4])
        BY <3>1, <3>2, Zenon
      <4>2. \A x \in Nat : x + 0 = x
        OBVIOUS
      <4> QED
        BY <3>3, <4>1, <4>2
    <3>6. StateFollowsBytes'
      BY <1>1, <2>1, <2>5, <3>1, <3>5, DummiesAssumption
         DEF StateFollowsBytes
    <3> QED
      BY <3>4, <3>6
  <2> QED
    BY <1>1, <2>1, <2>4, <2>5
<1>4. CASE ReadStatus(out)
  <2>1. n >= 1 /\ sent[1] \in StatusCmds
    BY <1>4 DEF StateFollowsBytes, ReadStatus
  <2>2. TypeOK'
    BY <1>1, <1>4 DEF TypeOK, ReadStatus, chip
  <2>3. StateFollowsBytes'
    BY <1>1, <1>4, <2>1 DEF StateFollowsBytes, ReadStatus, chip
  <2> QED
    BY <2>2, <2>3
<1>5. CASE SkipDummy(out)
  <2>1. /\ n >= 4 /\ n <= 4 + DUMMIES /\ sent[1] \notin StatusCmds
        /\ spi_dummy = 4 + DUMMIES - n /\ spi_dummy > 0
        /\ spi_addr = AddressOf(sent[2], sent[3], sent[4]) + 0
    BY <1>1, <1>5, DummiesAssumption DEF StateFollowsBytes, SkipDummy
  <2>2. TypeOK'
    BY <1>1, <1>5, <2>1, DummiesAssumption, SMTT(30) DEF TypeOK, SkipDummy
  <2>3. StateFollowsBytes'
    BY <1>1, <1>5, <2>1, DummiesAssumption DEF StateFollowsBytes, SkipDummy
  <2> QED
    BY <2>2, <2>3
<1>6. CASE StreamData(out)
  <2>1. /\ n >= 4 + DUMMIES /\ sent[1] \notin StatusCmds
        /\ spi_addr = AddressOf(sent[2], sent[3], sent[4]) + (n - 4 - DUMMIES)
    <3>1. AddressOf(sent[2], sent[3], sent[4]) \in Nat
      <4>1. n >= 4
        BY <1>1, <1>6, DummiesAssumption
           DEF StateFollowsBytes, StreamData, TypeOK
      <4>2. sent[2] \in Byte /\ sent[3] \in Byte /\ sent[4] \in Byte
        BY <1>1, <4>1
      <4> QED
        BY <4>2, AddressType
    <3> QED
      BY <1>1, <1>6, <3>1, DummiesAssumption
         DEF StateFollowsBytes, StreamData, TypeOK
  <2>2. FLASH_SIZE \in Nat \ {0}
    <3>1. \A p, q \in Nat \ {0} : p * q \in Nat \ {0}
      OBVIOUS
    <3> QED
      BY <3>1, GeometryAssumption DEF FLASH_SIZE
  <2>3. spi_addr % FLASH_SIZE \in Nat /\ spi_addr + 1 \in Nat
    BY <2>2 DEF TypeOK
  <2>4. TypeOK'
    BY <1>1, <1>6, <2>3 DEF TypeOK, StreamData
  <2>5. AddressOf(sent'[2], sent'[3], sent'[4])
          = AddressOf(sent[2], sent[3], sent[4])
    BY <1>1, <2>1, DummiesAssumption
  <2>6. AddressOf(sent[2], sent[3], sent[4]) \in Nat
    <3>1. sent[2] \in Byte /\ sent[3] \in Byte /\ sent[4] \in Byte
      BY <1>1, <2>1, DummiesAssumption
    <3> QED
      BY <3>1, AddressType
  <2>7. StateFollowsBytes'
    BY <1>1, <1>6, <2>1, <2>5, <2>6, DummiesAssumption, SMTT(30)
       DEF StateFollowsBytes, StreamData, TypeOK
  <2> QED
    BY <2>4, <2>7
<1> QED
  BY <1>2, <1>3, <1>4, <1>5, <1>6 DEF cy_flash_xfer
\* The other operations.
LEMMA DeselectInv ==
  ASSUME FlashInv, cy_flash_deselect, sent' = << >>,
         UNCHANGED <<flash, spi_in, spi_pending>>
  PROVE  FlashInv'
<1>1. 0 \in Byte
  BY GeometryAssumption DEF Byte
<1>2. sent' \in Seq(Byte) /\ Len(sent') = 0
  OBVIOUS
<1>3. TypeOK'
  BY <1>1, <1>2 DEF FlashInv, TypeOK, cy_flash_deselect
<1>4. StateFollowsBytes'
  BY <1>2 DEF StateFollowsBytes, cy_flash_deselect
<1> QED
  BY <1>3, <1>4 DEF FlashInv

\* Without an image nothing moves but the byte that comes back.
LEMMA RegistersInv ==
  ASSUME FlashInv, UNCHANGED <<chip, sent>>, flash' \in BOOLEAN,
         spi_pending' \in BOOLEAN,
         spi_in' \in Nat \cup {FF, STATUS_READY}
  PROVE  FlashInv'
<1>1. TypeOK'
  BY DEF FlashInv, TypeOK, chip
<1>2. StateFollowsBytes'
  BY DEF FlashInv, StateFollowsBytes, chip
<1> QED
  BY <1>1, <1>2 DEF FlashInv

LEMMA StepFlash == FlashInv /\ [Next]_vars => FlashInv'
<1> SUFFICES ASSUME FlashInv, [Next]_vars PROVE FlashInv'
  OBVIOUS
<1>0. /\ flash \in BOOLEAN /\ spi_pending \in BOOLEAN
      /\ spi_in \in Nat \cup {FF, STATUS_READY}
  BY DEF FlashInv, TypeOK
<1>1. CASE WriteTdr1
  <2>1. PICK out \in Byte :
          /\ cy_flash_xfer(out)
          /\ spi_pending' = TRUE
          /\ sent' = IF flash THEN Append(sent, out) ELSE sent
          /\ UNCHANGED flash
    BY <1>1 DEF WriteTdr1
  <2>2. CASE flash
    BY <2>1, <2>2, XferInv
  <2>3. CASE ~flash
    <3>1. spi_in' = FF /\ UNCHANGED <<chip, sent>>
      BY <2>1, <2>3 DEF cy_flash_xfer, NoFlash
    <3>2. flash' \in BOOLEAN /\ spi_pending' \in BOOLEAN
      BY <1>0, <2>1
    <3>3. spi_in' \in Nat \cup {FF, STATUS_READY}
      BY <3>1
    <3> QED
      BY <3>1, <3>2, <3>3, RegistersInv
  <2> QED
    BY <2>2, <2>3
<1>2. CASE ReadRdr1
  BY <1>0, <1>2, RegistersInv DEF ReadRdr1
<1>3. CASE WriteCs
  BY <1>0, <1>3, RegistersInv, DeselectInv DEF WriteCs
<1>4. CASE Load
  BY <1>0, <1>4, RegistersInv DEF Load
<1>5. CASE UNCHANGED vars
  BY <1>0, <1>5, RegistersInv DEF vars
<1> QED
  BY <1>1, <1>2, <1>3, <1>4, <1>5 DEF Next

\* The types and the correspondence hold throughout.
THEOREM FlashInvHolds == Spec => []FlashInv
<1> QED
  BY InitFlash, StepFlash, PTL DEF Spec

-----------------------------------------------------------------------------

\* Every register of the chip keeps its type; spi_argn never passes the
\* three bytes spi_arg has room for (flash.c:95).
THEOREM FlashTypes == Spec => []TypeOK
<1>1. FlashInv => TypeOK
  BY DEF FlashInv
<1> QED
  BY <1>1, FlashInvHolds, PTL

\* The command state machine is where the bytes since the last deselect
\* put it, for every geometry and every abandoned command (flash.c:62-138).
THEOREM StateFollowsBytesHolds == Spec => []StateFollowsBytes
<1>1. FlashInv => StateFollowsBytes
  BY DEF FlashInv
<1> QED
  BY <1>1, FlashInvHolds, PTL

-----------------------------------------------------------------------------
(* The refinement. *)

\* The two computations of an index in the image agree.
LEMMA SameAddress ==
  ASSUME NEW b1, NEW b2, NEW b3
  PROVE  Chip!IndexOf(Chip!Field(b1, b2, b3)) = AddressOf(b1, b2, b3)
<1> QED
  BY DEF AddressOf, Chip!IndexOf, Chip!Field, Chip!Page, Chip!Offset

\* The reply computed from the registers is the one the bytes call for.
LEMMA XferReply ==
  ASSUME FlashInv, NEW out \in Byte, cy_flash_xfer(out), flash,
         sent' = Append(sent, out)
  PROVE  spi_in' = Chip!ReplyTo(sent')
<1> DEFINE n == Len(sent)
<1>1. /\ sent \in Seq(Byte) /\ n \in Nat /\ Len(sent') = n + 1
      /\ \A k \in 1 .. n : sent'[k] = sent[k] /\ sent[k] \in Byte
      /\ sent'[n + 1] = out
      /\ n >= 1 => sent'[1] = sent[1]
      /\ Chip!Lead = 4 + DUMMIES
      /\ DUMMIES \in Nat
  BY DummiesAssumption DEF FlashInv, TypeOK, Chip!Lead
<1>2. CASE ExpectCommand(out)
  <2>1. n = 0 /\ spi_in' = FF
    BY <1>2 DEF FlashInv, StateFollowsBytes, ExpectCommand
  <2> QED
    BY <1>1, <2>1 DEF Chip!ReplyTo
<1>3. CASE CollectAddress(out)
  <2>1. n >= 1 /\ n <= 3 /\ sent[1] \notin StatusCmds /\ spi_in' = FF
    BY <1>3 DEF FlashInv, StateFollowsBytes, CollectAddress
  <2> QED
    BY <1>1, <2>1 DEF Chip!ReplyTo
<1>4. CASE ReadStatus(out)
  <2>1. n >= 1 /\ sent[1] \in StatusCmds /\ spi_in' = STATUS_READY
    BY <1>4 DEF FlashInv, StateFollowsBytes, ReadStatus
  <2> QED
    BY <1>1, <2>1 DEF Chip!ReplyTo
<1>5. CASE SkipDummy(out)
  <2>1. /\ n >= 4 /\ n < 4 + DUMMIES /\ sent[1] \notin StatusCmds
        /\ spi_in' = FF
    BY <1>1, <1>5 DEF FlashInv, StateFollowsBytes, SkipDummy
  <2> QED
    BY <1>1, <2>1 DEF Chip!ReplyTo
<1>6. CASE StreamData(out)
  <2>1. spi_addr \in Nat /\ spi_in' = spi_addr % FLASH_SIZE
    BY <1>6 DEF FlashInv, TypeOK, StreamData
  <2>2. n >= 4
    BY <1>1, <1>6 DEF FlashInv, TypeOK, StateFollowsBytes, StreamData
  <2>3. sent[2] \in Byte /\ sent[3] \in Byte /\ sent[4] \in Byte
    BY <1>1, <2>2
  <2>4. AddressOf(sent[2], sent[3], sent[4]) \in Nat
    BY <2>3, AddressType
  <2>5. /\ n >= 4 + DUMMIES /\ sent[1] \notin StatusCmds
        /\ spi_addr = AddressOf(sent[2], sent[3], sent[4]) + (n - 4 - DUMMIES)
    BY <1>1, <1>6, <2>2, <2>4
       DEF FlashInv, TypeOK, StateFollowsBytes, StreamData
  <2>6. sent'[2] = sent[2] /\ sent'[3] = sent[3] /\ sent'[4] = sent[4]
    BY <1>1, <2>2
  <2>7. Chip!ReplyTo(sent') =
          (AddressOf(sent[2], sent[3], sent[4]) + (n + 1 - (4 + DUMMIES) - 1))
            % FLASH_SIZE
    <3>1. Chip!ReplyTo(sent') =
            (Chip!IndexOf(Chip!Field(sent'[2], sent'[3], sent'[4]))
              + (n + 1 - (4 + DUMMIES) - 1)) % FLASH_SIZE
      BY <1>1, <2>2, <2>5 DEF Chip!ReplyTo, Chip!FLASH_SIZE, FLASH_SIZE
    <3> QED
      BY <2>6, <3>1, SameAddress
  <2>8. (n + 1 - (4 + DUMMIES) - 1) = n - 4 - DUMMIES
    BY <1>1
  <2> QED
    BY <2>1, <2>5, <2>7, <2>8
<1> QED
  BY <1>2, <1>3, <1>4, <1>5, <1>6 DEF cy_flash_xfer

\* The serial port and the state machine implement the chip: every byte the
\* guest can read back is the one the bytes clocked since the last deselect
\* call for (flash.c:81-138 behind io.c:103-117, 155-173).
THEOREM ImplementsChipHolds == Spec => ImplementsChip
<1>1. Init => Chip!ChipInit
  BY DEF Init, Chip!ChipInit
<1>2. FlashInv /\ [Next]_vars => [Chip!ChipNext]_Chip!chipVars
  <2> SUFFICES ASSUME FlashInv, [Next]_vars
               PROVE  Chip!ChipNext \/ UNCHANGED Chip!chipVars
    OBVIOUS
  <2>1. CASE WriteTdr1
    <3>1. PICK out \in Byte :
            /\ cy_flash_xfer(out)
            /\ spi_pending' = TRUE
            /\ sent' = IF flash THEN Append(sent, out) ELSE sent
            /\ UNCHANGED flash
      BY <2>1 DEF WriteTdr1
    <3>2. spi_in' = IF flash THEN Chip!ReplyTo(sent') ELSE FF
      BY <3>1, XferReply DEF cy_flash_xfer, NoFlash
    <3>3. Chip!Exchange(out)
      BY <3>1, <3>2 DEF Chip!Exchange
    <3> QED
      BY <3>3 DEF Chip!ChipNext, Chip!Byte, Byte
  <2>2. CASE ReadRdr1
    BY <2>2 DEF ReadRdr1, Chip!ChipNext, Chip!Take
  <2>3. CASE WriteCs
    BY <2>3 DEF WriteCs, Chip!ChipNext, Chip!Deselect, Chip!chipVars
  <2>4. CASE Load
    BY <2>4 DEF Load, Chip!ChipNext, Chip!Load
  <2>5. CASE UNCHANGED vars
    BY <2>5 DEF vars, Chip!chipVars
  <2> QED
    BY <2>1, <2>2, <2>3, <2>4, <2>5 DEF Next
<1> QED
  BY <1>1, <1>2, FlashInvHolds, PTL DEF Spec, ImplementsChip, Chip!ChipSpec
=============================================================================
