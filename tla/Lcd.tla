--------------------------------- MODULE Lcd ---------------------------------
(***************************************************************************)
(* The HD66421 of src/lcd.c: an index port, a data port behind it, and the *)
(* frame memory the data register fills through a column that counts by    *)
(* itself, read back dot by dot by the frontend.                           *)
(*                                                                         *)
(* The guest is arbitrary: any byte to either port in any order -- a tick  *)
(* handler that draws between the two writes of the code it interrupted is *)
(* one such order.                                                         *)
(***************************************************************************)
EXTENDS Integers, Sequences

CONSTANTS
  LEVELS,    \* grey levels of a dot (4); a byte is four dots
  STRIDE,    \* CY_LCD_STRIDE, bytes in a row
  LCD_H,     \* rows
  INDEXES,   \* values of the index register (32)
  R_X, R_Y, R_DATA,
  Values,    \* bytes the guest writes
  MaxRun     \* bound: bytes drawn since the cursor was set

\* What the four dots of a byte count in it, the leftmost in the high bits.
Weight == <<LEVELS * LEVELS * LEVELS, LEVELS * LEVELS, LEVELS, 1>>
BASE == LEVELS * Weight[1]
Byte == 0 .. (BASE - 1)

ASSUME PanelAssumption ==
  /\ LEVELS \in Nat \ {0} /\ INDEXES \in Nat /\ Values \subseteq Byte
  /\ STRIDE \in 1 .. BASE /\ LCD_H \in 1 .. BASE
  /\ {R_X, R_Y, R_DATA} \subseteq 0 .. (INDEXES - 1)
  /\ R_X # R_Y /\ R_X # R_DATA /\ R_Y # R_DATA

VARIABLES
  index, reg, vram,  \* cy_lcd_t
  from,              \* history: the column the cursor was last set to
  run                \* history: the bytes written to the data register since

vars == <<index, reg, vram, from, run>>

-----------------------------------------------------------------------------

\* The byte of the frame at the cursor replaced, if the cursor is on it.
\* Variant: only the end of the frame is tested, not the end of the row.
PlotUnclipped(x, y, v) ==
  IF y * STRIDE + x < LCD_H * STRIDE
    THEN [vram EXCEPT ![y * STRIDE + x] = v] ELSE vram

Plot(x, y, v) ==
  IF x < STRIDE /\ y < LCD_H
    THEN [vram EXCEPT ![y * STRIDE + x] = v] ELSE vram

\* "The column wraps rather than spilling into the next row."
NextColumn(x) == (x + 1) % STRIDE

\* cy_lcd_write to CY_LCD_PORT.
WritePort == \E v \in Values :
  /\ index' = v % INDEXES
  /\ UNCHANGED <<reg, vram, from, run>>

\* cy_lcd_write to CY_LCD_DATA with the data register selected.
WriteFrame == \E v \in Values :
  /\ index = R_DATA
  /\ Len(run) < MaxRun
  /\ vram' = Plot(reg[R_X], reg[R_Y], v)
  /\ reg' = [reg EXCEPT ![R_X] = NextColumn(@)]
  /\ run' = Append(run, v)
  /\ UNCHANGED <<index, from>>

\* The same with any other.
WriteRegister == \E v \in Values :
  /\ index # R_DATA
  /\ reg' = [reg EXCEPT ![index] = v]
  /\ IF index \in {R_X, R_Y}
       THEN run' = << >> /\ from' = reg'[R_X]
       ELSE UNCHANGED <<run, from>>
  /\ UNCHANGED <<index, vram>>

\* Variant: the leftmost dot in the low bits.
DotReversed(x, y) ==
  IF x < 0 \/ x >= 4 * STRIDE \/ y < 0 \/ y >= LCD_H THEN LEVELS - 1
  ELSE (vram[y * STRIDE + x \div 4] \div Weight[4 - (x % 4)]) % LEVELS

\* Dot x of row y, leftmost in the high bits; off the panel, the level the
\* panel is cleared to.
cy_lcd_dot(x, y) ==
  IF x < 0 \/ x >= 4 * STRIDE \/ y < 0 \/ y >= LCD_H THEN LEVELS - 1
  ELSE (vram[y * STRIDE + x \div 4] \div Weight[1 + (x % 4)]) % LEVELS

Init ==
  /\ index = 0 /\ reg = [r \in 0 .. (INDEXES - 1) |-> 0]
  /\ vram = [k \in 0 .. (STRIDE * LCD_H - 1) |-> 0]
  /\ from = 0 /\ run = << >>

Next == WritePort \/ WriteFrame \/ WriteRegister
Spec == Init /\ [][Next]_vars

-----------------------------------------------------------------------------
(* Properties. *)

\* The frame keeps its size, its rows and its bytes; no register leaves the
\* byte it is stored in.
TypeOK ==
  /\ index \in 0 .. (INDEXES - 1)
  /\ reg \in [0 .. (INDEXES - 1) -> Byte]
  /\ vram \in [0 .. (STRIDE * LCD_H - 1) -> Byte]
  /\ from \in Byte
  /\ run \in Seq(Byte)

\* Where the k-th byte of the run went.
Column(k) == IF k = 1 THEN from ELSE (from + k - 1) % STRIDE
LastAt(k) == \A j \in (k + 1) .. Len(run) : Column(j) # Column(k)

\* A blit shows: with the cursor set once and bytes streamed after it, the
\* row's dots are those bytes' dots in order, from the column named and
\* round the end of the row, the last byte at each column winning -- with
\* register writes other than X and Y, and index writes, anywhere between
\* (lcd.c:19-28, 34-43).
RunIsShown ==
  reg[R_Y] < LCD_H =>
    \A k \in 1 .. Len(run) :
      Column(k) < STRIDE /\ LastAt(k) =>
        LET dot(j) == cy_lcd_dot(4 * Column(k) + j, reg[R_Y])
        IN  run[k] = ((dot(0) * LEVELS + dot(1)) * LEVELS + dot(2)) * LEVELS
                       + dot(3)

\* Nothing is drawn outside the row the cursor names, and nothing at all
\* with the row past the panel, however long the run and whatever column it
\* was started at: "the controller counts within a line, and the writer
\* sets Y itself" (lcd.c:24-25).
OneRowAtATime ==
  [][\A y \in 0 .. (LCD_H - 1), x \in 0 .. (STRIDE - 1) :
       vram'[y * STRIDE + x] # vram[y * STRIDE + x]
         => y = reg[R_Y] /\ reg'[R_Y] = y]_vars
=============================================================================
