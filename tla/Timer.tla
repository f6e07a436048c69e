------------------------------- MODULE Timer -------------------------------
(***************************************************************************)
(* The 8-bit timer (TMR) of src/io.c, the tick interrupt it raises, and    *)
(* the interrupt frame the delivery pushes on the guest stack.             *)
(*                                                                         *)
(* The counter is derived, not stepped: a channel keeps a preload and the  *)
(* cycle it was anchored at, and the count is the preload plus the elapsed *)
(* cycles over DIV.  Channel 0 also keeps a deadline, irq_at, computed     *)
(* once when the channel is armed; everything else only compares against   *)
(* it.  The hazards are all in the distance between the two: the deadline  *)
(* and the derived count must name the same cycle for ever after, under    *)
(* any interleaving of register writes, cycles and interrupt masking.      *)
(*                                                                         *)
(* The guest is arbitrary: it writes any register, moves its mask and      *)
(* returns from interrupts whenever it likes.  Machine.tla replaces it by  *)
(* translated programs, using the handlers defined here unchanged.         *)
(***************************************************************************)
EXTENDS Integers, Sequences

CONSTANTS
  DIV,        \* TMR_DIV: cycles per timer count (2600)
  TOP,        \* the counter's modulus, where it overflows (0x100)
  WRAP,       \* the modulus of tmr_count's uint32 result (2^32)
  Never,      \* irq_at's "never", (uint64_t)-1
  Addr,       \* guest addresses
  Handler,    \* the longword at vector TMR_TICK_VECTOR
  MaxCycles,  \* bound: cycles explored
  MaxFrames   \* bound: interrupt frames on the stack

ASSUME DivAssumption  == DIV \in Nat \ {0}
ASSUME TopAssumption  == TOP \in Nat \ {0, 1}
ASSUME WrapAssumption == WRAP \in Nat /\ WRAP > TOP
ASSUME NeverAssumption == Never \notin Nat
ASSUME HandlerAssumption == Handler \in Addr
ASSUME BoundAssumption == MaxCycles \in Nat /\ MaxFrames \in Nat

VARIABLES
  cycles,   \* c->cycles
  tmr_pre,  \* c->tmr_pre[2], a uint8 each
  tmr_at,   \* c->tmr_at[2]
  tmr_csr,  \* the OVF bit of c->tmr_csr[2] as stored
  irq_at,   \* c->irq_at
  ovie,     \* bit TCR_OVIE of mem[TCR0]
  pc,       \* c->pc
  ccr,      \* the CCR: the mask i (c->iff) and a condition flag z
  stack,    \* longwords above E7 in the guest's memory, newest first
  served    \* history: interrupts delivered since channel 0 was armed

timerVars == <<tmr_pre, tmr_at, tmr_csr, irq_at, ovie, served>>
vars == <<cycles, timerVars, pc, ccr, stack>>

Channel == {0, 1}
Count == 0 .. (TOP - 1)
CCR == [i : BOOLEAN, z : BOOLEAN]
Longword == [ccr : CCR, pc : Addr]   \* CCR in the top byte, PC below it

-----------------------------------------------------------------------------
(* The derived counter. *)

\* Variants: the count kept in one more bit than the counter has; a partial
\* tick counted as a whole one.
CountNarrow(pre, at, now) == (pre + (now - at) \div DIV) % (2 * TOP)
CountRoundsUp(pre, at, now) == (pre + (now - at + DIV - 1) \div DIV) % WRAP

CountFrom(pre, at, now) == (pre + (now - at) \div DIV) % WRAP
TmrCount(ch) == CountFrom(tmr_pre[ch], tmr_at[ch], cycles)

\* What a byte read of TCSR and TCNT returns (the OVF bit, the low byte).
ReadOvf(ch) == tmr_csr[ch] \/ TmrCount(ch) >= TOP
ReadTcnt(ch) == TmrCount(ch) % TOP

\* Variants of the deadline: a count early, and taking the last preload for
\* a counter that has already overflowed.
DeadlineEarly(pre, at, now) ==
  LET count == CountFrom(pre, at, now)
  IN  IF count >= TOP THEN Never ELSE at + (TOP - 1 - count) * DIV
DeadlineOffByOne(pre, at, now) ==
  LET count == CountFrom(pre, at, now)
  IN  IF count >= TOP - 1 THEN Never ELSE at + (TOP - count) * DIV

\* tmr_rearm's value for irq_at.
Deadline(pre, at, now) ==
  LET count == CountFrom(pre, at, now)
  IN  IF count >= TOP THEN Never ELSE at + (TOP - count) * DIV

\* Both register writes restart the measurement here and rearm channel 0.
Anchor(ch, v) ==
  /\ tmr_pre' = [tmr_pre EXCEPT ![ch] = v]
  /\ tmr_at' = [tmr_at EXCEPT ![ch] = cycles]
  /\ IF ch = 0
       THEN irq_at' = Deadline(v, cycles, cycles) /\ served' = 0
       ELSE UNCHANGED <<irq_at, served>>

TmrInit ==
  /\ cycles = 0
  /\ tmr_pre = [ch \in Channel |-> 0]
  /\ tmr_at = [ch \in Channel |-> 0]
  /\ tmr_csr = [ch \in Channel |-> FALSE]
  /\ irq_at = Never
  /\ ovie = FALSE
  /\ ccr = [i |-> FALSE, z |-> FALSE]
  /\ stack = << >>
  /\ served = 0

-----------------------------------------------------------------------------
(* The handlers. *)

\* cy_io_write, TCNT0/TCNT1.
WriteTcnt(ch, v) ==
  /\ Anchor(ch, v)
  /\ UNCHANGED <<tmr_csr, ovie>>

\* Variants of the status write: the derived count stored untruncated; the
\* anchor moved without rearming; the anchor not moved at all.
WriteTcsrWide(ch, ovf) ==
  /\ IF ~ovf /\ TmrCount(ch) >= TOP
       THEN Anchor(ch, TmrCount(ch))
       ELSE UNCHANGED <<tmr_pre, tmr_at, irq_at, served>>
  /\ tmr_csr' = [tmr_csr EXCEPT ![ch] = FALSE]
  /\ UNCHANGED ovie
WriteTcsrNoRearm(ch, ovf) ==
  /\ IF ~ovf /\ TmrCount(ch) >= TOP
       THEN /\ tmr_pre' = [tmr_pre EXCEPT ![ch] = TmrCount(ch) % TOP]
            /\ tmr_at' = [tmr_at EXCEPT ![ch] = cycles]
       ELSE UNCHANGED <<tmr_pre, tmr_at>>
  /\ tmr_csr' = [tmr_csr EXCEPT ![ch] = FALSE]
  /\ UNCHANGED <<irq_at, served, ovie>>
WriteTcsrNoAnchor(ch, ovf) ==
  /\ tmr_csr' = [tmr_csr EXCEPT ![ch] = FALSE]
  /\ UNCHANGED <<tmr_pre, tmr_at, irq_at, served, ovie>>

\* cy_io_write, TCSR0/TCSR1: ovf is bit 5 of the byte written.  Writing zero
\* to a raised flag moves the anchor; the stored byte never keeps the bit.
WriteTcsr(ch, ovf) ==
  /\ IF ~ovf /\ TmrCount(ch) >= TOP
       THEN Anchor(ch, TmrCount(ch) % TOP)
       ELSE UNCHANGED <<tmr_pre, tmr_at, irq_at, served>>
  /\ tmr_csr' = [tmr_csr EXCEPT ![ch] = FALSE]
  /\ UNCHANGED ovie

\* TCR0 is plain storage: enabling the interrupt reaches no timer code.
WriteTcr0(b) ==
  /\ ovie' = b
  /\ UNCHANGED <<tmr_pre, tmr_at, tmr_csr, irq_at, served>>

\* cy_interrupt: push CCR and PC as one longword, mask, vector.
Interrupt ==
  /\ stack' = <<[ccr |-> ccr, pc |-> pc]>> \o stack
  /\ ccr' = [ccr EXCEPT !.i = TRUE]
  /\ pc' = Handler

Due(now) == irq_at # Never /\ now >= irq_at

\* Variants of the poll: the deadline left in place after delivering, and
\* the mask not looked at.
IrqPollKeepsDeadline(now) ==
  /\ IF ccr.i \/ ~Due(now) \/ ~ovie
       THEN UNCHANGED <<served, pc, ccr, stack>>
       ELSE Interrupt /\ served' = served + 1
  /\ UNCHANGED <<tmr_pre, tmr_at, tmr_csr, irq_at, ovie>>
IrqPollUnmasked(now) ==
  /\ IF ~Due(now) \/ ~ovie
       THEN UNCHANGED <<irq_at, served, pc, ccr, stack>>
       ELSE irq_at' = Never /\ Interrupt /\ served' = served + 1
  /\ UNCHANGED <<tmr_pre, tmr_at, tmr_csr, ovie>>

\* cy_irq_poll, at cycle `now`.
IrqPoll(now) ==
  /\ IF ccr.i \/ ~Due(now)
       THEN UNCHANGED <<irq_at, served, pc, ccr, stack>>
       ELSE /\ irq_at' = Never
            /\ IF ovie
                 THEN Interrupt /\ served' = served + 1
                 ELSE UNCHANGED <<served, pc, ccr, stack>>
  /\ UNCHANGED <<tmr_pre, tmr_at, tmr_csr, ovie>>

-----------------------------------------------------------------------------
(* The timer under an arbitrary guest. *)

Init == TmrInit /\ pc \in Addr

\* One turn of cy_run's loop: count it, then poll.
Dispatch ==
  /\ cycles < MaxCycles
  /\ Len(stack) < MaxFrames
  /\ cycles' = cycles + 1
  /\ IrqPoll(cycles')

\* A back-edge taken inside a chunk costs a cycle and does not poll.
BackEdge ==
  /\ cycles < MaxCycles
  /\ cycles' = cycles + 1
  /\ UNCHANGED <<timerVars, pc, ccr, stack>>

GuestTcnt == \E ch \in Channel, v \in Count :
  WriteTcnt(ch, v) /\ UNCHANGED <<cycles, pc, ccr, stack>>

GuestTcsr == \E ch \in Channel, b \in BOOLEAN :
  WriteTcsr(ch, b) /\ UNCHANGED <<cycles, pc, ccr, stack>>

GuestTcr0 == \E b \in BOOLEAN :
  WriteTcr0(b) /\ UNCHANGED <<cycles, pc, ccr, stack>>

\* andc/orc/ldc on the mask, and any other instruction's move of the PC.
GuestRuns == \E b \in BOOLEAN, a \in Addr :
  /\ ccr' = [ccr EXCEPT !.i = b]
  /\ pc' = a
  /\ UNCHANGED <<cycles, timerVars, stack>>

\* RTE restores CCR and PC from the frame.
GuestRte ==
  /\ stack # << >>
  /\ ccr' = stack[1].ccr
  /\ pc' = stack[1].pc
  /\ stack' = Tail(stack)
  /\ UNCHANGED <<cycles, timerVars>>

Next == Dispatch \/ BackEdge \/ GuestTcnt \/ GuestTcsr \/ GuestTcr0
          \/ GuestRuns \/ GuestRte

Spec == Init /\ [][Next]_vars

-----------------------------------------------------------------------------
(* Properties. *)

\* Every variable has its type: the preloads stay 8-bit although TCSR's
\* handler stores a derived, wider count into one.
TypeOK ==
  /\ cycles \in Nat
  /\ tmr_pre \in [Channel -> Count]
  /\ tmr_at \in [Channel -> Nat]
  /\ tmr_csr \in [Channel -> BOOLEAN]
  /\ irq_at \in Nat \cup {Never}
  /\ ovie \in BOOLEAN
  /\ pc \in Addr
  /\ ccr \in CCR
  /\ stack \in Seq(Longword)
  /\ served \in Nat

\* An anchor is never in the future, so an elapsed time is never negative
\* (unsigned in the code: it would wrap to an enormous count).
AnchorsPast == \A ch \in Channel : tmr_at[ch] <= cycles

\* While channel 0 is armed its precomputed deadline is the cycle at which
\* the count derived from the current preload and anchor reaches TOP: no
\* write leaves a deadline behind that belongs to an earlier anchor
\* (io.c:58-64 against io.c:49-53).
DeadlineExact ==
  irq_at # Never => irq_at = tmr_at[0] + (TOP - tmr_pre[0]) * DIV

\* A deadline that has passed always finds the overflow flag up when the
\* handler reads TCSR0, until the 32-bit count wraps: no tick is early.
TickShowsOverflow ==
  Due(cycles) /\ tmr_pre[0] + (cycles - tmr_at[0]) \div DIV < WRAP
    => ReadOvf(0)

\* "One interrupt per arming is the whole of the scheduling here"
\* (io.c:56): between two armings of channel 0 at most one is delivered,
\* and while a deadline is pending none has been.
OneTickPerArming == served <= 1 /\ (irq_at # Never => served = 0)

\* Only contexts with interrupts enabled are interrupted, so every RTE
\* re-enables them, at any nesting depth (io.c:74, emit.py:483-490).
InterruptedUnmasked == \A k \in 1 .. Len(stack) : ~stack[k].ccr.i

\* Writing zero to OVF makes the flag read zero: "clearing OVF has to move
\* the anchor with it or the derived count would still be past 0x100 and
\* the flag would come straight back" (io.c:176-178).
ClearTakes ==
  [][\A ch \in Channel :
       WriteTcsr(ch, FALSE) /\ cycles' = cycles => ~ReadOvf(ch)']_vars

\* The flag, once up, comes down only when its own channel is re-anchored
\* by a write, until the 32-bit count wraps: passing time, interrupts and
\* the other channel's writes leave it up, so a poll loop cannot miss it.
OvfSticky ==
  [][\A ch \in Channel :
       /\ ReadOvf(ch)
       /\ ~ReadOvf(ch)'
       /\ tmr_pre[ch] + (cycles' - tmr_at[ch]) \div DIV < WRAP
       => tmr_at'[ch] = cycles]_vars

\* A pending tick disappears only by being delivered, or by a poll that
\* finds OVIE clear: no register write disarms channel 0 (tmr_rearm's
\* "never" is not reachable from a write).
TickConsumedByPoll ==
  [][irq_at # Never /\ irq_at' = Never
       => served' = served + 1 \/ (~ovie /\ ~ccr.i /\ Due(cycles'))]_vars
=============================================================================
