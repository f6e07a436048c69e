-------------------------------- MODULE Cpu --------------------------------
(***************************************************************************)
(* What a translated image promises: a processor that executes the traced  *)
(* instructions one at a time and takes an interrupt only between two of   *)
(* them, with the mask clear.  It knows no chunks, no dispatch, no budget  *)
(* and no clock, so what depends on time is left open: an interrupt may    *)
(* come at any boundary and a poll of the timer may read either value.     *)
(*                                                                         *)
(* Machine.tla is shown to implement it.                                   *)
(***************************************************************************)
EXTENDS Integers, Sequences

CONSTANTS
  Addr,      \* guest addresses, numbers
  Handler,   \* where the tick vector points
  Outside,   \* an address nothing traces; what lies above the first frame
  Unknown,   \* Insn.target when it is in a register or behind a pointer
  Wanted,    \* the tick the guest's wait loop waits for
  TickMod    \* the guest's tick counter is kept modulo this

VARIABLES
  code,      \* the traced instructions: a function on a set of addresses
  pc, ccr,   \* the address of the next instruction; the CCR
  stack,     \* longwords pushed, newest first
  ticks,     \* the guest memory word the tick handler advances
  halted     \* stopped on a trap

cpuVars == <<code, pc, ccr, stack, ticks, halted>>

CCR == [i : BOOLEAN, z : BOOLEAN]
Longword == [ccr : CCR, pc : Addr]
Clear == [i |-> FALSE, z |-> FALSE]

\* Memory above the initial stack pointer is never a return address we trace.
Top(s) == IF s = << >> THEN [ccr |-> Clear, pc |-> Outside] ELSE s[1]
Rest(s) == IF s = << >> THEN << >> ELSE Tail(s)

\* The condition a conditional branch tests, on the flag kept here.
Taken(cond, flags) == IF cond = "beq" THEN flags.z ELSE ~flags.z

Insn == code[pc]
Next_pc == pc + Insn.len

-----------------------------------------------------------------------------

\* What one instruction that is not a transfer may do to this state.
Effect(op) ==
  \/ op \in {"nop", "arm", "arm1", "ack", "ovie"} /\ UNCHANGED <<ccr, ticks>>
  \/ op \in {"mask", "unmask"}
       /\ ccr' = [ccr EXCEPT !.i = (op = "mask")]
       /\ UNCHANGED ticks
  \/ op = "test" /\ ccr' = [ccr EXCEPT !.z = (ticks = Wanted)] /\ UNCHANGED ticks
  \/ op = "inc" /\ ticks' = (ticks + 1) % TickMod /\ UNCHANGED ccr
  \/ /\ op \in {"cmp", "ovf1"}
     /\ \E b \in BOOLEAN : ccr' = [ccr EXCEPT !.z = b]
     /\ UNCHANGED ticks

Running == ~halted /\ pc \in DOMAIN code

Sequential ==
  /\ Running /\ Insn.kind = "seq" /\ Insn.op # "unimplemented"
  /\ Effect(Insn.op)
  /\ pc' = Next_pc
  /\ UNCHANGED <<code, stack, halted>>

\* An unknown target may be any address.
Jump ==
  /\ Running /\ Insn.kind \in {"jmp", "call"}
  /\ pc' \in IF Insn.target = Unknown THEN Addr ELSE {Insn.target}
  /\ stack' = IF Insn.kind = "call"
                THEN <<[ccr |-> Clear, pc |-> Next_pc]>> \o stack
                ELSE stack
  /\ UNCHANGED <<code, ccr, ticks, halted>>

Branch ==
  /\ Running /\ Insn.kind = "jcc"
  /\ pc' = IF Taken(Insn.op, ccr) THEN Insn.target ELSE Next_pc
  /\ UNCHANGED <<code, ccr, stack, ticks, halted>>

Return ==
  /\ Running /\ Insn.kind \in {"ret", "rte"}
  /\ pc' = Top(stack).pc
  /\ ccr' = IF Insn.kind = "rte" THEN Top(stack).ccr ELSE ccr
  /\ stack' = Rest(stack)
  /\ UNCHANGED <<code, ticks, halted>>

\* A trap, an undecodable or unimplemented opcode, or no code at all.
Halt ==
  /\ ~halted
  /\ \/ pc \notin DOMAIN code
     \/ Insn.kind \in {"trap", "unk"}
     \/ Insn.op = "unimplemented"
  /\ halted' = TRUE
  /\ UNCHANGED <<code, pc, ccr, stack, ticks>>

TakeInterrupt ==
  /\ ~halted /\ ~ccr.i
  /\ stack' = <<[ccr |-> ccr, pc |-> pc]>> \o stack
  /\ ccr' = [ccr EXCEPT !.i = TRUE]
  /\ pc' = Handler
  /\ UNCHANGED <<code, ticks, halted>>

CpuInit ==
  /\ pc \in Addr
  /\ ccr = Clear /\ stack = << >> /\ ticks = 0 /\ halted = FALSE

CpuNext == Sequential \/ Jump \/ Branch \/ Return \/ Halt \/ TakeInterrupt

CpuSpec == CpuInit /\ [][CpuNext]_cpuVars
=============================================================================
