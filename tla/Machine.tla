------------------------------ MODULE Machine ------------------------------
(***************************************************************************)
(* A translated image running: the run loop and chunk functions            *)
(* tools/emit.py generates, the timer they poll (Timer.tla), and the       *)
(* frontend that calls cy_run in slices.                                   *)
(*                                                                         *)
(* emit.py cuts the sorted instruction addresses into chunks, one C        *)
(* function each with a label per instruction.  Inside a chunk control     *)
(* moves by falling through and by goto; c->pc is written only when        *)
(* control goes back to cy_run, so it is stale while a chunk runs.  The    *)
(* budget and the interrupt deadline are looked at in cy_run and on        *)
(* backward edges only.  What this must add up to is Cpu.tla.              *)
(***************************************************************************)
EXTENDS Timer, FiniteSets

CONSTANTS
  Programs,    \* the images run: functions from traced addresses to Insns
  CHUNK,       \* emit.CHUNK
  SLICE,       \* cycles a frontend grants each cy_run
  HarnessTick, \* the frontend is smoke.c's period loop, which interrupts
  Preload,     \* what the guest writes to TCNT
  Outside,     \* an address nothing traces
  Unknown,     \* the target of an indirect transfer
  Wanted,      \* the tick the guest's wait loop waits for
  TickMod      \* bound: the guest's tick counter is kept modulo this

\* emit_chunk's control-flow classes.
Kinds == {"seq", "jmp", "jcc", "call", "ret", "rte", "trap", "unk"}

ASSUME ChunkAssumption == CHUNK \in Nat \ {0}
ASSUME AddrAssumption == Addr \subseteq Nat /\ Outside \in Addr
ASSUME PreloadAssumption == Preload \in Count
ASSUME SliceAssumption == SLICE \in Nat
ASSUME TickAssumption == TickMod \in Nat \ {0}
ASSUME ProgramAssumption ==
  \A c \in Programs :
    /\ DOMAIN c \subseteq Addr
    /\ \A a \in DOMAIN c :
         /\ c[a].kind \in Kinds
         /\ c[a].len \in Nat \ {0} /\ a + c[a].len \in Addr
         /\ c[a].target \in Addr \cup {Unknown}
         /\ c[a].kind = "jcc" => c[a].target \in Addr \ {Unknown}
ASSUME ResetAssumption == 0 \in Addr

VARIABLES
  code,     \* the traced instructions
  where,    \* the chunk that owns each address, by its first instruction
  mode,     \* where the C program is: idle, loop, switch, chunk, returned
  at,       \* the label executing, when mode is "chunk"
  budget,   \* cy_run's argument
  trapped, trap_pc,
  ticks     \* the guest memory word the tick handler advances

progVars == <<code, where>>
hostVars == <<mode, budget, trapped, trap_pc>>
allVars == <<vars, progVars, hostVars, at, ticks>>

Modes == {"idle", "loop", "switch", "chunk", "returned"}

-----------------------------------------------------------------------------
(* Translation: chunk_up and `where`. *)

\* The instruction before a in address order, for an a that is not first.
Before(addrs, a) == CHOOSE b \in addrs :
  b < a /\ \A x \in addrs : x < a => x <= b

\* chunk_up: a chunk ends before the first entry point met once it holds
\* CHUNK instructions.  first[a] is the first instruction of a's chunk.
ChunkOf(addrs, entries) ==
  LET Size(b, a) == Cardinality({x \in addrs : b <= x /\ x < a})
      first[a \in addrs] ==
        IF \A x \in addrs : a <= x THEN a
        ELSE LET f == first[Before(addrs, a)]
             IN  IF Size(f, a) >= CHUNK /\ a \in entries THEN a ELSE f
  IN  first

\* Entry points are at least the call targets; seeds add any others.
CallTargets(c) == {c[a].target : a \in {x \in DOMAIN c : c[x].kind = "call"}}

-----------------------------------------------------------------------------
(* Control inside a chunk. *)

Insn == code[at]
Nxt == at + Insn.len
Mine(a) == a \in DOMAIN code /\ where[a] = where[at]

\* The label that follows this one in the generated text, if it is not last.
Later == {a \in DOMAIN code : a > at /\ Mine(a)}
TextNext == CHOOSE a \in Later : \A b \in Later : a <= b

Label(a) == mode' = "chunk" /\ at' = a /\ UNCHANGED pc
Leave(a) == mode' = "loop" /\ pc' = a /\ UNCHANGED at
\* Running off the end of the C function: back to cy_run with c->pc as it is.
FallOff  == mode' = "loop" /\ UNCHANGED <<pc, at>>

\* Variants of go(): no deadline on the back-edge; nothing on it at all.
GoUnpolled(target) ==
  IF ~Mine(target) THEN Leave(target) /\ UNCHANGED cycles
  ELSE IF target > at THEN Label(target) /\ UNCHANGED cycles
  ELSE /\ cycles' = cycles + 1
       /\ IF cycles >= budget THEN Leave(target) ELSE Label(target)
GoFree(target) ==
  /\ IF ~Mine(target) THEN Leave(target) ELSE Label(target)
  /\ UNCHANGED cycles

\* emit_chunk's go(target, frm).
Go(target) ==
  IF ~Mine(target) THEN Leave(target) /\ UNCHANGED cycles
  ELSE IF target > at THEN Label(target) /\ UNCHANGED cycles
  ELSE /\ cycles' = cycles + 1
       /\ IF cycles >= budget \/ (Due(cycles') /\ ~ccr.i)
            THEN Leave(target)
            ELSE Label(target)

\* Variant: the text that follows taken for the next instruction.
FallThroughText ==
  IF Later # {} THEN Label(TextNext) ELSE Leave(Nxt)

\* After a sequential instruction: fall into the next label only if it is
\* the next instruction.
FallThrough ==
  IF Later # {} /\ TextNext = Nxt THEN Label(Nxt) ELSE Leave(Nxt)

\* After a conditional branch not taken: emit_chunk goes on to the next
\* instruction without that test, so whatever text follows runs.
FallUnchecked ==
  IF Later # {} THEN Label(TextNext) ELSE FallOff

-----------------------------------------------------------------------------
(* Instructions. *)

\* The statements body() gives a sequential instruction, for those with an
\* effect on control, the timer or the flag kept here; "cmp" is any other
\* instruction that sets flags, "nop" one that does not.
Effect(op) ==
  \/ op = "nop" /\ UNCHANGED <<timerVars, ccr, ticks>>
  \/ op = "arm" /\ WriteTcnt(0, Preload) /\ UNCHANGED <<ccr, ticks>>
  \/ op = "arm1" /\ WriteTcnt(1, Preload) /\ UNCHANGED <<ccr, ticks>>
  \/ op = "ack" /\ WriteTcsr(0, FALSE) /\ UNCHANGED <<ccr, ticks>>
  \/ op = "ovie" /\ WriteTcr0(TRUE) /\ UNCHANGED <<ccr, ticks>>
  \/ /\ op \in {"mask", "unmask"}
     /\ ccr' = [ccr EXCEPT !.i = (op = "mask")]
     /\ UNCHANGED <<timerVars, ticks>>
  \/ /\ op = "test"
     /\ ccr' = [ccr EXCEPT !.z = (ticks = Wanted)]
     /\ UNCHANGED <<timerVars, ticks>>
  \/ /\ op = "ovf1"                      \* btst #5, @TCSR1
     /\ ccr' = [ccr EXCEPT !.z = ~ReadOvf(1)]
     /\ UNCHANGED <<timerVars, ticks>>
  \/ /\ op = "inc"
     /\ ticks' = (ticks + 1) % TickMod
     /\ UNCHANGED <<timerVars, ccr>>
  \/ /\ op = "cmp"
     /\ \E b \in BOOLEAN : ccr' = [ccr EXCEPT !.z = b]
     /\ UNCHANGED <<timerVars, ticks>>

Clear == [i |-> FALSE, z |-> FALSE]
Top == IF stack = << >> THEN [ccr |-> Clear, pc |-> Outside] ELSE stack[1]
Rest == IF stack = << >> THEN << >> ELSE Tail(stack)
Push(w) == Len(stack) < MaxFrames /\ stack' = <<w>> \o stack
Taken == IF Insn.op = "beq" THEN ccr.z ELSE ~ccr.z

Execute(kind) ==
  /\ mode = "chunk"
  /\ Insn.kind = kind
  /\ UNCHANGED <<progVars, budget>>

Sequential ==
  /\ Execute("seq") /\ Insn.op # "unimplemented"
  /\ Effect(Insn.op)
  /\ FallThrough
  /\ UNCHANGED <<cycles, stack, trapped, trap_pc>>

DirectJump ==
  /\ Execute("jmp") /\ Insn.target # Unknown
  /\ Go(Insn.target)
  /\ UNCHANGED <<timerVars, ccr, stack, ticks, trapped, trap_pc>>

Branch ==
  /\ Execute("jcc")
  /\ IF Taken THEN Go(Insn.target) ELSE FallUnchecked /\ UNCHANGED cycles
  /\ UNCHANGED <<timerVars, ccr, stack, ticks, trapped, trap_pc>>

DirectCall ==
  /\ Execute("call") /\ Insn.target # Unknown
  /\ Push([ccr |-> Clear, pc |-> Nxt])
  /\ Go(Insn.target)
  /\ UNCHANGED <<timerVars, ccr, ticks, trapped, trap_pc>>

\* jmp/jsr @ERn and @@aa:8: the target is whatever the register holds.
Indirect ==
  /\ Execute("jmp") \/ Execute("call")
  /\ Insn.target = Unknown
  /\ IF Insn.kind = "call"
       THEN Push([ccr |-> Clear, pc |-> Nxt]) ELSE UNCHANGED stack
  /\ \E a \in Addr : Leave(a)
  /\ UNCHANGED <<cycles, timerVars, ccr, ticks, trapped, trap_pc>>

\* Variant: an RTE that restores only the PC.
ReturnPcOnly ==
  /\ Execute("ret") \/ Execute("rte")
  /\ stack' = Rest
  /\ Leave(Top.pc)
  /\ UNCHANGED <<cycles, timerVars, ccr, ticks, trapped, trap_pc>>

Return ==
  /\ Execute("ret") \/ Execute("rte")
  /\ ccr' = IF Insn.kind = "rte" THEN Top.ccr ELSE ccr
  /\ stack' = Rest
  /\ Leave(Top.pc)
  /\ UNCHANGED <<cycles, timerVars, ticks, trapped, trap_pc>>

Trap ==
  /\ \/ Execute("trap") \/ Execute("unk")
     \/ Execute("seq") /\ Insn.op = "unimplemented"
  /\ trapped' = IF Insn.kind = "seq" THEN 2 ELSE 1
  /\ trap_pc' = at
  /\ FallOff
  /\ UNCHANGED <<cycles, timerVars, ccr, stack, ticks>>

-----------------------------------------------------------------------------
(* cy_run and the frontend. *)

\* Variant: the budget tested with > at the loop head.
PollLate ==
  /\ mode = "loop" /\ trapped = 0
  /\ Len(stack) < MaxFrames
  /\ cycles' = cycles + 1
  /\ IF cycles > budget
       THEN mode' = "returned" /\ UNCHANGED <<timerVars, pc, ccr, stack>>
       ELSE mode' = "switch" /\ IrqPoll(cycles')
  /\ UNCHANGED <<progVars, at, budget, trapped, trap_pc, ticks>>

\* The loop head: count, give up if the budget is spent, else poll.
Poll ==
  /\ mode = "loop" /\ trapped = 0
  /\ Len(stack) < MaxFrames
  /\ cycles' = cycles + 1
  /\ IF cycles >= budget
       THEN mode' = "returned" /\ UNCHANGED <<timerVars, pc, ccr, stack>>
       ELSE mode' = "switch" /\ IrqPoll(cycles')
  /\ UNCHANGED <<progVars, at, budget, trapped, trap_pc, ticks>>

\* The switch on cy_chunk_of(c->pc), and the chunk's own entry switch.
Switch ==
  /\ mode = "switch"
  /\ IF pc \in DOMAIN code
       THEN mode' = "chunk" /\ at' = pc /\ UNCHANGED <<trapped, trap_pc>>
       ELSE mode' = "returned" /\ trapped' = 1 /\ trap_pc' = pc /\ UNCHANGED at
  /\ UNCHANGED <<vars, progVars, budget, ticks>>

\* while (!c->trapped) ends.
StopOnTrap ==
  /\ mode = "loop" /\ trapped # 0
  /\ mode' = "returned"
  /\ UNCHANGED <<vars, progVars, at, budget, trapped, trap_pc, ticks>>

\* cy_run(c, c->cycles + SLICE), unless trapped.
Call_cy_run ==
  /\ mode = "idle" /\ trapped = 0
  /\ cycles + SLICE + 2 <= MaxCycles
  /\ budget' = cycles + SLICE
  /\ mode' = "loop"
  /\ UNCHANGED <<vars, progVars, at, trapped, trap_pc, ticks>>

\* Between two slices; smoke.c delivers its own interrupt here, only to an
\* unmasked machine.
Frontend ==
  /\ mode = "returned" /\ trapped = 0
  /\ mode' = "idle"
  /\ IF HarnessTick /\ ~ccr.i /\ Len(stack) < MaxFrames
       THEN Interrupt ELSE UNCHANGED <<pc, ccr, stack>>
  /\ UNCHANGED <<cycles, timerVars, progVars, at, budget, trapped, trap_pc,
                 ticks>>

MachineInit ==
  /\ TmrInit
  /\ code \in Programs
  /\ \E entries \in SUBSET DOMAIN code :
       /\ CallTargets(code) \cap DOMAIN code \subseteq entries
       /\ where = ChunkOf(DOMAIN code, entries)
  /\ pc = 0 /\ at = 0
  /\ mode = "idle" /\ budget = 0 /\ trapped = 0 /\ trap_pc = 0
  /\ ticks = 0

MachineNext ==
  \/ Call_cy_run \/ Poll \/ Switch \/ StopOnTrap \/ Frontend
  \/ Sequential \/ DirectJump \/ Branch \/ DirectCall \/ Indirect
  \/ Return \/ Trap

MachineSpec == MachineInit /\ [][MachineNext]_allVars

\* The images emit.py translates as meant: the text after a conditional
\* branch is the next instruction (NotTakenGoesOn has one where it is not).
BranchesFallInside ==
  \A a \in DOMAIN code : code[a].kind = "jcc" =>
    /\ a + code[a].len \in DOMAIN code
    /\ where[a + code[a].len] = where[a]
    /\ \A b \in DOMAIN code : b > a => b >= a + code[a].len

InsideInit == MachineInit /\ BranchesFallInside
InsideSpec == InsideInit /\ [][MachineNext]_allVars

\* The generated code is sequential and cy_run does what it can until it
\* returns; the frontend keeps calling it.
FairMachineSpec == MachineSpec /\ WF_allVars(MachineNext)

-----------------------------------------------------------------------------
(* Properties. *)

MachineTypeOK ==
  /\ TypeOK
  /\ DOMAIN code \subseteq Addr
  /\ mode \in Modes
  /\ at \in Addr /\ trap_pc \in Addr
  /\ mode = "chunk" => at \in DOMAIN code
  /\ budget \in Nat
  /\ trapped \in 0 .. 2
  /\ ticks \in 0 .. (TickMod - 1)

\* The address of the next instruction, wherever the C program keeps it.
NextInsn == IF mode = "chunk" THEN at
            ELSE IF trapped # 0 THEN trap_pc ELSE pc

CpuView == INSTANCE Cpu WITH pc <- NextInsn, halted <- (trapped # 0)

\* Chunks, stale PCs, budget returns and interrupt polls are invisible: the
\* translated image runs its instructions one by one, in program order, and
\* is interrupted only between two of them and only while unmasked; every
\* RTE brings back the interrupted PC and flags (emit.py:413-521).
ImplementsCpu == CpuView!CpuSpec

\* cy_run gives back control at most two cycles past its budget, however
\* its chunks loop: the back-edge that notices and the loop head that
\* returns each count one more (emit.py:436, 537).
BudgetKept == mode # "idle" => cycles <= budget + 2

\* Inside a chunk control goes back to an earlier (or the same) label only
\* after counting a cycle, with budget left and no deliverable tick: "polling
\* only in cy_run would leave it spinning against a clock only the interrupt
\* moves" (emit.py:428-431).
BackEdgesPolled ==
  [][mode = "chunk" /\ mode' = "chunk" /\ at' <= at
       => /\ cycles' = cycles + 1
          /\ cycles < budget
          /\ ~(Due(cycles') /\ ~ccr'.i)]_allVars

\* A conditional branch not taken goes on with the next instruction: "fall
\* through only if the next instruction really is the next label"
\* (emit.py:515).
NotTakenGoesOn ==
  [][mode = "chunk" /\ Insn.kind = "jcc" /\ ~Taken /\ cycles' = cycles
       => NextInsn' = Nxt]_allVars

\* A wait loop ends.  A guest that spins on its tick counter gets its ticks,
\* one after another, and one that busy-waits on channel 1's overflow flag
\* sees it, however the budget slices and chunk cuts fall (every program of
\* the guest run ends in an undecodable opcode at WaitDone).
WaitEnds(done) == <>(trapped = 1 /\ trap_pc = done)

\* cy_run returns: every loop of every program has an edge that counts
\* against the budget (emit.py:421-426).
CyRunReturns == mode = "loop" ~> mode = "returned"
=============================================================================
