---------------------------- MODULE MachineProofs ----------------------------
(***************************************************************************)
(* Proofs about Machine.tla, about Sdl.tla, the window over it, and about  *)
(* the busy-wait of Guest.tla in that window.                              *)
(*                                                                         *)
(* The machine is any set of programs, cut in any way, with any budget and *)
(* any timer.  Nothing is assumed of the cut, so the proofs do not look    *)
(* into ChunkOf: a chunk is any set of instructions that `where` maps to   *)
(* one value.                                                              *)
(*                                                                         *)
(* The inductive invariant joins the timer's (TimerProofs) with what holds *)
(* of the C program at each place it can be in: how far past the budget    *)
(* the clock may be there, and that code only runs while nothing trapped.  *)
(*                                                                         *)
(* The window, for every keyboard matrix and host keymap, is invisible to  *)
(* the machine it runs, so what is shown of an image holds of it in the    *)
(* window too; and the matrix follows the host's keys.                     *)
(***************************************************************************)
EXTENDS Guest, TimerProofs, WellFoundedInduction

MachineInv ==
  /\ TimerInv
  /\ MachineTypeOK
  /\ code \in Programs
  /\ mode \in {"switch", "chunk"} => trapped = 0 /\ cycles <= budget
  /\ mode = "loop" => cycles <= budget + 1
  /\ BudgetKept

-----------------------------------------------------------------------------
(* Helpers. *)

\* A nonempty set of naturals has a least element: the next label in the
\* text of a chunk exists whenever the chunk has one left.
LEMMA NatMin ==
  ASSUME NEW T, T \subseteq Nat, T # {}
  PROVE  \E x \in T : \A y \in T : x <= y
<1> DEFINE R == OpToRel(<, Nat)
<1>1. IsWellFoundedOn(R, Nat)
  BY NatLessThanWellFounded
<1>2. \A x, y \in Nat : x < y => <<x, y>> \in R
  BY DEF OpToRel
<1> HIDE DEF R
<1>3. PICK x \in T : \A y \in T : <<y, x>> \notin R
  BY <1>1, WFMin
<1>4. \A y \in T : ~(y < x)
  BY <1>2, <1>3
<1>5. \A y \in T : x <= y
  BY <1>4
<1> QED
  BY <1>5

\* A stack of unmasked frames is a stack of longwords.
LEMMA FramesAreLongwords ==
  ASSUME NEW s \in Seq(UnmaskedFrame)
  PROVE  s \in Seq(Longword)
<1>1. UnmaskedFrame \subseteq Longword
  BY DEF UnmaskedFrame
<1> QED
  BY <1>1, SeqDef

\* Each instruction of a program is well formed and so is its successor.
LEMMA InsnOK ==
  ASSUME MachineInv, mode = "chunk"
  PROVE  /\ at \in DOMAIN code /\ at \in Nat
         /\ Insn.kind \in Kinds
         /\ Insn.target \in Addr \cup {Unknown}
         /\ Insn.kind = "jcc" => Insn.target \in Addr /\ Insn.target # Unknown
         /\ Nxt \in Addr /\ Nxt \in Nat /\ Nxt > at
<1>1. at \in DOMAIN code /\ code \in Programs /\ at \in Nat
  BY AddrAssumption DEF MachineInv, MachineTypeOK
<1>2. Insn.len \in Nat \ {0} /\ Nxt \in Addr
  BY <1>1, ProgramAssumption DEF Insn, Nxt
<1> QED
  BY <1>1, <1>2, ProgramAssumption, AddrAssumption DEF Insn, Nxt

\* The text after a label, if any, is a label of the program.
LEMMA TextNextIsLabel ==
  ASSUME MachineInv, Later # {}
  PROVE  TextNext \in Later /\ TextNext \in DOMAIN code
<1>1. Later \subseteq Nat /\ Later \subseteq DOMAIN code
  BY AddrAssumption DEF MachineInv, MachineTypeOK, Later
<1>2. \E a \in Later : \A b \in Later : a <= b
  BY <1>1, NatMin
<1>3. TextNext \in Later
  BY <1>2 DEF TextNext
<1> QED
  BY <1>1, <1>3

-----------------------------------------------------------------------------
(* What each part of a step keeps. *)

\* The clock runs, the CPU moves on, and no timer register is written.
LEMMA ClockKeeps ==
  ASSUME TimerInv, UNCHANGED timerVars,
         cycles' = cycles \/ cycles' = cycles + 1,
         pc' \in Addr, ccr' \in CCR, stack' \in Seq(UnmaskedFrame)
  PROVE  TimerInv'
<1> USE DEF TimerInv
<1>1. TypeOK'
  BY FramesAreLongwords DEF TypeOK, timerVars
<1>2. AnchorsPast'
  BY DEF AnchorsPast, TypeOK, timerVars
<1> QED
  BY <1>1, <1>2 DEF DeadlineExact, OneTickPerArming, FlagDerived, timerVars

\* A sequential instruction.
LEMMA EffectKeeps ==
  ASSUME TimerInv, ticks \in 0 .. (TickMod - 1), NEW op, Effect(op),
         UNCHANGED <<cycles, stack>>, pc' \in Addr
  PROVE  TimerInv' /\ ticks' \in 0 .. (TickMod - 1)
<1>1. CASE UNCHANGED timerVars /\ ccr' \in CCR
  <2>1. TimerInv'
    BY <1>1, ClockKeeps DEF TimerInv
  <2>2. ticks' = ticks \/ ticks' = (ticks + 1) % TickMod
    BY DEF Effect
  <2>3. ticks' \in 0 .. (TickMod - 1)
    BY <2>2, TickAssumption
  <2> QED
    BY <2>1, <2>3
<1>2. ASSUME NEW ch \in Channel, WriteTcnt(ch, Preload), UNCHANGED <<ccr, ticks>>
      PROVE  TimerInv' /\ ticks' \in 0 .. (TickMod - 1)
  <2>1. Anchor(ch, Preload) /\ UNCHANGED <<tmr_csr, ovie>>
    BY <1>2 DEF WriteTcnt
  <2> QED
    BY <1>2, <2>1, AnchorInv, PreloadAssumption
       DEF TimerInv, TypeOK, FlagDerived
<1>3. ASSUME WriteTcsr(0, FALSE), UNCHANGED <<ccr, ticks>>
      PROVE  TimerInv' /\ ticks' \in 0 .. (TickMod - 1)
  <2>1. /\ tmr_csr' \in [Channel -> BOOLEAN] /\ FlagDerived'
        /\ ovie' = ovie /\ 0 \in Channel
    BY <1>3 DEF WriteTcsr, TimerInv, TypeOK, FlagDerived, Channel
  <2>2. CASE Anchor(0, TmrCount(0) % TOP)
    BY <1>3, <2>1, <2>2, AnchorInv, TruncatedCount DEF TimerInv, TypeOK
  <2>3. CASE UNCHANGED <<tmr_pre, tmr_at, irq_at, served>>
    BY <1>3, <2>1, <2>3
       DEF TimerInv, TypeOK, AnchorsPast, DeadlineExact, OneTickPerArming
  <2> QED
    BY <1>3, <2>2, <2>3 DEF WriteTcsr
<1>4. ASSUME WriteTcr0(TRUE), UNCHANGED <<ccr, ticks>>
      PROVE  TimerInv' /\ ticks' \in 0 .. (TickMod - 1)
  BY <1>4 DEF WriteTcr0, TimerInv, TypeOK, AnchorsPast, DeadlineExact,
              OneTickPerArming, FlagDerived
<1> QED
  <2>1. ccr \in CCR
    BY DEF TimerInv, TypeOK
  <2>2. \A b \in BOOLEAN : /\ [ccr EXCEPT !.i = b] \in CCR
                           /\ [ccr EXCEPT !.z = b] \in CCR
    BY <2>1 DEF CCR
  <2>3. (op = "mask") \in BOOLEAN /\ (ticks = Wanted) \in BOOLEAN
        /\ (~ReadOvf(1)) \in BOOLEAN
    OBVIOUS
  <2>4. \/ UNCHANGED timerVars /\ ccr' \in CCR
        \/ WriteTcnt(0, Preload) /\ UNCHANGED <<ccr, ticks>>
        \/ WriteTcnt(1, Preload) /\ UNCHANGED <<ccr, ticks>>
        \/ WriteTcsr(0, FALSE) /\ UNCHANGED <<ccr, ticks>>
        \/ WriteTcr0(TRUE) /\ UNCHANGED <<ccr, ticks>>
    BY <2>1, <2>2, <2>3 DEF Effect
  <2> QED
    BY <1>1, <1>2, <1>3, <1>4, <2>4 DEF Channel

\* Where a transfer leaves the C program: at the label inside the chunk, or
\* in cy_run with c->pc brought up to date; counted if it went back.
LEMMA GoKeeps ==
  ASSUME MachineInv, mode = "chunk", NEW target \in Addr, Go(target)
  PROVE  /\ \/ mode' = "chunk" /\ at' = target /\ at' \in DOMAIN code
            \/ mode' = "loop" /\ at' = at
         /\ at' \in Addr
         /\ pc' \in Addr
         /\ cycles' = cycles \/ cycles' = cycles + 1
         /\ mode' = "chunk" => cycles' <= budget
         /\ cycles' <= budget + 1
<1>1. cycles \in Nat /\ budget \in Nat /\ cycles <= budget
  BY DEF MachineInv, MachineTypeOK, TimerInv, TypeOK
<1>2. at \in Addr /\ pc \in Addr
  BY DEF MachineInv, MachineTypeOK, TimerInv, TypeOK
<1>3. CASE ~Mine(target)
  BY <1>1, <1>2, <1>3 DEF Go, Leave
<1>4. CASE Mine(target) /\ target > at
  BY <1>1, <1>2, <1>4 DEF Go, Label, Mine
<1>5. CASE Mine(target) /\ ~(target > at)
  BY <1>1, <1>2, <1>5 DEF Go, Label, Leave, Mine
<1> QED
  BY <1>3, <1>4, <1>5

\* The same of falling into the text that follows, tested or not.
LEMMA FallKeeps ==
  ASSUME MachineInv, mode = "chunk", FallThrough \/ FallUnchecked
  PROVE  /\ \/ mode' = "chunk" /\ at' \in DOMAIN code
            \/ mode' = "loop" /\ at' = at
         /\ at' \in Addr
         /\ pc' \in Addr
<1>1. at \in Addr /\ pc \in Addr /\ DOMAIN code \subseteq Addr
  BY DEF MachineInv, MachineTypeOK, TimerInv, TypeOK
<1>2. Nxt \in Addr
  BY InsnOK
<1>3. Later # {} => TextNext \in DOMAIN code
  BY TextNextIsLabel
<1> QED
  BY <1>1, <1>2, <1>3 DEF FallThrough, FallUnchecked, Label, Leave, FallOff

\* A longword pushed as a return address, and the top of any stack.
LEMMA FrameTypes ==
  ASSUME MachineInv
  PROVE  /\ \A a \in Addr : [ccr |-> Clear, pc |-> a] \in UnmaskedFrame
         /\ Top \in UnmaskedFrame
         /\ Rest \in Seq(UnmaskedFrame)
<1>1. stack \in Seq(UnmaskedFrame) /\ Outside \in Addr
  BY AddrAssumption DEF MachineInv, TimerInv
<1>2. \A a \in Addr : [ccr |-> Clear, pc |-> a] \in UnmaskedFrame
  BY DEF UnmaskedFrame, Longword, CCR, Clear
<1>3. CASE stack = << >>
  BY <1>1, <1>2, <1>3 DEF Top, Rest
<1>4. CASE stack # << >>
  BY <1>1, <1>2, <1>4, PopSeq DEF Top, Rest
<1> QED
  BY <1>2, <1>3, <1>4

-----------------------------------------------------------------------------
(* The invariant. *)

LEMMA MachineInitInv == MachineInit => MachineInv
<1> SUFFICES ASSUME MachineInit PROVE MachineInv
  OBVIOUS
<1>1. Init
  BY ResetAssumption DEF MachineInit, Init
<1>2. TimerInv
  BY <1>1, InitInv
<1>3. MachineTypeOK
  BY <1>2, ProgramAssumption, ResetAssumption, TickAssumption
     DEF MachineInit, MachineTypeOK, Modes, TimerInv
<1> QED
  BY <1>2, <1>3 DEF MachineInit, MachineInv, BudgetKept

\* One turn of the loop of cy_run, the calls round it and its dispatch.
LEMMA RunLoopKeeps ==
  ASSUME MachineInv,
         Call_cy_run \/ Poll \/ Switch \/ StopOnTrap \/ Frontend
  PROVE  MachineInv'
<1> USE DEF MachineInv, MachineTypeOK
<1>0. cycles \in Nat /\ budget \in Nat
  BY DEF TimerInv, TypeOK
<1>t. TimerInv' => TypeOK'
  BY DEF TimerInv
<1>1. ASSUME UNCHANGED vars PROVE TimerInv'
  <2>1. UNCHANGED timerVars /\ cycles' = cycles /\ pc' \in Addr /\ ccr' \in CCR
        /\ stack' \in Seq(UnmaskedFrame)
    BY <1>1 DEF vars, TimerInv, TypeOK
  <2> QED
    BY <2>1, ClockKeeps
<1>2. CASE Call_cy_run
  <2>1. budget' \in Nat /\ cycles' <= budget' + 1 /\ cycles' <= budget' + 2
    BY <1>0, <1>2, SliceAssumption DEF Call_cy_run, vars
  <2>2. TimerInv'
    BY <1>1, <1>2 DEF Call_cy_run
  <2> QED
    BY <1>t, <1>2, <2>1, <2>2 DEF Call_cy_run, progVars, Modes, BudgetKept
<1>3. CASE Poll
  <2>1. cycles' = cycles + 1 /\ cycles' \in Nat /\ cycles' >= cycles
    BY <1>0, <1>3 DEF Poll
  <2>2. CASE cycles >= budget
    <3>1. TimerInv'
      <4>1. UNCHANGED timerVars /\ pc' \in Addr /\ ccr' \in CCR
            /\ stack' \in Seq(UnmaskedFrame)
        BY <1>3, <2>2 DEF Poll, TimerInv, TypeOK
      <4> QED
        BY <2>1, <4>1, ClockKeeps
    <3>2. mode' = "returned" /\ cycles' <= budget + 2
      BY <1>0, <1>3, <2>1, <2>2 DEF Poll
    <3> QED
      BY <1>t, <1>3, <3>1, <3>2 DEF Poll, progVars, Modes, BudgetKept
  <2>3. CASE ~(cycles >= budget)
    <3>1. TimerInv'
      BY <1>3, <2>1, <2>3, PollInv DEF Poll
    <3>2. mode' = "switch" /\ cycles' <= budget /\ cycles' <= budget + 2
      BY <1>0, <1>3, <2>1, <2>3 DEF Poll
    <3> QED
      BY <1>t, <1>3, <3>1, <3>2 DEF Poll, progVars, Modes, BudgetKept
  <2> QED
    BY <2>2, <2>3
<1>4. CASE Switch
  <2>1. UNCHANGED <<cycles, pc>> /\ pc \in Addr /\ cycles' <= budget + 2
    BY <1>0, <1>4 DEF Switch, vars, TimerInv, TypeOK
  <2>2. TimerInv'
    BY <1>1, <1>4 DEF Switch
  <2>3. CASE pc \in DOMAIN code
    BY <1>t, <1>4, <2>1, <2>2, <2>3 DEF Switch, progVars, Modes, BudgetKept
  <2>4. CASE pc \notin DOMAIN code
    BY <1>t, <1>4, <2>1, <2>2, <2>4 DEF Switch, progVars, Modes, BudgetKept
  <2> QED
    BY <2>3, <2>4
<1>5. CASE StopOnTrap
  <2>1. TimerInv'
    BY <1>1, <1>5 DEF StopOnTrap
  <2>2. cycles' <= budget + 2
    BY <1>0, <1>5 DEF StopOnTrap, vars
  <2> QED
    BY <1>t, <1>5, <2>1, <2>2 DEF StopOnTrap, progVars, Modes, BudgetKept
<1>6. CASE Frontend
  <2>1. TimerInv'
    <3>1. CASE UNCHANGED <<pc, ccr, stack>>
      BY <1>1, <1>6, <3>1 DEF Frontend, vars
    <3>2. CASE ~ccr.i /\ Interrupt
      <4> DEFINE frame == [ccr |-> ccr, pc |-> pc]
      <4>1. frame \in UnmaskedFrame
        BY <3>2 DEF TimerInv, TypeOK, UnmaskedFrame, Longword
      <4>2. stack' \in Seq(UnmaskedFrame)
        BY <3>2, <4>1, PushSeq DEF Interrupt, TimerInv
      <4>3. ccr' \in CCR /\ pc' \in Addr
        BY <3>2, HandlerAssumption DEF Interrupt, TimerInv, TypeOK, CCR
      <4> QED
        BY <1>6, <4>2, <4>3, ClockKeeps DEF Frontend
    <3> QED
      BY <1>6, <3>1, <3>2 DEF Frontend
  <2> QED
    BY <1>t, <1>6, <2>1 DEF Frontend, progVars, Modes, BudgetKept
<1> QED
  BY <1>2, <1>3, <1>4, <1>5, <1>6

\* An instruction of the translated code.
LEMMA InstructionKeeps ==
  ASSUME MachineInv,
         \/ Sequential \/ DirectJump \/ Branch \/ DirectCall \/ Indirect
         \/ Return \/ Trap
  PROVE  MachineInv'
<1> USE DEF MachineInv, MachineTypeOK
<1>0. /\ cycles \in Nat /\ budget \in Nat /\ ccr \in CCR /\ stack \in Seq(UnmaskedFrame)
      /\ UNCHANGED <<progVars, budget>> /\ mode = "chunk"
      /\ trapped = 0 /\ cycles <= budget
  BY DEF TimerInv, TypeOK, Sequential, DirectJump, Branch, DirectCall, Indirect,
         Return, Trap, Execute
<1>t. TimerInv' => TypeOK'
  BY DEF TimerInv
<1>g. ASSUME TimerInv', ticks' \in 0 .. (TickMod - 1),
             (mode' = "chunk" /\ at' \in DOMAIN code) \/ mode' = "loop",
             at' \in Addr, UNCHANGED <<trapped, trap_pc>>,
             mode' = "chunk" => cycles' <= budget, cycles' <= budget + 1
      PROVE  MachineInv'
  <2>1. cycles' <= budget' + 2 /\ cycles' \in Nat
    BY <1>0, <1>g DEF TimerInv, TypeOK
  <2> QED
    BY <1>0, <1>t, <1>g, <2>1 DEF progVars, Modes, BudgetKept
<1>1. CASE Sequential
  <2>1. /\ (mode' = "chunk" /\ at' \in DOMAIN code) \/ mode' = "loop"
        /\ at' \in Addr /\ pc' \in Addr
    BY <1>0, <1>1, FallKeeps DEF Sequential
  <2>2. TimerInv' /\ ticks' \in 0 .. (TickMod - 1)
    BY <1>1, <2>1, EffectKeeps DEF Sequential
  <2>3. cycles' <= budget /\ cycles' <= budget + 1
    BY <1>0, <1>1 DEF Sequential
  <2> QED
    BY <1>1, <1>g, <2>1, <2>2, <2>3 DEF Sequential
<1>2. CASE DirectJump
  <2>1. Insn.target \in Addr /\ Go(Insn.target)
    BY <1>0, <1>2, InsnOK DEF DirectJump
  <2>2. TimerInv'
    BY <1>0, <1>2, <2>1, GoKeeps, ClockKeeps DEF DirectJump
  <2> QED
    BY <1>0, <1>2, <1>g, <2>1, <2>2, GoKeeps DEF DirectJump
<1>3. CASE Branch
  <2>1. UNCHANGED <<timerVars, ccr, stack, ticks, trapped, trap_pc>>
    BY <1>3 DEF Branch
  <2>2. CASE Taken
    <3>1. Insn.target \in Addr /\ Go(Insn.target)
      BY <1>0, <1>3, <2>2, InsnOK DEF Branch, Execute
    <3>2. TimerInv'
      BY <1>0, <2>1, <3>1, GoKeeps, ClockKeeps
    <3> QED
      BY <1>0, <1>g, <2>1, <3>1, <3>2, GoKeeps
  <2>3. CASE ~Taken
    <3>1. FallUnchecked /\ cycles' = cycles
      BY <1>3, <2>3 DEF Branch
    <3>2. TimerInv'
      BY <1>0, <2>1, <3>1, FallKeeps, ClockKeeps
    <3>3. cycles' <= budget /\ cycles' <= budget + 1
      BY <1>0, <3>1
    <3> QED
      BY <1>0, <1>g, <2>1, <3>1, <3>2, <3>3, FallKeeps
  <2> QED
    BY <2>2, <2>3
<1>4. CASE DirectCall
  <2>1. Insn.target \in Addr /\ Go(Insn.target)
    BY <1>0, <1>4, InsnOK DEF DirectCall
  <2>2. stack' \in Seq(UnmaskedFrame)
    <3>1. [ccr |-> Clear, pc |-> Nxt] \in UnmaskedFrame
      BY <1>0, InsnOK, FrameTypes
    <3> QED
      BY <1>0, <1>4, <3>1, PushSeq DEF DirectCall, Push
  <2>3. TimerInv'
    BY <1>0, <1>4, <2>1, <2>2, GoKeeps, ClockKeeps DEF DirectCall
  <2> QED
    BY <1>0, <1>4, <1>g, <2>1, <2>3, GoKeeps DEF DirectCall
<1>5. CASE Indirect
  <2>1. mode' = "loop" /\ pc' \in Addr /\ at' = at
    BY <1>5 DEF Indirect, Leave
  <2>2. stack' \in Seq(UnmaskedFrame)
    <3>1. [ccr |-> Clear, pc |-> Nxt] \in UnmaskedFrame
      BY <1>0, InsnOK, FrameTypes
    <3> QED
      BY <1>0, <1>5, <3>1, PushSeq DEF Indirect, Push
  <2>3. TimerInv'
    BY <1>0, <1>5, <2>1, <2>2, ClockKeeps DEF Indirect
  <2>4. cycles' <= budget + 1
    BY <1>0, <1>5 DEF Indirect
  <2> QED
    BY <1>0, <1>5, <1>g, <2>1, <2>3, <2>4 DEF Indirect
<1>6. CASE Return
  <2>1. mode' = "loop" /\ pc' \in Addr /\ at' = at /\ ccr' \in CCR
        /\ stack' \in Seq(UnmaskedFrame)
    BY <1>0, <1>6, FrameTypes DEF Return, Leave, UnmaskedFrame, Longword
  <2>2. TimerInv'
    BY <1>0, <1>6, <2>1, ClockKeeps DEF Return
  <2>3. cycles' <= budget + 1
    BY <1>0, <1>6 DEF Return
  <2> QED
    BY <1>0, <1>6, <1>g, <2>1, <2>2, <2>3 DEF Return
<1>7. CASE Trap
  <2>1. mode' = "loop" /\ UNCHANGED <<pc, at, cycles, timerVars, ccr, stack, ticks>>
    BY <1>7 DEF Trap, FallOff
  <2>2. TimerInv'
    <3>1. pc' \in Addr /\ ccr' \in CCR /\ stack' \in Seq(UnmaskedFrame)
      BY <1>0, <2>1 DEF TimerInv, TypeOK
    <3> QED
      BY <2>1, <3>1, ClockKeeps
  <2>3. trapped' \in 0 .. 2 /\ trap_pc' \in Addr
    BY <1>7 DEF Trap
  <2>4. cycles' <= budget' + 1 /\ cycles' <= budget' + 2
    BY <1>0, <2>1
  <2> QED
    BY <1>0, <1>t, <2>1, <2>2, <2>3, <2>4 DEF progVars, Modes, BudgetKept
<1> QED
  BY <1>1, <1>2, <1>3, <1>4, <1>5, <1>6, <1>7

LEMMA MachineStepInv == MachineInv /\ [MachineNext]_allVars => MachineInv'
<1> SUFFICES ASSUME MachineInv, [MachineNext]_allVars PROVE MachineInv'
  OBVIOUS
<1>1. CASE Call_cy_run \/ Poll \/ Switch \/ StopOnTrap \/ Frontend
  BY <1>1, RunLoopKeeps
<1>2. CASE \/ Sequential \/ DirectJump \/ Branch \/ DirectCall \/ Indirect
           \/ Return \/ Trap
  BY <1>2, InstructionKeeps
<1>3. CASE UNCHANGED allVars
  <2>1. UNCHANGED vars /\ UNCHANGED <<progVars, hostVars, at, ticks>>
    BY <1>3 DEF allVars
  <2>2. UNCHANGED timerVars /\ cycles' = cycles /\ pc' \in Addr /\ ccr' \in CCR
        /\ stack' \in Seq(UnmaskedFrame)
    BY <2>1 DEF vars, MachineInv, TimerInv, TypeOK
  <2>3. TimerInv'
    BY <2>2, ClockKeeps DEF MachineInv
  <2>4. TypeOK'
    BY <2>3 DEF TimerInv
  <2> QED
    BY <2>1, <2>2, <2>3, <2>4
       DEF MachineInv, MachineTypeOK, BudgetKept, progVars, hostVars
<1> QED
  BY <1>1, <1>2, <1>3 DEF MachineNext

\* The timer's invariant, the types of the run loop and how far past its
\* budget each of its steps may be (emit.py:421-557, io.c:55-91).
THEOREM MachineInvHolds == MachineSpec => []MachineInv
BY MachineInitInv, MachineStepInv, PTL DEF MachineSpec

-----------------------------------------------------------------------------
(* What holds of every image. *)

\* Every variable of the run loop keeps its type: what runs in a chunk is
\* always an instruction of the program, whatever text follows a label.
THEOREM MachineTypes == MachineSpec => []MachineTypeOK
<1>1. MachineInv => MachineTypeOK
  BY DEF MachineInv
<1> QED
  BY <1>1, MachineInvHolds, PTL

\* cy_run is at most two cycles past its budget, for every image and cut.
THEOREM BudgetAlwaysKept == MachineSpec => []BudgetKept
<1>1. MachineInv => BudgetKept
  BY DEF MachineInv
<1> QED
  BY <1>1, MachineInvHolds, PTL

\* The timer under translated code keeps what it keeps under an arbitrary
\* guest: the deadline is exact, a tick is delivered once, and no frame on
\* the stack, return addresses taken for frames included, is masked.
THEOREM TimerUnderCode ==
  MachineSpec => [](DeadlineExact /\ OneTickPerArming /\ InterruptedUnmasked)
<1>1. MachineInv => DeadlineExact /\ OneTickPerArming /\ InterruptedUnmasked
  BY UnmaskedStack DEF MachineInv, TimerInv
<1> QED
  BY <1>1, MachineInvHolds, PTL

\* No tick the code is given is early.
THEOREM TickNotEarlyUnderCode == MachineSpec => []TickShowsOverflow
<1>1. MachineInv => TickShowsOverflow
  BY InvShowsOverflow DEF MachineInv
<1> QED
  BY <1>1, MachineInvHolds, PTL

LEMMA MachineNextIsRegisterStep == MachineInv /\ [MachineNext]_allVars => RegisterStep
<1> SUFFICES ASSUME MachineInv, [MachineNext]_allVars PROVE RegisterStep
  OBVIOUS
<1> USE DEF RegisterStep
<1>1. CASE Call_cy_run \/ Switch \/ StopOnTrap \/ UNCHANGED allVars
  BY <1>1 DEF Call_cy_run, Switch, StopOnTrap, allVars, vars
<1>2. CASE Poll \/ Frontend
  BY <1>2 DEF Poll, Frontend
<1>3. CASE Sequential
  <2>1. PICK op : Effect(op)
    BY <1>3 DEF Sequential
  <2>2. 0 \in Channel /\ 1 \in Channel /\ Preload \in Count
    BY PreloadAssumption DEF Channel
  <2>3. cycles' = cycles
    BY <1>3 DEF Sequential
  <2>4. \/ UNCHANGED timerVars
        \/ WriteTcnt(0, Preload) \/ WriteTcnt(1, Preload)
        \/ WriteTcsr(0, FALSE) \/ WriteTcr0(TRUE)
    BY <2>1 DEF Effect
  <2> QED
    BY <2>2, <2>3, <2>4
<1>4. ASSUME NEW target, Go(target), UNCHANGED timerVars
      PROVE  RegisterStep
  BY <1>4 DEF Go
<1>5. CASE DirectJump \/ DirectCall
  BY <1>4, <1>5 DEF DirectJump, DirectCall
<1>6. CASE Branch
  BY <1>4, <1>6 DEF Branch
<1>7. CASE Indirect \/ Return \/ Trap
  BY <1>7 DEF Indirect, Return, Trap
<1> QED
  BY <1>1, <1>2, <1>3, <1>5, <1>6, <1>7 DEF MachineNext

\* What a handler's acknowledgement does: the flag of channel 0 is down after
\* it, whatever the count was.
AckTakes ==
  [][Sequential /\ Insn.op = "ack" => ~ReadOvf(0)']_allVars

LEMMA AckClears ==
  ASSUME MachineInv, Sequential, Insn.op = "ack"
  PROVE  ~ReadOvf(0)'
<1>1. WriteTcsr(0, FALSE)
  BY DEF Sequential, Effect
<1>2. cycles' = cycles
  BY DEF Sequential
<1> QED
  BY <1>1, <1>2, ClearWorks DEF MachineInv, Channel

\* Translated code, its interrupts and its budget cannot take an overflow
\* flag down, lose a pending tick or keep a cleared flag up: what io.c
\* promises an arbitrary guest it promises every image.  In particular the
\* acknowledgement of a tick takes effect.
THEOREM FlagsUnderCode ==
  MachineSpec => OvfSticky /\ TickConsumedByPoll /\ ClearTakes /\ AckTakes
<1>1. MachineInv /\ [MachineNext]_allVars
        => [\A ch \in Channel :
              /\ ReadOvf(ch)
              /\ ~ReadOvf(ch)'
              /\ tmr_pre[ch] + (cycles' - tmr_at[ch]) \div DIV < WRAP
              => tmr_at'[ch] = cycles]_vars
  BY FlagStays, MachineNextIsRegisterStep DEF MachineInv
<1>2. MachineInv /\ [MachineNext]_allVars
        => [irq_at # Never /\ irq_at' = Never
              => served' = served + 1
                   \/ (~ovie /\ ~ccr.i /\ Due(cycles'))]_vars
  BY DeadlineStays, MachineNextIsRegisterStep DEF MachineInv
<1>3. MachineInv /\ [MachineNext]_allVars
        => [\A ch \in Channel :
              WriteTcsr(ch, FALSE) /\ cycles' = cycles => ~ReadOvf(ch)']_vars
  BY ClearWorks DEF MachineInv
<1>4. MachineInv /\ [MachineNext]_allVars
        => [Sequential /\ Insn.op = "ack" => ~ReadOvf(0)']_allVars
  BY AckClears
<1> QED
  BY <1>1, <1>2, <1>3, <1>4, MachineInvHolds, PTL
     DEF MachineSpec, OvfSticky, TickConsumedByPoll, ClearTakes, AckTakes

-----------------------------------------------------------------------------
(* Backward edges. *)

\* Only Go writes a label at or before the one executing: the other ways to
\* stay in a chunk fall into later text.
LEMMA OnlyGoGoesBack ==
  ASSUME MachineInv, MachineNext, mode = "chunk", mode' = "chunk", at' <= at
  PROVE  \E target \in Addr : Go(target) /\ Mine(target) /\ ~(target > at)
                                /\ at' = target /\ ccr' = ccr
<1>0. at \in Nat
  BY InsnOK
<1>1. ASSUME FallThrough \/ FallUnchecked PROVE FALSE
  <2>1. CASE Later # {}
    <3>1. TextNext > at
      BY <2>1, TextNextIsLabel DEF Later
    <3>2. at' = TextNext
      BY <1>1, <2>1 DEF FallThrough, FallUnchecked, Label, Leave, FallOff
    <3>3. TextNext \in Nat
      BY <2>1, TextNextIsLabel, AddrAssumption DEF MachineInv, MachineTypeOK
    <3> QED
      BY <1>0, <3>1, <3>2, <3>3
  <2>2. CASE Later = {}
    BY <1>1, <2>2 DEF FallThrough, FallUnchecked, Label, Leave, FallOff
  <2> QED
    BY <2>1, <2>2
<1>2. /\ ~Call_cy_run /\ ~Poll /\ ~Switch /\ ~StopOnTrap /\ ~Frontend
      /\ ~Indirect /\ ~Return /\ ~Trap
  BY DEF Call_cy_run, Poll, Switch, StopOnTrap, Frontend, Indirect, Return, Trap,
         Leave, FallOff
<1>3. Go(Insn.target) /\ Insn.target \in Addr /\ ccr' = ccr
  <2>1. ~Sequential
    BY <1>1 DEF Sequential
  <2>2. CASE DirectJump \/ DirectCall
    BY <2>2, InsnOK DEF DirectJump, DirectCall
  <2>3. CASE Branch
    BY <1>1, <2>3, InsnOK DEF Branch, Execute
  <2> QED
    BY <1>2, <2>1, <2>2, <2>3 DEF MachineNext
<1>4. Mine(Insn.target) /\ ~(Insn.target > at) /\ at' = Insn.target
  <2>1. Mine(Insn.target) /\ at' = Insn.target
    BY <1>3 DEF Go, Label, Leave
  <2>2. ~(at' > at)
    <3>1. at' \in Nat
      BY <1>3, <2>1, AddrAssumption
    <3> QED
      BY <1>0, <3>1
  <2> QED
    BY <2>1, <2>2
<1> QED
  BY <1>3, <1>4

\* No loop inside a chunk spins past its budget or a deliverable tick: every
\* edge back is counted and looks at both (emit.py:421-444).
THEOREM BackEdgesArePolled == MachineSpec => BackEdgesPolled
<1>1. ASSUME MachineInv, MachineNext, mode = "chunk", mode' = "chunk", at' <= at
      PROVE  /\ cycles' = cycles + 1
             /\ cycles < budget
             /\ ~(Due(cycles') /\ ~ccr'.i)
  <2>1. PICK target \in Addr : /\ Go(target) /\ Mine(target) /\ ~(target > at)
                               /\ at' = target /\ ccr' = ccr
    BY <1>1, OnlyGoGoesBack
  <2>2. cycles \in Nat /\ budget \in Nat
    BY <1>1 DEF MachineInv, MachineTypeOK, TimerInv, TypeOK
  <2>3. cycles' = cycles + 1 /\ ~(cycles >= budget)
        /\ ~(Due(cycles') /\ ~ccr.i)
    BY <1>1, <2>1 DEF Go, Leave
  <2> QED
    BY <2>1, <2>2, <2>3
<1>2. MachineInv /\ [MachineNext]_allVars
        => [mode = "chunk" /\ mode' = "chunk" /\ at' <= at
              => /\ cycles' = cycles + 1
                 /\ cycles < budget
                 /\ ~(Due(cycles') /\ ~ccr'.i)]_allVars
  BY <1>1
<1> QED
  BY <1>2, MachineInvHolds, PTL DEF MachineSpec, BackEdgesPolled

-----------------------------------------------------------------------------
(* The image implements the processor of Cpu.tla. *)

\* A conditional branch not taken whose chunk goes on with other text than
\* the next instruction, or does not go on.
NotTakenAtGap ==
  /\ mode = "chunk" /\ Insn.kind = "jcc" /\ ~Taken
  /\ ~(Later # {} /\ TextNext = Nxt)

\* A chunk's transfer to a label and a return to cy_run with the address in
\* c->pc are the same to the processor.
LEMMA GoIsAJump ==
  ASSUME mode = "chunk", NEW target, Go(target), trapped = 0, trapped' = 0
  PROVE  NextInsn' = target
BY DEF Go, Label, Leave, NextInsn

LEMMA InitIsCpuInit == MachineInit => CpuView!CpuInit
BY ResetAssumption
   DEF MachineInit, TmrInit, CpuView!CpuInit, CpuView!Clear, NextInsn

\* The run loop and the frontend: nothing, an interrupt, or a halt at an
\* address without code.
LEMMA RunLoopIsCpu ==
  ASSUME MachineInv,
         Call_cy_run \/ Poll \/ Switch \/ StopOnTrap \/ Frontend
  PROVE  [CpuView!CpuNext]_(CpuView!cpuVars)
<1> USE DEF CpuView!cpuVars, NextInsn
<1>0. mode \in {"switch", "chunk"} => trapped = 0
  BY DEF MachineInv
<1>1. CASE Call_cy_run
  BY <1>1 DEF Call_cy_run, vars, progVars
<1>2. CASE Poll
  <2>1. /\ UNCHANGED <<code, ticks, trapped>> /\ trapped = 0
        /\ mode = "loop" /\ mode' \in {"switch", "returned"}
    BY <1>2 DEF Poll, progVars
  <2>2. CASE UNCHANGED <<pc, ccr, stack>>
    BY <2>1, <2>2
  <2>3. CASE ~ccr.i /\ Interrupt
    BY <2>1, <2>3 DEF Interrupt, CpuView!CpuNext, CpuView!TakeInterrupt
  <2> QED
    BY <1>2, <2>2, <2>3 DEF Poll, IrqPoll
<1>3. CASE Switch
  <2>1. /\ UNCHANGED <<code, ticks, ccr, stack, pc>>
        /\ mode = "switch" /\ trapped = 0
    BY <1>0, <1>3 DEF Switch, progVars, vars
  <2>2. CASE pc \in DOMAIN code
    BY <1>3, <2>1, <2>2 DEF Switch
  <2>3. CASE pc \notin DOMAIN code
    BY <1>3, <2>1, <2>3 DEF Switch, CpuView!CpuNext, CpuView!Halt
  <2> QED
    BY <2>2, <2>3
<1>4. CASE StopOnTrap
  BY <1>4 DEF StopOnTrap, vars, progVars
<1>5. CASE Frontend
  <2>1. /\ UNCHANGED <<code, ticks, trapped>> /\ trapped = 0
        /\ mode = "returned" /\ mode' = "idle"
    BY <1>5 DEF Frontend, progVars
  <2>2. CASE UNCHANGED <<pc, ccr, stack>>
    BY <2>1, <2>2
  <2>3. CASE ~ccr.i /\ Interrupt
    BY <2>1, <2>3 DEF Interrupt, CpuView!CpuNext, CpuView!TakeInterrupt
  <2> QED
    BY <1>5, <2>2, <2>3 DEF Frontend
<1> QED
  BY <1>1, <1>2, <1>3, <1>4, <1>5

\* What Effect does to the CPU is what the processor's Effect allows.
LEMMA EffectIsCpu ==
  ASSUME NEW op, Effect(op)
  PROVE  CpuView!Effect(op)
<1>1. (~ReadOvf(1)) \in BOOLEAN
  OBVIOUS
<1> QED
  BY <1>1 DEF Effect, CpuView!Effect

\* Each instruction is the processor's instruction at NextInsn.
LEMMA InstructionIsCpu ==
  ASSUME MachineInv, ~NotTakenAtGap,
         \/ Sequential \/ DirectJump \/ Branch \/ DirectCall \/ Indirect
         \/ Return \/ Trap
  PROVE  CpuView!CpuNext
<1>0. /\ mode = "chunk" /\ trapped = 0 /\ NextInsn = at
      /\ UNCHANGED code /\ at \in DOMAIN code /\ at \in Nat
      /\ Insn = CpuView!Insn /\ Nxt = CpuView!Next_pc
      /\ CpuView!Running
  <2>1. mode = "chunk" /\ UNCHANGED code
    BY DEF Sequential, DirectJump, Branch, DirectCall, Indirect, Return, Trap,
           Execute, progVars
  <2>2. trapped = 0 /\ at \in DOMAIN code /\ at \in Nat /\ NextInsn = at
    BY <2>1, InsnOK DEF MachineInv, NextInsn
  <2> QED
    BY <2>1, <2>2
       DEF Insn, Nxt, CpuView!Insn, CpuView!Next_pc, CpuView!Running
<1>1. CASE Sequential
  <2>1. NextInsn' = Nxt
    BY <1>0, <1>1 DEF Sequential, FallThrough, Label, Leave, NextInsn
  <2>2. CpuView!Effect(Insn.op)
    BY <1>1, EffectIsCpu DEF Sequential
  <2>3. CpuView!Sequential
    BY <1>0, <1>1, <2>1, <2>2 DEF Sequential, Execute, CpuView!Sequential
  <2> QED
    BY <2>3 DEF CpuView!CpuNext
<1>2. CASE DirectJump
  <2>1. NextInsn' = Insn.target
    BY <1>0, <1>2, GoIsAJump DEF DirectJump
  <2>2. CpuView!Jump
    BY <1>0, <1>2, <2>1 DEF DirectJump, Execute, CpuView!Jump
  <2> QED
    BY <2>2 DEF CpuView!CpuNext
<1>3. CASE Branch
  <2>1. Taken = CpuView!Taken(Insn.op, ccr)
    BY DEF Taken, CpuView!Taken
  <2>2. CASE Taken
    <3>1. NextInsn' = Insn.target
      BY <1>0, <1>3, <2>2, GoIsAJump DEF Branch
    <3>2. CpuView!Branch
      BY <1>0, <1>3, <2>1, <2>2, <3>1 DEF Branch, Execute, CpuView!Branch
    <3> QED
      BY <3>2 DEF CpuView!CpuNext
  <2>3. CASE ~Taken
    <3>1. Later # {} /\ TextNext = Nxt
      BY <1>0, <1>3, <2>3 DEF NotTakenAtGap, Branch, Execute
    <3>2. NextInsn' = Nxt
      BY <1>0, <1>3, <2>3, <3>1 DEF Branch, FallUnchecked, Label, NextInsn
    <3>3. CpuView!Branch
      BY <1>0, <1>3, <2>1, <2>3, <3>2 DEF Branch, Execute, CpuView!Branch
    <3> QED
      BY <3>3 DEF CpuView!CpuNext
  <2> QED
    BY <2>2, <2>3
<1>4. CASE DirectCall
  <2>1. NextInsn' = Insn.target
    BY <1>0, <1>4, GoIsAJump DEF DirectCall
  <2>2. stack' = <<[ccr |-> CpuView!Clear, pc |-> Nxt]>> \o stack
    BY <1>4 DEF DirectCall, Push, Clear, CpuView!Clear
  <2>3. CpuView!Jump
    BY <1>0, <1>4, <2>1, <2>2 DEF DirectCall, Execute, CpuView!Jump
  <2> QED
    BY <2>3 DEF CpuView!CpuNext
<1>5. CASE Indirect
  <2>1. NextInsn' \in Addr
    BY <1>0, <1>5 DEF Indirect, Leave, NextInsn
  <2>2. stack' = IF Insn.kind = "call"
                   THEN <<[ccr |-> CpuView!Clear, pc |-> Nxt]>> \o stack
                   ELSE stack
    BY <1>5 DEF Indirect, Push, Clear, CpuView!Clear
  <2>3. CpuView!Jump
    BY <1>0, <1>5, <2>1, <2>2 DEF Indirect, Execute, CpuView!Jump
  <2> QED
    BY <2>3 DEF CpuView!CpuNext
<1>6. CASE Return
  <2>1. Top = CpuView!Top(stack) /\ Rest = CpuView!Rest(stack)
    BY DEF Top, Rest, Clear, CpuView!Top, CpuView!Rest, CpuView!Clear
  <2>2. NextInsn' = Top.pc
    BY <1>0, <1>6 DEF Return, Leave, NextInsn
  <2>3. CpuView!Return
    BY <1>0, <1>6, <2>1, <2>2 DEF Return, Execute, CpuView!Return
  <2> QED
    BY <2>3 DEF CpuView!CpuNext
<1>7. CASE Trap
  <2>1. NextInsn' = at /\ trapped' # 0
    BY <1>7 DEF Trap, FallOff, NextInsn
  <2>2. CpuView!Halt
    BY <1>0, <1>7, <2>1 DEF Trap, Execute, CpuView!Halt
  <2> QED
    BY <2>2 DEF CpuView!CpuNext
<1> QED
  BY <1>1, <1>2, <1>3, <1>4, <1>5, <1>6, <1>7

LEMMA StepIsCpu ==
  ASSUME MachineInv, [MachineNext]_allVars, ~NotTakenAtGap
  PROVE  [CpuView!CpuNext]_(CpuView!cpuVars)
<1>1. CASE Call_cy_run \/ Poll \/ Switch \/ StopOnTrap \/ Frontend
  BY <1>1, RunLoopIsCpu
<1>2. CASE \/ Sequential \/ DirectJump \/ Branch \/ DirectCall \/ Indirect
           \/ Return \/ Trap
  BY <1>2, InstructionIsCpu
<1>3. CASE UNCHANGED allVars
  BY <1>3 DEF allVars, vars, progVars, hostVars, CpuView!cpuVars, NextInsn
<1> QED
  BY <1>1, <1>2, <1>3 DEF MachineNext

\* Where the instruction after every conditional branch is the next text of
\* its chunk, there is no gap for a branch to fall into.
LEMMA InsideHasNoGap ==
  ASSUME MachineInv, BranchesFallInside
  PROVE  ~NotTakenAtGap
<1> SUFFICES ASSUME mode = "chunk", Insn.kind = "jcc"
             PROVE  Later # {} /\ TextNext = Nxt
  BY DEF NotTakenAtGap
<1>1. /\ at \in DOMAIN code /\ Nxt \in Nat /\ Nxt > at
      /\ Later \subseteq Nat
  BY InsnOK, AddrAssumption DEF MachineInv, MachineTypeOK, Later
<1>2. Nxt \in Later
  BY <1>1 DEF BranchesFallInside, Later, Mine, Insn, Nxt
<1>3. \A b \in Later : Nxt <= b
  <2> SUFFICES ASSUME NEW b \in Later PROVE Nxt <= b
    OBVIOUS
  <2>1. b \in DOMAIN code /\ b > at /\ b \in Nat
    BY <1>1 DEF Later
  <2>2. b >= Nxt
    BY <1>1, <2>1 DEF BranchesFallInside, Insn, Nxt
  <2> QED
    BY <1>1, <2>1, <2>2
<1>4. TextNext \in Later /\ TextNext <= Nxt
  BY <1>2, <1>3 DEF TextNext
<1>5. Nxt <= TextNext /\ TextNext \in Nat
  BY <1>1, <1>3, <1>4
<1> QED
  BY <1>1, <1>2, <1>4, <1>5

\* For every image and every cut, the translated code departs from the
\* processor in one way only: a conditional branch, not taken, at the end of
\* its chunk or before other text (emit.py:515 against emit.py:459-464).
THEOREM OnlyGapsDiffer ==
  MachineSpec => /\ CpuView!CpuInit
                 /\ [][NotTakenAtGap \/ CpuView!CpuNext]_(CpuView!cpuVars)
<1>1. MachineInv /\ [MachineNext]_allVars
        => [NotTakenAtGap \/ CpuView!CpuNext]_(CpuView!cpuVars)
  BY StepIsCpu
<1> QED
  BY <1>1, InitIsCpuInit, MachineInvHolds, PTL DEF MachineSpec

\* So an image without such a branch implements the processor.
THEOREM ImplementsCpuHolds == InsideSpec => ImplementsCpu
<1>1. BranchesFallInside /\ [MachineNext]_allVars => BranchesFallInside'
  <2> SUFFICES ASSUME BranchesFallInside, [MachineNext]_allVars
               PROVE  BranchesFallInside'
    OBVIOUS
  <2>1. code' = code /\ where' = where
    BY DEF MachineNext, Call_cy_run, Poll, Switch, StopOnTrap, Frontend, Sequential,
           DirectJump, Branch, DirectCall, Indirect, Return, Trap, Execute,
           allVars, progVars
  <2> QED
    BY <2>1 DEF BranchesFallInside
<1>2. MachineInv /\ BranchesFallInside /\ [MachineNext]_allVars
        => [CpuView!CpuNext]_(CpuView!cpuVars)
  BY StepIsCpu, InsideHasNoGap
<1>3. InsideSpec => MachineSpec
  BY DEF InsideSpec, InsideInit, MachineSpec
<1>4. MachineInit => CpuView!CpuInit
  BY InitIsCpuInit
<1> QED
  BY <1>1, <1>2, <1>3, <1>4, MachineInvHolds, PTL
     DEF InsideSpec, InsideInit, ImplementsCpu, CpuView!CpuSpec

-----------------------------------------------------------------------------
(* The machine in the window. *)

LEMMA WindowStepIsMachineStep ==
  [WindowNext]_windowVars => [MachineNext]_allVars
BY DEF WindowNext, Slice, KeyEvent, QuitEvent, windowVars

\* Key events, and slices with keys between them, are steps of the machine
\* alone or none.
THEOREM WindowImplementsMachine == WindowSpec => MachineSpec
<1>1. WindowInit => MachineInit
  BY DEF WindowInit
<1> QED
  BY <1>1, WindowStepIsMachineStep, PTL DEF WindowSpec, MachineSpec

\* So the budget and the tick are kept with a user at the window as well.
THEOREM WindowKeepsMachine ==
  WindowSpec => []BudgetKept /\ BackEdgesPolled /\ []OneTickPerArming
BY WindowImplementsMachine, BudgetAlwaysKept, BackEdgesArePolled, TimerUnderCode,
   PTL

-----------------------------------------------------------------------------
(* The keys of the window. *)

KeysInv ==
  /\ col \in [Columns -> SUBSET Bits]
  /\ held \subseteq Host
  /\ running \in BOOLEAN
  /\ KeysFollowTheHost

LEMMA KeysInit == WindowInit => KeysInv
BY DEF WindowInit, KeysInv, KeysFollowTheHost, Sharing, cy_key_rows, cy_key_any

\* One key of the matrix pressed or released by one of the host's keys.
LEMMA KeyEventKeeps ==
  ASSUME KeysInv, KeyEvent
  PROVE  KeysInv'
<1> SUFFICES ASSUME NEW h \in Host, NEW down \in BOOLEAN,
                    running' \in BOOLEAN,
                    key_of[h] # NoKey,
                    col' = cy_key(key_of[h], down),
                    held' = IF down THEN held \cup {h} ELSE held \ {h}
             PROVE  KeysInv'
  <2>1. CASE UNCHANGED <<col, held>> /\ running' \in BOOLEAN
    BY <2>1 DEF KeysInv, KeysFollowTheHost, cy_key_rows, cy_key_any
  <2> QED
    BY <2>1 DEF KeyEvent, KeysInv
<1> DEFINE k == key_of[h]
<1>1. k \in Columns \X Bits /\ k[1] \in Columns /\ k[2] \in Bits /\ k = <<k[1], k[2]>>
  BY HostAssumption
<1>2. /\ col' \in [Columns -> SUBSET Bits]
      /\ \A c \in Columns, b \in Bits :
           b \in col'[c] <=> IF <<c, b>> = k THEN down ELSE b \in col[c]
  <2>1. col' = [col EXCEPT ![k[1]] = IF down THEN @ \cup {k[2]} ELSE @ \ {k[2]}]
    BY <1>1 DEF cy_key
  <2>2. col \in [Columns -> SUBSET Bits]
    BY DEF KeysInv
  <2> QED
    BY <1>1, <2>1, <2>2
<1>3. held' \subseteq Host
  BY DEF KeysInv
<1>4. \A c \in Columns : cy_key_rows({c}) = col[c] /\ cy_key_rows({c})' = col'[c]
  BY DEF cy_key_rows
<1>5. ASSUME NEW c \in Columns, NEW b \in Bits
      PROVE  /\ b \in col'[c] => Sharing(<<c, b>>) \cap held' # {}
             /\ Sharing(<<c, b>>) # {} /\ Sharing(<<c, b>>) \subseteq held'
                  => b \in col'[c]
  <2>1. /\ b \in col[c] => Sharing(<<c, b>>) \cap held # {}
        /\ Sharing(<<c, b>>) # {} /\ Sharing(<<c, b>>) \subseteq held
             => b \in col[c]
    <3>1. <<c, b>> \in Columns \X Bits /\ <<c, b>>[1] = c /\ <<c, b>>[2] = b
      OBVIOUS
    <3> QED
      BY <1>4, <3>1 DEF KeysInv, KeysFollowTheHost
  <2>2. h \in Sharing(<<c, b>>) <=> <<c, b>> = k
    BY DEF Sharing
  <2> QED
    BY <1>2, <2>1, <2>2
<1>6. KeysFollowTheHost'
  <2>1. ASSUME NEW q \in Columns \X Bits
        PROVE  /\ q[2] \in cy_key_rows({q[1]})' => Sharing(q) \cap held' # {}
               /\ Sharing(q) # {} /\ Sharing(q) \subseteq held'
                    => q[2] \in cy_key_rows({q[1]})'
    <3>1. q[1] \in Columns /\ q[2] \in Bits /\ q = <<q[1], q[2]>>
      OBVIOUS
    <3> QED
      BY <1>4, <1>5, <3>1
  <2>2. ASSUME held' = {} PROVE ~cy_key_any'
    <3> SUFFICES ASSUME NEW b \in UNION {col'[c] : c \in Columns} PROVE FALSE
      BY DEF cy_key_any, cy_key_rows
    <3>1. PICK c \in Columns : b \in col'[c]
      OBVIOUS
    <3>2. b \in Bits
      BY <1>2, <3>1
    <3> QED
      BY <1>5, <2>2, <3>1, <3>2
  <2> QED
    BY <2>1, <2>2 DEF KeysFollowTheHost, Sharing
<1> QED
  BY <1>2, <1>3, <1>6 DEF KeysInv

\* The keymap is the frontend's; the matrix is read by the guest.  Whatever
\* the map shares, no key sticks and none is lost.
THEOREM KeysAreFollowed == WindowSpec => []KeysFollowTheHost
<1>1. KeysInv /\ [WindowNext]_windowVars => KeysInv'
  <2> SUFFICES ASSUME KeysInv, [WindowNext]_windowVars PROVE KeysInv'
    OBVIOUS
  <2>1. CASE KeyEvent
    BY <2>1, KeyEventKeeps
  <2>2. CASE UNCHANGED <<col, held>> /\ running' \in BOOLEAN
    BY <2>2 DEF KeysInv, KeysFollowTheHost, cy_key_rows, cy_key_any, Sharing
  <2> QED
    BY <2>1, <2>2 DEF WindowNext, Slice, QuitEvent, windowVars, sdlVars, KeysInv
<1>2. KeysInv => KeysFollowTheHost
  BY DEF KeysInv
<1> QED
  BY <1>1, <1>2, KeysInit, PTL DEF WindowSpec

-----------------------------------------------------------------------------
(* The guest's busy-wait. *)

Waited == cycles - tmr_at[1] >= (TOP - Preload) * DIV

\* What holds where the program is, or will be when a handler returns there:
\* past 2 the channel counts from Preload, and past the loop, or with the
\* flag seen, it has overflowed.
Promised(p, z) ==
  /\ p \in 3 .. 5 => tmr_pre[1] = Preload
  /\ p = 5 \/ (p = 4 /\ ~z) => Waited

\* Ticks are taken in the program and not in their handler, so there is one
\* frame under the handler and none under the program.
Waiting(p, c, s) ==
  /\ p \in DOMAIN Delay
  /\ Promised(p, c.z)
  /\ \/ p \in 0 .. 5 /\ s = << >>
     \/ /\ p \notin 0 .. 5 /\ c.i
        /\ \E f \in Longword : s = <<f>> /\ f.pc \in 0 .. 5 /\ Promised(f.pc, f.ccr.z)

DelayInv == code = Delay =>
  /\ where[5] = where[4]
  /\ ~tmr_csr[1]
  /\ trapped # 0 => trap_pc = 5
  /\ Waiting(NextInsn, ccr, stack)

LEMMA DelayIs ==
  ASSUME Handler > 5
  PROVE  /\ Handler \in Nat /\ Handler > 5
         /\ DOMAIN Delay = (0 .. 5) \cup (Handler .. (Handler + 3))
         /\ Delay[0] = Op("arm") /\ Delay[1] = Op("ovie") /\ Delay[2] = Op("arm1")
         /\ Delay[3] = Op("ovf1") /\ Delay[4] = Ins("jcc", "beq", 3)
         /\ Delay[5] = Ins("unk", "unk", Unknown)
         /\ Delay[Handler] = Op("inc") /\ Delay[Handler + 1] = Op("ack")
         /\ Delay[Handler + 2] = Op("arm")
         /\ Delay[Handler + 3] = Ins("rte", "rte", Unknown)
<1>1. Handler \in Nat /\ Handler > 5
  BY HandlerAssumption, AddrAssumption
<1>2. DOMAIN Delay = (0 .. 5) \cup (Handler .. (Handler + 3))
  BY DEF Delay, With
<1>3. /\ Delay[0] = Op("arm") /\ Delay[1] = Op("ovie") /\ Delay[2] = Op("arm1")
      /\ Delay[3] = Op("ovf1") /\ Delay[4] = Ins("jcc", "beq", 3)
      /\ Delay[5] = Ins("unk", "unk", Unknown)
  BY <1>1 DEF Delay, With
<1>4. /\ Delay[Handler] = Op("inc") /\ Delay[Handler + 1] = Op("ack")
      /\ Delay[Handler + 2] = Op("arm") /\ Delay[Handler + 3] = Ins("rte", "rte", Unknown)
  <2>1. ASSUME NEW k \in 0 .. 3, NEW w PROVE With(w)[Handler + k] = Isr[k + 1]
    <3>1. PICK a \in Nat : a = Handler + k
      BY <1>1
    <3>2. a \in Handler .. (Handler + 3) /\ ~(a <= 5) /\ a - Handler + 1 = k + 1
      BY <1>1, <3>1
    <3>3. With(w)[a] = Isr[a - Handler + 1]
      BY <3>2 DEF With
    <3> QED
      BY <3>1, <3>2, <3>3
  <2>2. Handler + 0 = Handler
    BY <1>1
  <2> QED
    BY <2>1, <2>2 DEF Isr, Delay
<1> QED
  BY <1>1, <1>2, <1>3, <1>4

\* The flag, read with nothing stored in it, says that the wait is over.
LEMMA FlagMeansWaited ==
  ASSUME TimerInv, ~tmr_csr[1], tmr_pre[1] = Preload, ReadOvf(1)
  PROVE  Waited
<1> DEFINE e == cycles - tmr_at[1]
<1>1. e \in Nat /\ Preload \in Nat /\ DIV \in Nat /\ DIV >= 1 /\ TOP \in Nat
      /\ WRAP \in Nat /\ WRAP >= 1 /\ Preload <= TOP
  BY PreloadAssumption, TopAssumption, DivAssumption, WrapAssumption
     DEF TimerInv, TypeOK, AnchorsPast, Channel, Count
<1>2. (Preload + e \div DIV) % WRAP >= TOP
  BY DEF ReadOvf, TmrCount, CountFrom
<1> HIDE DEF e
<1>3. PICK q \in Nat : q = e \div DIV /\ e >= q * DIV
  BY <1>1, DivUpper
<1>4. PICK x \in Nat : x = Preload + q
  BY <1>1
<1>5. x % WRAP <= x
  BY <1>1, <1>4
<1>6. PICK k \in Nat : k = TOP - Preload
  BY <1>1
<1>7. q >= k
  <2>1. x % WRAP \in Nat
    BY <1>1
  <2> QED
    BY <1>1, <1>2, <1>3, <1>4, <1>5, <1>6, <2>1
<1>8. q * DIV >= k * DIV
  <2>1. PICK d \in Nat : q = k + d
    <3>1. q - k \in Nat /\ q = k + (q - k)
      BY <1>7
    <3> QED
      BY <3>1
  <2>2. q * DIV = k * DIV + d * DIV /\ d * DIV \in Nat /\ k * DIV \in Nat
    BY <1>1, <2>1
  <2> QED
    BY <2>2
<1>9. q * DIV \in Nat /\ k * DIV \in Nat
  BY <1>1
<1> QED
  BY <1>1, <1>3, <1>6, <1>8, <1>9 DEF Waited, e

\* What leaves channel 1 alone breaks no promise: time only passes.
LEMMA WaitingKept ==
  ASSUME MachineInv, cycles' = cycles \/ cycles' = cycles + 1,
         tmr_pre'[1] = tmr_pre[1], tmr_at'[1] = tmr_at[1],
         NEW p, NEW c, NEW s, Waiting(p, c, s)
  PROVE  Waiting(p, c, s)'
<1>1. cycles \in Nat /\ tmr_at[1] \in Nat
  BY DEF MachineInv, TimerInv, TypeOK, Channel
<1>2. Waited => Waited'
  <2>1. PICK w : w = (TOP - Preload) * DIV
    OBVIOUS
  <2>2. w \in Int
    BY <2>1, PreloadAssumption, TopAssumption, DivAssumption DEF Count
  <2> QED
    BY <1>1, <2>1, <2>2 DEF Waited
<1>3. ASSUME NEW q, NEW z, Promised(q, z) PROVE Promised(q, z)'
  BY <1>2, <1>3 DEF Promised
<1> QED
  BY <1>3 DEF Waiting

\* A tick is taken in the program.
LEMMA TickWaits ==
  ASSUME Handler > 5, MachineInv, NEW p, p = pc, Waiting(p, ccr, stack), ~ccr.i,
         Interrupt
  PROVE  Waiting(pc', ccr', stack')
<1>1. stack = << >> /\ p \in 0 .. 5 /\ Promised(p, ccr.z)
  BY DEF Waiting
<1>2. pc' = Handler /\ pc' \notin 0 .. 5 /\ pc' \in DOMAIN Delay /\ pc' \notin 3 .. 5
  BY DelayIs DEF Interrupt
<1> DEFINE f == [ccr |-> ccr, pc |-> pc]
<1>3. ccr \in CCR /\ pc \in Addr
  BY DEF MachineInv, TimerInv, TypeOK
<1>4. f \in Longword /\ f.pc = p /\ f.ccr = ccr
  BY <1>3 DEF Longword
<1>5. stack' = <<f>>
  <2>1. <<f>> \o << >> = <<f>>
    OBVIOUS
  <2> QED
    BY <1>1, <2>1 DEF Interrupt
<1>6. ccr'.i
  BY <1>3 DEF Interrupt, CCR
<1>7. Promised(pc', ccr'.z)
  BY <1>2, DelayIs DEF Promised
<1> HIDE DEF f
<1> QED
  BY <1>1, <1>2, <1>4, <1>5, <1>6, <1>7 DEF Waiting

\* The promises carried over a step that leaves channel 1 alone.
LEMMA DelayKept ==
  ASSUME MachineInv, code' = code, where[5] = where[4], where' = where, ~tmr_csr'[1],
         trapped' # 0 => trap_pc' = 5,
         cycles' = cycles \/ cycles' = cycles + 1,
         tmr_pre'[1] = tmr_pre[1], tmr_at'[1] = tmr_at[1],
         NEW p, NEW c, NEW s, Waiting(p, c, s),
         NextInsn' = p, ccr' = c, stack' = s
  PROVE  DelayInv'
<1>1. Waiting(p, c, s)'
  BY WaitingKept
<1>2. Waiting(NextInsn, ccr, stack)'
  BY <1>1
<1> QED
  BY <1>2 DEF DelayInv

LEMMA RunLoopWaits ==
  ASSUME Handler > 5, MachineInv, DelayInv, code = Delay,
         Call_cy_run \/ Poll \/ Switch \/ StopOnTrap \/ Frontend
  PROVE  DelayInv'
<1>0. /\ where[5] = where[4] /\ ~tmr_csr[1]
      /\ trapped # 0 => trap_pc = 5
      /\ Waiting(NextInsn, ccr, stack)
      /\ mode \in {"switch", "chunk"} => trapped = 0
  BY DEF DelayInv, MachineInv
<1>1. /\ code' = code /\ where' = where
      /\ tmr_pre' = tmr_pre /\ tmr_at' = tmr_at /\ tmr_csr' = tmr_csr
      /\ cycles' = cycles \/ cycles' = cycles + 1
  BY DEF Call_cy_run, Poll, Switch, StopOnTrap, Frontend, IrqPoll, progVars, vars, timerVars
<1>2. ASSUME NextInsn' = NextInsn, UNCHANGED <<ccr, stack, trapped, trap_pc>>
      PROVE  DelayInv'
  <2>1. PICK p, c, s : p = NextInsn /\ c = ccr /\ s = stack
    OBVIOUS
  <2> QED
    BY <1>0, <1>1, <1>2, <2>1, DelayKept
<1>3. ASSUME NextInsn = pc, NextInsn' = pc', ~ccr.i, Interrupt,
             UNCHANGED <<trapped, trap_pc>>
      PROVE  DelayInv'
  <2>1. PICK p, c, s : p = pc' /\ c = ccr' /\ s = stack'
    OBVIOUS
  <2>2. Waiting(pc', ccr', stack')
    <3>1. PICK a : a = pc
      OBVIOUS
    <3> QED
      BY <1>0, <1>3, <3>1, TickWaits
  <2>3. Waiting(p, c, s)
    BY <2>1, <2>2
  <2> QED
    BY <1>0, <1>1, <1>3, <2>1, <2>3, DelayKept
<1>4. CASE Call_cy_run
  BY <1>2, <1>4 DEF Call_cy_run, NextInsn, vars
<1>5. CASE Poll
  <2>1. mode = "loop" /\ trapped = 0 /\ mode' \in {"returned", "switch"}
        /\ UNCHANGED <<trapped, trap_pc>>
    BY <1>5 DEF Poll
  <2>2. CASE UNCHANGED <<pc, ccr, stack>>
    BY <1>2, <2>1, <2>2 DEF NextInsn
  <2>3. CASE ~ccr.i /\ Interrupt
    BY <1>3, <2>1, <2>3 DEF NextInsn
  <2> QED
    BY <1>5, <2>2, <2>3 DEF Poll, IrqPoll
<1>6. CASE Switch
  <2>1. mode = "switch" /\ trapped = 0 /\ NextInsn = pc
    BY <1>0, <1>6 DEF Switch, NextInsn
  <2>2. pc \in DOMAIN code
    BY <1>0, <2>1 DEF Waiting
  <2> QED
    BY <1>2, <1>6, <2>1, <2>2 DEF Switch, NextInsn, vars
<1>7. CASE StopOnTrap
  BY <1>2, <1>7 DEF StopOnTrap, NextInsn, vars
<1>8. CASE Frontend
  <2>1. mode = "returned" /\ trapped = 0 /\ mode' = "idle" /\ UNCHANGED <<trapped, trap_pc>>
    BY <1>8 DEF Frontend
  <2>2. CASE UNCHANGED <<pc, ccr, stack>>
    BY <1>2, <2>1, <2>2 DEF NextInsn
  <2>3. CASE ~ccr.i /\ Interrupt
    BY <1>3, <2>1, <2>3 DEF NextInsn
  <2> QED
    BY <1>8, <2>2, <2>3 DEF Frontend
<1> QED
  BY <1>4, <1>5, <1>6, <1>7, <1>8

\* Where the program can be and what runs there.
LEMMA InsnOfDelay ==
  ASSUME Handler > 5, MachineInv, DelayInv, code = Delay, mode = "chunk"
  PROVE  /\ NextInsn = at /\ trapped = 0 /\ Nxt = at + 1 /\ at \in Nat
         /\ \/ at = 0 /\ Insn = Op("arm")
            \/ at = 1 /\ Insn = Op("ovie")
            \/ at = 2 /\ Insn = Op("arm1")
            \/ at = 3 /\ Insn = Op("ovf1")
            \/ at = 4 /\ Insn = Ins("jcc", "beq", 3)
            \/ at = 5 /\ Insn = Ins("unk", "unk", Unknown)
            \/ at = Handler /\ Insn = Op("inc")
            \/ at = Handler + 1 /\ Insn = Op("ack")
            \/ at = Handler + 2 /\ Insn = Op("arm")
            \/ at = Handler + 3 /\ Insn = Ins("rte", "rte", Unknown)
<1>1. NextInsn = at /\ trapped = 0 /\ at \in DOMAIN Delay
  BY DEF NextInsn, MachineInv, MachineTypeOK
<1>2. at \in 0 .. 5 \/ at \in Handler .. (Handler + 3)
  BY <1>1, DelayIs
<1>3. \/ at = 0 \/ at = 1 \/ at = 2 \/ at = 3 \/ at = 4 \/ at = 5
      \/ at = Handler \/ at = Handler + 1 \/ at = Handler + 2 \/ at = Handler + 3
  BY <1>2, DelayIs
<1>4. at \in Nat
  BY <1>2, DelayIs
<1>5. \/ at = 0 /\ Insn = Op("arm")
      \/ at = 1 /\ Insn = Op("ovie")
      \/ at = 2 /\ Insn = Op("arm1")
      \/ at = 3 /\ Insn = Op("ovf1")
      \/ at = 4 /\ Insn = Ins("jcc", "beq", 3)
      \/ at = 5 /\ Insn = Ins("unk", "unk", Unknown)
      \/ at = Handler /\ Insn = Op("inc")
      \/ at = Handler + 1 /\ Insn = Op("ack")
      \/ at = Handler + 2 /\ Insn = Op("arm")
      \/ at = Handler + 3 /\ Insn = Ins("rte", "rte", Unknown)
  BY <1>3, DelayIs DEF Insn
<1>6. Nxt = at + 1
  BY <1>5 DEF Nxt, Op, Ins
<1> QED
  BY <1>1, <1>4, <1>5, <1>6

LEMMA EffectsAre ==
  ASSUME NEW op, Effect(op)
  PROVE  /\ op = "arm" => WriteTcnt(0, Preload) /\ ccr' = ccr
         /\ op = "arm1" => WriteTcnt(1, Preload) /\ ccr' = ccr
         /\ op = "ovie" => WriteTcr0(TRUE) /\ ccr' = ccr
         /\ op = "ack" => WriteTcsr(0, FALSE) /\ ccr' = ccr
         /\ op = "inc" => UNCHANGED timerVars /\ ccr' = ccr
         /\ op = "ovf1" => ccr' = [ccr EXCEPT !.z = ~ReadOvf(1)] /\ UNCHANGED timerVars
BY DEF Effect

\* The registers of channel 1 are written by one instruction only.
LEMMA SequentialWaits ==
  ASSUME Handler > 5, MachineInv, DelayInv, code = Delay, Sequential
  PROVE  DelayInv'
<1>1. /\ mode = "chunk" /\ Insn.kind = "seq" /\ Effect(Insn.op) /\ FallThrough
      /\ UNCHANGED <<cycles, stack, trapped, trap_pc, code, where>>
  BY DEF Sequential, Execute, progVars
<1>2. /\ NextInsn = at /\ trapped = 0 /\ Nxt = at + 1 /\ at \in Nat
      /\ where[5] = where[4] /\ ~tmr_csr[1] /\ Waiting(at, ccr, stack)
      /\ ccr \in CCR
  BY <1>1, InsnOfDelay DEF DelayInv, MachineInv, TimerInv, TypeOK
<1>3. NextInsn' = at + 1
  BY <1>1, <1>2 DEF FallThrough, Label, Leave, NextInsn
<1>4. \/ at = 0 /\ Insn.op = "arm"
      \/ at = 1 /\ Insn.op = "ovie"
      \/ at = 2 /\ Insn.op = "arm1"
      \/ at = 3 /\ Insn.op = "ovf1"
      \/ at = Handler /\ Insn.op = "inc"
      \/ at = Handler + 1 /\ Insn.op = "ack"
      \/ at = Handler + 2 /\ Insn.op = "arm"
  BY <1>1, InsnOfDelay DEF Op, Ins
<1>5. PICK p, c, s : p = at + 1 /\ c = ccr' /\ s = stack
  OBVIOUS
<1>6. tmr_pre \in [Channel -> Count] /\ tmr_at \in [Channel -> Nat]
      /\ tmr_csr \in [Channel -> BOOLEAN] /\ 0 \in Channel /\ 1 \in Channel
  BY DEF MachineInv, TimerInv, TypeOK, Channel
<1>7. ASSUME tmr_pre'[1] = tmr_pre[1], tmr_at'[1] = tmr_at[1], ~tmr_csr'[1],
             Waiting(p, c, s)
      PROVE  DelayInv'
  BY <1>1, <1>2, <1>3, <1>5, <1>7, DelayKept
<1>8. CASE at = 2
  <2>1. WriteTcnt(1, Preload) /\ ccr' = ccr
    <3>1. Insn.op = "arm1"
      BY <1>4, <1>8, DelayIs
    <3> QED
      BY <1>1, <3>1, EffectsAre
  <2>2. tmr_pre'[1] = Preload /\ ~tmr_csr'[1]
    BY <1>2, <1>6, <2>1 DEF WriteTcnt, Anchor
  <2>3. p = 3 /\ s = << >> /\ p \in DOMAIN Delay
    BY <1>2, <1>5, <1>8, DelayIs DEF Waiting
  <2>4. Promised(p, c.z)'
    BY <2>2, <2>3 DEF Promised
  <2>5. Waiting(p, c, s)'
    BY <2>3, <2>4 DEF Waiting
  <2> QED
    BY <1>1, <1>2, <1>3, <1>5, <2>2, <2>5 DEF DelayInv
<1>9. CASE at \in {0, 1}
  <2>1. (WriteTcnt(0, Preload) /\ ccr' = ccr) \/ (WriteTcr0(TRUE) /\ ccr' = ccr)
    <3>1. Insn.op \in {"arm", "ovie"}
      BY <1>4, <1>9, DelayIs
    <3> QED
      BY <1>1, <3>1, EffectsAre
  <2>2. tmr_pre'[1] = tmr_pre[1] /\ tmr_at'[1] = tmr_at[1] /\ ~tmr_csr'[1]
    BY <1>2, <1>6, <2>1 DEF WriteTcnt, WriteTcr0, Anchor
  <2>3. p \in {1, 2} /\ s = << >> /\ p \in DOMAIN Delay
    BY <1>2, <1>5, <1>9, DelayIs DEF Waiting
  <2>4. Waiting(p, c, s)
    BY <2>3 DEF Waiting, Promised
  <2> QED
    BY <1>7, <2>2, <2>4
<1>10. CASE at = 3
  <2>1. ccr' = [ccr EXCEPT !.z = ~ReadOvf(1)] /\ UNCHANGED timerVars
    <3>1. Insn.op = "ovf1"
      BY <1>4, <1>10, DelayIs
    <3> QED
      BY <1>1, <3>1, EffectsAre
  <2>2. tmr_pre' = tmr_pre /\ tmr_at' = tmr_at /\ tmr_csr' = tmr_csr
    BY <2>1 DEF timerVars
  <2>3. p = 4 /\ s = << >> /\ p \in DOMAIN Delay /\ tmr_pre[1] = Preload
    BY <1>2, <1>5, <1>10, DelayIs DEF Waiting, Promised
  <2>4. c.z = ~ReadOvf(1)
    BY <1>2, <1>5, <2>1 DEF CCR
  <2>5. ~c.z => Waited
    BY <1>2, <2>3, <2>4, FlagMeansWaited DEF MachineInv
  <2>6. Waiting(p, c, s)
    BY <2>3, <2>5 DEF Waiting, Promised
  <2> QED
    BY <1>2, <1>7, <2>2, <2>6
<1>11. CASE at \in {Handler, Handler + 1, Handler + 2}
  <2>1. /\ ccr' = ccr
        /\ UNCHANGED timerVars \/ WriteTcnt(0, Preload) \/ WriteTcsr(0, FALSE)
    <3>1. Insn.op \in {"inc", "ack", "arm"}
      BY <1>4, <1>11, DelayIs
    <3> QED
      BY <1>1, <3>1, EffectsAre
  <2>2. tmr_pre'[1] = tmr_pre[1] /\ tmr_at'[1] = tmr_at[1] /\ ~tmr_csr'[1]
    <3>1. CASE UNCHANGED timerVars
      BY <1>2, <3>1 DEF timerVars
    <3>2. ASSUME NEW v, Anchor(0, v)
          PROVE  tmr_pre'[1] = tmr_pre[1] /\ tmr_at'[1] = tmr_at[1]
      BY <1>6, <3>2 DEF Anchor
    <3>3. CASE WriteTcnt(0, Preload)
      BY <1>2, <3>2, <3>3 DEF WriteTcnt
    <3>4. CASE WriteTcsr(0, FALSE)
      <4>1. ~tmr_csr'[1]
        BY <1>2, <1>6, <3>4 DEF WriteTcsr
      <4> QED
        BY <3>2, <3>4, <4>1 DEF WriteTcsr
    <3> QED
      BY <2>1, <3>1, <3>3, <3>4
  <2>3. /\ p \in DOMAIN Delay /\ p \notin 0 .. 5 /\ p \notin 3 .. 5
        /\ at \notin 0 .. 5 /\ c = ccr /\ s = stack /\ p # 4 /\ p # 5
    BY <1>5, <1>11, <2>1, DelayIs
  <2>4. Waiting(p, c, s)
    BY <1>2, <2>3 DEF Waiting, Promised
  <2> QED
    BY <1>7, <2>2, <2>4
<1> QED
  BY <1>4, <1>8, <1>9, <1>10, <1>11

\* The closing branch goes back while the flag is clear, and on to 5, whose
\* label follows in the text, when it is set.
LEMMA BranchWaits ==
  ASSUME Handler > 5, MachineInv, DelayInv, code = Delay, Branch
  PROVE  DelayInv'
<1>1. /\ mode = "chunk" /\ Insn.kind = "jcc"
      /\ UNCHANGED <<timerVars, ccr, stack, ticks, trapped, trap_pc, code, where>>
  BY DEF Branch, Execute, progVars
<1>2. /\ NextInsn = at /\ trapped = 0 /\ Nxt = at + 1 /\ at = 4
      /\ Insn.op = "beq" /\ Insn.target = 3
      /\ where[5] = where[4] /\ ~tmr_csr[1] /\ Waiting(4, ccr, stack)
  BY <1>1, InsnOfDelay DEF DelayInv, Op, Ins
<1>3. tmr_pre' = tmr_pre /\ tmr_at' = tmr_at /\ tmr_csr' = tmr_csr
  BY <1>1 DEF timerVars
<1>4. PICK c, s : c = ccr /\ s = stack
  OBVIOUS
<1>5. s = << >> /\ tmr_pre[1] = Preload /\ (~c.z => Waited)
      /\ 3 \in DOMAIN Delay /\ 5 \in DOMAIN Delay
  BY <1>2, <1>4, DelayIs DEF Waiting, Promised
<1>6. CASE Taken
  <2>1. Go(3)
    BY <1>2, <1>6 DEF Branch
  <2>2. NextInsn' = 3
    BY <1>1, <1>2, <2>1, GoIsAJump
  <2>3. cycles' = cycles \/ cycles' = cycles + 1
    BY <2>1 DEF Go
  <2>4. Waiting(3, c, s)
    BY <1>5 DEF Waiting, Promised
  <2> QED
    BY <1>1, <1>2, <1>3, <1>4, <2>2, <2>3, <2>4, DelayKept
<1>7. CASE ~Taken
  <2>1. FallUnchecked /\ cycles' = cycles /\ ~c.z
    BY <1>2, <1>4, <1>7 DEF Branch, Taken
  <2>2. 5 \in Later
    BY <1>2, <1>5 DEF Later, Mine
  <2>3. \A b \in Later : b \in Nat /\ 5 <= b
    BY <1>2, DelayIs DEF Later
  <2>4. TextNext \in Later /\ TextNext <= 5
    BY <2>2, <2>3 DEF TextNext
  <2>5. TextNext = 5
    BY <2>3, <2>4
  <2>6. NextInsn' = 5
    BY <2>1, <2>2, <2>5 DEF FallUnchecked, Label, NextInsn
  <2>7. Waiting(5, c, s)
    BY <1>5, <2>1 DEF Waiting, Promised
  <2> QED
    BY <1>1, <1>2, <1>3, <1>4, <2>1, <2>6, <2>7, DelayKept
<1> QED
  BY <1>6, <1>7

\* The handler returns to the program, with the flag it found there.
LEMMA ReturnWaits ==
  ASSUME Handler > 5, MachineInv, DelayInv, code = Delay, Return
  PROVE  DelayInv'
<1>1. /\ mode = "chunk" /\ Insn.kind \in {"ret", "rte"}
      /\ UNCHANGED <<cycles, timerVars, ticks, trapped, trap_pc, code, where>>
  BY DEF Return, Execute, progVars
<1>2. /\ NextInsn = at /\ trapped = 0 /\ at = Handler + 3 /\ Insn.kind = "rte"
      /\ where[5] = where[4] /\ ~tmr_csr[1] /\ Waiting(at, ccr, stack)
  BY <1>1, InsnOfDelay DEF DelayInv, Op, Ins
<1>3. tmr_pre' = tmr_pre /\ tmr_at' = tmr_at /\ tmr_csr' = tmr_csr
  BY <1>1 DEF timerVars
<1>4. at \notin 0 .. 5
  BY <1>2, DelayIs
<1>5. PICK f \in Longword : stack = <<f>> /\ f.pc \in 0 .. 5 /\ Promised(f.pc, f.ccr.z)
  BY <1>2, <1>4 DEF Waiting
<1>6. Top = f /\ Rest = << >>
  <2>1. <<f>> # << >> /\ <<f>>[1] = f /\ Tail(<<f>>) = << >>
    OBVIOUS
  <2> QED
    BY <1>5, <2>1 DEF Top, Rest
<1>7. NextInsn' = f.pc /\ ccr' = f.ccr /\ stack' = << >>
  BY <1>1, <1>2, <1>6 DEF Return, Leave, NextInsn
<1>8. PICK p, c, s : p = f.pc /\ c = f.ccr /\ s = << >>
  OBVIOUS
<1>9. Waiting(p, c, s)
  BY <1>5, <1>8, DelayIs DEF Waiting
<1> QED
  BY <1>1, <1>2, <1>3, <1>7, <1>8, <1>9, DelayKept

LEMMA TrapWaits ==
  ASSUME Handler > 5, MachineInv, DelayInv, code = Delay, Trap
  PROVE  DelayInv'
<1>1. /\ mode = "chunk" /\ Insn.kind # "jcc" /\ Insn.kind # "rte"
      /\ Insn.kind = "seq" => Insn.op = "unimplemented"
      /\ UNCHANGED <<cycles, timerVars, ccr, stack, code, where>>
      /\ mode' = "loop" /\ trapped' # 0 /\ trap_pc' = at
  BY DEF Trap, Execute, progVars, FallOff
<1>2. /\ NextInsn = at /\ at = 5
      /\ where[5] = where[4] /\ ~tmr_csr[1] /\ Waiting(5, ccr, stack)
  BY <1>1, InsnOfDelay DEF DelayInv, Op, Ins
<1>3. tmr_pre' = tmr_pre /\ tmr_at' = tmr_at /\ tmr_csr' = tmr_csr
  BY <1>1 DEF timerVars
<1>4. NextInsn' = 5
  BY <1>1, <1>2 DEF NextInsn
<1>5. PICK c, s : c = ccr /\ s = stack
  OBVIOUS
<1> QED
  BY <1>1, <1>2, <1>3, <1>4, <1>5, DelayKept

LEMMA DelayNext ==
  ASSUME Handler > 5, MachineInv, DelayInv, [MachineNext]_allVars
  PROVE  DelayInv'
<1>1. code' = code
  BY DEF MachineNext, Call_cy_run, Poll, Switch, StopOnTrap, Frontend, Sequential,
         DirectJump, Branch, DirectCall, Indirect, Return, Trap, Execute, allVars, progVars
<1>2. CASE code # Delay
  BY <1>1, <1>2 DEF DelayInv
<1>3. CASE UNCHANGED allVars
  BY <1>3 DEF DelayInv, Waiting, Promised, Waited, NextInsn, allVars, vars, timerVars,
              progVars, hostVars
<1>4. CASE code = Delay /\ MachineNext
  <2>1. ~DirectJump /\ ~DirectCall /\ ~Indirect
    <3>1. ASSUME mode = "chunk" PROVE Insn.kind \notin {"jmp", "call"}
      BY <1>4, <3>1, InsnOfDelay DEF Op, Ins
    <3> QED
      BY <3>1 DEF DirectJump, DirectCall, Indirect, Execute
  <2> QED
    BY <1>4, <2>1, RunLoopWaits, SequentialWaits, BranchWaits, ReturnWaits, TrapWaits
       DEF MachineNext
<1> QED
  BY <1>2, <1>3, <1>4

LEMMA DelayStarts == ASSUME Handler > 5, GuestInit PROVE DelayInv
<1> SUFFICES ASSUME code = Delay PROVE DelayInv
  BY DEF DelayInv
<1>1. /\ NextInsn = 0 /\ trapped = 0 /\ stack = << >> /\ ~tmr_csr[1] /\ where[5] = where[4]
  BY DEF GuestInit, WindowInit, MachineInit, TmrInit, NextInsn, Channel
<1>2. Waiting(NextInsn, ccr, stack)
  BY <1>1, DelayIs DEF Waiting, Promised
<1> QED
  BY <1>1, <1>2 DEF DelayInv

\* The busy-wait is never short, for every preload, divider and counter
\* width, every budget and chunk size, every frontend and every key: no tick,
\* and no return to the run loop, makes the guest see the flag of another
\* count or lose the one it saw (io.c:26-29, emit.py:483-490).
THEOREM DelayAlwaysLasts == ASSUME Handler > 5 PROVE GuestSpec => []DelayLasts
<1>1. GuestInit => DelayInv
  BY DelayStarts
<1>2. MachineInv /\ DelayInv /\ [WindowNext]_windowVars => DelayInv'
  BY DelayNext, WindowStepIsMachineStep
<1>3. MachineInv /\ DelayInv => DelayLasts
  <2> SUFFICES ASSUME MachineInv, DelayInv, code = Delay, trapped = 1
               PROVE  cycles - tmr_at[1] >= (TOP - Preload) * DIV
    BY DEF DelayLasts
  <2>1. NextInsn = 5
    BY DEF DelayInv, NextInsn, MachineInv
  <2> QED
    BY <2>1 DEF DelayInv, Waiting, Promised, Waited
<1>4. GuestSpec => WindowSpec
  BY PTL DEF GuestSpec, GuestInit, WindowSpec
<1>5. GuestSpec => []MachineInv
  BY <1>4, WindowImplementsMachine, MachineInvHolds, PTL
<1> QED
  BY <1>1, <1>2, <1>3, <1>5, PTL DEF GuestSpec
=============================================================================
