---------------------------- MODULE TimerProofs ----------------------------
(***************************************************************************)
(* Proofs about Timer.tla for every DIV, TOP, WRAP and set of addresses.   *)
(* The inductive invariant is the type invariant together with the three   *)
(* facts that tie the deadline to the derived count.  It is needed as a    *)
(* whole: the deadline is exact only because preloads are below TOP, and   *)
(* no tick is early only because the anchor it is exact for is past.       *)
(***************************************************************************)
EXTENDS Timer, SequenceTheorems, TLAPS

\* The longwords of interrupted contexts: their CCR has the mask clear.
UnmaskedFrame == {w \in Longword : ~w.ccr.i}

\* The flag the guest reads is the derived one alone: no write stores it.
FlagDerived == \A ch \in Channel : ~tmr_csr[ch]

TimerInv ==
  /\ TypeOK
  /\ FlagDerived
  /\ AnchorsPast
  /\ DeadlineExact
  /\ OneTickPerArming
  /\ stack \in Seq(UnmaskedFrame)

-----------------------------------------------------------------------------
(* Arithmetic of the derived counter. *)

\* A count just anchored is its preload (tmr_count with no time elapsed).
LEMMA CountAtAnchor ==
  ASSUME NEW v \in Count, NEW now \in Nat
  PROVE  CountFrom(v, now, now) = v
<1>1. now - now = 0
  OBVIOUS
<1>2. 0 \div DIV = 0
  BY DivAssumption
<1>3. v \in Nat /\ v < WRAP
  BY TopAssumption, WrapAssumption DEF Count
<1>4. v % WRAP = v
  BY <1>3, WrapAssumption
<1> QED
  BY <1>1, <1>2, <1>3, <1>4 DEF CountFrom

\* So a register write always arms: tmr_rearm never answers "never" there.
LEMMA DeadlineAtAnchor ==
  ASSUME NEW v \in Count, NEW now \in Nat
  PROVE  /\ Deadline(v, now, now) = now + (TOP - v) * DIV
         /\ Deadline(v, now, now) \in Nat
         /\ Deadline(v, now, now) > now
<1>1. CountFrom(v, now, now) = v
  BY CountAtAnchor
<1>2. v \in Nat /\ v < TOP /\ TOP - v \in Nat /\ TOP - v >= 1
  BY TopAssumption DEF Count
<1>3. Deadline(v, now, now) = now + (TOP - v) * DIV
  <2>1. ~(v >= TOP)
    BY <1>2, TopAssumption
  <2> QED
    BY <1>1, <2>1 DEF Deadline
<1>4. ASSUME NEW m \in Nat, m >= 1, NEW d \in Nat, d >= 1
      PROVE  m * d \in Nat /\ m * d >= 1
  BY <1>4
<1>5. (TOP - v) * DIV \in Nat /\ (TOP - v) * DIV >= 1
  BY <1>2, <1>4, DivAssumption
<1> QED
  BY <1>3, <1>5

\* Enough cycles make enough counts.
LEMMA DivLower ==
  ASSUME NEW e \in Nat, NEW n \in Nat, NEW d \in Nat, d >= 1, e >= n * d
  PROVE  e \div d \in Nat /\ e \div d >= n
<1> DEFINE q == e \div d
           r == e % d
<1>1. q \in Int /\ r \in Int /\ e = d * q + r /\ r >= 0 /\ r < d
  OBVIOUS
<1>2. ASSUME q < n PROVE FALSE
  <2> HIDE DEF q, r
  <2>1. n - q >= 1 /\ n - q \in Nat
    BY <1>1, <1>2
  <2>2. ASSUME NEW k \in Nat, k >= 1 PROVE k * d >= d
    BY <2>2
  <2>3. (n - q) * d >= d
    BY <2>1, <2>2
  <2>4. (n - q) * d = n * d - d * q
    BY <1>1
  <2> QED
    BY <1>1, <2>3, <2>4
<1> QED
  BY <1>1, <1>2

\* A quotient is the largest such n.
LEMMA DivUpper ==
  ASSUME NEW e \in Nat, NEW d \in Nat, d >= 1
  PROVE  e \div d \in Nat /\ e >= (e \div d) * d
<1> DEFINE q == e \div d
           r == e % d
<1>1. q \in Int /\ r \in Int /\ e = d * q + r /\ r >= 0
  OBVIOUS
<1>2. q \in Nat
  BY DivLower, e >= 0 * d
<1> HIDE DEF q, r
<1>3. e >= q * d
  BY <1>1
<1> QED
  BY <1>2, <1>3 DEF q

\* Pushing and popping keep a sequence over its set.
LEMMA PushSeq ==
  ASSUME NEW S, NEW s \in Seq(S), NEW x \in S
  PROVE  <<x>> \o s \in Seq(S)
<1>1. <<x>> \in Seq(S)
  OBVIOUS
<1> QED
  BY <1>1, ConcatProperties

LEMMA PopSeq ==
  ASSUME NEW S, NEW s \in Seq(S), s # << >>
  PROVE  Tail(s) \in Seq(S) /\ s[1] \in S
<1>1. Head(s) \in S /\ Tail(s) \in Seq(S)
  BY HeadTailProperties
<1>2. Len(s) \in Nat \ {0}
  BY EmptySeq
<1>3. s[1] \in S
  BY <1>2, ElementOfSeq
<1> QED
  BY <1>1, <1>3

-----------------------------------------------------------------------------
(* The inductive invariant. *)

LEMMA InitInv == Init => TimerInv
<1> SUFFICES ASSUME Init PROVE TimerInv
  OBVIOUS
<1> USE DEF Init, TmrInit
<1>1. 0 \in Count
  BY TopAssumption DEF Count
<1>2. << >> \in Seq(UnmaskedFrame) /\ << >> \in Seq(Longword)
  OBVIOUS
<1>3. TypeOK
  BY <1>1, <1>2 DEF TypeOK, CCR, Channel
<1> QED
  BY <1>2, <1>3
     DEF TimerInv, FlagDerived, AnchorsPast, DeadlineExact, OneTickPerArming, Channel

\* Anchoring a channel at a preload: the common part of both writes.
LEMMA AnchorInv ==
  ASSUME TimerInv, NEW ch \in Channel, NEW v \in Count, Anchor(ch, v),
         UNCHANGED cycles
  PROVE  /\ tmr_pre' \in [Channel -> Count]
         /\ tmr_at' \in [Channel -> Nat]
         /\ irq_at' \in Nat \cup {Never}
         /\ served' \in Nat
         /\ AnchorsPast' /\ DeadlineExact' /\ OneTickPerArming'
<1> USE DEF TimerInv, TypeOK
<1>1. tmr_pre' \in [Channel -> Count] /\ tmr_at' \in [Channel -> Nat]
  BY DEF Anchor
<1>2. AnchorsPast'
  BY DEF Anchor, AnchorsPast
<1>3. CASE ch = 0
  <2>1. /\ irq_at' = Deadline(v, cycles, cycles) /\ served' = 0
        /\ tmr_pre'[0] = v /\ tmr_at'[0] = cycles
    BY <1>3 DEF Anchor, Channel
  <2>2. irq_at' = cycles + (TOP - v) * DIV /\ irq_at' \in Nat
    BY <2>1, DeadlineAtAnchor
  <2> QED
    BY <1>1, <1>2, <2>1, <2>2 DEF DeadlineExact, OneTickPerArming
<1>4. CASE ch = 1
  <2>1. /\ irq_at' = irq_at /\ served' = served
        /\ tmr_pre'[0] = tmr_pre[0] /\ tmr_at'[0] = tmr_at[0]
    BY <1>4 DEF Anchor, Channel
  <2> QED
    BY <1>1, <1>2, <2>1 DEF DeadlineExact, OneTickPerArming
<1> QED
  BY <1>3, <1>4 DEF Channel

\* What TCSR's handler stores back in the 8-bit preload fits it.
LEMMA TruncatedCount ==
  ASSUME TypeOK, AnchorsPast, NEW ch \in Channel
  PROVE  TmrCount(ch) \in Nat /\ TmrCount(ch) % TOP \in Count
<1>1. cycles - tmr_at[ch] \in Nat /\ tmr_pre[ch] \in Nat
  BY TopAssumption DEF TypeOK, AnchorsPast, Count
<1>2. (cycles - tmr_at[ch]) \div DIV \in Nat
  <2>1. cycles - tmr_at[ch] >= 0 * DIV
    BY <1>1, DivAssumption
  <2> QED
    BY <1>1, <2>1, DivAssumption, DivLower
<1>3. TmrCount(ch) \in Nat
  BY <1>1, <1>2, WrapAssumption, TopAssumption DEF TmrCount, CountFrom
<1> QED
  BY <1>3, TopAssumption DEF Count

LEMMA PollInv ==
  ASSUME TimerInv, NEW now \in Nat, now >= cycles, cycles' = now, IrqPoll(now)
  PROVE  TimerInv'
<1> USE DEF TimerInv, TypeOK
<1>1. /\ tmr_pre' = tmr_pre /\ tmr_at' = tmr_at
      /\ tmr_csr' = tmr_csr /\ ovie' = ovie
  BY DEF IrqPoll
<1>2. AnchorsPast'
  BY <1>1 DEF AnchorsPast
<1>3. CASE UNCHANGED <<irq_at, served, pc, ccr, stack>>
  BY <1>1, <1>2, <1>3 DEF DeadlineExact, OneTickPerArming, FlagDerived
<1>4. CASE /\ ~ccr.i /\ Due(now) /\ irq_at' = Never
           /\ UNCHANGED <<served, pc, ccr, stack>>
  BY <1>1, <1>2, <1>4 DEF DeadlineExact, OneTickPerArming, FlagDerived
<1>5. CASE /\ ~ccr.i /\ Due(now) /\ irq_at' = Never
           /\ Interrupt /\ served' = served + 1
  <2> DEFINE frame == [ccr |-> ccr, pc |-> pc]
  <2>1. frame \in UnmaskedFrame /\ frame \in Longword
    BY <1>5 DEF UnmaskedFrame, Longword
  <2>2. stack' \in Seq(UnmaskedFrame) /\ stack' \in Seq(Longword)
    BY <1>5, <2>1, PushSeq DEF Interrupt
  <2>3. ccr' \in CCR /\ pc' \in Addr
    BY <1>5, HandlerAssumption DEF Interrupt, CCR
  <2>4. served' = 1
    BY <1>5 DEF OneTickPerArming, Due
  <2> QED
    BY <1>1, <1>2, <1>5, <2>2, <2>3, <2>4
       DEF DeadlineExact, OneTickPerArming, FlagDerived
<1> QED
  BY <1>3, <1>4, <1>5 DEF IrqPoll

LEMMA StepInv == TimerInv /\ [Next]_vars => TimerInv'
<1> SUFFICES ASSUME TimerInv, [Next]_vars PROVE TimerInv'
  OBVIOUS
<1> USE DEF TimerInv
<1>1. CASE Dispatch
  <2>1. cycles' \in Nat /\ cycles' >= cycles /\ cycles' = cycles + 1
    BY <1>1 DEF Dispatch, TypeOK
  <2> QED
    BY <1>1, <2>1, PollInv DEF Dispatch
<1>2. CASE BackEdge
  BY <1>2 DEF BackEdge, timerVars, TypeOK, AnchorsPast, DeadlineExact,
              OneTickPerArming, FlagDerived
<1>3. CASE GuestTcnt
  <2>1. PICK ch \in Channel, v \in Count :
          WriteTcnt(ch, v) /\ UNCHANGED <<cycles, pc, ccr, stack>>
    BY <1>3 DEF GuestTcnt
  <2> QED
    BY <2>1, AnchorInv DEF WriteTcnt, TypeOK, FlagDerived
<1>4. CASE GuestTcsr
  <2>1. PICK ch \in Channel, b \in BOOLEAN :
          WriteTcsr(ch, b) /\ UNCHANGED <<cycles, pc, ccr, stack>>
    BY <1>4 DEF GuestTcsr
  <2>2. tmr_csr' \in [Channel -> BOOLEAN] /\ ovie' = ovie /\ FlagDerived'
    BY <2>1 DEF WriteTcsr, TypeOK, FlagDerived
  <2>3. CASE Anchor(ch, TmrCount(ch) % TOP)
    BY <2>1, <2>2, <2>3, AnchorInv, TruncatedCount DEF TypeOK
  <2>4. CASE UNCHANGED <<tmr_pre, tmr_at, irq_at, served>>
    BY <2>1, <2>2, <2>4 DEF TypeOK, AnchorsPast, DeadlineExact,
                            OneTickPerArming, FlagDerived
  <2> QED
    BY <2>1, <2>3, <2>4 DEF WriteTcsr
<1>5. CASE GuestTcr0
  BY <1>5 DEF GuestTcr0, WriteTcr0, TypeOK, AnchorsPast, DeadlineExact,
              OneTickPerArming, FlagDerived
<1>6. CASE GuestRuns
  <2>1. ccr' \in CCR /\ pc' \in Addr
    BY <1>6 DEF GuestRuns, TypeOK, CCR
  <2> QED
    BY <1>6, <2>1 DEF GuestRuns, timerVars, TypeOK, AnchorsPast,
                      DeadlineExact, OneTickPerArming, FlagDerived
<1>7. CASE GuestRte
  <2>1. stack' \in Seq(UnmaskedFrame) /\ stack' \in Seq(Longword)
    BY <1>7, PopSeq DEF GuestRte, TypeOK
  <2>2. ccr' \in CCR /\ pc' \in Addr
    <3>1. stack[1] \in Longword
      BY <1>7, PopSeq DEF GuestRte, TypeOK
    <3> QED
      BY <1>7, <3>1 DEF GuestRte, Longword
  <2> QED
    BY <1>7, <2>1, <2>2 DEF GuestRte, timerVars, TypeOK, AnchorsPast,
                            DeadlineExact, OneTickPerArming, FlagDerived
<1>8. CASE UNCHANGED vars
  BY <1>8 DEF vars, timerVars, TypeOK, AnchorsPast, DeadlineExact,
              OneTickPerArming, FlagDerived
<1> QED
  BY <1>1, <1>2, <1>3, <1>4, <1>5, <1>6, <1>7, <1>8 DEF Next

\* Types, anchors in the past, an exact deadline, one tick per arming and
\* unmasked frames hold together (io.c:49-91, 119-127, 179-197).
THEOREM InvariantHolds == Spec => []TimerInv
BY InitInv, StepInv, PTL DEF Spec

-----------------------------------------------------------------------------
(* What the invariant gives in any state. *)

\* The stack over its set, frame by frame.
LEMMA UnmaskedStack == TimerInv => InterruptedUnmasked
<1> SUFFICES ASSUME TimerInv, NEW k \in 1 .. Len(stack)
             PROVE  ~stack[k].ccr.i
  BY DEF InterruptedUnmasked
<1>1. stack[k] \in UnmaskedFrame
  BY ElementOfSeq DEF TimerInv
<1> QED
  BY <1>1 DEF UnmaskedFrame

\* Enough cycles have passed, by the deadline, for the count to be at TOP.
LEMMA InvShowsOverflow == TimerInv => TickShowsOverflow
<1> SUFFICES ASSUME TimerInv, Due(cycles),
                    tmr_pre[0] + (cycles - tmr_at[0]) \div DIV < WRAP
             PROVE  ReadOvf(0)
  BY DEF TickShowsOverflow
<1> DEFINE e == cycles - tmr_at[0]
           n == TOP - tmr_pre[0]
<1>1. tmr_pre[0] \in Count /\ tmr_at[0] \in Nat /\ cycles \in Nat
  BY DEF TimerInv, TypeOK, Channel
<1>2. n \in Nat /\ n >= 1
  BY <1>1, TopAssumption DEF Count
<1>3. irq_at = tmr_at[0] + n * DIV /\ cycles >= irq_at /\ irq_at \in Nat
  BY DEF TimerInv, TypeOK, DeadlineExact, Due
<1>4. n * DIV \in Nat
  BY <1>2, DivAssumption
<1>5. e \in Nat /\ e >= n * DIV
  BY <1>1, <1>3, <1>4
<1> HIDE DEF e, n
<1>6. e \div DIV \in Nat /\ e \div DIV >= n
  BY <1>2, <1>5, DivAssumption, DivLower
<1>7. /\ tmr_pre[0] + e \div DIV \in Nat
      /\ tmr_pre[0] + e \div DIV >= TOP
      /\ tmr_pre[0] + e \div DIV < WRAP
  BY <1>1, <1>2, <1>6, TopAssumption DEF Count, e, n
<1>8. TmrCount(0) = tmr_pre[0] + e \div DIV
  BY <1>7, WrapAssumption DEF TmrCount, CountFrom, e
<1> QED
  BY <1>7, <1>8 DEF ReadOvf

-----------------------------------------------------------------------------
(* What a step may do to the registers, whoever runs on the machine. *)

RegisterStep ==
  \/ UNCHANGED timerVars /\ (cycles' = cycles \/ cycles' = cycles + 1)
  \/ cycles' = cycles + 1 /\ IrqPoll(cycles')
  \/ UNCHANGED cycles /\ \E ch \in Channel, v \in Count : WriteTcnt(ch, v)
  \/ UNCHANGED cycles /\ \E ch \in Channel, b \in BOOLEAN : WriteTcsr(ch, b)
  \/ UNCHANGED cycles /\ \E b \in BOOLEAN : WriteTcr0(b)

LEMMA NextIsRegisterStep == [Next]_vars => RegisterStep
<1> SUFFICES ASSUME [Next]_vars PROVE RegisterStep
  OBVIOUS
<1> USE DEF RegisterStep
<1>1. CASE Dispatch
  BY <1>1 DEF Dispatch
<1>2. CASE BackEdge \/ GuestRuns \/ GuestRte \/ UNCHANGED vars
  BY <1>2 DEF BackEdge, GuestRuns, GuestRte, vars
<1>3. CASE GuestTcnt
  BY <1>3 DEF GuestTcnt
<1>4. CASE GuestTcsr
  BY <1>4 DEF GuestTcsr
<1>5. CASE GuestTcr0
  BY <1>5 DEF GuestTcr0
<1> QED
  BY <1>1, <1>2, <1>3, <1>4, <1>5 DEF Next

\* A channel is either anchored here or left alone while time passes.
LEMMA AnchoredOrNot ==
  ASSUME TimerInv, RegisterStep, NEW ch \in Channel
  PROVE  \/ tmr_at'[ch] = cycles
         \/ /\ tmr_pre'[ch] = tmr_pre[ch] /\ tmr_at'[ch] = tmr_at[ch]
            /\ cycles' = cycles \/ cycles' = cycles + 1
<1> USE DEF TimerInv, TypeOK
<1>1. ASSUME NEW c \in Channel, NEW v, Anchor(c, v), UNCHANGED cycles
      PROVE  \/ tmr_at'[ch] = cycles
             \/ tmr_pre'[ch] = tmr_pre[ch] /\ tmr_at'[ch] = tmr_at[ch]
  BY <1>1 DEF Anchor
<1>2. CASE UNCHANGED timerVars /\ (cycles' = cycles \/ cycles' = cycles + 1)
  BY <1>2 DEF timerVars
<1>3. CASE cycles' = cycles + 1 /\ IrqPoll(cycles')
  BY <1>3 DEF IrqPoll
<1>4. ASSUME UNCHANGED cycles, NEW c \in Channel, NEW v \in Count, WriteTcnt(c, v)
      PROVE  \/ tmr_at'[ch] = cycles
             \/ tmr_pre'[ch] = tmr_pre[ch] /\ tmr_at'[ch] = tmr_at[ch]
  BY <1>1, <1>4 DEF WriteTcnt
<1>5. ASSUME UNCHANGED cycles, NEW c \in Channel, NEW b \in BOOLEAN, WriteTcsr(c, b)
      PROVE  \/ tmr_at'[ch] = cycles
             \/ tmr_pre'[ch] = tmr_pre[ch] /\ tmr_at'[ch] = tmr_at[ch]
  BY <1>1, <1>5 DEF WriteTcsr
<1>6. CASE UNCHANGED cycles /\ \E b \in BOOLEAN : WriteTcr0(b)
  BY <1>6 DEF WriteTcr0
<1> QED
  BY <1>2, <1>3, <1>4, <1>5, <1>6 DEF RegisterStep

\* An overflow flag that is up goes down by an anchor only, before the wrap.
LEMMA FlagStays ==
  ASSUME TimerInv, RegisterStep, NEW ch \in Channel, ReadOvf(ch), ~ReadOvf(ch)',
         tmr_pre[ch] + (cycles' - tmr_at[ch]) \div DIV < WRAP
  PROVE  tmr_at'[ch] = cycles
<1> SUFFICES ASSUME tmr_at'[ch] # cycles PROVE FALSE
  OBVIOUS
<1> DEFINE e == cycles - tmr_at[ch]
           f == cycles' - tmr_at[ch]
           p == tmr_pre[ch]
<1>1. /\ tmr_pre'[ch] = p /\ tmr_at'[ch] = tmr_at[ch]
      /\ cycles' = cycles \/ cycles' = cycles + 1
  BY AnchoredOrNot
<1>2. p \in Nat /\ e \in Nat /\ f \in Nat /\ e <= f
  BY <1>1, TopAssumption DEF TimerInv, TypeOK, AnchorsPast, Count
<1>3. TmrCount(ch) = (p + e \div DIV) % WRAP
      /\ TmrCount(ch)' = (p + f \div DIV) % WRAP
      /\ p + f \div DIV < WRAP
  BY <1>1 DEF TmrCount, CountFrom
<1> HIDE DEF e, f, p
<1>4. e \div DIV \in Nat /\ f \div DIV \in Nat /\ f \div DIV >= e \div DIV
  <2> DEFINE q == e \div DIV
  <2>1. q \in Nat
    BY <1>2, DivAssumption, DivUpper
  <2>2. e >= q * DIV
    BY <1>2, DivAssumption, DivUpper
  <2> HIDE DEF q
  <2>3. f >= q * DIV
    BY <1>2, <2>1, <2>2, DivAssumption
  <2>4. f \div DIV \in Nat /\ f \div DIV >= q
    BY <1>2, <2>1, <2>3, DivAssumption, DivLower
  <2> QED
    BY <2>1, <2>4 DEF q
<1>5. TmrCount(ch)' >= TmrCount(ch) /\ TmrCount(ch) \in Nat
  <2>1. ASSUME NEW m \in Nat, NEW n \in Nat, n < WRAP, m <= n
        PROVE  m % WRAP <= n % WRAP /\ m % WRAP \in Nat
    BY <2>1, WrapAssumption
  <2> QED
    BY <1>2, <1>3, <1>4, <2>1
<1>6. TmrCount(ch) >= TOP /\ ~(TmrCount(ch)' >= TOP)
  BY DEF ReadOvf, TimerInv, FlagDerived
<1> QED
  BY <1>3, <1>4, <1>5, <1>6, <1>2, TopAssumption, WrapAssumption

\* A deadline goes by a poll only: delivered, or found with OVIE clear.
LEMMA DeadlineStays ==
  ASSUME TimerInv, RegisterStep, irq_at # Never, irq_at' = Never
  PROVE  served' = served + 1 \/ (~ovie /\ ~ccr.i /\ Due(cycles'))
<1>1. ASSUME NEW ch \in Channel, NEW v \in Count, Anchor(ch, v)
      PROVE  FALSE
  <2>1. cycles \in Nat
    BY DEF TimerInv, TypeOK
  <2>2. Deadline(v, cycles, cycles) \in Nat
    BY <2>1, DeadlineAtAnchor
  <2> QED
    BY <1>1, <2>2, NeverAssumption DEF Anchor
<1>2. ASSUME NEW ch \in Channel, NEW b \in BOOLEAN, WriteTcsr(ch, b)
      PROVE  FALSE
  <2>1. TmrCount(ch) % TOP \in Count
    BY TruncatedCount DEF TimerInv
  <2> QED
    BY <1>1, <1>2, <2>1 DEF WriteTcsr
<1>3. CASE UNCHANGED timerVars
  BY <1>3 DEF timerVars
<1>4. CASE IrqPoll(cycles')
  BY <1>4 DEF IrqPoll
<1>5. ASSUME NEW ch \in Channel, NEW v \in Count, WriteTcnt(ch, v)
      PROVE  FALSE
  BY <1>1, <1>5 DEF WriteTcnt
<1>6. CASE \E b \in BOOLEAN : WriteTcr0(b)
  BY <1>6 DEF WriteTcr0
<1> QED
  BY <1>2, <1>3, <1>4, <1>5, <1>6 DEF RegisterStep

\* Clearing the flag works: the anchor moves with it.
LEMMA ClearWorks ==
  ASSUME TimerInv, NEW ch \in Channel, WriteTcsr(ch, FALSE), cycles' = cycles
  PROVE  ~ReadOvf(ch)'
<1>1. ~tmr_csr'[ch]
  BY DEF WriteTcsr, TimerInv, TypeOK
<1>2. TmrCount(ch) \in Nat /\ TmrCount(ch) % TOP \in Count
  BY TruncatedCount DEF TimerInv
<1>3. CASE TmrCount(ch) >= TOP
  <2> DEFINE v == TmrCount(ch) % TOP
  <2>1. Anchor(ch, v)
    BY <1>3 DEF WriteTcsr
  <2> HIDE DEF v
  <2>2. tmr_pre'[ch] = v /\ tmr_at'[ch] = cycles
    BY <2>1 DEF Anchor, TimerInv, TypeOK
  <2>3. TmrCount(ch)' = CountFrom(v, cycles, cycles)
    BY <2>2 DEF TmrCount, CountFrom
  <2>4. v \in Count /\ cycles \in Nat
    BY <1>2 DEF v, TimerInv, TypeOK
  <2>5. TmrCount(ch)' = v
    BY <2>3, <2>4, CountAtAnchor
  <2> QED
    BY <1>1, <2>4, <2>5, TopAssumption DEF ReadOvf, Count
<1>4. CASE ~(TmrCount(ch) >= TOP)
  <2>1. tmr_pre' = tmr_pre /\ tmr_at' = tmr_at
    BY <1>4 DEF WriteTcsr
  <2>2. TmrCount(ch)' = TmrCount(ch)
    BY <2>1 DEF TmrCount, CountFrom
  <2> QED
    BY <1>1, <1>4, <2>2 DEF ReadOvf
<1> QED
  BY <1>3, <1>4

-----------------------------------------------------------------------------
(* The properties the run timer checks, for every value of the constants. *)

\* Every variable keeps its type, the 8-bit preloads included.
THEOREM TypeCorrect == Spec => []TypeOK
<1>1. TimerInv => TypeOK
  BY DEF TimerInv
<1> QED
  BY <1>1, InvariantHolds, PTL

\* The deadline is always that of the current anchor.
THEOREM DeadlineCorrect == Spec => []DeadlineExact
<1>1. TimerInv => DeadlineExact
  BY DEF TimerInv
<1> QED
  BY <1>1, InvariantHolds, PTL

\* One interrupt per arming.
THEOREM TickOnce == Spec => []OneTickPerArming
<1>1. TimerInv => OneTickPerArming
  BY DEF TimerInv
<1> QED
  BY <1>1, InvariantHolds, PTL

\* Every frame on the stack returns to an unmasked context.
THEOREM FramesUnmasked == Spec => []InterruptedUnmasked
BY UnmaskedStack, InvariantHolds, PTL

\* No tick is early: once the deadline has passed the flag is up.
THEOREM TickNotEarly == Spec => []TickShowsOverflow
BY InvShowsOverflow, InvariantHolds, PTL

\* Writing zero to OVF takes the flag down, on either channel.
THEOREM ClearTakesEffect == Spec => ClearTakes
<1>1. TimerInv /\ [Next]_vars
        => [\A ch \in Channel :
              WriteTcsr(ch, FALSE) /\ cycles' = cycles => ~ReadOvf(ch)']_vars
  BY ClearWorks
<1> QED
  BY <1>1, InvariantHolds, PTL DEF Spec, ClearTakes

\* The flag of a channel, once up, stays up until a write anchors it again
\* or its count wraps: a loop polling it cannot miss it.
THEOREM OverflowSticks == Spec => OvfSticky
<1>1. TimerInv /\ [Next]_vars
        => [\A ch \in Channel :
              /\ ReadOvf(ch)
              /\ ~ReadOvf(ch)'
              /\ tmr_pre[ch] + (cycles' - tmr_at[ch]) \div DIV < WRAP
              => tmr_at'[ch] = cycles]_vars
  BY FlagStays, NextIsRegisterStep
<1> QED
  BY <1>1, InvariantHolds, PTL DEF Spec, OvfSticky

\* A pending tick is taken away by a poll only: delivered, or dropped
\* because OVIE is clear at that moment.
THEOREM TickOnlyPolled == Spec => TickConsumedByPoll
<1>1. TimerInv /\ [Next]_vars
        => [irq_at # Never /\ irq_at' = Never
              => served' = served + 1
                   \/ (~ovie /\ ~ccr.i /\ Due(cycles'))]_vars
  BY DeadlineStays, NextIsRegisterStep
<1> QED
  BY <1>1, InvariantHolds, PTL DEF Spec, TickConsumedByPoll
=============================================================================
