-------------------------------- MODULE Trace --------------------------------
(***************************************************************************)
(* How tools/analyze.py finds the code of an image and tools/vtables.py    *)
(* repeats it: a worklist trace from seed addresses, then a scan for runs  *)
(* of pointers into what was traced, whose targets become seeds of the     *)
(* next round.  What comes out is the instruction set Machine.tla's images *)
(* are made of, and the entry points its chunks are cut at.                *)
(*                                                                         *)
(* The seeds of a round are a Python set, so the worklist starts in any    *)
(* order; pops are last in, first out.                                     *)
(***************************************************************************)
EXTENDS Image

CONSTANTS
  Images,       \* what may be traced: records of the files, their data for
                \* tables, and what SeedsOf reads
  Unknown,      \* the target of an indirect transfer
  HALF,         \* values of a halfword
  MIN_ENTRIES,
  ROUNDS        \* resolve's rounds

\* What decode() tells the trace of an instruction.
Insns ==
  [kind : {"seq", "jmp", "jcc", "call", "ret", "rte", "trap", "unk"},
   len : Nat \ {0}, target : Nat \cup {Unknown}]

ASSUME HalfAssumption == HALF \in Nat \ {0}
ASSUME RoundsAssumption == ROUNDS \in Nat \ {0, 1} /\ MIN_ENTRIES \in Nat \ {0}
ASSUME ImagesAssumption ==
  \A d \in Images :
    /\ d.rom \in Seq(Insns) /\ d.ram \in Seq(Insns) /\ Padding \in Insns
    /\ d.vector \in Seq(Nat) /\ d.handlers \in Seq(Nat)
    /\ d.recorded \subseteq Nat /\ IsFiniteSet(d.recorded)
    /\ d.prologues \subseteq Nat /\ IsFiniteSet(d.prologues)
    /\ d.header.magic \in BOOLEAN /\ d.header.entry \in Nat
    /\ d.halves \in Seq(0 .. (HALF - 1))

VARIABLES
  insns,      \* decode(d, a): the instruction each address holds
  halves,     \* the data scanned for tables, halfword by halfword
  seeds, work, reached, entries,
  outside,    \* unresolved["target outside the image"]
  phase,      \* trace, find, done
  round, prev,
  given,      \* history: what resolve was given
  first       \* history: what the first round reached

image == <<insns, halves, given>>
vars == <<image, seeds, work, reached, entries, outside, phase, round,
          prev, first>>

-----------------------------------------------------------------------------
(* analyze.analyze. *)

Traceable(a) == a < Length /\ a \in Regions

\* What an instruction puts on the worklist: its target, then the address
\* after it.
Successors(a) ==
  LET i == insns[a]
      target == IF i.kind \in {"jmp", "jcc", "call"} /\ i.target # Unknown
                  THEN <<i.target>> ELSE << >>
      next == IF i.kind = "jmp" THEN << >> ELSE <<a + i.len>>
  IN  IF i.kind \in {"unk", "ret", "rte"} THEN << >> ELSE target \o next

CalleesOf(a) ==
  IF insns[a].kind = "call" /\ insns[a].target # Unknown
    THEN {insns[a].target} ELSE {}

\* analyze() starts over from its seeds; those in the image are entries.
Start(from) ==
  LET inside == {a \in from : a < Length}
  IN  /\ work' \in SetToSeqs(inside)
      /\ reached' = {} /\ entries' = inside /\ outside' = {}

\* Variants: an address visited again; the trace given up at an address
\* outside; the regions not looked at.
VisitAgain(a) ==
  IF ~Traceable(a)
    THEN /\ outside' = outside \cup {a}
         /\ work' = Front(work)
         /\ UNCHANGED <<reached, entries>>
    ELSE /\ reached' = reached \cup {a}
         /\ entries' = entries \cup CalleesOf(a)
         /\ work' = Front(work) \o Successors(a)
         /\ UNCHANGED outside
VisitStops(a) ==
  IF a \in reached
    THEN work' = Front(work) /\ UNCHANGED <<reached, entries, outside>>
  ELSE IF ~Traceable(a)
    THEN /\ outside' = outside \cup {a}
         /\ work' = << >>
         /\ UNCHANGED <<reached, entries>>
    ELSE /\ reached' = reached \cup {a}
         /\ entries' = entries \cup CalleesOf(a)
         /\ work' = Front(work) \o Successors(a)
         /\ UNCHANGED outside
VisitUnbounded(a) ==
  IF a \in reached
    THEN work' = Front(work) /\ UNCHANGED <<reached, entries, outside>>
  ELSE IF a >= Length
    THEN /\ outside' = outside \cup {a}
         /\ work' = Front(work)
         /\ UNCHANGED <<reached, entries>>
    ELSE /\ reached' = reached \cup {a}
         /\ entries' = entries \cup CalleesOf(a)
         /\ work' = Front(work) \o Successors(a)
         /\ UNCHANGED outside

\* One turn of `while work`, for the address popped.
Visit(a) ==
  IF a \in reached
    THEN work' = Front(work) /\ UNCHANGED <<reached, entries, outside>>
  ELSE IF ~Traceable(a)
    THEN /\ outside' = outside \cup {a}
         /\ work' = Front(work)
         /\ UNCHANGED <<reached, entries>>
    ELSE /\ reached' = reached \cup {a}
         /\ entries' = entries \cup CalleesOf(a)
         /\ work' = Front(work) \o Successors(a)
         /\ UNCHANGED outside

Pop ==
  /\ phase = "trace" /\ work # << >>
  /\ Visit(Last(work))
  /\ UNCHANGED <<image, seeds, phase, round, prev, first>>

Traced ==
  /\ phase = "trace" /\ work = << >>
  /\ phase' = "find"
  /\ first' = IF round = 1 THEN reached ELSE first
  /\ UNCHANGED <<image, seeds, work, reached, entries, outside, round,
                 prev>>

-----------------------------------------------------------------------------
(* vtables.find and targets. *)

RAM_HI == Len(halves)
Word(a) == halves[a + 1] * HALF + halves[a + 2]

\* How many words in a row point into code, from a on.
Points(code, a) == a + 2 <= RAM_HI /\ Word(a) \in code
RunAt(code, a) == CHOOSE n \in 0 .. RAM_HI :
  (\A k \in 0 .. (n - 1) : Points(code, a + 2 * k)) /\ ~Points(code, a + 2 * n)

\* A table is such a run, if it is long enough and not mostly one value.
Table(code, a) == {Word(a + 2 * k) : k \in 0 .. (RunAt(code, a) - 1)}
IsTable(code, a) ==
  LET n == RunAt(code, a)
      distinct == IF n \div 2 > MIN_ENTRIES THEN n \div 2 ELSE MIN_ENTRIES
  IN  n >= MIN_ENTRIES /\ Cardinality(Table(code, a)) >= distinct

\* The tables, as the sets of their targets: scanned from the bottom, a
\* table skipped once taken.
Find(code) ==
  LET runs[a \in 0 .. RAM_HI] ==
        IF a >= RAM_HI - 2 THEN {}
        ELSE IF IsTable(code, a)
          THEN {Table(code, a)} \cup runs[a + 2 * RunAt(code, a)]
          ELSE runs[a + 1]
  IN  runs[0]

Targets == UNION Find(reached)

-----------------------------------------------------------------------------
(* vtables.resolve. *)

\* A round ends the loop when its tables add nothing to the seeds.
Settle ==
  /\ phase = "find"
  /\ Cardinality(seeds \cup Targets) = prev
  /\ phase' = "done"
  /\ UNCHANGED <<image, seeds, work, reached, entries, outside, round,
                 prev, first>>

\* Variant: the trace of the next round started from the old seeds.
AgainStale ==
  /\ phase = "find"
  /\ Cardinality(seeds \cup Targets) # prev
  /\ prev' = Cardinality(seeds \cup Targets)
  /\ seeds' = seeds \cup Targets
  /\ IF round < ROUNDS
       THEN round' = round + 1 /\ phase' = "trace" /\ Start(seeds)
       ELSE /\ phase' = "done"
            /\ UNCHANGED <<round, work, reached, entries, outside>>
  /\ UNCHANGED <<image, first>>

Again ==
  /\ phase = "find"
  /\ Cardinality(seeds \cup Targets) # prev
  /\ prev' = Cardinality(seeds \cup Targets)
  /\ seeds' = seeds \cup Targets
  /\ IF round < ROUNDS
       THEN round' = round + 1 /\ phase' = "trace" /\ Start(seeds')
       ELSE /\ phase' = "done"
            /\ UNCHANGED <<round, work, reached, entries, outside>>
  /\ UNCHANGED <<image, first>>

Init ==
  /\ given \in {d \in Images : Fits(d.rom, d.ram)}
  /\ insns = build(given.rom, given.ram) /\ halves = given.halves
  /\ seeds = SeedsOf(given)
  /\ LET inside == {a \in seeds : a < Length}
     IN  work \in SetToSeqs(inside) /\ entries = inside
  /\ reached = {} /\ outside = {}
  /\ phase = "trace" /\ round = 1 /\ prev = -1 /\ first = {}

Next == Pop \/ Traced \/ Settle \/ Again

\* The tool is a sequential program that runs to its end.
Spec == Init /\ [][Next]_vars /\ WF_vars(Next)

-----------------------------------------------------------------------------
(* Properties. *)

AddressesFrom(a) == {Successors(a)[k] : k \in DOMAIN Successors(a)}

\* What is traced lies in the image and in its mapped regions -- a trace in
\* the 0xFF fill "never stops" (analyze.py:133-136).
TypeOK ==
  /\ \A a \in reached : Traceable(a)
  /\ outside \cap reached = {}
  /\ \A k \in DOMAIN work : work[k] \in Nat
  /\ phase \in {"trace", "find", "done"}
  /\ round \in 1 .. ROUNDS

\* While the trace runs, nothing is lost: every seed and every successor of
\* a traced instruction is traced, known to be outside, or still waiting --
\* also one popped and found already there (analyze.py:166-195).
NothingForgotten ==
  phase = "trace" =>
    LET due == {a \in seeds : a < Length}
                 \cup UNION {AddressesFrom(a) : a \in reached}
    IN  due \subseteq reached \cup outside
                        \cup {work[k] : k \in DOMAIN work}

\* The least set of traceable addresses that holds the traceable seeds and
\* is closed under successors.
Closed(from, S) ==
  \A a \in Regions :
    a \in from \cup UNION {AddressesFrom(b) : b \in S} => a \in S
Closure(from) == {a \in Regions : \A S \in SUBSET Regions : Closed(from, S) => a \in S}

\* What a round traces is exactly the code reachable from its seeds,
\* whatever order the seeds are taken in, and its entry points are exactly
\* those seeds and the targets of the calls in it.
TraceIsClosure ==
  phase = "find" =>
    /\ reached = Closure(seeds)
    /\ entries = {a \in seeds : a < Length}
                   \cup UNION {CalleesOf(a) : a \in reached}

\* The code handed to emit.py is what a trace from all the seeds, tables'
\* targets included, would reach: the loop never stops on a result its own
\* tables have overtaken (vtables.py:101-110).  It is also what the first
\* round reached, and there are two at most: tables point only to code
\* already traced, and add entry points.
ResultIsFixpoint ==
  phase = "done" =>
    /\ Targets \subseteq entries
    /\ reached = Closure(seeds \cup Targets)
    /\ reached = first /\ round <= 2

\* An address the image or a recording names as an entry, in a mapped
\* region, is traced and labelled as one in what is handed on, after every
\* round; and the vector table itself is decoded as code only where a vector,
\* a header, a handler, a prologue or code that is traced leads there --
\* "seeding on it makes the trace ... walk off into them" (analyze.py:86-89).
EntriesHonoured ==
  phase = "done" =>
    LET os == IF given.header.magic THEN {given.header.entry % ADDRESSES} ELSE {}
        table == 0 .. (VECTOR_BYTES - 1)
        known == UNION {(ToSet(given.vector) \cup os) \ {0},
                        ToSet(given.handlers), given.recorded \ table}
        named == known \cup given.prologues
                   \cup UNION {AddressesFrom(a) : a \in reached}
    IN  /\ \A a \in known : Traceable(a) => a \in reached \cap entries
        /\ reached \cap table \subseteq named

\* The tool ends, on every image: loops in the code traced, and tables that
\* point at one another, included.
ResolveEnds == <>(phase = "done")
=============================================================================
