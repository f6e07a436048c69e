----------------------------- MODULE TraceProofs -----------------------------
(***************************************************************************)
(* Proofs about Trace.tla: for every image, every order of the worklist    *)
(* and every number of rounds above one.                                   *)
(***************************************************************************)
EXTENDS Trace, SequenceTheorems, FiniteSetTheorems, WellFoundedInduction, TLAPS

-----------------------------------------------------------------------------
(* Sequences as worklists. *)

\* What waits in a worklist.
Waiting(s) == {s[k] : k \in DOMAIN s}

LEMMA PopWork ==
  ASSUME NEW S, NEW s \in Seq(S), s # << >>
  PROVE  /\ Front(s) \in Seq(S) /\ Last(s) \in S
         /\ Waiting(s) = Waiting(Front(s)) \cup {Last(s)}
<1> DEFINE n == Len(s)
<1>1. n \in Nat \ {0} /\ DOMAIN s = 1 .. n
  BY EmptySeq, LenProperties
<1>2. /\ Front(s) \in Seq(S) /\ Len(Front(s)) = n - 1
      /\ \A i \in 1 .. (n - 1) : Front(s)[i] = s[i]
  <2>1. \A i \in 1 .. (n - 1) : s[i] \in S
    BY <1>1, ElementOfSeq
  <2> HIDE DEF n
  <2>2. /\ SubSeq(s, 1, n - 1) \in Seq(S)
        /\ Len(SubSeq(s, 1, n - 1)) = IF 1 <= n - 1 THEN (n - 1) - 1 + 1 ELSE 0
        /\ \A i \in 1 .. (n - 1) - 1 + 1 : SubSeq(s, 1, n - 1)[i] = s[1 + i - 1]
    BY <1>1, <2>1, SubSeqProperties
  <2>3. \A i \in 1 .. (n - 1) : SubSeq(s, 1, n - 1)[i] = s[i]
    BY <1>1, <2>2
  <2> QED
    BY <1>1, <2>2, <2>3 DEF Front, n
<1>3. DOMAIN Front(s) = 1 .. (n - 1)
  BY <1>2, LenProperties
<1>4. Last(s) = s[n] /\ Last(s) \in S
  BY <1>1, ElementOfSeq DEF Last
<1>5. 1 .. n = (1 .. (n - 1)) \cup {n}
  BY <1>1
<1> QED
  BY <1>1, <1>2, <1>3, <1>4, <1>5 DEF Waiting

LEMMA AppendWork ==
  ASSUME NEW S, NEW s \in Seq(S), NEW t \in Seq(S)
  PROVE  /\ s \o t \in Seq(S)
         /\ Waiting(s \o t) = Waiting(s) \cup Waiting(t)
<1>1. s \o t \in Seq(S)
  BY ConcatProperties
<1>2. /\ Waiting(s) = Range(s) /\ Waiting(t) = Range(t)
      /\ Waiting(s \o t) = Range(s \o t)
  BY <1>1, RangeEquality, LenProperties DEF Waiting
<1> QED
  BY <1>1, <1>2, RangeConcatenation

\* Any order of a finite set holds all of it.
LEMMA OrderHoldsAll ==
  ASSUME NEW S, IsFiniteSet(S), NEW s \in SetToSeqs(S)
  PROVE  s \in Seq(S) /\ Waiting(s) = S
<1> DEFINE n == Cardinality(S)
<1>1. n \in Nat
  BY FS_CardinalityType
<1>2. s \in [1 .. n -> S] /\ \A i, j \in 1 .. n : i # j => s[i] # s[j]
  BY DEF SetToSeqs
<1>3. s \in Injection(1 .. n, S)
  BY <1>2 DEF Injection, IsInjective
<1>4. IsFiniteSet(1 .. n) /\ Cardinality(1 .. n) = n
  BY <1>1, FS_Interval
<1> HIDE DEF n
<1>5. s \in Surjection(1 .. n, S)
  BY <1>3, <1>4, FS_Injection DEF n
<1>6. Waiting(s) = S
  BY <1>2, <1>5 DEF Waiting, Surjection
<1>7. s \in Seq(S)
  BY <1>1, <1>2, SeqDef
<1> QED
  BY <1>6, <1>7

-----------------------------------------------------------------------------
(* The least closed set. *)

LEMMA RegionsInImage == Regions \subseteq 0 .. (Length - 1) /\ IsFiniteSet(Regions)
<1>1. Length \in Nat /\ 0 \in Int /\ Length - 1 \in Int
  BY MapAssumption DEF Length
<1>2. IsFiniteSet(0 .. (Length - 1))
  BY <1>1, FS_Interval
<1>3. Regions \in SUBSET (0 .. (Length - 1))
  BY DEF Regions
<1> QED
  BY <1>2, <1>3, FS_Subset

LEMMA TraceableIsMapped ==
  \A a : Traceable(a) <=> a \in Regions
<1>1. \A a \in Regions : a < Length
  BY RegionsInImage, MapAssumption DEF Length
<1> QED
  BY <1>1 DEF Traceable

LEMMA ClosureIsClosed ==
  ASSUME NEW from
  PROVE  /\ Closure(from) \subseteq Regions
         /\ Closed(from, Closure(from))
         /\ \A S \in SUBSET Regions : Closed(from, S) => Closure(from) \subseteq S
<1>1. \A S \in SUBSET Regions : Closed(from, S) => Closure(from) \subseteq S
  BY DEF Closure
<1>2. Closed(from, Closure(from))
  <2> SUFFICES ASSUME NEW a \in Regions,
                      a \in from \cup UNION {AddressesFrom(b) : b \in Closure(from)},
                      NEW S \in SUBSET Regions, Closed(from, S)
               PROVE  a \in S
    BY DEF Closed, Closure
  <2>1. Closure(from) \subseteq S
    BY <1>1
  <2> QED
    BY <2>1 DEF Closed
<1> QED
  BY <1>1, <1>2 DEF Closure

\* Seeds already reached add nothing.
LEMMA ReachedSeedsAddNothing ==
  ASSUME NEW from, NEW T, T \subseteq Closure(from)
  PROVE  Closure(from \cup T) = Closure(from)
<1>1. ASSUME NEW S \in SUBSET Regions
      PROVE  Closed(from \cup T, S) <=> Closed(from, S)
  <2>1. Closed(from \cup T, S) => Closed(from, S)
    BY DEF Closed
  <2>2. ASSUME Closed(from, S) PROVE Closed(from \cup T, S)
    <3>1. T \subseteq S
      BY <2>2, ClosureIsClosed
    <3> QED
      BY <2>2, <3>1 DEF Closed
  <2> QED
    BY <2>1, <2>2
<1> QED
  BY <1>1 DEF Closure

\* Nothing is in the closure without a reason.
LEMMA ClosureIsJustified ==
  ASSUME NEW from, NEW a \in Closure(from)
  PROVE  a \in from \cup UNION {AddressesFrom(b) : b \in Closure(from)}
<1> SUFFICES ASSUME a \notin from \cup UNION {AddressesFrom(b) : b \in Closure(from)}
             PROVE  FALSE
  OBVIOUS
<1> DEFINE S == Closure(from) \ {a}
<1>1. S \in SUBSET Regions
  BY ClosureIsClosed
<1>2. Closed(from, S)
  <2> SUFFICES ASSUME NEW b \in Regions,
                      b \in from \cup UNION {AddressesFrom(c) : c \in S}
               PROVE  b \in S
    BY DEF Closed
  <2>1. b \in from \cup UNION {AddressesFrom(c) : c \in Closure(from)}
    OBVIOUS
  <2>2. b \in Closure(from)
    BY <2>1, ClosureIsClosed DEF Closed
  <2> QED
    BY <2>1, <2>2
<1> QED
  BY <1>1, <1>2, ClosureIsClosed

-----------------------------------------------------------------------------
(* The scan for tables. *)

\* A nonempty set of naturals has a least element.
LEMMA NatMin ==
  ASSUME NEW T, T \subseteq Nat, T # {}
  PROVE  \E x \in T : \A y \in T : x <= y
<1> DEFINE R == OpToRel(<, Nat)
<1>1. IsWellFoundedOn(R, Nat)
  BY NatLessThanWellFounded
<1>2. \A x, y \in Nat : x < y => <<x, y>> \in R
  BY DEF OpToRel
<1> HIDE DEF R
<1>3. PICK x \in T : \A y \in T : <<y, x>> \notin R
  BY <1>1, WFMin
<1>4. \A y \in T : ~(y < x)
  BY <1>2, <1>3
<1>5. \A y \in T : x <= y
  BY <1>4
<1> QED
  BY <1>5

\* A run ends at the first word that does not point into code, inside the
\* data.
LEMMA RunIsDefined ==
  ASSUME RAM_HI \in Nat, NEW code, NEW a \in 0 .. RAM_HI
  PROVE  /\ RunAt(code, a) \in 0 .. RAM_HI
         /\ \A k \in 0 .. (RunAt(code, a) - 1) : Points(code, a + 2 * k)
         /\ a + 2 * RunAt(code, a) \in 0 .. RAM_HI
<1> DEFINE Ends == {n \in 0 .. RAM_HI : ~Points(code, a + 2 * n)}
           IsRun(n) == /\ \A k \in 0 .. (n - 1) : Points(code, a + 2 * k)
                       /\ ~Points(code, a + 2 * n)
<1>1. RAM_HI \in Ends
  <2>1. ~(a + 2 * RAM_HI + 2 <= RAM_HI)
    OBVIOUS
  <2> QED
    BY <2>1 DEF Points
<1>2. PICK n \in Ends : \A m \in Ends : n <= m
  <2>1. Ends \subseteq Nat /\ Ends # {}
    BY <1>1
  <2> QED
    BY <2>1, NatMin
<1>3. IsRun(n)
  <2> SUFFICES ASSUME NEW k \in 0 .. (n - 1) PROVE Points(code, a + 2 * k)
    BY <1>2
  <2>1. k \in 0 .. RAM_HI /\ ~(n <= k)
    BY <1>2
  <2> QED
    BY <1>2, <2>1
<1>4. RunAt(code, a) = CHOOSE m \in 0 .. RAM_HI : IsRun(m)
  BY DEF RunAt
<1> DEFINE r == RunAt(code, a)
<1>5. r \in 0 .. RAM_HI /\ IsRun(r)
  <2> HIDE DEF IsRun, r
  <2>1. n \in 0 .. RAM_HI
    OBVIOUS
  <2>2. r = CHOOSE m \in 0 .. RAM_HI : IsRun(m)
    BY <1>4 DEF r
  <2> QED
    BY <1>3, <2>1, <2>2
<1>6. a + 2 * r \in 0 .. RAM_HI
  <2>1. CASE r = 0
    BY <2>1
  <2>2. CASE r # 0
    <3>1. r - 1 \in 0 .. (r - 1)
      BY <1>5, <2>2
    <3>2. Points(code, a + 2 * (r - 1))
      BY <1>5, <3>1
    <3>3. a + 2 * (r - 1) + 2 <= RAM_HI
      BY <3>2 DEF Points
    <3> HIDE DEF r
    <3> QED
      BY <1>5, <3>3
  <2> QED
    BY <2>1, <2>2
<1> QED
  BY <1>5, <1>6

\* What a table lists is code: every word of the run points into it.
LEMMA TablePointsToCode ==
  ASSUME RAM_HI \in Nat, NEW code, NEW a \in 0 .. RAM_HI
  PROVE  Table(code, a) \subseteq code
BY RunIsDefined DEF Table, Points

\* One step of the scan, given what it finds further up.
Scan(code, f, a) ==
  IF a >= RAM_HI - 2 THEN {}
  ELSE IF IsTable(code, a)
    THEN {Table(code, a)} \cup f[a + 2 * RunAt(code, a)]
    ELSE f[a + 1]

\* The scan goes up.
LEMMA ScanGoesUp ==
  ASSUME RAM_HI \in Nat, NEW code, NEW a \in 0 .. RAM_HI, ~(a >= RAM_HI - 2)
  PROVE  /\ a + 1 \in 0 .. RAM_HI /\ a + 1 > a
         /\ IsTable(code, a) => /\ a + 2 * RunAt(code, a) \in 0 .. RAM_HI
                                /\ a + 2 * RunAt(code, a) > a
<1>1. a + 1 \in 0 .. RAM_HI /\ a + 1 > a
  OBVIOUS
<1>2. ASSUME IsTable(code, a)
      PROVE  /\ a + 2 * RunAt(code, a) \in 0 .. RAM_HI
             /\ a + 2 * RunAt(code, a) > a
  <2>1. RunAt(code, a) \in Nat /\ a + 2 * RunAt(code, a) \in 0 .. RAM_HI
    BY RunIsDefined
  <2>2. RunAt(code, a) >= 1
    BY <1>2, <2>1, RoundsAssumption DEF IsTable
  <2> QED
    BY <2>1, <2>2
<1> QED
  BY <1>1, <1>2

\* So it is defined: a function found from the top down satisfies it.
LEMMA ScanIsDefined ==
  ASSUME RAM_HI \in Nat, NEW code
  PROVE  \E f : f = [a \in 0 .. RAM_HI |-> Scan(code, f, a)]
<1> DEFINE Dom(m) == (RAM_HI - m) .. RAM_HI
           Good(m, f) == f = [a \in Dom(m) |-> Scan(code, f, a)]
           Bad == {m \in 0 .. RAM_HI : \A f : ~Good(m, f)}
<1>1. ASSUME NEW m \in 0 .. RAM_HI, NEW f, m # 0, Good(m - 1, f)
      PROVE  \E g : Good(m, g)
  <2> DEFINE n == RAM_HI - m
             g == [a \in Dom(m) |-> IF a = n THEN Scan(code, f, n) ELSE f[a]]
  <2>1. n \in Nat /\ n < RAM_HI /\ Dom(m) = n .. RAM_HI
        /\ Dom(m - 1) = (n + 1) .. RAM_HI
    BY <1>1
  <2>2. ASSUME NEW a \in Dom(m), ~(a >= RAM_HI - 2)
        PROVE  /\ g[a + 1] = f[a + 1]
               /\ IsTable(code, a) => g[a + 2 * RunAt(code, a)]
                                        = f[a + 2 * RunAt(code, a)]
    <3>1. a \in 0 .. RAM_HI /\ a >= n
      BY <2>1
    <3>2. \A b \in 0 .. RAM_HI : b > a => b \in Dom(m) /\ b # n
      BY <2>1, <3>1
    <3> QED
      BY <2>2, <3>1, <3>2, ScanGoesUp
  <2>3. ASSUME NEW a \in Dom(m) PROVE Scan(code, g, a) = Scan(code, f, a)
    <3> HIDE DEF g, Dom, n
    <3> QED
      BY <2>2 DEF Scan
  <2>4. ASSUME NEW a \in Dom(m) PROVE g[a] = Scan(code, g, a)
    <3>1. CASE a = n
      BY <2>3, <3>1
    <3>2. CASE a # n
      <4>1. a \in Dom(m - 1)
        BY <2>1, <3>2
      <4>2. f[a] = Scan(code, f, a)
        <5> HIDE DEF Dom
        <5> QED
          BY <1>1, <4>1
      <4> QED
        BY <2>3, <3>2, <4>2
    <3> QED
      BY <3>1, <3>2
  <2>5. Good(m, g)
    <3> HIDE DEF Dom
    <3>1. DOMAIN g = Dom(m) /\ g = [a \in Dom(m) |-> g[a]]
      OBVIOUS
    <3> HIDE DEF g
    <3> QED
      BY <2>4, <3>1
  <2> QED
    BY <2>5
<1>2. Good(0, [a \in Dom(0) |-> {}])
  <2>1. \A a \in Dom(0) : a >= RAM_HI - 2
    OBVIOUS
  <2> HIDE DEF Dom
  <2> QED
    BY <2>1 DEF Scan
<1> HIDE DEF Good
<1>3. Bad = {}
  <2> SUFFICES ASSUME Bad # {} PROVE FALSE
    OBVIOUS
  <2>1. Bad \subseteq Nat
    OBVIOUS
  <2>2. PICK m \in Bad : \A j \in Bad : m <= j
    BY <2>1, NatMin
  <2>3. m # 0
    BY <1>2
  <2>4. m - 1 \in 0 .. RAM_HI /\ ~(m <= m - 1)
    BY <2>3
  <2>5. m - 1 \notin Bad
    BY <2>2, <2>4
  <2>6. PICK f : Good(m - 1, f)
    BY <2>4, <2>5
  <2> QED
    BY <1>1, <2>3, <2>6
<1>4. RAM_HI \notin Bad /\ RAM_HI \in 0 .. RAM_HI
  BY <1>3
<1>5. PICK f : Good(RAM_HI, f)
  BY <1>4
<1>6. Dom(RAM_HI) = 0 .. RAM_HI
  OBVIOUS
<1> QED
  BY <1>5, <1>6 DEF Good

\* No table that is found lists anything but code already traced, wherever
\* the tables fall and overlap.
LEMMA TablesPointToCode ==
  ASSUME RAM_HI \in Nat, NEW code
  PROVE  UNION Find(code) \subseteq code
<1> DEFINE f == CHOOSE g : g = [a \in 0 .. RAM_HI |-> Scan(code, g, a)]
<1>1. Find(code) = f[0]
  BY DEF Find, Scan
<1>2. f = [a \in 0 .. RAM_HI |-> Scan(code, f, a)]
  BY ScanIsDefined
<1> HIDE DEF f
<1>3. \A a \in 0 .. RAM_HI : f[a] = Scan(code, f, a)
  BY <1>2
<1> DEFINE Bad == {m \in 0 .. RAM_HI : ~(UNION f[RAM_HI - m] \subseteq code)}
<1>4. Bad = {}
  <2> SUFFICES ASSUME Bad # {} PROVE FALSE
    OBVIOUS
  <2>1. PICK m \in Bad : \A j \in Bad : m <= j
    <3>1. Bad \subseteq Nat
      OBVIOUS
    <3> QED
      BY <3>1, NatMin
  <2> DEFINE n == RAM_HI - m
  <2>2. n \in 0 .. RAM_HI
    OBVIOUS
  <2>3. ASSUME NEW b \in 0 .. RAM_HI, b > n PROVE UNION f[b] \subseteq code
    <3>1. RAM_HI - b \in 0 .. RAM_HI /\ ~(m <= RAM_HI - b)
          /\ RAM_HI - (RAM_HI - b) = b
      BY <2>3
    <3> QED
      BY <2>1, <3>1
  <2>4. f[n] = Scan(code, f, n)
    BY <1>3, <2>2
  <2>5. ~(UNION f[n] \subseteq code)
    OBVIOUS
  <2> HIDE DEF n
  <2>6. UNION Scan(code, f, n) \subseteq code
    <3>1. CASE n >= RAM_HI - 2
      BY <3>1 DEF Scan
    <3>2. CASE ~(n >= RAM_HI - 2) /\ IsTable(code, n)
      <4>1. UNION f[n + 2 * RunAt(code, n)] \subseteq code
        BY <2>2, <2>3, <3>2, ScanGoesUp
      <4>2. Table(code, n) \subseteq code
        BY <2>2, TablePointsToCode
      <4>3. Scan(code, f, n) = {Table(code, n)} \cup f[n + 2 * RunAt(code, n)]
        BY <3>2 DEF Scan
      <4> QED
        BY <4>1, <4>2, <4>3
    <3>3. CASE ~(n >= RAM_HI - 2) /\ ~IsTable(code, n)
      <4>1. UNION f[n + 1] \subseteq code
        BY <2>2, <2>3, <3>3, ScanGoesUp
      <4> QED
        BY <3>3, <4>1 DEF Scan
    <3> QED
      BY <3>1, <3>2, <3>3
  <2> QED
    BY <2>4, <2>5, <2>6
<1>5. RAM_HI \in 0 .. RAM_HI /\ RAM_HI - RAM_HI = 0
  OBVIOUS
<1> QED
  BY <1>1, <1>4, <1>5

-----------------------------------------------------------------------------
(* The invariant. *)

Reachable(S) == UNION {AddressesFrom(a) : a \in S}
Called(S) == UNION {CalleesOf(a) : a \in S}

\* The state of an image under trace.
Typed ==
  /\ given \in Images /\ halves = given.halves
  /\ insns \in [0 .. (Length - 1) -> Insns]
  /\ seeds \subseteq Nat /\ IsFiniteSet(seeds)
  /\ work \in Seq(Nat)
  /\ reached \subseteq Regions
  /\ \A a \in outside : ~Traceable(a)
  /\ phase \in {"trace", "find", "done"}

\* Nothing the trace owes is lost, and it owes nothing but what is reachable.
Owed ==
  /\ {a \in seeds : a < Length} \cup Reachable(reached)
       \subseteq reached \cup outside \cup Waiting(work)
  /\ \A S \in SUBSET Regions :
       Closed(seeds, S) => reached \cup (Waiting(work) \cap Regions) \subseteq S
  /\ phase # "trace" => work = << >>
  /\ entries = {a \in seeds : a < Length} \cup Called(reached)

\* The second round has the seeds of the first and its tables', reaches no
\* more, and is the last.
Rounds ==
  /\ round \in {1, 2}
  /\ round = 1 => prev = -1 /\ seeds = SeedsOf(given) /\ phase # "done"
  /\ round = 2 => /\ prev = Cardinality(seeds)
                  /\ SeedsOf(given) \subseteq seeds
                  /\ first = Closure(seeds)
                  /\ first = Closure(SeedsOf(given))
                  /\ UNION Find(first) \subseteq seeds
  /\ phase # "trace" => first = reached

TraceInv == Typed /\ Owed /\ Rounds

\* With nothing left to do, what was traced is the closure.
LEMMA OwedIsClosure ==
  ASSUME Typed, Owed, work = << >>
  PROVE  reached = Closure(seeds)
<1>1. Waiting(work) = {}
  BY DEF Waiting
<1>2. Closed(seeds, reached)
  <2> SUFFICES ASSUME NEW a \in Regions, a \in seeds \cup Reachable(reached)
               PROVE  a \in reached
    BY DEF Closed, Reachable
  <2>1. Traceable(a) /\ a < Length
    BY TraceableIsMapped DEF Traceable
  <2>2. a \notin outside
    BY <2>1 DEF Typed
  <2> QED
    BY <1>1, <2>1, <2>2 DEF Owed
<1>3. Closure(seeds) \subseteq reached
  BY <1>2, ClosureIsClosed DEF Typed
<1>4. reached \subseteq Closure(seeds)
  BY ClosureIsClosed DEF Owed
<1> QED
  BY <1>3, <1>4

-----------------------------------------------------------------------------
(* Its start. *)

LEMMA ToSetFinite ==
  ASSUME NEW S, NEW s \in Seq(S)
  PROVE  ToSet(s) \subseteq S /\ IsFiniteSet(ToSet(s))
<1>1. Len(s) \in Nat /\ s \in [1 .. Len(s) -> S] /\ DOMAIN s = 1 .. Len(s)
  BY LenProperties
<1>2. s \in Surjection(1 .. Len(s), ToSet(s))
  BY <1>1 DEF Surjection, ToSet
<1>3. IsFiniteSet(1 .. Len(s))
  BY <1>1, FS_Interval
<1> QED
  BY <1>1, <1>2, <1>3, FS_Surjection DEF ToSet

\* resolve's seeds are finitely many addresses.
LEMMA SeedsTyped ==
  ASSUME NEW d \in Images
  PROVE  SeedsOf(d) \subseteq Nat /\ IsFiniteSet(SeedsOf(d))
<1>1. /\ d.vector \in Seq(Nat) /\ d.handlers \in Seq(Nat)
      /\ d.recorded \subseteq Nat /\ IsFiniteSet(d.recorded)
      /\ d.prologues \subseteq Nat /\ IsFiniteSet(d.prologues)
      /\ d.header.entry \in Nat
  BY ImagesAssumption
<1>2. ToSet(d.vector) \subseteq Nat /\ IsFiniteSet(ToSet(d.vector))
  BY <1>1, ToSetFinite
<1>3. vectors(d) \in SUBSET ToSet(d.vector)
  BY DEF vectors
<1>4. vectors(d) \subseteq Nat /\ IsFiniteSet(vectors(d))
  BY <1>2, <1>3, FS_Subset
<1>5. irq_handlers(d) \subseteq Nat /\ IsFiniteSet(irq_handlers(d))
  BY <1>1, ToSetFinite DEF irq_handlers
<1>6. pc_seeds(d) \in SUBSET d.recorded
  BY DEF pc_seeds
<1>7. pc_seeds(d) \subseteq Nat /\ IsFiniteSet(pc_seeds(d))
  BY <1>1, <1>6, FS_Subset
<1>8. cyos_entry(d) \subseteq Nat /\ IsFiniteSet(cyos_entry(d))
  <2>1. d.header.entry % ADDRESSES \in Nat
    BY <1>1, MapAssumption
  <2>2. IsFiniteSet({d.header.entry % ADDRESSES})
    BY FS_Singleton
  <2>3. cyos_entry(d) \in SUBSET {d.header.entry % ADDRESSES}
    BY DEF cyos_entry
  <2> QED
    BY <2>1, <2>2, <2>3, FS_Subset
<1>9. IsFiniteSet(SeedsOf(d))
  <2>1. IsFiniteSet(vectors(d) \cup d.prologues)
    BY <1>1, <1>4, FS_Union
  <2>2. IsFiniteSet(vectors(d) \cup d.prologues \cup irq_handlers(d))
    BY <1>5, <2>1, FS_Union
  <2>3. IsFiniteSet(vectors(d) \cup d.prologues \cup irq_handlers(d) \cup pc_seeds(d))
    BY <1>7, <2>2, FS_Union
  <2> QED
    BY <1>8, <2>3, FS_Union DEF SeedsOf
<1> QED
  BY <1>1, <1>4, <1>5, <1>7, <1>8, <1>9 DEF SeedsOf

LEMMA BuildTyped ==
  ASSUME NEW d \in Images, Fits(d.rom, d.ram)
  PROVE  build(d.rom, d.ram) \in [0 .. (Length - 1) -> Insns]
<1>1. /\ d.rom \in Seq(Insns) /\ d.ram \in Seq(Insns) /\ Padding \in Insns
      /\ Len(d.rom) = ROM_SIZE /\ Len(d.ram) = RAM_SIZE
  BY ImagesAssumption DEF Fits
<1>2. \A a : InRom(a) => d.rom[a + 1] \in Insns
  <2> SUFFICES ASSUME NEW a, InRom(a) PROVE d.rom[a + 1] \in Insns
    OBVIOUS
  <2>1. a + 1 \in 1 .. Len(d.rom)
    BY <1>1, MapAssumption DEF InRom
  <2> QED
    BY <1>1, <2>1, ElementOfSeq
<1>3. \A a : InRam(a) => d.ram[a - RAM_BASE + 1] \in Insns
  <2> SUFFICES ASSUME NEW a, InRam(a) PROVE d.ram[a - RAM_BASE + 1] \in Insns
    OBVIOUS
  <2>1. a - RAM_BASE + 1 \in 1 .. Len(d.ram)
    BY <1>1, MapAssumption DEF InRam, Length
  <2> QED
    BY <1>1, <2>1, ElementOfSeq
<1> HIDE DEF Insns
<1> QED
  BY <1>1, <1>2, <1>3 DEF build

\* A worklist that starts from all its seeds owes exactly them.
LEMMA StartOwed ==
  ASSUME insns' = insns, seeds' \subseteq Nat, IsFiniteSet(seeds'), Start(seeds'),
         phase' = "trace"
  PROVE  Owed' /\ work' \in Seq(Nat) /\ reached' = {} /\ outside' = {}
<1> DEFINE inside == {a \in seeds' : a < Length}
<1>1. IsFiniteSet(inside) /\ inside \subseteq Nat
  BY FS_Subset
<1>2. work' \in SetToSeqs(inside) /\ reached' = {} /\ entries' = inside /\ outside' = {}
  BY DEF Start
<1>3. work' \in Seq(inside) /\ Waiting(work') = inside
  BY <1>1, <1>2, OrderHoldsAll
<1>4. work' \in Seq(Nat)
  BY <1>1, <1>3, SeqMonotonic
<1>5. \A S : Closed(seeds, S)' => inside \cap Regions \subseteq S
  BY DEF Closed
<1> HIDE DEF inside
<1>6. Reachable(reached)' = {} /\ Called(reached)' = {}
  BY <1>2 DEF Reachable, Called
<1>7. Waiting(work)' = inside
  BY <1>3 DEF Waiting
<1> QED
  BY <1>2, <1>4, <1>5, <1>6, <1>7 DEF Owed, inside

LEMMA TraceInitInv == Init => TraceInv
<1> SUFFICES ASSUME Init PROVE TraceInv
  OBVIOUS
<1>1. /\ given \in Images /\ Fits(given.rom, given.ram)
      /\ insns = build(given.rom, given.ram) /\ halves = given.halves
      /\ seeds = SeedsOf(given)
      /\ reached = {} /\ outside = {} /\ phase = "trace" /\ round = 1 /\ prev = -1
  BY DEF Init
<1> DEFINE inside == {a \in seeds : a < Length}
<1>2. work \in SetToSeqs(inside) /\ entries = inside
  BY DEF Init
<1>3. seeds \subseteq Nat /\ IsFiniteSet(seeds)
  BY <1>1, SeedsTyped
<1>4. IsFiniteSet(inside) /\ inside \subseteq Nat
  BY <1>3, FS_Subset
<1>5. work \in Seq(inside) /\ Waiting(work) = inside
  BY <1>2, <1>4, OrderHoldsAll
<1>6. work \in Seq(Nat)
  BY <1>4, <1>5, SeqMonotonic
<1>7. Typed
  BY <1>1, <1>3, <1>6, BuildTyped DEF Typed
<1>8. \A S : Closed(seeds, S) => inside \cap Regions \subseteq S
  BY DEF Closed
<1>9. Owed
  <2> HIDE DEF inside
  <2>1. Reachable(reached) = {} /\ Called(reached) = {}
    BY <1>1 DEF Reachable, Called
  <2> QED
    BY <1>1, <1>2, <1>5, <1>8, <2>1 DEF Owed, inside
<1> QED
  BY <1>1, <1>7, <1>9 DEF TraceInv, Rounds

-----------------------------------------------------------------------------
(* Its steps. *)

\* What an instruction puts on the worklist are the addresses it leads to.
LEMMA SuccessorsTyped ==
  ASSUME Typed, NEW a \in Regions
  PROVE  Successors(a) \in Seq(Nat) /\ Waiting(Successors(a)) = AddressesFrom(a)
<1>1. insns[a] \in Insns /\ a \in Nat
  BY RegionsInImage DEF Typed
<1>2. a + insns[a].len \in Nat
  BY <1>1 DEF Insns
<1>3. insns[a].target \in Nat \cup {Unknown}
  BY <1>1 DEF Insns
<1> DEFINE target == IF insns[a].kind \in {"jmp", "jcc", "call"}
                          /\ insns[a].target # Unknown
                       THEN <<insns[a].target>> ELSE << >>
           next == IF insns[a].kind = "jmp" THEN << >> ELSE <<a + insns[a].len>>
<1>4. target \in Seq(Nat) /\ next \in Seq(Nat)
  BY <1>2, <1>3
<1>5. Successors(a) = IF insns[a].kind \in {"unk", "ret", "rte"}
                        THEN << >> ELSE target \o next
  BY DEF Successors
<1> HIDE DEF target, next
<1>6. target \o next \in Seq(Nat)
  BY <1>4, ConcatProperties
<1> QED
  BY <1>5, <1>6 DEF Waiting, AddressesFrom

\* Facts about an image stay while it is the one traced.
LEMMA SameImage ==
  ASSUME UNCHANGED image
  PROVE  /\ \A a : AddressesFrom(a)' = AddressesFrom(a) /\ CalleesOf(a)' = CalleesOf(a)
         /\ SeedsOf(given)' = SeedsOf(given)
         /\ Closure(SeedsOf(given))' = Closure(SeedsOf(given))
         /\ seeds' = seeds => /\ Closure(seeds)' = Closure(seeds)
                             /\ \A S : Closed(seeds, S)' <=> Closed(seeds, S)
         /\ first' = first => Find(first)' = Find(first)
<1>1. insns' = insns /\ halves' = halves /\ given' = given
  BY DEF image
<1>2. \A a : AddressesFrom(a)' = AddressesFrom(a) /\ CalleesOf(a)' = CalleesOf(a)
  BY <1>1 DEF AddressesFrom, Successors, CalleesOf
<1>3. SeedsOf(given)' = SeedsOf(given)
  BY <1>1 DEF SeedsOf, vectors, irq_handlers, pc_seeds, cyos_entry
<1>4. \A S : Closed(SeedsOf(given), S)' <=> Closed(SeedsOf(given), S)
  BY <1>2, <1>3 DEF Closed
<1>5. Closure(SeedsOf(given))' = Closure(SeedsOf(given))
  BY <1>4 DEF Closure
<1>6. ASSUME seeds' = seeds
      PROVE  /\ Closure(seeds)' = Closure(seeds)
             /\ \A S : Closed(seeds, S)' <=> Closed(seeds, S)
  <2>1. \A S : Closed(seeds, S)' <=> Closed(seeds, S)
    BY <1>2, <1>6 DEF Closed
  <2> QED
    BY <2>1 DEF Closure
<1>7. first' = first => Find(first)' = Find(first)
  BY <1>1 DEF Find, IsTable, Table, RunAt, Points, Word, RAM_HI
<1> QED
  BY <1>2, <1>3, <1>5, <1>6, <1>7

\* One turn of the trace's loop.
LEMMA PopKeeps ==
  ASSUME TraceInv, Pop
  PROVE  TraceInv'
<1> USE DEF TraceInv
<1>1. /\ phase = "trace" /\ work # << >> /\ Visit(Last(work))
      /\ UNCHANGED <<insns, halves, given, seeds, phase, round, prev, first>>
  BY DEF Pop, image
<1> DEFINE a == Last(work)
<1>2. /\ Front(work) \in Seq(Nat) /\ a \in Nat
      /\ Waiting(work) = Waiting(Front(work)) \cup {a}
  BY <1>1, PopWork DEF Typed
<1>3. \A b : AddressesFrom(b)' = AddressesFrom(b) /\ CalleesOf(b)' = CalleesOf(b)
  BY <1>1, SameImage DEF image
<1>4. /\ Reachable(reached)' = Reachable(reached')
      /\ Called(reached)' = Called(reached')
      /\ \A S : Closed(seeds, S)' <=> Closed(seeds, S)
  BY <1>1, <1>3, SameImage DEF Reachable, Called, image
<1>5. Waiting(work)' = Waiting(work')
  BY DEF Waiting
<1> HIDE DEF a
<1>6. Rounds'
  BY <1>1, SameImage DEF Rounds, image
<1>7. CASE a \in reached
  <2>1. work' = Front(work) /\ UNCHANGED <<reached, entries, outside>>
    BY <1>1, <1>7 DEF Visit, a
  <2>2. Typed'
    BY <1>1, <1>2, <2>1 DEF Typed, Traceable, Regions
  <2>3. Owed'
    BY <1>1, <1>2, <1>4, <1>5, <1>7, <2>1 DEF Owed
  <2> QED
    BY <1>6, <2>2, <2>3
<1>8. CASE a \notin reached /\ ~Traceable(a)
  <2>1. work' = Front(work) /\ outside' = outside \cup {a}
        /\ UNCHANGED <<reached, entries>>
    BY <1>1, <1>8 DEF Visit, a
  <2>2. Typed'
    BY <1>1, <1>2, <1>8, <2>1 DEF Typed, Traceable, Regions
  <2>3. Owed'
    BY <1>1, <1>2, <1>4, <1>5, <2>1 DEF Owed
  <2> QED
    BY <1>6, <2>2, <2>3
<1>9. CASE a \notin reached /\ Traceable(a)
  <2>1. /\ work' = Front(work) \o Successors(a) /\ outside' = outside
        /\ reached' = reached \cup {a} /\ entries' = entries \cup CalleesOf(a)
    BY <1>1, <1>9 DEF Visit, a
  <2>2. a \in Regions
    BY <1>9, TraceableIsMapped
  <2>3. Successors(a) \in Seq(Nat) /\ Waiting(Successors(a)) = AddressesFrom(a)
    BY <2>2, SuccessorsTyped
  <2>4. work' \in Seq(Nat)
        /\ Waiting(work') = Waiting(Front(work)) \cup AddressesFrom(a)
    BY <1>2, <2>1, <2>3, AppendWork
  <2>5. Typed'
    BY <1>1, <2>1, <2>2, <2>4 DEF Typed, Traceable, Regions
  <2>6. /\ Reachable(reached') = Reachable(reached) \cup AddressesFrom(a)
        /\ Called(reached') = Called(reached) \cup CalleesOf(a)
    BY <2>1 DEF Reachable, Called
  <2>7. ASSUME NEW S \in SUBSET Regions, Closed(seeds, S)
        PROVE  reached' \cup (Waiting(work') \cap Regions) \subseteq S
    <3>1. reached \cup (Waiting(work) \cap Regions) \subseteq S
      BY <2>7 DEF Owed
    <3>2. a \in S
      BY <1>2, <2>2, <3>1
    <3>3. AddressesFrom(a) \cap Regions \subseteq S
      BY <2>7, <3>2 DEF Closed
    <3> QED
      BY <1>2, <2>1, <2>4, <3>1, <3>2, <3>3
  <2>8. Regions' = Regions
    BY DEF Regions
  <2>9. Owed'
    <3>1. {b \in seeds : b < Length} \cup Reachable(reached')
            \subseteq reached' \cup outside' \cup Waiting(work')
      BY <1>2, <2>1, <2>4, <2>6 DEF Owed
    <3>2. entries' = {b \in seeds : b < Length} \cup Called(reached')
      BY <2>1, <2>6 DEF Owed
    <3> QED
      BY <1>1, <1>4, <1>5, <2>7, <2>8, <3>1, <3>2 DEF Owed
  <2> QED
    BY <1>6, <2>5, <2>9
<1> QED
  BY <1>7, <1>8, <1>9

\* The trace of a round has ended.
LEMMA TracedKeeps ==
  ASSUME TraceInv, Traced
  PROVE  TraceInv'
<1> USE DEF TraceInv
<1>1. /\ phase = "trace" /\ work = << >> /\ phase' = "find"
      /\ first' = IF round = 1 THEN reached ELSE first
      /\ UNCHANGED <<image, seeds, work, reached, entries, outside, round, prev>>
  BY DEF Traced
<1>2. reached = Closure(seeds)
  BY <1>1, OwedIsClosure
<1>3. Typed'
  BY <1>1 DEF Typed, image, Traceable, Regions
<1>4. Owed'
  <2>1. /\ Reachable(reached)' = Reachable(reached)
        /\ Called(reached)' = Called(reached)
        /\ Waiting(work)' = Waiting(work) /\ Regions' = Regions
    BY <1>1, SameImage DEF Reachable, Called, Waiting, Regions
  <2> QED
    BY <1>1, <2>1, SameImage DEF Owed
<1>5. Rounds'
  <2>1. CASE round = 1
    BY <1>1, <2>1, SameImage DEF Rounds
  <2>2. CASE round = 2
    <3>1. first' = first /\ first = reached
      BY <1>1, <1>2, <2>2 DEF Rounds
    <3> QED
      BY <1>1, <2>2, <3>1, SameImage DEF Rounds
  <2> QED
    BY <2>1, <2>2 DEF Rounds
<1> QED
  BY <1>3, <1>4, <1>5

\* The targets of the tables are traced already, and finitely many.
LEMMA TargetsReached ==
  ASSUME Typed
  PROVE  /\ Targets \subseteq reached
         /\ Targets \subseteq Nat /\ IsFiniteSet(Targets)
<1>1. halves \in Seq(0 .. (HALF - 1))
  BY ImagesAssumption DEF Typed
<1>2. RAM_HI \in Nat
  BY <1>1, LenProperties DEF RAM_HI
<1>3. Targets \subseteq reached
  BY <1>2, TablesPointToCode DEF Targets
<1>4. Targets \in SUBSET Regions
  BY <1>3 DEF Typed
<1>5. IsFiniteSet(Targets)
  BY <1>4, RegionsInImage, FS_Subset
<1>6. \A a \in Regions : a \in Nat
  BY RegionsInImage
<1>7. Targets \subseteq Nat
  BY <1>4, <1>6
<1> QED
  BY <1>3, <1>5, <1>7

\* The rounds end in the second.
LEMMA SettleKeeps ==
  ASSUME TraceInv, Settle
  PROVE  TraceInv'
<1> USE DEF TraceInv
<1>1. /\ phase = "find" /\ Cardinality(seeds \cup Targets) = prev /\ phase' = "done"
      /\ UNCHANGED <<image, seeds, work, reached, entries, outside, round, prev, first>>
  BY DEF Settle
<1>2. round = 2
  <2>1. IsFiniteSet(seeds \cup Targets)
    BY TargetsReached, FS_Union DEF Typed
  <2>2. Cardinality(seeds \cup Targets) \in Nat
    BY <2>1, FS_CardinalityType
  <2> QED
    BY <1>1, <2>2 DEF Rounds
<1>3. Typed'
  BY <1>1 DEF Typed, image, Traceable, Regions
<1>4. Owed'
  <2>1. /\ Reachable(reached)' = Reachable(reached)
        /\ Called(reached)' = Called(reached)
        /\ Waiting(work)' = Waiting(work) /\ Regions' = Regions
    BY <1>1, SameImage DEF Reachable, Called, Waiting, Regions
  <2> QED
    BY <1>1, <2>1, SameImage DEF Owed
<1>5. Rounds'
  <2>1. first = reached
    BY <1>1 DEF Rounds
  <2>2. /\ SeedsOf(given)' = SeedsOf(given)
        /\ Closure(SeedsOf(given))' = Closure(SeedsOf(given))
        /\ Closure(seeds)' = Closure(seeds) /\ Find(first)' = Find(first)
    BY <1>1, SameImage
  <2>3. Cardinality(seeds)' = Cardinality(seeds)
    BY <1>1
  <2> QED
    BY <1>1, <1>2, <2>1, <2>2, <2>3 DEF Rounds
<1> QED
  BY <1>3, <1>4, <1>5

LEMMA AgainKeeps ==
  ASSUME TraceInv, Again
  PROVE  TraceInv'
<1> USE DEF TraceInv
<1>1. /\ phase = "find" /\ Cardinality(seeds \cup Targets) # prev
      /\ prev' = Cardinality(seeds \cup Targets)
      /\ seeds' = seeds \cup Targets
      /\ UNCHANGED <<image, first>>
  BY DEF Again
<1>2. round = 1
  <2> SUFFICES ASSUME round = 2 PROVE FALSE
    BY DEF Rounds
  <2>1. Targets \subseteq seeds
    BY <1>1 DEF Rounds, Targets
  <2>2. seeds \cup Targets = seeds
    BY <2>1
  <2> QED
    BY <1>1, <2>2 DEF Rounds
<1>3. round < ROUNDS /\ round + 1 = 2
  BY <1>2, RoundsAssumption
<1>4. round' = 2 /\ phase' = "trace" /\ Start(seeds')
  BY <1>3 DEF Again
<1>5. seeds' \subseteq Nat /\ IsFiniteSet(seeds')
  BY <1>1, TargetsReached, FS_Union DEF Typed
<1>6. Owed' /\ work' \in Seq(Nat) /\ reached' = {} /\ outside' = {}
  BY <1>1, <1>4, <1>5, StartOwed DEF image
<1>7. Typed'
  BY <1>1, <1>4, <1>5, <1>6 DEF Typed, image
<1>8. Rounds'
  <2>1. seeds = SeedsOf(given) /\ first = reached /\ reached = Closure(seeds)
    BY <1>1, <1>2, OwedIsClosure DEF Rounds, Owed
  <2>2. Closure(seeds \cup Targets) = Closure(seeds)
    BY <2>1, TargetsReached, ReachedSeedsAddNothing
  <2>3. Closure(seeds)' = Closure(seeds \cup Targets)
    <3>1. \A S : Closed(seeds, S)' <=> Closed(seeds \cup Targets, S)
      BY <1>1, SameImage DEF Closed
    <3> QED
      BY <3>1 DEF Closure
  <2>4. UNION Find(first)' \subseteq seeds'
    <3>1. Find(first)' = Find(first)
      BY <1>1, SameImage
    <3> QED
      BY <1>1, <2>1, <3>1 DEF Targets
  <2> QED
    BY <1>1, <1>4, <2>1, <2>2, <2>3, <2>4, SameImage DEF Rounds
<1> QED
  BY <1>6, <1>7, <1>8

LEMMA TraceStepInv == TraceInv /\ [Next]_vars => TraceInv'
<1> SUFFICES ASSUME TraceInv, [Next]_vars PROVE TraceInv'
  OBVIOUS
<1>1. CASE Pop
  BY <1>1, PopKeeps
<1>2. CASE Traced
  BY <1>2, TracedKeeps
<1>3. CASE Settle
  BY <1>3, SettleKeeps
<1>4. CASE Again
  BY <1>4, AgainKeeps
<1>5. CASE UNCHANGED vars
  <2> USE DEF TraceInv
  <2>1. UNCHANGED <<image, seeds, work, reached, entries, outside, phase, round,
                    prev, first>>
    BY <1>5 DEF vars
  <2>2. /\ Reachable(reached)' = Reachable(reached)
        /\ Called(reached)' = Called(reached)
        /\ Waiting(work)' = Waiting(work) /\ Regions' = Regions
    BY <2>1, SameImage DEF Reachable, Called, Waiting, Regions
  <2>3. Typed'
    BY <2>1 DEF Typed, image, Traceable, Regions
  <2>4. Owed'
    BY <2>1, <2>2, SameImage DEF Owed
  <2>5. Rounds'
    BY <2>1, SameImage DEF Rounds
  <2> QED
    BY <2>3, <2>4, <2>5
<1> QED
  BY <1>1, <1>2, <1>3, <1>4, <1>5 DEF Next

\* What a trace has reached, still owes and has put outside add up to what
\* its seeds lead to, in every round (analyze.py:153-200, vtables.py:101-110).
THEOREM TraceInvHolds == Spec => []TraceInv
BY TraceInitInv, TraceStepInv, PTL DEF Spec

-----------------------------------------------------------------------------
(* What follows from it. *)

\* Whatever the code of an image looks like, only addresses of the mapped
\* regions are taken for code -- analyze's `while work` never walks into the
\* fill -- and no address is both code and outside; the rounds are counted
\* within ROUNDS (analyze.py:166-181, vtables.py:95).
THEOREM TraceTypes == Spec => []TypeOK
<1>1. TraceInv => TypeOK
  <2> SUFFICES ASSUME TraceInv PROVE TypeOK
    OBVIOUS
  <2> USE DEF TraceInv
  <2>1. \A a \in reached : Traceable(a)
    BY TraceableIsMapped DEF Typed
  <2>2. outside \cap reached = {}
    BY <2>1 DEF Typed
  <2>3. \A k \in DOMAIN work : work[k] \in Nat
    BY ElementOfSeq, LenProperties DEF Typed
  <2>4. round \in 1 .. ROUNDS
    BY RoundsAssumption DEF Rounds
  <2> QED
    BY <2>1, <2>2, <2>3, <2>4 DEF TypeOK, Typed
<1> QED
  BY <1>1, TraceInvHolds, PTL

\* In any order of the worklist, nothing a trace owes is lost
\* (analyze.py:166-195).
THEOREM NothingIsForgotten == Spec => []NothingForgotten
<1>1. TraceInv => NothingForgotten
  BY DEF TraceInv, Owed, NothingForgotten, Reachable, Waiting
<1> QED
  BY <1>1, TraceInvHolds, PTL

\* What a round hands to the scan is the closure of its seeds, and does not
\* depend on the order a Python set gives them in (analyze.py:161-195).
THEOREM TraceFindsClosure == Spec => []TraceIsClosure
<1>1. TraceInv => TraceIsClosure
  BY OwedIsClosure DEF TraceInv, Owed, TraceIsClosure, Called
<1> QED
  BY <1>1, TraceInvHolds, PTL

\* When resolve is done its last round traced the closure of its seeds,
\* which the first round had traced already.
LEMMA DoneIsClosure ==
  ASSUME TraceInv, phase = "done"
  PROVE  /\ round = 2 /\ reached = first
         /\ reached = Closure(seeds) /\ reached = Closure(SeedsOf(given))
         /\ SeedsOf(given) \subseteq seeds /\ Targets \subseteq seeds
<1> USE DEF TraceInv
<1>1. round = 2 /\ first = reached
  BY DEF Rounds
<1>2. reached = Closure(seeds)
  BY OwedIsClosure DEF Owed
<1> QED
  BY <1>1, <1>2 DEF Rounds, Targets

\* resolve never hands on a result its own tables have overtaken, and
\* settles in its second round on every image: a table is a run of words
\* that all point into code, so it brings entry points and no new code
\* (vtables.py:59-75, 95-110).
THEOREM ResultStands == Spec => []ResultIsFixpoint
<1>1. TraceInv => ResultIsFixpoint
  <2> SUFFICES ASSUME TraceInv, phase = "done"
               PROVE  /\ Targets \subseteq entries
                      /\ reached = Closure(seeds \cup Targets)
                      /\ reached = first /\ round <= 2
    BY DEF ResultIsFixpoint
  <2>1. /\ round = 2 /\ reached = first /\ reached = Closure(seeds)
        /\ Targets \subseteq seeds
    BY DoneIsClosure
  <2>2. Targets \subseteq reached
    BY TargetsReached DEF TraceInv
  <2>3. \A a \in reached : a < Length
    BY TraceableIsMapped DEF TraceInv, Typed, Traceable
  <2>4. Targets \subseteq entries
    BY <2>1, <2>2, <2>3 DEF TraceInv, Owed
  <2>5. seeds \cup Targets = seeds
    BY <2>1
  <2> QED
    BY <2>1, <2>4, <2>5
<1> QED
  BY <1>1, TraceInvHolds, PTL

\* For every image and recording, in what is handed on the entries it names
\* are code and entry points, and no address of the vector table is code
\* but for a reason (vtables.py:84-94, analyze.py:86-89).
THEOREM EntriesAreHonoured == Spec => []EntriesHonoured
<1>1. TraceInv => EntriesHonoured
  <2> SUFFICES ASSUME TraceInv, phase = "done" PROVE EntriesHonoured
    BY DEF EntriesHonoured
  <2> DEFINE os == IF given.header.magic THEN {given.header.entry % ADDRESSES}
                   ELSE {}
             table == 0 .. (VECTOR_BYTES - 1)
             known == UNION {(ToSet(given.vector) \cup os) \ {0},
                             ToSet(given.handlers), given.recorded \ table}
             named == known \cup given.prologues
                        \cup UNION {AddressesFrom(a) : a \in reached}
  <2>1. /\ reached = Closure(seeds) /\ reached = Closure(SeedsOf(given))
        /\ SeedsOf(given) \subseteq seeds
    BY DoneIsClosure
  <2>2. given.recorded \subseteq Nat
    BY ImagesAssumption DEF TraceInv, Typed
  <2>3. Length \in Nat /\ Erased >= Length /\ VECTOR_BYTES \in Nat
    BY MapAssumption DEF Length
  <2>4. ASSUME NEW a \in known, Traceable(a) PROVE a \in reached \cap entries
    <3>1. a \in Regions /\ a < Length /\ a \in Nat
      BY <2>4, TraceableIsMapped, RegionsInImage DEF Traceable
    <3>2. a \in SeedsOf(given)
      <4>1. CASE a \in ToSet(given.vector) \ {0}
        BY <2>3, <3>1, <4>1 DEF SeedsOf, vectors
      <4>2. CASE a \in os \ {0}
        BY <3>1, <4>2 DEF SeedsOf, cyos_entry
      <4>3. CASE a \in ToSet(given.handlers)
        BY <4>3 DEF SeedsOf, irq_handlers
      <4>4. CASE a \in given.recorded \ table
        BY <2>3, <3>1, <4>4 DEF SeedsOf, pc_seeds
      <4> QED
        BY <2>4, <4>1, <4>2, <4>3, <4>4
    <3>3. a \in seeds
      BY <2>1, <3>2
    <3>4. a \in reached
      <4>1. Closed(seeds, Closure(seeds))
        BY ClosureIsClosed
      <4> QED
        BY <2>1, <3>1, <3>3, <4>1 DEF Closed
    <3> QED
      BY <3>1, <3>3, <3>4 DEF TraceInv, Owed
  <2>5. ASSUME NEW a \in reached \cap table PROVE a \in named
    <3>1. a \in SeedsOf(given) \cup UNION {AddressesFrom(b) : b \in reached}
      BY <2>1, <2>5, ClosureIsJustified
    <3>2. a \notin pc_seeds(given)
      BY <2>2, <2>3, <2>5 DEF pc_seeds
    <3>3. a \in vectors(given) => a \in ToSet(given.vector) \ {0}
      BY DEF vectors
    <3>4. a \in cyos_entry(given) => a \in os \ {0}
      BY DEF cyos_entry
    <3>5. a \in SeedsOf(given) => a \in known \cup given.prologues
      <4> HIDE DEF os, table
      <4> QED
        BY <3>2, <3>3, <3>4 DEF SeedsOf, irq_handlers
    <3>6. CASE a \in UNION {AddressesFrom(b) : b \in reached}
      BY <3>6
    <3>7. CASE a \in SeedsOf(given)
      BY <3>5, <3>7
    <3> QED
      BY <3>1, <3>6, <3>7
  <2> QED
    BY <2>4, <2>5 DEF EntriesHonoured
<1> QED
  BY <1>1, TraceInvHolds, PTL
=============================================================================
