----------------------------- MODULE ToolsProofs -----------------------------
(***************************************************************************)
(* Proofs about Tools.tla: for every pair of logs, every window and run,   *)
(* and every archive.                                                      *)
(***************************************************************************)
EXTENDS Tools, FiniteSetTheorems, SequenceTheorems, WellFoundedInduction, TLAPS

-----------------------------------------------------------------------------
(* Least and greatest numbers. *)

LEMMA NatMin ==
  ASSUME NEW T, T \subseteq Nat, T # {}
  PROVE  \E x \in T : \A y \in T : x <= y
<1> DEFINE R == OpToRel(<, Nat)
<1>1. IsWellFoundedOn(R, Nat)
  BY NatLessThanWellFounded
<1>2. \A x, y \in Nat : x < y => <<x, y>> \in R
  BY DEF OpToRel
<1> HIDE DEF R
<1>3. PICK x \in T : \A y \in T : <<y, x>> \notin R
  BY <1>1, WFMin
<1>4. \A y \in T : ~(y < x)
  BY <1>2, <1>3
<1>5. \A y \in T : x <= y
  BY <1>4
<1> QED
  BY <1>5

LEMMA MinIsLeast ==
  ASSUME NEW T, T \subseteq Nat, T # {}
  PROVE  Min(T) \in T /\ \A y \in T : Min(T) <= y
BY NatMin DEF Min

\* A set of naturals with a bound has a greatest element.
LEMMA MaxIsGreatest ==
  ASSUME NEW T, T \subseteq Nat, T # {}, NEW N \in Nat, \A y \in T : y <= N
  PROVE  Max(T) \in T /\ \A y \in T : Max(T) >= y
<1> DEFINE U == {u \in Nat : \E y \in T : y + u = N}
<1>1. \A y \in T : N - y \in U /\ y + (N - y) = N
  OBVIOUS
<1>2. U \subseteq Nat /\ U # {}
  BY <1>1
<1> HIDE DEF U
<1>3. PICK u \in U : \A w \in U : u <= w
  BY <1>2, NatMin
<1>4. PICK x \in T : x + u = N
  BY <1>3 DEF U
<1>5. ASSUME NEW y \in T PROVE x >= y
  <2>1. u <= N - y /\ u \in Nat
    BY <1>1, <1>2, <1>3
  <2>2. x \in Nat /\ y \in Nat
    OBVIOUS
  <2> QED
    BY <1>4, <2>1, <2>2
<1> QED
  BY <1>5 DEF Max

LEMMA GreatestIsMax ==
  ASSUME NEW T, T \subseteq Nat, NEW x \in T, \A y \in T : x >= y
  PROVE  Max(T) = x
<1>1. Max(T) \in T /\ \A y \in T : Max(T) >= y
  BY DEF Max
<1>2. Max(T) >= x /\ x >= Max(T) /\ Max(T) \in Nat /\ x \in Nat
  BY <1>1
<1> QED
  BY <1>2

-----------------------------------------------------------------------------
(* The comparisons: the verdict. *)

\* The second half of VerdictRight: logs that agree were not missed.
NotMissed ==
  \A k \in 0 .. (WINDOW[tool] - 1) :
    Agree(k) /\ RUN[tool] <= Least(Len(ours), Len(theirs) - k) =>
      \/ Len(theirs) - k = RUN[tool]
      \/ \E j \in 0 .. (k - 1) :
           Keys(theirs, j, RUN[tool]) = Keys(ours, 0, RUN[tool])

\* Where the logs are lined up: at the first offset that has a run in
\* common, or at the start for want of one.
LinedUp ==
  \/ off = 0 /\ Unaligned
  \/ ~Unaligned /\ off \in Aligned /\ \A k \in Aligned : off <= k

Comparing ==
  tool \in Comparisons =>
    /\ args \in Logs /\ at \in Nat /\ step \in {"align", "compare"}
    /\ step = "align" => at = 0 /\ status \in {"running", "one"}
    /\ step = "compare" => /\ LinedUp /\ at <= Least(Len(ours), Len(theirs) - off)
                           /\ \A i \in 1 .. at : ours[i] = theirs[off + i]
    /\ status = "zero" => at = Least(Len(ours), Len(theirs) - off)
    /\ status = "one" => NotMissed

LEMMA LogsAre ==
  ASSUME tool \in Comparisons, args \in Logs
  PROVE  /\ Len(ours) \in Nat /\ Len(theirs) \in Nat
         /\ WINDOW[tool] \in Nat /\ WINDOW[tool] >= 1
         /\ RUN[tool] \in Nat /\ RUN[tool] >= 1
         /\ Tried \subseteq Nat /\ Aligned \subseteq Tried
         /\ ours = << >> <=> Len(ours) = 0
<1>1. ours \in Seq(ToSet(ours)) /\ theirs \in Seq(ToSet(theirs))
  BY LogsAssumption DEF ours, theirs
<1>2. Len(ours) \in Nat /\ Len(theirs) \in Nat
  BY <1>1, LenProperties
<1>3. ours = << >> <=> Len(ours) = 0
  BY <1>1, EmptySeq
<1>4. /\ WINDOW[tool] \in Nat /\ WINDOW[tool] >= 1
      /\ RUN[tool] \in Nat /\ RUN[tool] >= 1
  BY WindowAssumption
<1>5. Tried \subseteq Nat
  BY <1>4 DEF Tried
<1> QED
  BY <1>2, <1>3, <1>4, <1>5 DEF Aligned

\* Where logs agree over a run, their keys do.
LEMMA AgreeingKeys ==
  ASSUME tool \in Comparisons, args \in Logs, NEW k \in Nat, Agree(k),
         RUN[tool] <= Least(Len(ours), Len(theirs) - k)
  PROVE  Keys(theirs, k, RUN[tool]) = Keys(ours, 0, RUN[tool])
<1> DEFINE N == RUN[tool]
<1>1. N \in Nat /\ Len(ours) \in Nat /\ Len(theirs) - k \in Int
  BY LogsAre
<1>2. N <= Len(ours) /\ N <= Len(theirs) - k
  BY <1>1 DEF Least
<1>3. Least(N, Len(theirs) - k) = N /\ Least(N, Len(ours) - 0) = N
  BY <1>1, <1>2 DEF Least
<1>4. \A i \in 1 .. N : theirs[k + i] = ours[0 + i]
  <2>1. \A i \in 1 .. N : i \in 1 .. Least(Len(ours), Len(theirs) - k) /\ 0 + i = i
    BY <1>1, <1>2 DEF Least
  <2> QED
    BY <2>1 DEF Agree
<1> HIDE DEF N
<1> QED
  BY <1>3, <1>4 DEF Keys, N

\* An offset in the window where the logs agree over a run is tried, unless
\* the run is the end of theirs.
LEMMA AgreeingIsAligned ==
  ASSUME tool \in Comparisons, args \in Logs, NEW k \in 0 .. (WINDOW[tool] - 1),
         Agree(k), RUN[tool] <= Least(Len(ours), Len(theirs) - k),
         Len(theirs) - k # RUN[tool]
  PROVE  k \in Aligned
<1>1. /\ Len(ours) \in Nat /\ Len(theirs) \in Nat /\ RUN[tool] \in Nat
      /\ k \in Nat
  BY LogsAre
<1>2. k < Len(theirs) - RUN[tool]
  BY <1>1 DEF Least
<1>3. Keys(theirs, k, RUN[tool]) = Keys(ours, 0, RUN[tool])
  BY <1>1, AgreeingKeys
<1> QED
  BY <1>2, <1>3 DEF Aligned, Tried

LEMMA AlignComparing == ASSUME Comparing, Align PROVE Comparing'
<1>1. /\ tool \in Comparisons /\ args \in Logs /\ at = 0 /\ status = "running"
      /\ tool' = tool /\ args' = args /\ at' = at /\ step = "align"
  BY DEF Align, Comparing
<1>2. /\ Len(ours) \in Nat /\ Len(theirs) \in Nat /\ RUN[tool] \in Nat /\ RUN[tool] >= 1
      /\ Tried \subseteq Nat /\ Aligned \subseteq Tried
  BY <1>1, LogsAre
<1>3. /\ ours' = ours /\ theirs' = theirs /\ Unaligned' = Unaligned
      /\ Aligned' = Aligned /\ NotMissed' = NotMissed
  BY <1>1 DEF ours, theirs, Unaligned, Aligned, Tried, NotMissed, Agree, Keys, Key
<1>4. CASE Unaligned
  <2>1. off' = 0 /\ step' = "compare" /\ status' = "running"
    BY <1>1, <1>4 DEF Align
  <2> QED
    BY <1>1, <1>2, <1>3, <1>4, <2>1 DEF Comparing, LinedUp, Least
<1>5. CASE ~Unaligned /\ Aligned = {}
  <2>1. status' = "one" /\ step' = "align"
    BY <1>1, <1>5 DEF Align
  <2>2. NotMissed
    BY <1>1, <1>5, AgreeingIsAligned DEF NotMissed
  <2> QED
    BY <1>1, <1>3, <2>1, <2>2 DEF Comparing
<1>6. CASE ~Unaligned /\ Aligned # {}
  <2>1. off' = Min(Aligned) /\ step' = "compare" /\ status' = "running"
    BY <1>1, <1>6 DEF Align
  <2>2. off' \in Aligned /\ \A k \in Aligned : off' <= k
    BY <1>2, <1>6, <2>1, MinIsLeast
  <2>3. off' \in Nat /\ off' < Len(theirs) - RUN[tool]
    BY <1>2, <2>2 DEF Tried
  <2>4. 0 <= Least(Len(ours), Len(theirs) - off')
    BY <1>2, <2>3 DEF Least
  <2> QED
    BY <1>1, <1>3, <1>6, <2>1, <2>2, <2>4 DEF Comparing, LinedUp
<1> QED
  BY <1>4, <1>5, <1>6

\* Logs that differ do not agree where they are lined up, so an offset at
\* which they do agree is not the least that has a run in common.
LEMMA DifferentNotMissed ==
  ASSUME Comparing, tool \in Comparisons, step = "compare",
         at # Least(Len(ours), Len(theirs) - off),
         ours[at + 1] # theirs[off + at + 1]
  PROVE  NotMissed
<1>1. /\ args \in Logs /\ at \in Nat /\ LinedUp
      /\ at <= Least(Len(ours), Len(theirs) - off)
  BY DEF Comparing
<1>2. /\ Len(ours) \in Nat /\ Len(theirs) \in Nat /\ RUN[tool] \in Nat
      /\ RUN[tool] >= 1 /\ WINDOW[tool] \in Nat
      /\ Tried \subseteq Nat /\ Aligned \subseteq Tried
      /\ ours = << >> <=> Len(ours) = 0
  BY <1>1, LogsAre
<1>3. off \in Nat /\ Least(Len(ours), Len(theirs) - off) \in Int
  <2>1. off \in Nat
    <3>1. off = 0 \/ off \in Aligned
      BY <1>1 DEF LinedUp
    <3>2. ASSUME off \in Aligned PROVE off \in Nat
      BY <1>1, <1>2, <3>2
    <3> QED
      BY <3>1, <3>2
  <2> QED
    BY <1>1, <1>2, <2>1 DEF Least
<1>4. at + 1 \in 1 .. Least(Len(ours), Len(theirs) - off)
      /\ off + (at + 1) = off + at + 1
  BY <1>1, <1>3
<1>5. ~Agree(off)
  BY <1>4 DEF Agree
<1>6. CASE Unaligned
  <2>1. ASSUME NEW k \in Nat, RUN[tool] <= Least(Len(ours), Len(theirs) - k)
        PROVE  FALSE
    <3>1. RUN[tool] <= Len(ours)
      BY <1>2, <2>1 DEF Least
    <3>2. tool = "difftest"
      BY <1>2, <1>6, <3>1 DEF Unaligned
    <3> QED
      BY <1>2, <1>6, <3>1, <3>2 DEF Unaligned
  <2> QED
    BY <1>2, <2>1 DEF NotMissed
<1>7. CASE ~Unaligned
  <2>1. off \in Aligned /\ \A k \in Aligned : off <= k
    BY <1>1, <1>7 DEF LinedUp
  <2> SUFFICES ASSUME NEW k \in 0 .. (WINDOW[tool] - 1), Agree(k),
                      RUN[tool] <= Least(Len(ours), Len(theirs) - k),
                      Len(theirs) - k # RUN[tool]
               PROVE  \E j \in 0 .. (k - 1) :
                        Keys(theirs, j, RUN[tool]) = Keys(ours, 0, RUN[tool])
    BY DEF NotMissed
  <2>2. k \in Aligned /\ k \in Nat
    BY <1>1, <1>2, AgreeingIsAligned
  <2>3. off <= k /\ off # k
    BY <1>5, <2>1, <2>2
  <2>4. off \in 0 .. (k - 1)
    BY <1>3, <2>2, <2>3
  <2> QED
    BY <2>1, <2>4 DEF Aligned
<1> QED
  BY <1>6, <1>7

LEMMA CompareComparing == ASSUME Comparing, Compare PROVE Comparing'
<1>1. /\ tool' = tool /\ args' = args /\ step' = step /\ off' = off
      /\ status = "running" /\ step = "compare"
  BY DEF Compare
<1> SUFFICES ASSUME tool \in Comparisons PROVE Comparing'
  BY <1>1 DEF Comparing
<1>2. /\ args \in Logs /\ at \in Nat /\ LinedUp
      /\ at <= Least(Len(ours), Len(theirs) - off)
      /\ \A i \in 1 .. at : ours[i] = theirs[off + i]
  BY <1>1 DEF Comparing
<1>3. /\ Len(ours) \in Nat /\ Len(theirs) \in Nat
      /\ Tried \subseteq Nat /\ Aligned \subseteq Tried
  BY <1>2, LogsAre
<1>4. off \in Nat /\ Least(Len(ours), Len(theirs) - off) \in Int
  <2>1. off \in Nat
    <3>1. off = 0 \/ off \in Aligned
      BY <1>2 DEF LinedUp
    <3>2. ASSUME off \in Aligned PROVE off \in Nat
      BY <1>2, <1>3, <3>2
    <3> QED
      BY <3>1, <3>2
  <2> QED
    BY <1>2, <1>3, <2>1 DEF Least
<1>5. /\ ours' = ours /\ theirs' = theirs /\ LinedUp' = LinedUp
      /\ NotMissed' = NotMissed
  BY <1>1 DEF ours, theirs, LinedUp, Unaligned, Aligned, Tried, NotMissed, Agree,
              Keys, Key
<1>6. CASE at = Least(Len(ours), Len(theirs) - off)
  <2>1. status' = "zero" /\ at' = at
    BY <1>6 DEF Compare
  <2> QED
    BY <1>1, <1>2, <1>5, <1>6, <2>1 DEF Comparing
<1>7. CASE at # Least(Len(ours), Len(theirs) - off)
           /\ ours[at + 1] # theirs[off + at + 1]
  <2>1. status' = "one" /\ at' = at
    BY <1>7 DEF Compare
  <2>2. NotMissed
    BY <1>1, <1>7, DifferentNotMissed
  <2> QED
    BY <1>1, <1>2, <1>5, <2>1, <2>2 DEF Comparing
<1>8. CASE at # Least(Len(ours), Len(theirs) - off)
           /\ ours[at + 1] = theirs[off + at + 1]
  <2>1. status' = "running" /\ at' = at + 1
    BY <1>1, <1>8 DEF Compare
  <2>2. at + 1 \in Nat /\ at + 1 <= Least(Len(ours), Len(theirs) - off)
    BY <1>2, <1>4, <1>8
  <2>3. \A i \in 1 .. (at + 1) : ours[i] = theirs[off + i]
    <3> TAKE i \in 1 .. (at + 1)
    <3>1. i \in 1 .. at \/ i = at + 1
      BY <1>2
    <3>2. off + (at + 1) = off + at + 1
      BY <1>2, <1>4
    <3> QED
      BY <1>2, <1>8, <3>1, <3>2
  <2> QED
    BY <1>1, <1>2, <1>5, <2>1, <2>2, <2>3 DEF Comparing
<1> QED
  BY <1>6, <1>7, <1>8

\* Where the logs agree as far as both go, status 0 is right.
LEMMA ComparingIsRight == ASSUME Comparing PROVE VerdictRight
<1> SUFFICES ASSUME tool \in Comparisons PROVE VerdictRight
  BY DEF VerdictRight
<1>1. args \in Logs /\ at \in Nat /\ step \in {"align", "compare"}
  BY DEF Comparing
<1>2. /\ Len(ours) \in Nat /\ Len(theirs) \in Nat /\ RUN[tool] \in Nat
      /\ RUN[tool] >= 1 /\ WINDOW[tool] \in Nat /\ WINDOW[tool] >= 1
      /\ Tried \subseteq Nat /\ Aligned \subseteq Tried
      /\ ours = << >> <=> Len(ours) = 0
  BY <1>1, LogsAre
<1>3. ASSUME status = "zero"
      PROVE  \E k \in 0 .. (WINDOW[tool] - 1) :
               /\ Agree(k)
               /\ Len(ours) >= RUN[tool] => Len(theirs) - k >= RUN[tool]
  <2>1. /\ step = "compare" /\ LinedUp
        /\ \A i \in 1 .. Least(Len(ours), Len(theirs) - off) :
              ours[i] = theirs[off + i]
    BY <1>1, <1>3 DEF Comparing
  <2>2. CASE off = 0 /\ Unaligned
    <3>1. off \in 0 .. (WINDOW[tool] - 1) /\ off <= Len(theirs)
      BY <1>2, <2>2
    <3>2. ~(Len(ours) >= RUN[tool])
      <4>1. tool = "difftest" \/ tool # "difftest"
        OBVIOUS
      <4> QED
        BY <1>2, <2>2, <4>1 DEF Unaligned
    <3> QED
      BY <2>1, <3>1, <3>2 DEF Agree
  <2>3. CASE off \in Aligned
    <3>1. /\ off \in 0 .. (WINDOW[tool] - 1) /\ off < Len(theirs) - RUN[tool]
          /\ off \in Nat
      BY <1>2, <2>3 DEF Tried
    <3>2. off <= Len(theirs) /\ Len(theirs) - off >= RUN[tool]
      BY <1>2, <3>1
    <3> QED
      BY <2>1, <3>1, <3>2 DEF Agree
  <2> QED
    BY <2>1, <2>2, <2>3 DEF LinedUp
<1>4. status = "one" => NotMissed
  BY DEF Comparing
<1> QED
  BY <1>3, <1>4 DEF VerdictRight, NotMissed

\* The verdict of a comparison means something, whatever the logs, the
\* window and the run (difftest.py:55-98, diffwrites.py:26-72).
THEOREM VerdictHolds == Spec => []VerdictRight
<1>1. Init => Comparing
  BY DEF Init, Comparing, Comparisons
<1>2. Comparing /\ [Next]_vars => Comparing'
  <2> SUFFICES ASSUME Comparing, [Next]_vars PROVE Comparing'
    OBVIOUS
  <2>1. CASE Align
    BY <2>1, AlignComparing
  <2>2. CASE Compare
    BY <2>2, CompareComparing
  <2>3. CASE Parse \/ Parsed \/ List \/ Extract \/ Extracted
    <3>1. tool \notin Comparisons /\ tool' = tool
      BY <2>3 DEF Comparing, Parse, Parsed, List, Extract, Extracted, Comparisons
    <3> QED
      BY <3>1 DEF Comparing
  <2>4. CASE UNCHANGED vars
    BY <2>4 DEF vars, appVars, Comparing, NotMissed, LinedUp, Unaligned, Aligned, Tried,
                ours, theirs, Agree, Keys, Key
  <2> QED
    BY <2>1, <2>2, <2>3, <2>4 DEF Next
<1> QED
  BY <1>1, <1>2, ComparingIsRight, PTL DEF Spec

-----------------------------------------------------------------------------
(* cyapp: what is extracted. *)

Entry ==
  [name : DOMAIN Flat, ends : BOOLEAN, offset : Nat, length : Nat]
End(m) == m.offset + m.length
File(k) == Flat[members[k].name]
Stored == {k \in DOMAIN members : Method(members[k]) = STORED}
Taken == {k \in Stored : k <= at}   \* of the members, by extraction

\* What the turns of extraction so far have written.
Written ==
  /\ DOMAIN files = {File(k) : k \in Taken}
  /\ \A n \in DOMAIN files :
       \E k \in Taken : /\ File(k) = n /\ files[n] = Payload(members[k])
                       /\ \A j \in Taken : File(j) = n => j <= k
  /\ wrote = Cardinality(Taken) /\ wrote \in Nat
  /\ skipped \in Nat /\ wrote + skipped = at

Extracting ==
  tool = "cyapp" =>
    /\ args \in Archives /\ step \in {"parse", "list", "extract"} /\ at \in Nat
    /\ members \in Seq(Entry) /\ Len(members) <= args.count
    /\ \A k \in 1 .. Len(members) : members[k] = args.entries[k]
    /\ step = "parse" => at = Len(members)
    /\ step # "parse" =>
         /\ Len(members) = args.count /\ at <= Len(members)
         /\ \A k \in 1 .. Len(members) : End(members[k]) <= Len(args.blob)
    /\ step = "list" => \A k \in 1 .. at : Method(members[k]) # None
    /\ step # "extract" => files = << >> /\ wrote = 0 /\ skipped = 0
    /\ step = "extract" =>
         /\ \A k \in 1 .. Len(members) : Method(members[k]) # None
         /\ Written
    /\ status = "zero" => step = "extract" /\ at = Len(members)
    /\ status = "raised" /\ files # << >> =>
         \E k \in 1 .. Len(members) : File(k) \in Unwritable

LEMMA ArchiveIs ==
  ASSUME args \in Archives
  PROVE  /\ args.blob \in Seq(Nat) /\ Len(args.blob) \in Nat
         /\ \A i \in 1 .. Len(args.blob) : args.blob[i] \in Nat
         /\ args.count \in Nat /\ args.count = Len(args.entries)
         /\ args.entries \in Seq(Entry)
         /\ \A i \in 1 .. args.count : args.entries[i] \in Entry
<1>1. /\ args.blob \in Seq(Nat) /\ args.count \in Nat
      /\ args.entries \in Seq(Entry) /\ args.count = Len(args.entries)
  BY ArchivesAssumption DEF Entry
<1>2. \A i \in 1 .. Len(args.blob) : args.blob[i] \in Nat
  BY <1>1, ElementOfSeq
<1>3. \A i \in 1 .. args.count : args.entries[i] \in Entry
  BY <1>1, ElementOfSeq
<1> QED
  BY <1>1, <1>2, <1>3, LenProperties

LEMMA MembersAre ==
  ASSUME members \in Seq(Entry)
  PROVE  /\ Len(members) \in Nat /\ DOMAIN members = 1 .. Len(members)
         /\ \A k \in 1 .. Len(members) :
              /\ members[k] \in Entry /\ End(members[k]) \in Nat
              /\ members[k].offset \in Nat /\ members[k].length \in Nat
<1>1. Len(members) \in Nat /\ DOMAIN members = 1 .. Len(members)
  BY LenProperties
<1>2. \A k \in 1 .. Len(members) : members[k] \in Entry
  BY ElementOfSeq
<1> QED
  BY <1>1, <1>2 DEF Entry, End

\* A slice of the file is cut short by the end of the file.
LEMMA RawIs ==
  ASSUME args \in Archives, NEW m \in Entry
  PROVE  LET L == Len(Raw(m))
         IN  /\ Raw(m) \in Seq(Nat) /\ L \in Nat
             /\ L = 0 \/ L = Least(m.length, Len(args.blob) - m.offset)
             /\ L >= Least(m.length, Len(args.blob) - m.offset)
             /\ \A k \in 1 .. L : Raw(m)[k] = args.blob[m.offset + k]
<1> DEFINE short == Least(m.length, Len(args.blob) - m.offset)
           L == Max({0, short})
<1>1. m.length \in Nat /\ m.offset \in Nat
  BY DEF Entry
<1>2. Len(args.blob) \in Nat /\ \A i \in 1 .. Len(args.blob) : args.blob[i] \in Nat
  BY ArchiveIs
<1>3. short \in Int /\ short <= Len(args.blob) - m.offset
  BY <1>1, <1>2 DEF Least
<1> HIDE DEF short
<1>4. L \in {0, short} /\ L >= 0 /\ L >= short
  <2>1. \E x \in {0, short} : \A y \in {0, short} : x >= y
    BY <1>3
  <2> QED
    BY <2>1 DEF Max
<1> HIDE DEF L
<1>5. L \in Nat
  BY <1>3, <1>4
<1>6. \A k \in 1 .. L : args.blob[m.offset + k] \in Nat
  <2> TAKE k \in 1 .. L
  <2>1. L = short
    BY <1>4, <1>5
  <2>2. m.offset + k \in 1 .. Len(args.blob)
    BY <1>1, <1>2, <1>3, <2>1
  <2> QED
    BY <1>2, <2>2
<1>7. Raw(m) = [k \in 1 .. L |-> args.blob[m.offset + k]]
  BY DEF Raw, L, short
<1>8. Raw(m) \in Seq(Nat) /\ Len(Raw(m)) = L
  BY <1>5, <1>6, <1>7, SeqDef, LenProperties
<1> QED
  BY <1>4, <1>5, <1>7, <1>8 DEF short

\* A member with a method byte has data, and one that is stored and inside
\* the file is all of its data but that byte.
LEMMA PayloadIs ==
  ASSUME args \in Archives, NEW m \in Entry, Method(m) # None,
         End(m) <= Len(args.blob)
  PROVE  /\ m.length > 0
         /\ Method(m) = STORED =>
              /\ Len(Payload(m)) = m.length - 1
              /\ DOMAIN Payload(m) = 1 .. (m.length - 1)
              /\ \A k \in 1 .. (m.length - 1) :
                   Payload(m)[k] = args.blob[m.offset + 1 + k]
<1>1. m.length \in Nat /\ m.offset \in Nat /\ Len(args.blob) \in Nat
  BY ArchiveIs DEF Entry
<1>2. Least(m.length, Len(args.blob) - m.offset) = m.length
  BY <1>1 DEF End, Least
<1>3. Raw(m) \in Seq(Nat) /\ Raw(m) # << >>
  BY RawIs DEF Method
<1>4. Len(Raw(m)) = m.length /\ m.length > 0
  BY <1>1, <1>2, <1>3, RawIs, EmptySeq
<1>5. \A k \in 1 .. m.length : Raw(m)[k] = args.blob[m.offset + k] /\ Raw(m)[k] \in Nat
  BY <1>3, <1>4, RawIs, ElementOfSeq
<1>6. ASSUME Method(m) = STORED
      PROVE  /\ Len(Payload(m)) = m.length - 1
             /\ DOMAIN Payload(m) = 1 .. (m.length - 1)
             /\ \A k \in 1 .. (m.length - 1) :
                  Payload(m)[k] = args.blob[m.offset + 1 + k]
  <2>1. Payload(m) = SubSeq(Raw(m), 2, m.length)
    BY <1>4, <1>6 DEF Payload, STORED, COMPRESSED
  <2>2. \A i \in 2 .. m.length : Raw(m)[i] \in Nat
    BY <1>5
  <2>3. /\ SubSeq(Raw(m), 2, m.length) \in Seq(Nat)
        /\ Len(SubSeq(Raw(m), 2, m.length)) =
             IF 2 <= m.length THEN m.length - 2 + 1 ELSE 0
        /\ \A i \in 1 .. (m.length - 2 + 1) :
             SubSeq(Raw(m), 2, m.length)[i] = Raw(m)[2 + i - 1]
    BY <1>1, <2>2, SubSeqProperties
  <2>4. Len(Payload(m)) = m.length - 1
    BY <1>1, <1>4, <2>1, <2>3
  <2>5. DOMAIN Payload(m) = 1 .. (m.length - 1)
    BY <2>1, <2>3, <2>4, LenProperties
  <2>6. ASSUME NEW k \in 1 .. (m.length - 1)
        PROVE  Payload(m)[k] = args.blob[m.offset + 1 + k]
    <3>1. k \in 1 .. (m.length - 2 + 1) /\ 2 + k - 1 = 1 + k /\ 1 + k \in 1 .. m.length
      BY <1>1
    <3>2. m.offset + (1 + k) = m.offset + 1 + k
      BY <1>1
    <3> QED
      BY <1>5, <2>1, <2>3, <3>1, <3>2
  <2> QED
    BY <2>4, <2>5, <2>6
<1> QED
  BY <1>4, <1>6

\* The ends of finitely many members have a bound, so Covered's maximum is
\* one: an archive whose last end is the file's has every member inside it.
LEMMA CoveredIsInside ==
  ASSUME args \in Archives, members \in Seq(Entry), Covered
  PROVE  \A k \in 1 .. Len(members) : End(members[k]) <= Len(args.blob)
<1>1. /\ Len(members) \in Nat /\ DOMAIN members = 1 .. Len(members)
      /\ \A k \in 1 .. Len(members) : End(members[k]) \in Nat
  BY MembersAre
<1> DEFINE Below(n) == \E N \in Nat : \A k \in 1 .. n : End(members[k]) <= N
           T == {n \in 0 .. Len(members) : ~Below(n)}
<1>2. T = {}
  <2> SUFFICES ASSUME T # {} PROVE FALSE
    OBVIOUS
  <2>1. T \subseteq Nat
    BY <1>1
  <2> HIDE DEF T
  <2>2. PICK n \in T : \A w \in T : n <= w
    BY <2>1, NatMin
  <2>3. n \in 0 .. Len(members) /\ ~Below(n) /\ n \in Nat
    BY <1>1, <2>2 DEF T
  <2>4. n # 0
    BY <2>3
  <2>5. n - 1 \in 0 .. Len(members) /\ n - 1 \notin T
    <3>1. n - 1 \in 0 .. Len(members) /\ ~(n <= n - 1)
      BY <1>1, <2>3, <2>4
    <3> QED
      BY <2>2, <3>1
  <2>6. PICK N \in Nat : \A k \in 1 .. (n - 1) : End(members[k]) <= N
    BY <2>5 DEF T
  <2>7. n \in 1 .. Len(members) /\ End(members[n]) \in Nat
    BY <1>1, <2>3, <2>4
  <2>8. N + End(members[n]) \in Nat
        /\ \A k \in 1 .. n : End(members[k]) <= N + End(members[n])
    <3>1. \A k \in 1 .. n : k \in 1 .. (n - 1) \/ k = n
      BY <2>3
    <3>2. \A k \in 1 .. (n - 1) : End(members[k]) \in Nat
      <4>1. \A k \in 1 .. (n - 1) : k \in 1 .. Len(members)
        BY <1>1, <2>3
      <4> QED
        BY <1>1, <4>1
    <3> QED
      BY <2>6, <2>7, <3>1, <3>2
  <2> QED
    BY <2>3, <2>8
<1>3. Below(Len(members))
  <2>1. Len(members) \in 0 .. Len(members)
    BY <1>1
  <2> QED
    BY <1>2, <2>1
<1> HIDE DEF T, Below
<1> DEFINE U == {0} \cup {End(members[k]) : k \in 1 .. Len(members)}
<1>4. Max(U) = Len(args.blob)
  BY <1>1 DEF Covered, End
<1>5. PICK N \in Nat : \A k \in 1 .. Len(members) : End(members[k]) <= N
  BY <1>3 DEF Below
<1>6. U \subseteq Nat /\ U # {} /\ \A y \in U : y <= N
  BY <1>1, <1>5
<1>7. \A k \in 1 .. Len(members) : End(members[k]) \in U
  OBVIOUS
<1> HIDE DEF U
<1>8. \A y \in U : Max(U) >= y
  BY <1>6, MaxIsGreatest
<1>9. Len(args.blob) \in Nat
  BY ArchiveIs
<1> QED
  BY <1>1, <1>4, <1>7, <1>8, <1>9

\* A step that leaves the archive and its members leaves what is read of them.
LEMMA SameMembers ==
  ASSUME args' = args, members' = members
  PROVE  /\ Stored' = Stored
         /\ \A k : (Method(members[k]))' = Method(members[k])
         /\ \A k : (Payload(members[k]))' = Payload(members[k])
         /\ \A k : File(k)' = File(k) /\ (End(members[k]))' = End(members[k])
BY DEF Stored, Method, Payload, Raw, File, End

LEMMA WrittenAfter ==
  ASSUME args' = args, members' = members,
         DOMAIN files' = {File(k) : k \in Taken'},
         \A n \in DOMAIN files' :
           \E k \in Taken' : /\ File(k) = n /\ files'[n] = Payload(members[k])
                            /\ \A j \in Taken' : File(j) = n => j <= k,
         wrote' = Cardinality(Taken'), wrote' \in Nat,
         skipped' \in Nat, wrote' + skipped' = at'
  PROVE  Written'
<1>1. DOMAIN files' = {File(k)' : k \in Taken'}
  BY DEF File
<1>2. \A n \in DOMAIN files' :
        \E k \in Taken' : /\ File(k)' = n /\ files'[n] = Payload(members[k])'
                         /\ \A j \in Taken' : File(j)' = n => j <= k
  BY SameMembers
<1> QED
  BY <1>1, <1>2 DEF Written

LEMMA ParseExtracting == ASSUME Extracting, Parse PROVE Extracting'
<1>1. /\ tool = "cyapp" /\ step = "parse" /\ status = "running" /\ at < args.count
      /\ tool' = tool /\ args' = args /\ step' = step /\ files' = files
      /\ wrote' = wrote /\ skipped' = skipped
  BY DEF Parse
<1>2. /\ args \in Archives /\ at \in Nat /\ members \in Seq(Entry)
      /\ at = Len(members) /\ Len(members) <= args.count
      /\ \A k \in 1 .. Len(members) : members[k] = args.entries[k]
      /\ files = << >> /\ wrote = 0 /\ skipped = 0
  BY <1>1 DEF Extracting
<1>3. /\ args.count \in Nat
      /\ \A i \in 1 .. args.count : args.entries[i] \in Entry
  BY <1>2, ArchiveIs
<1>4. CASE members' = Append(members, args.entries[at + 1]) /\ at' = at + 1
           /\ status' = status
  <2>1. at + 1 \in 1 .. args.count
    BY <1>1, <1>2, <1>3
  <2>2. args.entries[at + 1] \in Entry
    BY <1>3, <2>1
  <2>3. /\ members' \in Seq(Entry) /\ Len(members') = at + 1
        /\ \A k \in 1 .. Len(members) : members'[k] = members[k]
        /\ members'[at + 1] = args.entries[at + 1]
    BY <1>2, <1>4, <2>2, AppendProperties
  <2>4. \A k \in 1 .. (at + 1) : members'[k] = args.entries[k]
    <3> TAKE k \in 1 .. (at + 1)
    <3>1. k \in 1 .. Len(members) \/ k = at + 1
      BY <1>2
    <3> QED
      BY <1>2, <2>3, <3>1
  <2>5. at + 1 \in Nat /\ at + 1 <= args.count
    BY <1>1, <1>2, <1>3
  <2> QED
    BY <1>1, <1>2, <1>4, <2>3, <2>4, <2>5 DEF Extracting
<1>5. CASE members' = members /\ at' = at /\ status' = "raised"
  BY <1>1, <1>2, <1>5 DEF Extracting
<1> QED
  BY <1>4, <1>5 DEF Parse

LEMMA ParsedExtracting == ASSUME Extracting, Parsed PROVE Extracting'
<1>1. /\ tool = "cyapp" /\ step = "parse" /\ status = "running"
      /\ args.magic => at = args.count
      /\ tool' = tool /\ args' = args /\ files' = files /\ members' = members
      /\ wrote' = wrote /\ skipped' = skipped
  BY DEF Parsed, appVars
<1>2. /\ args \in Archives /\ at \in Nat /\ members \in Seq(Entry)
      /\ at = Len(members) /\ Len(members) <= args.count
      /\ \A k \in 1 .. Len(members) : members[k] = args.entries[k]
      /\ files = << >> /\ wrote = 0 /\ skipped = 0
  BY <1>1 DEF Extracting
<1>3. CASE args.magic /\ Covered
  <2>1. step' = "list" /\ at' = 0 /\ status' = status
    BY <1>3 DEF Parsed
  <2>2. \A k \in 1 .. Len(members) : End(members[k]) <= Len(args.blob)
    BY <1>2, <1>3, CoveredIsInside
  <2>3. Len(members) = args.count /\ 0 <= Len(members)
    BY <1>1, <1>2, <1>3
  <2> QED
    BY <1>1, <1>2, <2>1, <2>2, <2>3, SameMembers DEF Extracting
<1>4. CASE ~(args.magic /\ Covered)
  <2>1. step' = step /\ at' = at /\ status' = "raised"
    BY <1>4 DEF Parsed
  <2> QED
    BY <1>1, <1>2, <2>1 DEF Extracting
<1> QED
  BY <1>3, <1>4

LEMMA ListExtracting == ASSUME Extracting, tool = "cyapp", List PROVE Extracting'
<1>1. /\ step = "list" /\ status = "running"
      /\ tool' = tool /\ args' = args /\ files' = files /\ members' = members
      /\ wrote' = wrote /\ skipped' = skipped
  BY DEF List, appVars
<1>2. /\ args \in Archives /\ at \in Nat /\ members \in Seq(Entry)
      /\ Len(members) = args.count /\ at <= Len(members)
      /\ \A k \in 1 .. Len(members) : members[k] = args.entries[k]
      /\ \A k \in 1 .. Len(members) : End(members[k]) <= Len(args.blob)
      /\ \A k \in 1 .. at : Method(members[k]) # None
      /\ files = << >> /\ wrote = 0 /\ skipped = 0
  BY <1>1, ArchiveIs DEF Extracting
<1>3. Len(members) \in Nat /\ DOMAIN members = 1 .. Len(members)
  BY <1>2, MembersAre
<1>4. CASE at = Len(members)
  <2>1. step' = "extract" /\ at' = 0 /\ status' = status
    BY <1>4 DEF List
  <2>2. Taken' = {}
    BY <1>1, <1>3, <2>1 DEF Taken, Stored
  <2>3. DOMAIN files = {}
    BY <1>2, EmptySeq, LenProperties
  <2>4. Cardinality({}) = 0
    BY FS_EmptySet
  <2>5. Written'
    BY <1>1, <1>2, <2>1, <2>2, <2>3, <2>4 DEF Written
  <2>6. \A k \in 1 .. Len(members) : Method(members[k]) # None
    BY <1>2, <1>4
  <2> QED
    BY <1>1, <1>2, <1>3, <2>1, <2>5, <2>6, SameMembers DEF Extracting
<1>5. CASE at # Len(members) /\ Method(members[at + 1]) = None
  <2>1. step' = step /\ at' = at /\ status' = "raised"
    BY <1>5 DEF List
  <2> QED
    BY <1>1, <1>2, <2>1, SameMembers DEF Extracting
<1>6. CASE at # Len(members) /\ Method(members[at + 1]) # None
  <2>1. step' = step /\ at' = at + 1 /\ status' = status
    BY <1>6 DEF List
  <2>2. \A k \in 1 .. (at + 1) : Method(members[k]) # None
    <3> TAKE k \in 1 .. (at + 1)
    <3>1. k \in 1 .. at \/ k = at + 1
      BY <1>2
    <3> QED
      BY <1>2, <1>6, <3>1
  <2>3. at + 1 \in Nat /\ at + 1 <= Len(members)
    BY <1>2, <1>3, <1>6
  <2> QED
    BY <1>1, <1>2, <2>1, <2>2, <2>3, SameMembers DEF Extracting
<1> QED
  BY <1>4, <1>5, <1>6

\* One turn of extraction: a member more is counted, as written or skipped.
LEMMA ExtractExtracting ==
  ASSUME Extracting, tool = "cyapp", Extract
  PROVE  Extracting'
<1> DEFINE m == members[at + 1]
           name == Flat[m.name]
<1>1. /\ step = "extract" /\ status = "running" /\ at < Len(members)
      /\ tool' = tool /\ args' = args /\ members' = members /\ step' = step
  BY DEF Extract
<1>2. /\ args \in Archives /\ at \in Nat /\ members \in Seq(Entry)
      /\ Len(members) = args.count
      /\ \A k \in 1 .. Len(members) : members[k] = args.entries[k]
      /\ \A k \in 1 .. Len(members) : End(members[k]) <= Len(args.blob)
      /\ \A k \in 1 .. Len(members) : Method(members[k]) # None
      /\ Written
  BY <1>1 DEF Extracting
<1>3. /\ Len(members) \in Nat /\ DOMAIN members = 1 .. Len(members)
      /\ args.count \in Nat
  BY <1>2, MembersAre, ArchiveIs
<1>4. at + 1 \in 1 .. Len(members) /\ at + 1 \in Nat /\ at + 1 <= Len(members)
  BY <1>1, <1>2, <1>3
<1>5. /\ IsFiniteSet(Taken) /\ at + 1 \notin Taken
      /\ \A k \in Taken : k \in 1 .. at /\ k <= at + 1
  <2>1. Taken \subseteq 1 .. at
    BY <1>2, <1>3 DEF Taken, Stored
  <2>2. IsFiniteSet(1 .. at)
    BY <1>2, FS_Interval
  <2>3. IsFiniteSet(Taken)
    BY <2>1, <2>2, FS_Subset
  <2>4. \A k \in 1 .. at : k <= at + 1 /\ k # at + 1
    BY <1>2
  <2> QED
    BY <2>1, <2>3, <2>4
<1>6. CASE Method(m) # STORED
  <2>1. /\ skipped' = skipped + 1 /\ at' = at + 1 /\ files' = files
        /\ wrote' = wrote /\ status' = status
    BY <1>6 DEF Extract
  <2>2. Taken' = Taken
    <3>1. \A k \in Stored : k <= at + 1 <=> k <= at
      BY <1>2, <1>3, <1>6 DEF Stored
    <3> QED
      BY <1>1, <2>1, <3>1, SameMembers DEF Taken
  <2>3. Written'
    <3>1. skipped + 1 \in Nat /\ wrote + (skipped + 1) = at + 1
      BY <1>2 DEF Written
    <3>2. /\ DOMAIN files = {File(k) : k \in Taken}
          /\ \A n \in DOMAIN files :
               \E k \in Taken : /\ File(k) = n /\ files[n] = Payload(members[k])
                               /\ \A j \in Taken : File(j) = n => j <= k
          /\ wrote = Cardinality(Taken) /\ wrote \in Nat
      BY <1>2 DEF Written
    <3> QED
      BY <1>1, <2>1, <2>2, <3>1, <3>2, WrittenAfter
  <2> QED
    BY <1>1, <1>2, <1>4, <2>1, <2>3, SameMembers DEF Extracting
<1>7. CASE Method(m) = STORED /\ name \in Unwritable
  <2>1. /\ status' = "raised" /\ at' = at /\ files' = files /\ wrote' = wrote
        /\ skipped' = skipped
    BY <1>7 DEF Extract
  <2>2. Taken' = Taken
    BY <1>1, <2>1, SameMembers DEF Taken
  <2>3. Written'
    BY <1>1, <1>2, <2>1, <2>2, SameMembers, SMTT(30) DEF Written
  <2>4. File(at + 1) \in Unwritable
    BY <1>7 DEF File
  <2> QED
    BY <1>1, <1>2, <1>4, <2>1, <2>3, <2>4, SameMembers DEF Extracting
<1>8. CASE Method(m) = STORED /\ name \notin Unwritable
  <2>1. /\ files' = [n \in DOMAIN files \cup {name} |->
                      IF n = name THEN Payload(m) ELSE files[n]]
        /\ wrote' = wrote + 1 /\ at' = at + 1 /\ skipped' = skipped
        /\ status' = status
    BY <1>8 DEF Extract
  <2>2. Taken' = Taken \cup {at + 1}
    <3>1. at + 1 \in Stored
      BY <1>3, <1>4, <1>8 DEF Stored
    <3>2. \A k \in Stored : k <= at + 1 <=> k <= at \/ k = at + 1
      BY <1>2, <1>3 DEF Stored
    <3> QED
      BY <1>1, <1>4, <2>1, <3>1, <3>2, SameMembers DEF Taken
  <2>3. File(at + 1) = name
    BY DEF File
  <2>4. Cardinality(Taken') = wrote + 1
    BY <1>2, <1>5, <2>2, FS_AddElement DEF Written
  <2>5. DOMAIN files' = {File(k) : k \in Taken'}
    BY <1>2, <2>1, <2>2, <2>3 DEF Written
  <2>6. ASSUME NEW n \in DOMAIN files'
        PROVE  \E k \in Taken' : /\ File(k) = n /\ files'[n] = Payload(members[k])
                                /\ \A j \in Taken' : File(j) = n => j <= k
    <3>1. CASE n = name
      <4>1. \A j \in Taken' : j <= at + 1
        BY <1>4, <1>5, <2>2
      <4>2. files'[n] = Payload(members[at + 1])
        BY <2>1, <3>1
      <4> QED
        BY <2>2, <2>3, <3>1, <4>1, <4>2
    <3>2. CASE n # name
      <4>1. n \in DOMAIN files /\ files'[n] = files[n]
        BY <2>1, <3>2
      <4>2. PICK k \in Taken : /\ File(k) = n /\ files[n] = Payload(members[k])
                               /\ \A j \in Taken : File(j) = n => j <= k
        BY <1>2, <4>1 DEF Written
      <4>3. \A j \in Taken' : File(j) = n => j <= k
        BY <2>2, <2>3, <3>2, <4>2
      <4> QED
        BY <2>2, <4>1, <4>2, <4>3
    <3> QED
      BY <3>1, <3>2
  <2>7. Written'
    <3>1. wrote + 1 \in Nat /\ wrote + 1 + skipped = at + 1
      BY <1>2 DEF Written
    <3>2. /\ wrote' = Cardinality(Taken') /\ wrote' \in Nat
          /\ skipped' \in Nat /\ wrote' + skipped' = at'
      BY <1>2, <2>1, <2>4, <3>1 DEF Written
    <3> QED
      BY <1>1, <2>5, <2>6, <3>2, WrittenAfter
  <2> QED
    BY <1>1, <1>2, <1>4, <2>1, <2>7, SameMembers DEF Extracting
<1> QED
  BY <1>6, <1>7, <1>8

LEMMA ExtractedExtracting ==
  ASSUME Extracting, tool = "cyapp", Extracted
  PROVE  Extracting'
<1>1. /\ step = "extract" /\ status' = "zero" /\ at = Len(members)
      /\ tool' = tool /\ args' = args /\ members' = members /\ step' = step
      /\ at' = at /\ files' = files /\ wrote' = wrote /\ skipped' = skipped
  BY DEF Extracted, appVars
<1>2. Taken' = Taken
  BY <1>1, SameMembers DEF Taken
<1>3. Written => Written'
  BY <1>1, <1>2, SameMembers DEF Written
<1> QED
  BY <1>1, <1>3, SameMembers DEF Extracting

\* A run that ends well has taken every stored member in turn.
LEMMA ExtractingIsWhole == ASSUME Extracting PROVE ExtractedWhole
<1> SUFFICES ASSUME tool = "cyapp" PROVE ExtractedWhole
  BY DEF ExtractedWhole
<1> DEFINE all == {args.entries[k] : k \in 1 .. args.count}
           stored == {k \in DOMAIN members : Method(members[k]) = STORED}
           named(n) == {k \in stored : Flat[members[k].name] = n}
<1>1. /\ args \in Archives /\ at \in Nat /\ members \in Seq(Entry)
      /\ Len(members) <= args.count
      /\ \A k \in 1 .. Len(members) : members[k] = args.entries[k]
  BY DEF Extracting
<1>2. /\ Len(members) \in Nat /\ DOMAIN members = 1 .. Len(members)
      /\ args.count \in Nat /\ stored = Stored
  BY <1>1, MembersAre, ArchiveIs DEF Stored
<1>3. \A k \in 1 .. Len(members) : members[k] \in all
  <2> TAKE k \in 1 .. Len(members)
  <2>1. k \in 1 .. args.count
    BY <1>1, <1>2
  <2> QED
    BY <1>1, <2>1
<1>4. ASSUME status = "zero"
      PROVE  /\ ToSet(members) = all
             /\ \A m \in all : m.length > 0 /\ m.offset + m.length <= Len(args.blob)
             /\ DOMAIN files = {Flat[members[k].name] : k \in stored}
             /\ \A n \in DOMAIN files :
                  LET m == members[Max(named(n))]
                  IN  /\ Len(files[n]) = m.length - 1
                      /\ \A k \in DOMAIN files[n] :
                           files[n][k] = args.blob[m.offset + 1 + k]
             /\ wrote = Cardinality(stored) /\ wrote + skipped = args.count
  <2>1. /\ at = Len(members) /\ Len(members) = args.count /\ Written
        /\ \A k \in 1 .. Len(members) : End(members[k]) <= Len(args.blob)
        /\ \A k \in 1 .. Len(members) : Method(members[k]) # None
    BY <1>4 DEF Extracting
  <2>2. Taken = stored
    BY <1>2, <2>1 DEF Taken, Stored
  <2>3. ToSet(members) = all
    BY <1>1, <1>2, <2>1 DEF ToSet
  <2>4. \A k \in 1 .. Len(members) :
          members[k] \in Entry /\ members[k].length > 0
    BY <1>1, <2>1, MembersAre, PayloadIs
  <2>5. \A m \in all : m.length > 0 /\ m.offset + m.length <= Len(args.blob)
    <3> TAKE m \in all
    <3>1. PICK k \in 1 .. Len(members) : m = members[k]
      BY <1>1, <2>1
    <3> QED
      BY <2>1, <2>4, <3>1 DEF End
  <2>6. ASSUME NEW n \in DOMAIN files
        PROVE  LET m == members[Max(named(n))]
               IN  /\ Len(files[n]) = m.length - 1
                   /\ \A k \in DOMAIN files[n] :
                        files[n][k] = args.blob[m.offset + 1 + k]
    <3>1. PICK k \in stored : /\ File(k) = n /\ files[n] = Payload(members[k])
                             /\ \A j \in stored : File(j) = n => j <= k
      BY <2>1, <2>2 DEF Written
    <3>2. k \in named(n) /\ named(n) \subseteq Nat /\ \A j \in named(n) : k >= j
      <4>1. k \in named(n) /\ \A j \in named(n) : j <= k
        BY <3>1 DEF File
      <4>2. named(n) \subseteq Nat
        BY <1>2
      <4> HIDE DEF named
      <4> QED
        BY <4>1, <4>2
    <3> HIDE DEF named
    <3>3. Max(named(n)) = k
      BY <3>2, GreatestIsMax
    <3>4. k \in 1 .. Len(members) /\ Method(members[k]) = STORED
      BY <1>2, <3>1
    <3>5. /\ Len(Payload(members[k])) = members[k].length - 1
          /\ DOMAIN Payload(members[k]) = 1 .. (members[k].length - 1)
          /\ \A i \in 1 .. (members[k].length - 1) :
               Payload(members[k])[i] = args.blob[members[k].offset + 1 + i]
      BY <1>1, <2>1, <2>4, <3>4, PayloadIs
    <3> QED
      BY <3>1, <3>3, <3>5
  <2>7. DOMAIN files = {Flat[members[k].name] : k \in stored}
    BY <2>1, <2>2 DEF Written, File
  <2>8. wrote = Cardinality(stored) /\ wrote + skipped = args.count
    BY <2>1, <2>2 DEF Written
  <2> QED
    BY <2>3, <2>5, <2>6, <2>7, <2>8
<1>5. ASSUME status = "raised", files # << >>
      PROVE  \E m \in all : Flat[m.name] \in Unwritable
  <2>1. PICK k \in 1 .. Len(members) : File(k) \in Unwritable
    BY <1>5 DEF Extracting
  <2> QED
    BY <1>3, <2>1 DEF File
<1> QED
  BY <1>4, <1>5 DEF ExtractedWhole

\* An archive is extracted whole or not at all, whatever its members, their
\* names and their order (cyapp.py:58-106).
THEOREM ExtractsWhole == Spec => []ExtractedWhole
<1>1. Init => Extracting
  <2> SUFFICES ASSUME Init, tool = "cyapp" PROVE Extracting
    BY DEF Extracting
  <2>1. /\ args \in Archives /\ step = "parse" /\ status = "running" /\ at = 0
        /\ members = << >> /\ files = << >> /\ wrote = 0 /\ skipped = 0
    BY DEF Init, Comparisons
  <2>2. /\ members \in Seq(Entry) /\ Len(members) = 0 /\ args.count \in Nat
    BY <2>1, EmptySeq, ArchiveIs
  <2> QED
    BY <2>1, <2>2 DEF Extracting
<1>2. Extracting /\ [Next]_vars => Extracting'
  <2> SUFFICES ASSUME Extracting, [Next]_vars PROVE Extracting'
    OBVIOUS
  <2>1. CASE tool # "cyapp"
    <3>1. tool' = tool
      BY DEF Next, vars, Align, Compare, Parse, Parsed, List, Extract, Extracted
    <3> QED
      BY <2>1, <3>1 DEF Extracting
  <2>2. CASE tool = "cyapp" /\ (Align \/ Compare)
    BY <2>2 DEF Extracting, Align, Compare, Comparisons
  <2>3. CASE tool = "cyapp" /\ Parse
    BY <2>3, ParseExtracting
  <2>4. CASE tool = "cyapp" /\ Parsed
    BY <2>4, ParsedExtracting
  <2>5. CASE tool = "cyapp" /\ List
    BY <2>5, ListExtracting
  <2>6. CASE tool = "cyapp" /\ Extract
    BY <2>6, ExtractExtracting
  <2>7. CASE tool = "cyapp" /\ Extracted
    BY <2>7, ExtractedExtracting
  <2>8. CASE UNCHANGED vars
    <3>1. Taken' = Taken
      BY <2>8, SameMembers DEF Taken, vars, appVars
    <3>2. Written => Written'
      BY <2>8, <3>1, WrittenAfter DEF Written, vars, appVars
    <3> QED
      BY <2>8, <3>2, SameMembers DEF Extracting, vars, appVars
  <2> QED
    BY <2>1, <2>2, <2>3, <2>4, <2>5, <2>6, <2>7, <2>8 DEF Next
<1> QED
  BY <1>1, <1>2, ExtractingIsWhole, PTL DEF Spec
==============================================================================
