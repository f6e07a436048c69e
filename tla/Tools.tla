-------------------------------- MODULE Tools --------------------------------
(***************************************************************************)
(* One invocation of a command-line tool: difftest.py and diffwrites.py,   *)
(* which line a log of this runtime up with one of another emulator and    *)
(* compare them, and cyapp.py, which takes an archive apart.               *)
(*                                                                         *)
(* A log is a sequence of records <<key, rest>>: the PC and the registers  *)
(* of an instruction, or the address and the byte of a write.              *)
(***************************************************************************)
EXTENDS Integers, FiniteSetsExt, SequencesExt

CONSTANTS
  Logs,     \* pairs <<ours, theirs>>
  WINDOW,   \* align's window and run, of each comparison
  RUN,
  Archives, \* records [magic, blob, count, entries]; an entry is
            \* [name, ends, offset, length]
  HEAD, ENTRY, LENGTH, \* bytes before the entries, of one, and before the
                       \* payload of a compressed member: 6, 10, 5
  Flat,     \* m.name.replace("/", "_"), for every name
  Unwritable  \* file names open() refuses: "", ".", ".."

Comparisons == {"difftest", "diffwrites"}
STORED == 0
COMPRESSED == 2
None == -1

ASSUME WindowAssumption ==
  WINDOW \in [Comparisons -> Nat \ {0}] /\ RUN \in [Comparisons -> Nat \ {0}]
ASSUME LayoutAssumption ==
  HEAD \in Nat /\ ENTRY \in Nat /\ LENGTH \in Nat \ {0}
ASSUME LogsAssumption ==
  \A p \in Logs : p[1] \in Seq(ToSet(p[1])) /\ p[2] \in Seq(ToSet(p[2]))
ASSUME ArchivesAssumption ==
  \A a \in Archives :
    /\ a.blob \in Seq(Nat) /\ a.count \in Nat
    /\ a.entries \in Seq([name : DOMAIN Flat, ends : BOOLEAN,
                          offset : Nat, length : Nat])
    /\ a.count = Len(a.entries)

VARIABLES
  tool, args,
  status,   \* "running", the exit status "zero" or "one", or "raised"
  step,     \* of main
  at,       \* of the loop under way
  off,      \* align's result
  members, files, wrote, skipped

vars == <<tool, args, status, step, at, off, members, files, wrote, skipped>>
appVars == <<members, files, wrote, skipped>>

-----------------------------------------------------------------------------
(* The comparisons. *)

ours == args[1]
theirs == args[2]
Least(a, b) == IF a < b THEN a ELSE b

\* difftest lines up PCs, diffwrites whole writes.
Key(r) == IF tool = "difftest" THEN r[1] ELSE r
Keys(log, from, count) ==
  [k \in 1 .. Least(count, Len(log) - from) |-> Key(log[from + k])]

\* Offsets range(min(window, max(0, len(theirs) - run))) tries.
Tried == {k \in 0 .. (WINDOW[tool] - 1) : k < Len(theirs) - RUN[tool]}

\* Variant: one record is enough to line up.
AlignedOnOne == {k \in Tried : Keys(theirs, k, 1) = Keys(ours, 0, 1)}

Aligned ==
  {k \in Tried : Keys(theirs, k, RUN[tool]) = Keys(ours, 0, RUN[tool])}

\* Too little of ours to line up.
Unaligned == IF tool = "difftest" THEN ours = << >>
             ELSE Len(ours) < RUN[tool]

Align ==
  /\ tool \in Comparisons /\ status = "running" /\ step = "align"
  /\ IF Unaligned THEN off' = 0 /\ step' = "compare" /\ UNCHANGED status
     ELSE IF Aligned = {} THEN status' = "one" /\ UNCHANGED <<off, step>>
     ELSE off' = Min(Aligned) /\ step' = "compare" /\ UNCHANGED status
  /\ UNCHANGED <<tool, args, at, appVars>>

Compare ==
  /\ status = "running" /\ step = "compare"
  /\ IF at = Least(Len(ours), Len(theirs) - off)
       THEN status' = "zero" /\ UNCHANGED at
     ELSE IF ours[at + 1] # theirs[off + at + 1]
       THEN status' = "one" /\ UNCHANGED at
     ELSE at' = at + 1 /\ UNCHANGED status
  /\ UNCHANGED <<tool, args, step, off, appVars>>

-----------------------------------------------------------------------------
(* cyapp. *)

\* blob[offset:offset + length]
Raw(m) == [k \in 1 .. Max({0, Least(m.length, Len(args.blob) - m.offset)}) |->
             args.blob[m.offset + k]]
Method(m) == IF Raw(m) = << >> THEN None ELSE Raw(m)[1]

\* Variant: the method taken for the first byte of the data.
PayloadWhole(m) == Raw(m)

Payload(m) ==
  LET packed == Method(m) = COMPRESSED /\ Len(Raw(m)) >= LENGTH
  IN  SubSeq(Raw(m), IF packed THEN LENGTH + 1 ELSE 2, Len(Raw(m)))

\* One entry, or an end of the file in the middle of the table, or a name
\* that does not end.
Parse ==
  /\ tool = "cyapp" /\ status = "running" /\ step = "parse"
  /\ args.magic /\ at < args.count
  /\ IF HEAD + ENTRY * (at + 1) <= Len(args.blob) /\ args.entries[at + 1].ends
       THEN /\ members' = Append(members, args.entries[at + 1])
            /\ at' = at + 1
            /\ UNCHANGED status
       ELSE status' = "raised" /\ UNCHANGED <<members, at>>
  /\ UNCHANGED <<tool, args, step, off, files, wrote, skipped>>

\* The check that the members cover the file looks at the last end only.
Covered ==
  LET end(m) == m.offset + m.length
  IN  Max({0} \cup {end(members[k]) : k \in DOMAIN members}) = Len(args.blob)

Parsed ==
  /\ tool = "cyapp" /\ status = "running" /\ step = "parse"
  /\ args.magic => at = args.count
  /\ IF args.magic /\ Covered
       THEN step' = "list" /\ at' = 0 /\ UNCHANGED status
       ELSE status' = "raised" /\ UNCHANGED <<step, at>>
  /\ UNCHANGED <<tool, args, off, appVars>>

\* A member without a method byte has no number to print.
List ==
  /\ status = "running" /\ step = "list"
  /\ IF at = Len(members)
       THEN step' = "extract" /\ at' = 0 /\ UNCHANGED status
     ELSE IF Method(members[at + 1]) = None
       THEN status' = "raised" /\ UNCHANGED <<step, at>>
     ELSE at' = at + 1 /\ UNCHANGED <<step, status>>
  /\ UNCHANGED <<tool, args, off, appVars>>

\* One turn of extraction; a file of the same name is overwritten.
Extract ==
  /\ status = "running" /\ step = "extract" /\ at < Len(members)
  /\ LET m == members[at + 1]
         name == Flat[m.name]
     IN  IF Method(m) # STORED
           THEN /\ skipped' = skipped + 1 /\ at' = at + 1
                /\ UNCHANGED <<files, wrote, status>>
         ELSE IF name \in Unwritable
           THEN status' = "raised" /\ UNCHANGED <<files, wrote, skipped, at>>
         ELSE /\ files' = [n \in DOMAIN files \cup {name} |->
                             IF n = name THEN Payload(m) ELSE files[n]]
              /\ wrote' = wrote + 1 /\ at' = at + 1
              /\ UNCHANGED <<skipped, status>>
  /\ UNCHANGED <<tool, args, step, off, members>>

Extracted ==
  /\ status = "running" /\ step = "extract" /\ at = Len(members)
  /\ status' = "zero"
  /\ UNCHANGED <<tool, args, step, at, off, appVars>>

Init ==
  /\ \/ tool \in Comparisons /\ args \in Logs /\ step = "align"
     \/ tool = "cyapp" /\ args \in Archives /\ step = "parse"
  /\ status = "running" /\ at = 0 /\ off = None
  /\ members = << >> /\ files = << >> /\ wrote = 0 /\ skipped = 0

Next ==
  \/ Align \/ Compare
  \/ Parse \/ Parsed \/ List \/ Extract \/ Extracted
Spec == Init /\ [][Next]_vars

-----------------------------------------------------------------------------
(* Properties. *)

\* The logs say the same from theirs' k-th record on, as far as both go.
Agree(k) ==
  /\ k <= Len(theirs)
  /\ \A i \in 1 .. Least(Len(ours), Len(theirs) - k) : ours[i] = theirs[k + i]

\* The verdict of a comparison means something.  Status 0 is given only if
\* the logs agree from some offset in the window, over a run at least unless
\* ours is shorter than one.  Status 1 is given to logs that do agree, from
\* an offset with a run's worth behind it, only if that is the last such
\* offset, which is not tried, or an earlier run lined up by chance -- "a
\* single address recurs constantly in a loop and would align anywhere"
\* (difftest.py:58-59, diffwrites.py:27-30).
VerdictRight ==
  tool \in Comparisons =>
    /\ status = "zero" =>
         \E k \in 0 .. (WINDOW[tool] - 1) :
           /\ Agree(k)
           /\ Len(ours) >= RUN[tool] => Len(theirs) - k >= RUN[tool]
    /\ status = "one" =>
         \A k \in 0 .. (WINDOW[tool] - 1) :
           Agree(k) /\ RUN[tool] <= Least(Len(ours), Len(theirs) - k) =>
             \/ Len(theirs) - k = RUN[tool]
             \/ \E j \in 0 .. (k - 1) :
                  Keys(theirs, j, RUN[tool]) = Keys(ours, 0, RUN[tool])

\* An archive is extracted whole or not at all: every stored member's data
\* without its method byte, the last of those whose names flatten to one;
\* every other member counted; and no file written when the archive is
\* refused, but for a name that cannot be a file's (cyapp.py:72-78, 97-108).
ExtractedWhole ==
  tool = "cyapp" =>
    LET all == {args.entries[k] : k \in 1 .. args.count}
        stored == {k \in DOMAIN members : Method(members[k]) = STORED}
        named(n) == {k \in stored : Flat[members[k].name] = n}
    IN  /\ status = "zero" =>
             /\ ToSet(members) = all
             /\ \A m \in all : m.length > 0 /\ m.offset + m.length <= Len(args.blob)
             /\ DOMAIN files = {Flat[members[k].name] : k \in stored}
             /\ \A n \in DOMAIN files :
                  LET m == members[Max(named(n))]
                  IN  /\ Len(files[n]) = m.length - 1
                      /\ \A k \in DOMAIN files[n] :
                           files[n][k] = args.blob[m.offset + 1 + k]
             /\ wrote = Cardinality(stored) /\ wrote + skipped = args.count
        /\ status = "raised" /\ files # << >> =>
             \E m \in all : Flat[m.name] \in Unwritable
=============================================================================
