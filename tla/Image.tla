-------------------------------- MODULE Image --------------------------------
(***************************************************************************)
(* What a trace starts from: the one address space tools/cyimage.py puts   *)
(* together, and the entry points vtables.resolve collects before it       *)
(* traces -- the vector table, function prologues, the interrupt table,    *)
(* recorded program counters and the CyOS header.                          *)
(***************************************************************************)
EXTENDS Integers, FiniteSets, SequencesExt

CONSTANTS
  ROM_SIZE, RAM_BASE, RAM_SIZE,  \* the ROM is at 0
  Padding,      \* what the fill decodes as
  VECTOR_BYTES, \* VECTOR_COUNT * 4, the table at 0
  ADDRESSES,    \* addresses of the CPU: 0xFFFFFF + 1
  Erased        \* 0xFFFFFFFF

ASSUME MapAssumption ==
  /\ ROM_SIZE \in Nat \ {0} /\ RAM_SIZE \in Nat \ {0}
  /\ RAM_BASE \in Nat /\ RAM_BASE >= ROM_SIZE
  /\ VECTOR_BYTES \in 0 .. ROM_SIZE
  /\ Erased \in Nat /\ Erased >= RAM_BASE + RAM_SIZE
  /\ ADDRESSES \in Nat /\ ADDRESSES >= RAM_BASE + RAM_SIZE

Length == RAM_BASE + RAM_SIZE    \* IMAGE_SIZE
InRom(a) == a \in 0 .. (ROM_SIZE - 1)
InRam(a) == a \in RAM_BASE .. (Length - 1)

\* CYBIKO_REGIONS.
Regions == {a \in 0 .. (Length - 1) : InRom(a) \/ InRam(a)}

\* The files laid out; one of another size is refused.  What is not theirs
\* is fill.  Files are sequences of what each of their addresses decodes as.
Fits(rom, ram) == Len(rom) = ROM_SIZE /\ Len(ram) = RAM_SIZE
build(rom, ram) ==
  [a \in 0 .. (Length - 1) |-> IF InRom(a) THEN rom[a + 1]
                               ELSE IF InRam(a) THEN ram[a - RAM_BASE + 1]
                               ELSE Padding]

-----------------------------------------------------------------------------
(* The seeds.  d.vector are the words of the vector table, d.handlers those *)
(* of the interrupt table (none without a dump of it), d.recorded the PCs   *)
(* of a run, d.prologues what prologue_seeds matches.                       *)

\* Unfilled slots and vectors out of the image are left out.
vectors(d) ==
  {v \in ToSet(d.vector) : v \notin {0, Erased} /\ v < Length}

\* Every slot of the interrupt table, filled or not.
irq_handlers(d) == ToSet(d.handlers)

\* Variant: the recording taken as it is.
PcSeedsRaw(d) == d.recorded

\* A recording begins with the fetch of the reset vector.
pc_seeds(d) == {a \in d.recorded : a >= VECTOR_BYTES}

\* The entry point behind the magic, if it is in the image and not 0.
cyos_entry(d) ==
  {e \in {d.header.entry % ADDRESSES} : d.header.magic /\ e < Length /\ e # 0}

SeedsOf(d) ==
  vectors(d) \cup d.prologues \cup irq_handlers(d) \cup pc_seeds(d)
    \cup cyos_entry(d)
=============================================================================
