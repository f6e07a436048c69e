-------------------------------- MODULE Body --------------------------------
(***************************************************************************)
(* What tools/emit.py makes of decoded instructions: body(), the choice    *)
(* between C statements and UNIMPLEMENTED for each Insn; the condition and *)
(* the indirect target it reads back out of an Insn's raw bytes; and the   *)
(* statements of the instructions functions open and close with, stm, ldm, *)
(* push and pop.  And the seeds analyze.py finds by those openings.        *)
(*                                                                         *)
(* An image is swept from its first byte, as emit_chunk writes a run of    *)
(* sequential instructions.  An instruction that is no frame operation is  *)
(* taken to change every register but ER7 and to leave the frames alone.   *)
(* Register contents are tokens, eight per register.                       *)
(***************************************************************************)
EXTENDS H8s, SequencesExt

CONSTANT Images   \* byte sequences

ASSUME ImagesAssumption == Images \subseteq Seq(Byte)

VARIABLES
  image, pos,
  e,        \* c->e[0..6]
  stack,    \* longwords above ER7, newest first
  frames    \* history: the frame operations not undone yet, newest first

vars == <<image, pos, e, stack, frames>>

-----------------------------------------------------------------------------
(* body(): supported instructions, and the operands rd, wr and ea get. *)

HasSd(i) == i.dst # None \/ i.src # None

BitCarry == {"bld", "bild", "bst", "bist", "band", "biand", "bor", "bior",
             "bxor", "bixor"}
MulDiv == {"mulxu", "mulxs", "divxu", "divxs"}
CcrOps == {"orc", "andc", "xorc", "ldc"}
Rotates == {"rotxl", "rotxr", "rotl", "rotr"}
Bits == {"bset", "bclr", "bnot", "btst"}
Binary == {"add", "sub", "cmp", "and", "or", "xor", "inc", "dec",
           "shll", "shal", "shlr", "shar"}
OneOperand == {"not", "neg", "extu", "exts"}

\* Variant: the carry forms emitted whether or not the decoder described
\* their operands.
SupportedBare(i) ==
  \/ i.op \in {"stm", "ldm", "nop", "eepmov", "sleep", "addx", "subx"}
  \/ i.op \in CcrOps /\ i.dst = Ccr /\ i.src.mode \in {"r", "i"}
  \/ HasSd(i) /\ i.op \notin CcrOps \cup {"bit-op"}

\* body(i) is not None.
Supported(i) ==
  \/ i.op \in {"stm", "ldm", "nop", "eepmov", "sleep"}
  \/ i.op = "stc" /\ i.src = Ccr
  \/ i.op \in CcrOps /\ i.dst = Ccr
       /\ i.src.mode \in (IF i.op = "ldc" THEN {"r", "i"} ELSE {"i"})
  \/ HasSd(i) /\ i.op \in BitCarry \cup MulDiv \cup Rotates \cup Bits
                            \cup Binary \cup OneOperand
                            \cup {"tas", "addx", "subx", "mov", "adds", "subs",
                                  "push", "pop"}

\* The operands its statements read and write.
Reads(i) ==
  (IF i.op \in BitCarry \cup MulDiv \cup Bits \cup Binary \cup OneOperand
                 \cup Rotates \cup {"tas", "addx", "subx", "adds", "subs"}
     THEN {i.dst} ELSE {})
  \cup (IF i.op \in BitCarry \cup MulDiv \cup Bits \cup Binary
                 \cup {"addx", "subx", "adds", "subs", "mov", "push"}
          THEN {i.src} ELSE {})
Writes(i) ==
  IF i.op \in {"bst", "bist"} \cup MulDiv \cup (Bits \ {"btst"})
                \cup (Binary \ {"cmp"}) \cup OneOperand \cup Rotates
                \cup {"tas", "addx", "subx", "adds", "subs", "mov", "pop", "stc"}
    THEN {i.dst} ELSE {}

\* The operand modes rd and wr have a C expression for; ea raises on others.
Readable == {"r", "i", "ind", "dsp", "abs", "pi", "pd"}
Writable == Readable \ {"i"}

\* A size is printed into the statements of these: SETNZ(t, size) and more.
Sized == Rotates \cup Binary \cup OneOperand \cup {"mov"}

-----------------------------------------------------------------------------
(* What emit_chunk reads back from the raw bytes of a transfer. *)

\* cy_cond's table, in encoding order.
CondTable == <<"bra", "brn", "bhi", "bls", "bcc", "bcs", "bne", "beq",
               "bvc", "bvs", "bpl", "bmi", "bge", "blt", "bgt", "ble">>
FlagTests == {"beq", "bne", "bcs", "bcc", "bmi", "bpl", "bvs", "bvc"}

\* Variant: the condition taken from the first byte of both forms.
TestedFirstByte(i, raw) ==
  IF i.op \in FlagTests THEN i.op ELSE CondTable[Lo(raw[1]) + 1]

\* The condition the emitted branch tests.
Tested(i, raw) ==
  IF i.op \in FlagTests THEN i.op
  ELSE CondTable[(IF Hi(raw[1]) = 4 THEN Lo(raw[1]) ELSE Hi(raw[2])) + 1]

\* indirect_target: a register or a vector slot, or an assertion.
IndirectTarget(raw) ==
  CASE raw[1] \in {89, 93} -> R(Hi(raw[2]) % 8)
    [] raw[1] \in {91, 95} -> None
    [] OTHER -> Operand("raises", 0)

-----------------------------------------------------------------------------
(* analyze.prologue_seeds: functions found by the way they open.  The byte *)
(* at offset k of an image is d[k + 1].                                    *)

\* Where registers are saved, the end of the image not looked at.
Saves(d) ==
  {a \in 0 .. (Len(d) - 5) :
     /\ a % 2 = 0
     /\ d[a + 1] = 1 /\ d[a + 3] = 109
     /\ Hi(d[a + 2]) < 8 /\ Lo(d[a + 2]) = 0
     /\ Top(d[a + 4])}

\* Variant: the save alone taken for the entry.
ReservesNever(d, a) == {}

\* The instruction before a save that makes room for locals.
Reserves(d, a) ==
  IF a >= 2 /\ d[a - 1] = 27 /\ Hi(d[a]) = 9 THEN {a - 2}
  ELSE IF a >= 6 /\ d[a - 5] = 122 /\ d[a - 4] = 55 THEN {a - 6}
  ELSE {}

prologue_seeds(d) == Saves(d) \cup UNION {Reserves(d, a) : a \in Saves(d)}

-----------------------------------------------------------------------------
(* Frames. *)

Regs == 0 .. 6
Count(raw) == Hi(raw[2]) + 1

\* The registers stored or loaded, in order.  stm stores the lowest first
\* from the one it names.
Stored(i, raw) ==
  IF i.op = "push" THEN <<i.src.n>>
  ELSE [k \in 1 .. Count(raw) |-> (raw[4] % 8) + k - 1]

\* Variant: ldm taken to load upwards, as stm stores.
LoadedUpwards(i, raw) ==
  IF i.op = "pop" THEN <<i.dst.n>>
  ELSE [k \in 1 .. Count(raw) |-> (raw[4] % 8) - Count(raw) + k]

\* ldm names the last and loads downwards.
Loaded(i, raw) ==
  IF i.op = "pop" THEN <<i.dst.n>>
  ELSE [k \in 1 .. Count(raw) |-> (raw[4] % 8) - k + 1]

Here == Decode(image, pos)
Raw == SubSeq(image, pos + 1, pos + Here.len)
Saving == Here.op \in {"stm", "push"} /\ Range(Stored(Here, Raw)) \subseteq Regs
Restoring ==
  /\ Here.op \in {"ldm", "pop"}
  /\ Range(Loaded(Here, Raw)) \subseteq Regs
  /\ Len(Loaded(Here, Raw)) <= Len(stack)

Advance == pos < Len(image) /\ pos' = pos + Here.len /\ UNCHANGED image

Save ==
  /\ Advance /\ Saving
  /\ LET regs == Stored(Here, Raw)
     IN  /\ stack' = Reverse([k \in DOMAIN regs |-> e[regs[k]]]) \o stack
         /\ frames' = <<[regs |-> Range(regs), held |-> e, below |-> stack]>>
                        \o frames
  /\ UNCHANGED e

Restore ==
  /\ Advance /\ Restoring
  /\ LET regs == Loaded(Here, Raw)
     IN  /\ e' = [r \in Regs |->
                    IF r \in Range(regs)
                      THEN stack[CHOOSE k \in DOMAIN regs : regs[k] = r]
                      ELSE e[r]]
         /\ stack' = SubSeq(stack, Len(regs) + 1, Len(stack))
         /\ frames' = IF frames # << >> /\ frames[1].regs = Range(regs)
                        THEN Tail(frames) ELSE << >>

\* Any other instruction.  A frame operation on ER7 itself, on registers
\* there are not or on a stack nobody filled loses the frames.
Other ==
  /\ Advance /\ ~Saving /\ ~Restoring
  /\ e' = [r \in Regs |-> (e[r] + 8) % 64]
  /\ IF Here.op \in {"stm", "push", "ldm", "pop"}
       THEN stack' = << >> /\ frames' = << >>
       ELSE UNCHANGED <<stack, frames>>

Init ==
  /\ image \in Images /\ pos = 0
  /\ e = [r \in Regs |-> r] /\ stack = << >> /\ frames = << >>

Next == Save \/ Restore \/ Other

\* The tools are sequential programs that run to their end.
Spec == Init /\ [][Next]_vars /\ WF_vars(Next)

-----------------------------------------------------------------------------
(* Properties. *)

\* No decode takes bytes that are not there: a sweep never passes the end of
\* the image, wherever an earlier instruction left it.
BodyTypeOK ==
  /\ pos \in 0 .. Len(image)
  /\ DOMAIN e = Regs
  /\ Len(stack) <= 4 * Len(image)

\* "A caller sweeping linearly can keep going" (h8s.py:503-504): it reaches
\* the end of every image, data and cut-off instructions included.
SweepEnds == <>(pos = Len(image))

\* Whatever the decoder returns, the emitter either has statements for it
\* or declares it unimplemented: it never asks for the C expression of an
\* operand that has none, nor for a size that is not there.
EmitTotal ==
  pos < Len(image) /\ Here.kind = "seq" /\ Supported(Here) =>
    /\ \A o \in Reads(Here) : o.mode \in Readable
    /\ \A o \in Writes(Here) : o.mode \in Writable
    /\ Here.op \in Sized => Here.size \in {"b", "w", "l"}

\* The branch emitted tests the condition decoded, and an indirect transfer
\* goes through the register decoded, although the emitter reads both from
\* the raw bytes again (emit.py:94-109, 457-467).
TransfersAgree ==
  pos < Len(image) =>
    /\ Here.kind = "jcc" => Tested(Here, Raw) = Here.op
    /\ Here.kind \in {"jmp", "call"} /\ Here.target = {} =>
         IndirectTarget(Raw) = Here.dst

\* An epilogue undoes its prologue: a restore that names the registers the
\* newest save named brings back every one of them and the stack pointer,
\* for every nesting of stm, ldm, push and pop with any code in between
\* ("getting that backwards names the wrong registers and still decodes",
\* test_decode.py:52-54).
FramesRestore ==
  [][pos < Len(image) /\ Restoring /\ frames # << >>
       /\ frames[1].regs = Range(Loaded(Here, Raw))
     => /\ \A r \in frames[1].regs : e'[r] = frames[1].held[r]
        /\ stack' = frames[1].below]_vars

\* The seeds an image is traced from are its functions' entries as decoded.
\* A sweep that comes to a frame reserved and registers saved behind it
\* finds both addresses seeded -- "so the real entry is earlier than the
\* stm.l" (analyze.py:110-117) -- and a seed in front of a save leads to it.
\* Frames whose size ends in the bytes of a small frame's subs are not found,
\* nor second encodings the decoder takes for the same instructions, which no
\* assembler writes: 7A 3F for 7A 37, and 6C for 6D behind 01 00.
EntriesSeeded ==
  /\ pos < Len(image) =>
       LET next == pos + Here.len
           saver == Decode(image, next)
           small == Here.op = "subs" /\ Hi(Raw[2]) = 9
           large == /\ Here.op = "sub" /\ Here.size = "l" /\ Here.src = Imm
                    /\ Raw[2] # 63 /\ ~(Raw[5] = 27 /\ Hi(Raw[6]) = 9)
       IN  /\ Here.dst = R(7) /\ (small \/ large)
           /\ next + 4 < Len(image)
           /\ saver.op \in {"stm", "push"} /\ saver.size = "l"
           /\ image[next + 3] # 108
           => {pos, next} \subseteq prologue_seeds(image)
  /\ \A a \in Saves(image) : \A entry \in Reserves(image, a) :
       LET i == Decode(image, entry)
       IN  i.kind = "seq" /\ entry + i.len = a

\* "Prefixing the whole thing with 01 00 makes it long" (h8s.py:278-279):
\* two bytes more than the move behind the prefix, between the same places.
PrefixLong ==
  /\ pos + 4 <= Len(image)
  /\ image[pos + 1] = 1 /\ image[pos + 2] = 0
  /\ image[pos + 3] \in 104 .. 111
  => LET inner == Decode(image, pos + 2)
     IN  inner # Unk =>
           /\ Here.len = inner.len + 2
           /\ Here.dst.mode = inner.dst.mode
           /\ Here.src.mode = inner.src.mode
           /\ inner.op = "mov" => Here.size = "l"
=============================================================================
