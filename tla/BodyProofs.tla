----------------------------- MODULE BodyProofs -----------------------------
(***************************************************************************)
(* Proofs about H8s.tla and Body.tla: for every image, whatever its bytes. *)
(*                                                                         *)
(* What the emitter needs of a decoded instruction is one predicate,       *)
(* Decoded, shown row by row of the decoder; the properties of the sweep   *)
(* follow from it and from what the frames' stack looks like.              *)
(***************************************************************************)
EXTENDS Body, SequenceTheorems, TLAPS

-----------------------------------------------------------------------------
(* What is shown of an instruction decoded from a window of bytes. *)

\* The emitter renders it, or declares it unimplemented.
Emitted(i) ==
  i.kind = "seq" /\ Supported(i) =>
    /\ \A o \in Reads(i) : o.mode \in Readable
    /\ \A o \in Writes(i) : o.mode \in Writable
    /\ i.op \in Sized => i.size \in {"b", "w", "l"}

\* The shapes of instructions there are.
Shaped(i) ==
  \/ i.kind # "seq"
  \/ i.dst = None /\ i.src = None
  \/ i.op \in CcrOps
  \/ i.op = "stc" /\ i.dst.mode \in Writable
  \/ /\ i.dst.mode \in Writable
     /\ i.src.mode \in Readable \/ i.op \in OneOperand \cup {"tas"}
     /\ i.op \in Sized => i.size \in {"b", "w", "l"}

\* The instructions functions open and close with, by the bytes they are.
Framing(i, w) ==
  /\ i.op \in {"stm", "ldm"} =>
       /\ i.len = 4 /\ i.size = "l" /\ w[1] = 1 /\ w[2] \in {16, 32, 48}
       /\ w[3] = 109 /\ (i.op = "stm" <=> Top(w[4]))
  /\ i.op = "push" => /\ w[1] = 1 /\ w[2] = 0 /\ w[3] \in {108, 109} /\ Top(w[4])
                      /\ \E k \in 0 .. 7 : i.src = R(k)
  /\ i.op = "pop" => \E k \in 0 .. 7 : i.dst = R(k)
Reserving(i, w) ==
  /\ i.op = "subs" => w[1] = 27 /\ i.len = 2
  /\ i.op = "sub" /\ i.size = "l" /\ i.src = Imm =>
       /\ w[1] = 122 /\ i.len = 6 /\ Hi(w[2]) = 3
       /\ i.dst = R(Lo(w[2]) % 8)

\* A transfer of control goes where the emitter reads it again.
Transferring(i, w) ==
  /\ i.kind = "jcc" => Tested(i, w) = i.op
  /\ i.kind \in {"jmp", "call"} /\ i.target = {} => IndirectTarget(w) = i.dst

Fits(i, w) == i.len \in {2, 4, 6, 8, 10} /\ i.len <= Len(w)

Decoded(i, w) ==
  Fits(i, w) /\ Shaped(i) /\ Framing(i, w) /\ Reserving(i, w) /\ Transferring(i, w)

\* An instruction that is none of those with conditions of their own.
Plain(i) ==
  /\ i.kind \in {"seq", "unk"}
  /\ i.op \notin {"stm", "ldm", "push", "pop", "subs"}
  /\ ~(i.op = "sub" /\ i.size = "l" /\ i.src = Imm)

LEMMA PlainDecoded ==
  ASSUME NEW i, NEW w, Plain(i), Fits(i, w), Shaped(i)
  PROVE  Decoded(i, w)
BY DEF Plain, Decoded, Framing, Reserving, Transferring

LEMMA ShapedIsEmitted == ASSUME NEW i, Shaped(i) PROVE Emitted(i)
<1> SUFFICES ASSUME i.kind = "seq", Supported(i) PROVE Emitted(i)
  BY DEF Emitted
<1>1. CASE i.dst = None /\ i.src = None
  <2>1. i.op \in {"stm", "ldm", "nop", "eepmov", "sleep"}
    BY <1>1 DEF Supported, HasSd, None, Ccr, Operand
  <2>2. Reads(i) = {} /\ Writes(i) = {} /\ i.op \notin Sized
    BY <2>1 DEF Reads, Writes, Sized, BitCarry, MulDiv, Bits, Binary, OneOperand, Rotates
  <2> QED
    BY <2>2 DEF Emitted
<1>2. CASE i.op \in CcrOps
  <2>1. Reads(i) = {} /\ Writes(i) = {} /\ i.op \notin Sized
    BY <1>2 DEF CcrOps, Reads, Writes, Sized, BitCarry, MulDiv, Bits, Binary, OneOperand,
                Rotates
  <2> QED
    BY <2>1 DEF Emitted
<1>3. CASE i.op = "stc" /\ i.dst.mode \in Writable
  <2>1. Reads(i) = {} /\ Writes(i) = {i.dst} /\ i.op \notin Sized
    BY <1>3 DEF Reads, Writes, Sized, BitCarry, MulDiv, Bits, Binary, OneOperand, Rotates
  <2> QED
    BY <1>3, <2>1 DEF Emitted
<1>4. CASE /\ i.dst.mode \in Writable
           /\ i.src.mode \in Readable \/ i.op \in OneOperand \cup {"tas"}
           /\ i.op \in Sized => i.size \in {"b", "w", "l"}
  <2>1. Writes(i) \subseteq {i.dst} /\ Reads(i) \subseteq {i.dst, i.src}
    BY DEF Reads, Writes
  <2>2. Writable \subseteq Readable
    BY DEF Writable
  <2>3. CASE i.src.mode \in Readable
    BY <1>4, <2>1, <2>2, <2>3 DEF Emitted
  <2>4. CASE i.op \in OneOperand \cup {"tas"}
    <3>1. Reads(i) \subseteq {i.dst}
      <4>1. i.op \notin BitCarry \cup MulDiv \cup Bits \cup Binary
                       \cup {"addx", "subx", "adds", "subs", "mov", "push"}
        BY <2>4 DEF OneOperand, BitCarry, MulDiv, Bits, Binary
      <4> QED
        BY <4>1 DEF Reads
    <3> QED
      BY <1>4, <2>1, <2>2, <3>1 DEF Emitted
  <2> QED
    BY <1>4, <2>3, <2>4
<1> QED
  BY <1>1, <1>2, <1>3, <1>4 DEF Shaped

-----------------------------------------------------------------------------
(* Instructions of one form. *)

Window(w) == w \in Seq(Byte) /\ Len(w) >= 2

LEMMA WindowIs ==
  ASSUME NEW w, Window(w)
  PROVE  /\ Len(w) \in Nat /\ Len(w) >= 2
         /\ \A k \in 1 .. Len(w) : w[k] \in Byte
         /\ w[1] \in Byte /\ w[2] \in Byte
<1>1. Len(w) \in Nat /\ Len(w) >= 2
  BY LenProperties DEF Window
<1>2. \A k \in 1 .. Len(w) : w[k] \in Byte
  BY ElementOfSeq DEF Window
<1> QED
  BY <1>1, <1>2

LEMMA Halves ==
  ASSUME NEW b \in Byte
  PROVE  /\ Hi(b) \in 0 .. 15 /\ Lo(b) \in 0 .. 15 /\ b = 16 * Hi(b) + Lo(b)
         /\ Hi(b) >= 8 <=> Top(b)
         /\ Lo(b) % 8 \in 0 .. 7 /\ Hi(b) % 8 \in 0 .. 7
BY DEF Byte, Hi, Lo, Top

LEMMA UnkDecoded == ASSUME NEW w, Window(w) PROVE Decoded(Unk, w)
<1>1. Fits(Unk, w) /\ Shaped(Unk) /\ Plain(Unk)
  BY WindowIs DEF Fits, Shaped, Plain, Unk, Bare, Insn
<1> QED
  BY <1>1, PlainDecoded

LEMMA BareDecoded ==
  ASSUME NEW w, NEW op, NEW size, NEW len \in {2, 4, 6, 8, 10}, len <= Len(w),
         op \notin {"stm", "ldm", "push", "pop", "subs"}
  PROVE  Decoded(Bare(op, size, len), w)
<1>1. /\ Fits(Bare(op, size, len), w) /\ Shaped(Bare(op, size, len))
      /\ Plain(Bare(op, size, len))
  BY DEF Fits, Shaped, Plain, Bare, Insn, None, Imm, Operand
<1> QED
  BY <1>1, PlainDecoded

\* An operation on two operands the emitter has expressions for.
LEMMA InsnDecoded ==
  ASSUME NEW w, NEW op, NEW size, NEW len \in {2, 4, 6, 8, 10}, len <= Len(w),
         NEW dst, dst.mode \in Writable, NEW src, src.mode \in Readable,
         op \notin {"stm", "ldm", "push", "pop", "subs"},
         op \in Sized => size \in {"b", "w", "l"},
         op = "sub" => size # "l" \/ src # Imm
  PROVE  Decoded(Insn(op, size, len, dst, src), w)
<1>1. /\ Fits(Insn(op, size, len, dst, src), w) /\ Shaped(Insn(op, size, len, dst, src))
      /\ Plain(Insn(op, size, len, dst, src))
  BY DEF Fits, Shaped, Plain, Insn
<1> QED
  BY <1>1, PlainDecoded

LEMMA Modes ==
  /\ \A n : R(n).mode = "r" /\ R(n).mode \in Writable /\ R(n).mode \in Readable
  /\ \A n : R(n) # Imm /\ R(n) # None
  /\ Imm.mode \in Readable /\ Abs.mode \in Writable /\ Abs.mode \in Readable
  /\ \A n : \A mode \in {"ind", "dsp", "abs", "pi", "pd"} :
       /\ Operand(mode, n).mode \in Writable /\ Operand(mode, n).mode \in Readable
       /\ Operand(mode, n) # Imm
BY DEF R, Imm, Abs, None, Operand, Writable, Readable

\* Two registers, or an immediate, and an operation that has no frame.
LEMMA TwoRegDecoded ==
  ASSUME NEW w, Window(w), NEW op, NEW size,
         op \notin {"stm", "ldm", "push", "pop", "subs"},
         op \in Sized => size \in {"b", "w", "l"}
  PROVE  Decoded(TwoReg(op, size, w), w)
BY InsnDecoded, WindowIs, Modes DEF TwoReg

LEMMA ByteDecoded ==
  ASSUME NEW w, Window(w), NEW op, NEW size, NEW n,
         op \notin {"stm", "ldm", "push", "pop", "subs"},
         op \in Sized => size \in {"b", "w", "l"}, op = "sub" => size # "l"
  PROVE  Decoded(Insn(op, size, 2, R(n), Imm), w)
BY InsnDecoded, WindowIs, Modes

LEMMA LongOrDecoded ==
  ASSUME NEW w, Window(w), NEW op \in {"add", "mov", "sub", "cmp"}, NEW other,
         Decoded(other, w)
  PROVE  Decoded(LongOr(op, w, other), w)
<1> DEFINE src == R(Hi(w[2]) % 8)
           dst == R(Lo(w[2]) % 8)
<1>1. src.mode \in Readable /\ src # Imm /\ dst.mode \in Writable
  BY Modes
<1> HIDE DEF src, dst
<1>2. Decoded(Insn(op, "l", 2, dst, src), w)
  BY <1>1, InsnDecoded, WindowIs
<1> QED
  BY <1>2 DEF LongOr, src, dst

-----------------------------------------------------------------------------
(* The groups. *)

\* What a move to or from memory decodes to, with the opcode at `off`.
Stores(i, w, form, size, off, need, mode, n) ==
  LET b1 == w[off + 2]
  IN  /\ Top(b1) /\ off + need <= Len(w)
      /\ mode = "pd" => form = 12
      /\ i = Insn("mov", size, off + need, Operand(mode, n),
                  R(IF size = "l" THEN Lo(b1) % 8 ELSE Lo(b1)))
Loads(i, w, form, size, off, need, mode, n) ==
  LET b1 == w[off + 2]
  IN  /\ off + need <= Len(w)
      /\ i = Insn("mov", size, off + need,
                  R(IF size = "l" THEN Lo(b1) % 8 ELSE Lo(b1)), Operand(mode, n))
Modifies(i, w, form, off, need, op) ==
  off + need <= Len(w) /\ form = 10 /\ i = Insn(op, "", off + need, Abs, Imm)

Moved(i, w, form, size, off) ==
  \/ i = Unk
  \/ \E need \in {2, 4, 6}, mode \in {"ind", "abs", "dsp", "pd"}, n \in Int :
       Stores(i, w, form, size, off, need, mode, n)
  \/ \E need \in {2, 4, 6}, mode \in {"ind", "abs", "dsp", "pi"}, n \in Int :
       Loads(i, w, form, size, off, need, mode, n)
  \/ \E need \in {6, 8}, op \in {"bset", "bnot", "bclr", "btst", "bit-op"} :
       Modifies(i, w, form, off, need, op)

LEMMA BitNamedIs ==
  ASSUME NEW bop
  PROVE  BitNamed(bop) \in {"bset", "bnot", "bclr", "btst", "bit-op"}
<1>1. CASE bop \notin 112 .. 115
  BY <1>1 DEF BitNamed
<1>2. CASE bop \in 112 .. 115
  <2>1. bop = 112 \/ bop = 113 \/ bop = 114 \/ bop = 115
    BY <1>2
  <2>2. BitNamed(bop) = BitNames[bop - 111]
    BY <1>2 DEF BitNamed
  <2>3. BitNames[1] = "bset" /\ BitNames[2] = "bnot" /\ BitNames[3] = "bclr" /\ BitNames[4] = "btst"
    BY DEF BitNames
  <2>4. BitNamed(bop) \in {BitNames[1], BitNames[2], BitNames[3], BitNames[4]}
    BY <2>1, <2>2
  <2> QED
    BY <2>3, <2>4
<1> QED
  BY <1>1, <1>2

LEMMA MovEaIs ==
  ASSUME NEW w \in Seq(Byte), NEW off \in {0, 2}, Len(w) >= off + 2,
         NEW form \in {8, 10, 12, 14}, NEW size
  PROVE  Moved(MovEa(w, form, size, off), w, form, size, off)
<1> DEFINE b1 == w[off + 2]
           mode == Hi(b1)
           reg == R(IF size = "l" THEN Lo(b1) % 8 ELSE Lo(b1))
           i == MovEa(w, form, size, off)
           stored(need, ea) == Insn("mov", size, off + need, ea, reg)
           loaded(need, ea) == Insn("mov", size, off + need, reg, ea)
<1> SUFFICES Moved(i, w, form, size, off)
  OBVIOUS
<1>1. Len(w) \in Nat /\ b1 \in Byte
  BY LenProperties, ElementOfSeq
<1>2. mode \in 0 .. 15 /\ (mode >= 8 <=> Top(b1)) /\ mode % 8 \in Int
  BY <1>1, Halves
<1>s. ASSUME NEW need \in {2, 4, 6}, NEW m \in {"ind", "abs", "dsp", "pd"}, NEW n \in Int,
             Top(b1), off + need <= Len(w), m = "pd" => form = 12,
             i = stored(need, Operand(m, n))
      PROVE  Moved(i, w, form, size, off)
  <2>1. Stores(i, w, form, size, off, need, m, n)
    BY <1>s DEF Stores
  <2> QED
    BY <2>1 DEF Moved
<1>l. ASSUME NEW need \in {2, 4, 6}, NEW m \in {"ind", "abs", "dsp", "pi"}, NEW n \in Int,
             off + need <= Len(w), i = loaded(need, Operand(m, n))
      PROVE  Moved(i, w, form, size, off)
  <2>1. Loads(i, w, form, size, off, need, m, n)
    BY <1>l DEF Loads
  <2> QED
    BY <2>1 DEF Moved
<1>u. i = Unk => Moved(i, w, form, size, off)
  BY DEF Moved
<1>3. CASE form = 8
  <2>1. i = IF Top(b1) THEN stored(2, Operand("ind", mode % 8))
            ELSE loaded(2, Operand("ind", mode % 8))
    BY <1>1, <1>3 DEF MovEa, Total
  <2> HIDE DEF i, stored, loaded, mode, b1
  <2>2. off + 2 <= Len(w)
    OBVIOUS
  <2>3. CASE Top(b1)
    BY <1>s, <1>2, <2>1, <2>2, <2>3
  <2>4. CASE ~Top(b1)
    BY <1>l, <1>2, <2>1, <2>2, <2>4
  <2> QED
    BY <2>3, <2>4
<1>4. CASE form = 12
  <2>1. i = IF Top(b1) THEN stored(2, Operand("pd", mode % 8))
            ELSE loaded(2, Operand("pi", mode % 8))
    BY <1>1, <1>4 DEF MovEa, Total
  <2> HIDE DEF i, stored, loaded, mode, b1
  <2>2. off + 2 <= Len(w)
    OBVIOUS
  <2>3. CASE Top(b1)
    BY <1>s, <1>2, <1>4, <2>1, <2>2, <2>3
  <2>4. CASE ~Top(b1)
    BY <1>l, <1>2, <2>1, <2>2, <2>4
  <2> QED
    BY <2>3, <2>4
<1>5. CASE form = 14
  <2>1. i = IF ~(Len(w) >= off + 4) THEN Unk
            ELSE IF Top(b1) THEN stored(4, Operand("dsp", mode % 8))
            ELSE loaded(4, Operand("dsp", mode % 8))
    BY <1>1, <1>5 DEF MovEa, Total
  <2> HIDE DEF i, stored, loaded, mode, b1
  <2>2. CASE ~(Len(w) >= off + 4)
    BY <1>u, <2>1, <2>2
  <2>3. CASE off + 4 <= Len(w) /\ Top(b1)
    BY <1>s, <1>1, <1>2, <2>1, <2>3
  <2>4. CASE off + 4 <= Len(w) /\ ~Top(b1)
    BY <1>l, <1>1, <1>2, <2>1, <2>4
  <2> QED
    BY <1>1, <2>2, <2>3, <2>4
<1>6. CASE form = 10
  <2>1. ASSUME NEW need \in {4, 6}, NEW m \in {8, 10},
               i = IF ~(Len(w) >= off + need) THEN Unk
                   ELSE IF mode = m THEN stored(need, Abs) ELSE loaded(need, Abs)
        PROVE  Moved(i, w, form, size, off)
    <3> HIDE DEF i, stored, loaded, mode, b1
    <3>1. Abs = Operand("abs", 0)
      BY DEF Abs
    <3>2. CASE ~(Len(w) >= off + need)
      BY <1>u, <2>1, <3>2
    <3>3. CASE off + need <= Len(w) /\ mode = m
      <4>1. i = stored(need, Operand("abs", 0)) /\ Top(b1)
        BY <1>1, <1>2, <2>1, <3>1, <3>3
      <4> QED
        BY <1>s, <3>3, <4>1
    <3>4. CASE off + need <= Len(w) /\ mode # m
      <4>1. i = loaded(need, Operand("abs", 0))
        BY <1>1, <2>1, <3>1, <3>4
      <4> QED
        BY <1>l, <3>4, <4>1
    <3> QED
      BY <1>1, <3>2, <3>3, <3>4
  <2>2. CASE mode \in {2, 10}
    <3>1. i = IF ~(Len(w) >= off + 6) THEN Unk
              ELSE IF mode = 10 THEN stored(6, Abs) ELSE loaded(6, Abs)
      BY <1>1, <1>6, <2>2 DEF MovEa, Total
    <3> HIDE DEF i, stored, loaded, mode, b1
    <3> QED
      BY <2>1, <3>1
  <2>3. CASE mode \notin {1, 2, 3, 9, 10, 11}
    <3>1. i = IF ~(Len(w) >= off + 4) THEN Unk
              ELSE IF mode = 8 THEN stored(4, Abs) ELSE loaded(4, Abs)
      BY <1>1, <1>6, <2>3 DEF MovEa, Total
    <3> HIDE DEF i, stored, loaded, mode, b1
    <3> QED
      BY <2>1, <3>1
  <2>4. ASSUME NEW need \in {6, 8}, i = BitAbs(w, off, need)
        PROVE  Moved(i, w, form, size, off)
    <3> DEFINE op == BitNamed(w[off + need - 1])
    <3>1. op \in {"bset", "bnot", "bclr", "btst", "bit-op"}
      BY BitNamedIs
    <3>2. i = IF Len(w) < off + need THEN Unk
              ELSE Insn(op, "", off + need, Abs, Imm)
      BY <2>4 DEF BitAbs, Total
    <3> HIDE DEF i, op
    <3>3. CASE ~(Len(w) < off + need)
      <4>1. off + need <= Len(w) /\ i = Insn(op, "", off + need, Abs, Imm)
        <5>1. i = Insn(op, "", off + need, Abs, Imm)
          BY <3>2, <3>3
        <5>2. off + need <= Len(w)
          <6>1. off + need \in Int /\ Len(w) \in Int
            BY <1>1
          <6> QED
            BY <3>3, <6>1
        <5> QED
          BY <5>1, <5>2
      <4>2. Modifies(i, w, form, off, need, op)
        BY <1>6, <4>1 DEF Modifies
      <4> QED
        BY <3>1, <4>2 DEF Moved
    <3> QED
      BY <1>u, <3>2, <3>3
  <2>5. CASE mode \in {1, 9}
    <3>1. i = BitAbs(w, off, 6)
      BY <1>6, <2>5 DEF MovEa
    <3> HIDE DEF i
    <3> QED
      BY <2>4, <3>1
  <2>6. CASE mode \in {3, 11}
    <3>1. i = BitAbs(w, off, 8)
      BY <1>6, <2>6 DEF MovEa
    <3> HIDE DEF i
    <3> QED
      BY <2>4, <3>1
  <2> QED
    BY <2>2, <2>3, <2>5, <2>6
<1> QED
  BY <1>3, <1>4, <1>5, <1>6

IsReg(o) == \E n \in Int : o = R(n)
IsMem(o) == \E mode \in {"ind", "dsp", "abs", "pi", "pd"}, n \in Int : o = Operand(mode, n)

\* A move between a register and memory is decoded well, whatever its size.
LEMMA MoveDecoded ==
  ASSUME NEW w, NEW size \in {"b", "w", "l"}, NEW len \in {2, 4, 6, 8, 10}, len <= Len(w),
         NEW reg, IsReg(reg), NEW mem, IsMem(mem)
  PROVE  /\ Decoded(Insn("mov", size, len, reg, mem), w)
         /\ Decoded(Insn("mov", size, len, mem, reg), w)
<1>1. reg.mode \in Writable /\ reg.mode \in Readable
  BY Modes DEF IsReg
<1>2. mem.mode \in Writable /\ mem.mode \in Readable
  BY Modes DEF IsMem
<1>3. "mov" \notin {"stm", "ldm", "push", "pop", "subs", "sub"}
  OBVIOUS
<1>4. Decoded(Insn("mov", size, len, reg, mem), w)
  BY <1>1, <1>2, <1>3, InsnDecoded
<1>5. Decoded(Insn("mov", size, len, mem, reg), w)
  BY <1>1, <1>2, <1>3, InsnDecoded
<1> QED
  BY <1>4, <1>5

LEMMA MovedDecoded ==
  ASSUME NEW w, Window(w), NEW form, NEW size \in {"b", "w", "l"}, NEW off \in {0, 2},
         Len(w) >= off + 2, NEW i, Moved(i, w, form, size, off)
  PROVE  Decoded(i, w)
<1> DEFINE b1 == w[off + 2]
           r == IF size = "l" THEN Lo(b1) % 8 ELSE Lo(b1)
<1>1. r \in Int
  <2>1. off + 2 \in 1 .. Len(w)
    BY WindowIs
  <2>2. b1 \in Byte
    BY <2>1, WindowIs
  <2> HIDE DEF b1
  <2>3. Lo(b1) \in Int /\ Lo(b1) % 8 \in Int
    BY <2>2, Halves
  <2> QED
    BY <2>3
<1>2. CASE i = Unk
  BY <1>2, UnkDecoded
<1>3. ASSUME NEW need \in {2, 4, 6}, NEW mode \in {"ind", "abs", "dsp", "pd"}, NEW n \in Int,
             Stores(i, w, form, size, off, need, mode, n)
      PROVE  Decoded(i, w)
  <2>1. off + need <= Len(w) /\ i = Insn("mov", size, off + need, Operand(mode, n), R(r))
    BY <1>3 DEF Stores
  <2> HIDE DEF r
  <2>2. off + need \in {2, 4, 6, 8}
    OBVIOUS
  <2>3. IsReg(R(r)) /\ IsMem(Operand(mode, n))
    BY <1>1 DEF IsReg, IsMem
  <2> QED
    BY <2>1, <2>2, <2>3, MoveDecoded
<1>4. ASSUME NEW need \in {2, 4, 6}, NEW mode \in {"ind", "abs", "dsp", "pi"}, NEW n \in Int,
             Loads(i, w, form, size, off, need, mode, n)
      PROVE  Decoded(i, w)
  <2>1. off + need <= Len(w) /\ i = Insn("mov", size, off + need, R(r), Operand(mode, n))
    BY <1>4 DEF Loads
  <2> HIDE DEF r
  <2>2. off + need \in {2, 4, 6, 8}
    OBVIOUS
  <2>3. IsReg(R(r)) /\ IsMem(Operand(mode, n))
    BY <1>1 DEF IsReg, IsMem
  <2> QED
    BY <2>1, <2>2, <2>3, MoveDecoded
<1>5. ASSUME NEW need \in {6, 8}, NEW op \in {"bset", "bnot", "bclr", "btst", "bit-op"},
             Modifies(i, w, form, off, need, op)
      PROVE  Decoded(i, w)
  <2>1. i = Insn(op, "", off + need, Abs, Imm) /\ off + need <= Len(w)
    BY <1>5 DEF Modifies
  <2>2. off + need \in {6, 8, 10}
    OBVIOUS
  <2>3. op \notin Sized
    BY DEF Sized, Rotates, Binary, OneOperand
  <2>4. op \notin {"stm", "ldm", "push", "pop", "subs"} /\ op # "sub"
    OBVIOUS
  <2>5. Abs.mode \in Writable /\ Imm.mode \in Readable
    BY Modes
  <2> DEFINE len == off + need
  <2> HIDE DEF len
  <2>6. Decoded(Insn(op, "", len, Abs, Imm), w)
    <3>1. len \in {6, 8, 10} /\ len <= Len(w)
      BY <2>1, <2>2 DEF len
    <3> QED
      BY <2>3, <2>4, <2>5, <3>1, InsnDecoded
  <2> QED
    BY <2>1, <2>6 DEF len
<1> QED
  BY <1>2, <1>3, <1>4, <1>5 DEF Moved

LEMMA Mov78Is ==
  ASSUME NEW w, Window(w), NEW off \in {0, 2}, Len(w) >= off + 8, NEW force \in {"b", "l"}
  PROVE  Decoded(Mov78(w, off, force), w)
<1> DEFINE b1 == w[off + 2]
           b2 == w[off + 3]
           b3 == w[off + 4]
           size == IF force = "l" THEN "l" ELSE IF b2 = 107 THEN "w" ELSE "b"
           reg == R(IF size = "l" THEN Lo(b3) % 8 ELSE Lo(b3))
           mem == Operand("dsp", Hi(b1))
           i == Mov78(w, off, force)
<1>1. b1 \in Byte /\ b3 \in Byte
  BY WindowIs
<1>2. size \in {"b", "w", "l"}
  OBVIOUS
<1>3. IsReg(reg)
  <2>1. Lo(b3) \in Int /\ Lo(b3) % 8 \in Int
    BY <1>1, Halves
  <2> QED
    BY <2>1 DEF IsReg
<1>4. IsMem(mem)
  <2>1. Hi(b1) \in 0 .. 15
    BY <1>1, Halves
  <2> QED
    BY <2>1 DEF IsMem
<1>5. off + 8 \in {8, 10}
  OBVIOUS
<1>6. \/ i = Unk
      \/ i = Insn("mov", size, off + 8, mem, reg)
      \/ i = Insn("mov", size, off + 8, reg, mem)
  BY DEF Mov78
<1> HIDE DEF i, mem, reg, size
<1>7. off + 8 <= Len(w)
  BY WindowIs
<1>8. Decoded(Insn("mov", size, off + 8, mem, reg), w)
  BY <1>2, <1>3, <1>4, <1>5, <1>7, MoveDecoded
<1>9. Decoded(Insn("mov", size, off + 8, reg, mem), w)
  BY <1>2, <1>3, <1>4, <1>5, <1>7, MoveDecoded
<1> QED
  BY <1>6, <1>8, <1>9, UnkDecoded DEF i

LEMMA Apart ==
  /\ Unk.dst = None /\ Unk.src = None
  /\ \A n : Operand("pd", n) \notin {None, Abs} /\ Operand("pi", n) \notin {None, Imm}
BY DEF Unk, Bare, Insn, None, Abs, Imm, Operand

\* push and pop are moves through ER7 behind 01 00.
LEMMA TwelveIs ==
  ASSUME NEW b \in 104 .. 111, ((b % 16) \div 2) * 2 = 12
  PROVE  b \in {108, 109}
<1>1. CASE b = 104 \/ b = 105
  BY <1>1
<1>2. CASE b = 106 \/ b = 107
  BY <1>2
<1>3. CASE b = 110 \/ b = 111
  BY <1>3
<1> QED
  BY <1>1, <1>2, <1>3

LEMMA PushPopDecoded ==
  ASSUME NEW w, Window(w), Len(w) >= 4, w[1] = 1, w[2] = 0,
         NEW form, form = (Lo(w[3]) \div 2) * 2, w[3] \in 104 .. 111,
         NEW i, Moved(i, w, form, "l", 2)
  PROVE  Decoded(PushPop(i), w)
<1> USE DEF PushPop
<1>0. Decoded(i, w)
  BY MovedDecoded
<1>1. CASE PushPop(i) = i
  BY <1>0, <1>1
<1>2. CASE i.dst = Operand("pd", 7)
  <2>1. PICK need \in {2, 4, 6}, mode \in {"ind", "abs", "dsp", "pd"}, n \in Int :
          Stores(i, w, form, "l", 2, need, mode, n)
    <3>1. i # Unk
      BY <1>2, Apart
    <3>2. ~ \E need \in {2, 4, 6}, mode \in {"ind", "abs", "dsp", "pi"}, n \in Int :
              Loads(i, w, form, "l", 2, need, mode, n)
      BY <1>2 DEF Loads, Insn, R, Operand
    <3>3. ~ \E need \in {6, 8}, op \in {"bset", "bnot", "bclr", "btst", "bit-op"} :
              Modifies(i, w, form, 2, need, op)
      <4> SUFFICES ASSUME NEW need, NEW op, Modifies(i, w, form, 2, need, op) PROVE FALSE
        OBVIOUS
      <4>1. i.dst = Abs /\ i.src = Imm
        BY DEF Modifies, Insn
      <4> QED
        BY <1>2, <4>1, Apart
    <3> QED
      BY <3>1, <3>2, <3>3 DEF Moved
  <2> DEFINE r == Lo(w[4]) % 8
  <2>2. i = Insn("mov", "l", 2 + need, Operand(mode, n), R(r))
    BY <2>1 DEF Stores
  <2>3. Top(w[4]) /\ 2 + need <= Len(w) /\ mode = "pd"
    BY <1>2, <2>1, <2>2 DEF Stores, Insn, Operand
  <2>4. form = 12
    BY <2>1, <2>3 DEF Stores
  <2>5. w[3] \in {108, 109}
    <3>1. w[3] \in 104 .. 111 /\ ((w[3] % 16) \div 2) * 2 = 12
      BY <2>4 DEF Lo
    <3> QED
      BY <3>1, TwelveIs
  <2>6. r \in 0 .. 7
    BY WindowIs, Halves
  <2> HIDE DEF r
  <2> DEFINE p == [i EXCEPT !.op = "push"]
  <2>7. PushPop(i) = p
    BY <1>2
  <2>8. /\ p.op = "push" /\ p.size = "l" /\ p.len = 2 + need /\ p.kind = "seq"
        /\ p.dst = Operand(mode, n) /\ p.src = R(r)
    BY <2>2 DEF Insn
  <2> HIDE DEF p
  <2>9. Fits(p, w) /\ Shaped(p)
    <3>1. Fits(p, w)
      BY <2>3, <2>8 DEF Fits
    <3>2. p.dst.mode \in Writable /\ p.src.mode \in Readable
      BY <2>8, Modes
    <3>3. p.op \notin Sized
      BY <2>8 DEF Sized, Rotates, Binary, OneOperand
    <3> QED
      BY <3>1, <3>2, <3>3 DEF Shaped
  <2>10. Framing(p, w)
    BY <2>3, <2>5, <2>6, <2>8 DEF Framing
  <2>11. Reserving(p, w) /\ Transferring(p, w)
    BY <2>8 DEF Reserving, Transferring
  <2> QED
    BY <2>7, <2>9, <2>10, <2>11 DEF Decoded
<1>3. CASE i.dst # Operand("pd", 7) /\ i.src = Operand("pi", 7)
  <2>1. PICK need \in {2, 4, 6}, mode \in {"ind", "abs", "dsp", "pi"}, n \in Int :
          Loads(i, w, form, "l", 2, need, mode, n)
    <3>1. i # Unk
      BY <1>3, Apart
    <3>2. ~ \E need \in {2, 4, 6}, mode \in {"ind", "abs", "dsp", "pd"}, n \in Int :
              Stores(i, w, form, "l", 2, need, mode, n)
      BY <1>3 DEF Stores, Insn, R, Operand
    <3>3. ~ \E need \in {6, 8}, op \in {"bset", "bnot", "bclr", "btst", "bit-op"} :
              Modifies(i, w, form, 2, need, op)
      <4> SUFFICES ASSUME NEW need, NEW op, Modifies(i, w, form, 2, need, op) PROVE FALSE
        OBVIOUS
      <4>1. i.dst = Abs /\ i.src = Imm
        BY DEF Modifies, Insn
      <4> QED
        BY <1>3, <4>1, Apart
    <3> QED
      BY <3>1, <3>2, <3>3 DEF Moved
  <2> DEFINE r == Lo(w[4]) % 8
  <2>2. i = Insn("mov", "l", 2 + need, R(r), Operand(mode, n))
    BY <2>1 DEF Loads
  <2>3. 2 + need <= Len(w)
    BY <2>1 DEF Loads
  <2>6. r \in 0 .. 7
    BY WindowIs, Halves
  <2> HIDE DEF r
  <2> DEFINE p == [i EXCEPT !.op = "pop"]
  <2>7. PushPop(i) = p
    BY <1>3
  <2>8. /\ p.op = "pop" /\ p.size = "l" /\ p.len = 2 + need /\ p.kind = "seq"
        /\ p.src = Operand(mode, n) /\ p.dst = R(r)
    BY <2>2 DEF Insn
  <2> HIDE DEF p
  <2>9. Fits(p, w) /\ Shaped(p)
    <3>1. Fits(p, w)
      BY <2>3, <2>8 DEF Fits
    <3>2. p.dst.mode \in Writable /\ p.src.mode \in Readable
      BY <2>8, Modes
    <3>3. p.op \notin Sized
      BY <2>8 DEF Sized, Rotates, Binary, OneOperand
    <3> QED
      BY <3>1, <3>2, <3>3 DEF Shaped
  <2>10. Framing(p, w)
    BY <2>6, <2>8 DEF Framing
  <2>11. Reserving(p, w) /\ Transferring(p, w)
    BY <2>8 DEF Reserving, Transferring
  <2> QED
    BY <2>7, <2>9, <2>10, <2>11 DEF Decoded
<1> QED
  BY <1>1, <1>2, <1>3

\* An operation on one operand.
LEMMA OneDecoded ==
  ASSUME NEW w, NEW op \in OneOperand \cup {"tas"}, NEW size, NEW len \in {2, 4, 6, 8, 10},
         len <= Len(w), NEW dst, dst.mode \in Writable, op # "tas" => size \in {"b", "w", "l"}
  PROVE  Decoded(Insn(op, size, len, dst, None), w)
<1> DEFINE i == Insn(op, size, len, dst, None)
<1>1. i.op = op /\ i.size = size /\ i.len = len /\ i.dst = dst /\ i.kind = "seq"
  BY DEF Insn
<1>2. op \notin {"stm", "ldm", "push", "pop", "subs", "sub"}
  BY DEF OneOperand
<1>3. op \in Sized => op # "tas"
  BY DEF Sized, Rotates, Binary, OneOperand
<1> HIDE DEF i
<1>4. Fits(i, w) /\ Shaped(i) /\ Plain(i)
  BY <1>1, <1>2, <1>3 DEF Fits, Shaped, Plain
<1> QED
  BY <1>4, PlainDecoded DEF i

LEMMA FrameDecoded ==
  ASSUME NEW w, Window(w), Len(w) >= 4, w[1] = 1, w[2] \in {16, 32, 48}, w[3] = 109
  PROVE  Decoded(Bare(IF Top(w[4]) THEN "stm" ELSE "ldm", "l", 4), w)
<1> DEFINE i == Bare(IF Top(w[4]) THEN "stm" ELSE "ldm", "l", 4)
<1>1. /\ i.op = (IF Top(w[4]) THEN "stm" ELSE "ldm") /\ i.size = "l" /\ i.len = 4
      /\ i.dst = None /\ i.src = None /\ i.kind = "seq"
  BY DEF Bare, Insn
<1> HIDE DEF i
<1>2. Fits(i, w) /\ Shaped(i) /\ Framing(i, w) /\ Reserving(i, w) /\ Transferring(i, w)
  BY <1>1 DEF Fits, Shaped, Framing, Reserving, Transferring
<1> QED
  BY <1>2 DEF Decoded, i

LEMMA Prefix01Decoded ==
  ASSUME NEW w, Window(w), w[1] = 1
  PROVE  Decoded(Prefix01(w), w)
<1> DEFINE b1 == w[2]
           b2 == w[3]
           b3 == w[4]
           i == Prefix01(w)
<1> SUFFICES Decoded(i, w)
  OBVIOUS
<1>w. Len(w) \in Nat /\ Len(w) >= 2
  BY WindowIs
<1>u. i = Unk => Decoded(i, w)
  BY UnkDecoded
<1>b. \A op \in {"sleep", "ldc/stc", "mov"}, len \in {2, 4, 10} :
        i = Bare(op, "", len) /\ len <= Len(w) => Decoded(i, w)
  BY BareDecoded
<1>bl. \A len \in {4, 10} : i = Bare("mov", "l", len) /\ len <= Len(w) => Decoded(i, w)
  BY BareDecoded
<1>1. CASE ~(Len(w) >= 4)
  <2>1. i = Bare("sleep", "", 2) \/ i = Unk
    BY <1>1, <1>w DEF Prefix01
  <2> QED
    BY <2>1, <1>u, <1>b, <1>w
<1>2. CASE Len(w) >= 4
  <2>w. b1 \in Byte /\ b2 \in Byte /\ b3 \in Byte
    BY <1>2, <1>w, WindowIs
  <2>1. CASE b1 \in {16, 32, 48} /\ b2 = 109
    <3>1. i = Bare(IF Top(b3) THEN "stm" ELSE "ldm", "l", 4)
      <4>1. CASE b1 = 16
        BY <1>2, <1>w, <2>1, <4>1 DEF Prefix01
      <4>2. CASE b1 = 32
        BY <1>2, <1>w, <2>1, <4>2 DEF Prefix01
      <4>3. CASE b1 = 48
        BY <1>2, <1>w, <2>1, <4>3 DEF Prefix01
      <4> QED
        BY <2>1, <4>1, <4>2, <4>3
    <3> QED
      BY <1>2, <2>1, <3>1, FrameDecoded
  <2>2. CASE b1 = 0
    <3> DEFINE form == (Lo(b2) \div 2) * 2
               ea == MovEa(w, form, "l", 2)
    <3>1. i = IF b2 \in 104 .. 111 /\ ea # Unk THEN PushPop(ea)
              ELSE IF b2 = 120 /\ Len(w) >= 10
                THEN IF Mov78(w, 2, "l") # Unk THEN Mov78(w, 2, "l") ELSE Bare("mov", "l", 10)
              ELSE Bare("mov", "l", 4)
      BY <1>2, <1>w, <2>2 DEF Prefix01
    <3>2. CASE b2 \in 104 .. 111 /\ ea # Unk
      <4>1. form \in {8, 10, 12, 14}
        BY <2>w, <3>2 DEF Lo
      <4> HIDE DEF form
      <4>2. Moved(ea, w, form, "l", 2)
        BY <1>2, <4>1, MovEaIs DEF Window
      <4>3. Decoded(PushPop(ea), w)
        BY <1>2, <2>2, <3>2, <4>2, PushPopDecoded DEF form
      <4> QED
        BY <3>1, <3>2, <4>3
    <3>3. CASE ~(b2 \in 104 .. 111 /\ ea # Unk) /\ b2 = 120 /\ Len(w) >= 10
      <4>1. Decoded(Mov78(w, 2, "l"), w)
        BY <1>w, <3>3, Mov78Is
      <4>2. i = Mov78(w, 2, "l") \/ i = Bare("mov", "l", 10)
        BY <3>1, <3>3
      <4> HIDE DEF i
      <4> QED
        BY <1>bl, <1>w, <3>3, <4>1, <4>2
    <3>4. CASE ~(b2 \in 104 .. 111 /\ ea # Unk) /\ ~(b2 = 120 /\ Len(w) >= 10)
      <4>1. i = Bare("mov", "l", 4)
        BY <3>1, <3>4
      <4> HIDE DEF i
      <4> QED
        BY <1>bl, <1>w, <1>2, <4>1
    <3> QED
      BY <3>2, <3>3, <3>4
  <2>3. CASE b1 \in {64, 65, 128}
    <3>1. i = Bare("ldc/stc", "", 4) \/ i = Bare("sleep", "", 2)
      <4>1. CASE b1 = 64
        BY <1>2, <1>w, <4>1 DEF Prefix01
      <4>2. CASE b1 = 65
        BY <1>2, <1>w, <4>2 DEF Prefix01
      <4>3. CASE b1 = 128
        BY <1>2, <1>w, <4>3 DEF Prefix01
      <4> QED
        BY <2>3, <4>1, <4>2, <4>3
    <3> HIDE DEF i
    <3> QED
      BY <1>2, <1>w, <1>b, <3>1
  <2>4. CASE b1 \in {192, 208}
    <3> DEFINE op == IF b1 = 192 THEN "mulxs" ELSE "divxs"
               size == IF b2 \in {82, 83} THEN "w" ELSE "b"
               r == IF b2 \in {82, 83} THEN Lo(b3) % 8 ELSE Lo(b3)
    <3>1. i = Insn(op, size, 4, R(r), R(Hi(b3)))
      <4>1. CASE b1 = 192
        BY <1>2, <1>w, <4>1 DEF Prefix01
      <4>2. CASE b1 = 208
        BY <1>2, <1>w, <4>2 DEF Prefix01
      <4> QED
        BY <2>4, <4>1, <4>2
    <3>2. op \in {"mulxs", "divxs"} /\ size \in {"w", "b"}
      OBVIOUS
    <3> HIDE DEF op, size, r
    <3>3. op \notin {"stm", "ldm", "push", "pop", "subs", "sub"}
      BY <3>2
    <3> HIDE DEF i
    <3> QED
      BY <1>2, <1>w, <3>1, <3>2, <3>3, Modes, InsnDecoded
  <2>5. CASE b1 = 240 /\ b2 \in 100 .. 102 /\ ~Top(b3) /\ Lo(b3) < 8
    <3> DEFINE op == <<"or", "xor", "and">>[b2 - 99]
    <3>1. i = Insn(op, "l", 4, R(Lo(b3)), R(Hi(b3)))
      BY <1>2, <1>w, <2>5 DEF Prefix01
    <3>2. op \in {"or", "xor", "and"}
      BY <2>5
    <3> HIDE DEF op, i
    <3>3. op \notin {"stm", "ldm", "push", "pop", "subs", "sub"}
      BY <3>2
    <3> QED
      BY <1>2, <1>w, <3>1, <3>3, Modes, InsnDecoded
  <2>6. CASE b1 = 224 /\ b2 = 123 /\ Lo(b3) = 12
    <3>1. i = Insn("tas", "", 4, Operand("ind", Hi(b3) % 8), None)
      BY <1>2, <1>w, <2>6 DEF Prefix01
    <3> HIDE DEF i
    <3> QED
      BY <1>2, <1>w, <3>1, Modes, OneDecoded
  <2>7. CASE /\ ~(b1 \in {16, 32, 48} /\ b2 = 109) /\ b1 # 0 /\ b1 \notin {64, 65}
             /\ b1 # 128 /\ b1 \notin {192, 208} /\ ~(b1 = 240 /\ b2 \in 100 .. 102 /\ ~Top(b3) /\ Lo(b3) < 8)
             /\ ~(b1 = 224 /\ b2 = 123 /\ Lo(b3) = 12)
    <3>1. ~(Len(w) < 4)
      BY <1>2, <1>w
    <3>2. i = Unk
      <4> DEFINE n == Len(w)
                 wide == b2 \in {82, 83}
                 ea == MovEa(w, (Lo(b2) \div 2) * 2, "l", 2)
                 A1 == IF b1 = 128 THEN Bare("sleep", "", 2) ELSE Unk
                 A2 == Bare(IF Top(b3) THEN "stm" ELSE "ldm", "l", 4)
                 A3 == IF b2 \in 104 .. 111 /\ ea # Unk THEN PushPop(ea)
                       ELSE IF b2 = 120 /\ n >= 10
                         THEN LET r == Mov78(w, 2, "l")
                              IN  IF r # Unk THEN r ELSE Bare("mov", "l", 10)
                       ELSE Bare("mov", "l", 4)
                 A4 == Bare("ldc/stc", "", 4)
                 A5 == Bare("sleep", "", 2)
                 A6 == Insn(IF b1 = 192 THEN "mulxs" ELSE "divxs",
                            IF wide THEN "w" ELSE "b", 4,
                            R(IF wide THEN Lo(b3) % 8 ELSE Lo(b3)), R(Hi(b3)))
                 A7 == Insn(<<"or", "xor", "and">>[b2 - 99], "l", 4, R(Lo(b3)), R(Hi(b3)))
                 A8 == Insn("tas", "", 4, Operand("ind", Hi(b3) % 8), None)
      <4>1. i = CASE n < 4 -> A1
                  [] n >= 4 /\ b1 \in {16, 32, 48} /\ b2 = 109 -> A2
                  [] n >= 4 /\ b1 = 0 -> A3
                  [] n >= 4 /\ b1 \in {64, 65} -> A4
                  [] n >= 4 /\ b1 = 128 -> A5
                  [] n >= 4 /\ b1 \in {192, 208} -> A6
                  [] n >= 4 /\ b1 = 240 /\ b2 \in 100 .. 102 /\ ~Top(b3) /\ Lo(b3) < 8 -> A7
                  [] n >= 4 /\ b1 = 224 /\ b2 = 123 /\ Lo(b3) = 12 -> A8
                  [] OTHER -> Unk
        BY Zenon DEF Prefix01
      <4> HIDE DEF i, A1, A2, A3, A4, A5, A6, A7, A8, b1, b2, b3
      <4> QED
        BY <2>7, <3>1, <4>1
    <3> QED
      BY <1>u, <3>2
  <2> QED
    BY <2>1, <2>2, <2>3, <2>4, <2>5, <2>6, <2>7
<1> QED
  BY <1>1, <1>2

LEMMA StepDecoded ==
  ASSUME NEW w, Window(w), w[1] \in {11, 27}
  PROVE  Decoded(Step(w), w)
<1> DEFINE h == Hi(w[2])
           i == Step(w)
<1> SUFFICES Decoded(i, w)
  OBVIOUS
<1>1. CASE h \notin DOMAIN StepOf
  BY <1>1, UnkDecoded DEF Step
<1>2. CASE h \in DOMAIN StepOf
  <2>1. StepOf[h] \in {<<"s", "">>, <<"x", "w">>, <<"x", "l">>}
    BY <1>2 DEF StepOf
  <2> DEFINE s == StepOf[h]
             op == IF s[1] = "s" THEN IF w[1] = 11 THEN "adds" ELSE "subs"
                   ELSE IF w[1] = 11 THEN "inc" ELSE "dec"
  <2>2. i = Insn(op, s[2], 2, R(Lo(w[2])), Imm)
    BY <1>2 DEF Step
  <2>3. /\ op \in {"adds", "subs", "inc", "dec"} /\ (op = "subs" => w[1] = 27)
        /\ op \in {"inc", "dec"} => s[2] \in {"w", "l"}
    <3>1. CASE s = <<"s", "">>
      <4>1. s[1] = "s"
        <5> HIDE DEF s
        <5> QED
          BY <3>1
      <4>2. op = IF w[1] = 11 THEN "adds" ELSE "subs"
        BY <4>1
      <4> HIDE DEF op
      <4> QED
        BY <4>2
    <3>2. CASE s = <<"x", "w">>
      BY <3>2
    <3>3. CASE s = <<"x", "l">>
      BY <3>3
    <3> QED
      BY <2>1, <3>1, <3>2, <3>3
  <2>4. /\ i.op = op /\ i.size = s[2] /\ i.len = 2 /\ i.dst = R(Lo(w[2])) /\ i.src = Imm
        /\ i.kind = "seq"
    BY <2>2 DEF Insn
  <2> HIDE DEF i, op, s
  <2>5. Fits(i, w)
    BY <2>4, WindowIs DEF Fits
  <2>6. Shaped(i)
    <3>1. op \in Sized => op \in {"inc", "dec"}
      BY <2>3 DEF Sized, Rotates, Binary, OneOperand
    <3>2. op \in Sized => s[2] \in {"b", "w", "l"}
      BY <2>3, <3>1
    <3> QED
      BY <2>4, <3>2, Modes DEF Shaped
  <2>7. Framing(i, w) /\ Reserving(i, w) /\ Transferring(i, w)
    BY <2>3, <2>4 DEF Framing, Reserving, Transferring
  <2> QED
    BY <2>5, <2>6, <2>7 DEF Decoded
<1> QED
  BY <1>1, <1>2

LEMMA UnaryDecoded ==
  ASSUME NEW w, Window(w)
  PROVE  Decoded(Unary(w), w)
<1> DEFINE h == Hi(w[2])
<1>1. CASE h \notin DOMAIN Unary17
  BY <1>1, UnkDecoded DEF Unary
<1>2. CASE h \in DOMAIN Unary17
  <2> DEFINE op == Unary17[h][1]
             size == Unary17[h][2]
  <2>1. op \in OneOperand
    BY <1>2 DEF Unary17, OneOperand
  <2>2. size \in {"b", "w", "l"}
    BY <1>2 DEF Unary17
  <2>3. Unary(w) = Insn(op, size, 2, R(Lo(w[2])), None)
    BY <1>2 DEF Unary
  <2> HIDE DEF op, size
  <2> QED
    BY <2>1, <2>2, <2>3, Modes, OneDecoded, WindowIs
<1> QED
  BY <1>1, <1>2

LEMMA ShiftDecoded ==
  ASSUME NEW w, Window(w), w[1] \in 16 .. 19
  PROVE  Decoded(Shift(w), w)
<1> DEFINE h == Hi(w[2])
<1>h. h \in 0 .. 15
  BY WindowIs, Halves
<1>1. CASE h % 4 = 2
  BY <1>1, UnkDecoded DEF Shift
<1>2. CASE h % 4 # 2
  <2> DEFINE op == ShiftNames[w[1] - 15][h \div 8 + 1]
             size == ShiftSizes[(h % 4) + 1]
  <2>1. op \in {"shll", "shal", "shlr", "shar", "rotxl", "rotl", "rotxr", "rotr"}
    <3>1. w[1] - 15 \in 1 .. 4 /\ h \div 8 + 1 \in 1 .. 2
      BY <1>h
    <3>2. \A a \in 1 .. 4, c \in 1 .. 2 : ShiftNames[a][c]
             \in {"shll", "shal", "shlr", "shar", "rotxl", "rotl", "rotxr", "rotr"}
      BY DEF ShiftNames
    <3> QED
      BY <3>1, <3>2
  <2>2. size \in {"b", "w", "l"}
    <3>1. (h % 4) + 1 \in {1, 2, 4}
      BY <1>h, <1>2
    <3>2. ShiftSizes[1] = "b" /\ ShiftSizes[2] = "w" /\ ShiftSizes[4] = "l"
      BY DEF ShiftSizes
    <3> QED
      BY <3>1, <3>2
  <2>3. Shift(w) = Insn(op, size, 2, R(Lo(w[2])), Imm)
    BY <1>2 DEF Shift
  <2> HIDE DEF op, size
  <2> QED
    BY <2>1, <2>2, <2>3, ByteDecoded
<1> QED
  BY <1>1, <1>2

LEMMA ImmediateDecoded ==
  ASSUME NEW w, Window(w), NEW len, NEW size,
         \/ w[1] = 121 /\ len = 4 /\ size = "w"
         \/ w[1] = 122 /\ len = 6 /\ size = "l"
  PROVE  Decoded(Immediate(w, len, size), w)
<1> DEFINE h == Hi(w[2])
           i == Immediate(w, len, size)
<1> SUFFICES Decoded(i, w)
  OBVIOUS
<1>h. h \in 0 .. 15
  BY WindowIs, Halves
<1>1. CASE Len(w) < len \/ h > 6
  BY <1>1, UnkDecoded DEF Immediate
<1>2. CASE ~(Len(w) < len \/ h > 6)
  <2> DEFINE op == ImmOps[h + 1]
             r == IF size = "l" THEN Lo(w[2]) % 8 ELSE Lo(w[2])
  <2>1. op \in {"mov", "add", "cmp", "sub", "or", "xor", "and"} /\ (op = "sub" => h = 3)
    <3>1. h = 0 \/ h = 1 \/ h = 2 \/ h = 3 \/ h = 4 \/ h = 5 \/ h = 6
      BY <1>h, <1>2
    <3> HIDE DEF h
    <3> QED
      BY <3>1, SMTT(30) DEF ImmOps
  <2>2. i = Insn(op, size, len, R(r), Imm)
    BY <1>2 DEF Immediate
  <2>3. /\ i.op = op /\ i.size = size /\ i.len = len /\ i.dst = R(r) /\ i.src = Imm
        /\ i.kind = "seq"
    BY <2>2 DEF Insn
  <2>r. size = "l" => R(r) = R(Lo(w[2]) % 8)
    OBVIOUS
  <2> HIDE DEF i, op, r
  <2>4. Fits(i, w)
    BY <1>2, <2>3, WindowIs DEF Fits
  <2>5. Shaped(i)
    BY <2>3, Modes DEF Shaped
  <2>6. Framing(i, w) /\ Transferring(i, w)
    BY <2>1, <2>3 DEF Framing, Transferring
  <2>7. Reserving(i, w)
    BY <2>1, <2>3, <2>r DEF Reserving
  <2> QED
    BY <2>4, <2>5, <2>6, <2>7 DEF Decoded
<1> QED
  BY <1>1, <1>2

LEMMA BitOpIs ==
  ASSUME NEW b \in DOMAIN BitOp
  PROVE  BitOp[b] \in {"bset", "bnot", "bclr", "btst", "bor", "bxor", "band", "bld", "bst"}
<1> DEFINE names == <<"bset", "bnot", "bclr", "btst", "bor", "bxor", "band", "bld">>
           k == (b % 16) + 1
<1>1. /\ b \in (96 .. 99) \cup {103} \cup (112 .. 119)
      /\ BitOp[b] = IF b = 103 THEN "bst" ELSE names[k]
  BY DEF BitOp
<1>2. CASE b = 103
  BY <1>1, <1>2
<1>3. CASE b # 103
  <2>1. k = 1 \/ k = 2 \/ k = 3 \/ k = 4 \/ k = 5 \/ k = 6 \/ k = 7 \/ k = 8
    BY <1>1, <1>3
  <2> HIDE DEF k
  <2>2. names[k] \in {"bset", "bnot", "bclr", "btst", "bor", "bxor", "band", "bld"}
    BY <2>1
  <2> QED
    BY <1>1, <1>3, <2>2
<1> QED
  BY <1>2, <1>3

LEMMA BitMemDecoded ==
  ASSUME NEW w, Window(w)
  PROVE  Decoded(BitMem(w), w)
<1> DEFINE b2 == w[3]
           b3 == w[4]
<1>w. Len(w) \in Nat
  BY WindowIs
<1>1. CASE Len(w) < 4
  BY <1>1, UnkDecoded DEF BitMem
<1>2. CASE ~(Len(w) < 4) /\ (b2 \notin DOMAIN BitOp \/ Lo(b3) # 0)
  <2>1. BitMem(w) = Bare("bit-op", "", 4)
    BY <1>2 DEF BitMem
  <2>2. 4 <= Len(w)
    BY <1>2, <1>w
  <2>3. "bit-op" \notin {"stm", "ldm", "push", "pop", "subs"}
    OBVIOUS
  <2> QED
    BY <2>1, <2>2, <2>3, BareDecoded
<1>3. CASE ~(Len(w) < 4) /\ ~(b2 \notin DOMAIN BitOp \/ Lo(b3) # 0)
  <2> DEFINE op == IF b2 = 103 /\ Top(b3) THEN "bist" ELSE BitOp[b2]
             dst == IF w[1] \in {124, 125} THEN Operand("ind", Hi(w[2]) % 8) ELSE Abs
             src == IF b2 < 112 THEN R(Hi(b3)) ELSE Imm
  <2>1. op \in {"bset", "bnot", "bclr", "btst", "bor", "bxor", "band", "bld", "bst", "bist"}
    BY <1>3, BitOpIs
  <2>2. BitMem(w) = Insn(op, "", 4, dst, src)
    BY <1>3 DEF BitMem
  <2>3. dst.mode \in Writable
    BY Modes
  <2>4. src.mode \in Readable
    BY Modes
  <2> HIDE DEF op, dst, src
  <2>5. op \notin Sized /\ op \notin {"stm", "ldm", "push", "pop", "subs", "sub"}
    BY <2>1 DEF Sized, Rotates, Binary, OneOperand
  <2>6. 4 <= Len(w)
    BY <1>3, <1>w
  <2>7. op \in Sized => "" \in {"b", "w", "l"}
    BY <2>5
  <2>8. op = "sub" => "" # "l" \/ src # Imm
    BY <2>5
  <2>9. op \notin {"stm", "ldm", "push", "pop", "subs"}
    BY <2>5
  <2> QED
    BY <2>2, <2>3, <2>4, <2>6, <2>7, <2>8, <2>9, InsnDecoded
<1> QED
  BY <1>1, <1>2, <1>3

-----------------------------------------------------------------------------
(* The rows of decode. *)

\* An operation on the condition codes.
LEMMA CcrDecoded ==
  ASSUME NEW w, Window(w), NEW op \in CcrOps \cup {"stc"}, NEW n, NEW src
  PROVE  /\ Decoded(Insn(op, "", 2, Ccr, src), w) \/ op = "stc"
         /\ Decoded(Insn("stc", "", 2, R(n), src), w)
<1>1. ASSUME op # "stc" PROVE Decoded(Insn(op, "", 2, Ccr, src), w)
  <2> DEFINE i == Insn(op, "", 2, Ccr, src)
  <2>1. i.op = op /\ i.size = "" /\ i.len = 2 /\ i.kind = "seq"
    BY DEF Insn
  <2> HIDE DEF i
  <2>2. Fits(i, w) /\ Shaped(i)
    BY <1>1, <2>1, WindowIs DEF Fits, Shaped
  <2>3. Plain(i)
    BY <1>1, <2>1 DEF Plain, CcrOps
  <2> QED
    BY <2>2, <2>3, PlainDecoded DEF i
<1>2. Decoded(Insn("stc", "", 2, R(n), src), w)
  <2> DEFINE i == Insn("stc", "", 2, R(n), src)
  <2>1. i.op = "stc" /\ i.size = "" /\ i.len = 2 /\ i.kind = "seq" /\ i.dst = R(n)
    BY DEF Insn
  <2> HIDE DEF i
  <2>2. Fits(i, w) /\ Shaped(i) /\ Plain(i)
    BY <2>1, WindowIs, Modes DEF Fits, Shaped, Plain
  <2> QED
    BY <2>2, PlainDecoded DEF i
<1> QED
  BY <1>1, <1>2

LEMMA Row0Decoded ==
  ASSUME NEW w, Window(w), Hi(w[1]) = 0
  PROVE  Decoded(Row0(w), w)
<1> DEFINE i == Row0(w)
<1> SUFFICES Decoded(i, w)
  OBVIOUS
<1>w. Len(w) \in Nat /\ Len(w) >= 2 /\ w[1] \in Byte
  BY WindowIs
<1>b. ASSUME NEW op \in {"nop", "addx"}, i = Bare(op, "", 2)
      PROVE  Decoded(i, w)
  <2> HIDE DEF i
  <2> QED
    BY <1>b, <1>w, BareDecoded
<1>t. ASSUME NEW op \in {"add", "mov"}, NEW size \in {"b", "w"}, i = TwoReg(op, size, w)
      PROVE  Decoded(i, w)
  <2> HIDE DEF i
  <2> QED
    BY <1>t, TwoRegDecoded
<1>l. ASSUME NEW op \in {"add", "mov"}, NEW other, Decoded(other, w), i = LongOr(op, w, other)
      PROVE  Decoded(i, w)
  <2> HIDE DEF i
  <2> QED
    BY <1>l, LongOrDecoded
<1>i. Decoded(Insn("inc", "b", 2, R(Lo(w[2])), Imm), w)
  BY ByteDecoded
<1>d. Decoded(Bare("daa", "", 2), w)
  BY <1>w, BareDecoded
<1>s. /\ Decoded(Insn("stc", "", 2, R(Lo(w[2])), Ccr), w) /\ Decoded(Bare("stc", "", 2), w)
      /\ Decoded(Insn("ldc", "", 2, Ccr, R(Lo(w[2]))), w) /\ Decoded(Bare("ldc", "", 2), w)
  BY <1>w, BareDecoded, CcrDecoded DEF CcrOps
<1>c0. ASSUME NEW op \in CcrOps, i = Insn(op, "", 2, Ccr, Imm)
       PROVE  Decoded(i, w)
  <2>1. op # "stc"
    BY DEF CcrOps
  <2> HIDE DEF i
  <2> QED
    BY <1>c0, <2>1, CcrDecoded
<1>1. CASE w[1] = 0
  <2>1. i = Bare("nop", "", 2)
    BY <1>1 DEF Row0
  <2> QED
    BY <1>1, <2>1, <1>b
<1>2. CASE w[1] = 1
  BY <1>2, Prefix01Decoded DEF Row0
<1>3. CASE w[1] = 2
  <2>1. i = IF Hi(w[2]) = 0 THEN Insn("stc", "", 2, R(Lo(w[2])), Ccr) ELSE Bare("stc", "", 2)
    BY <1>3 DEF Row0
  <2> QED
    BY <1>3, <2>1, <1>s
<1>4. CASE w[1] = 3
  <2>1. i = IF Hi(w[2]) = 0 THEN Insn("ldc", "", 2, Ccr, R(Lo(w[2]))) ELSE Bare("ldc", "", 2)
    BY <1>4 DEF Row0
  <2> QED
    BY <1>4, <2>1, <1>s
<1>5. CASE w[1] = 4
  <2>1. i = Insn("orc", "", 2, Ccr, Imm)
    BY <1>5 DEF Row0
  <2> QED
    BY <1>5, <2>1, <1>c0 DEF CcrOps
<1>6. CASE w[1] = 5
  <2>1. i = Insn("xorc", "", 2, Ccr, Imm)
    BY <1>6 DEF Row0
  <2> QED
    BY <1>6, <2>1, <1>c0 DEF CcrOps
<1>7. CASE w[1] = 6
  <2>1. i = Insn("andc", "", 2, Ccr, Imm)
    BY <1>7 DEF Row0
  <2> QED
    BY <1>7, <2>1, <1>c0 DEF CcrOps
<1>8. CASE w[1] = 7
  <2>1. i = Insn("ldc", "", 2, Ccr, Imm)
    BY <1>8 DEF Row0
  <2> QED
    BY <1>8, <2>1, <1>c0 DEF CcrOps
<1>9. CASE w[1] = 8
  BY <1>9, <1>t DEF Row0
<1>10. CASE w[1] = 9
  BY <1>10, <1>t DEF Row0
<1>11. CASE w[1] = 10
  BY <1>11, <1>l, <1>i DEF Row0
<1>12. CASE w[1] = 11
  BY <1>12, StepDecoded DEF Row0
<1>13. CASE w[1] = 12
  BY <1>13, <1>t DEF Row0
<1>14. CASE w[1] = 13
  BY <1>14, <1>t DEF Row0
<1>15. CASE w[1] = 14
  <2>1. i = Bare("addx", "", 2)
    BY <1>15 DEF Row0
  <2> QED
    BY <1>15, <2>1, <1>b
<1>16. CASE w[1] = 15
  <2>1. i = LongOr("mov", w, Bare("daa", "", 2))
    BY <1>16 DEF Row0
  <2> QED
    BY <1>16, <2>1, <1>l, <1>d
<1> HIDE DEF i
<1>c. w[1] \in 0 .. 15
  <2>1. w[1] = 16 * Hi(w[1]) + Lo(w[1]) /\ Lo(w[1]) \in 0 .. 15
    BY <1>w, Halves
  <2> QED
    BY <2>1
<1> QED
  BY <1>c, <1>1, <1>2, <1>3, <1>4, <1>5, <1>6, <1>7, <1>8, <1>9, <1>10, <1>11, <1>12,
     <1>13, <1>14, <1>15, <1>16

LEMMA Row1Decoded ==
  ASSUME NEW w, Window(w), Hi(w[1]) = 1
  PROVE  Decoded(Row1(w), w)
<1> DEFINE i == Row1(w)
<1> SUFFICES Decoded(i, w)
  OBVIOUS
<1>w. Len(w) \in Nat /\ Len(w) >= 2 /\ w[1] \in Byte
  BY WindowIs
<1>b. ASSUME NEW op \in {"subx"}, i = Bare(op, "", 2)
      PROVE  Decoded(i, w)
  <2> HIDE DEF i
  <2> QED
    BY <1>b, <1>w, BareDecoded
<1>t. ASSUME NEW op \in {"or", "xor", "and", "sub", "cmp"}, NEW size \in {"b", "w"}, i = TwoReg(op, size, w)
      PROVE  Decoded(i, w)
  <2> HIDE DEF i
  <2> QED
    BY <1>t, TwoRegDecoded
<1>l. ASSUME NEW op \in {"sub", "cmp"}, NEW other, Decoded(other, w), i = LongOr(op, w, other)
      PROVE  Decoded(i, w)
  <2> HIDE DEF i
  <2> QED
    BY <1>l, LongOrDecoded
<1>i. Decoded(Insn("dec", "b", 2, R(Lo(w[2])), Imm), w)
  BY ByteDecoded
<1>d. Decoded(Bare("das", "", 2), w)
  BY <1>w, BareDecoded
<1>1. CASE w[1] = 16
  BY <1>1, ShiftDecoded DEF Row1
<1>2. CASE w[1] = 17
  BY <1>2, ShiftDecoded DEF Row1
<1>3. CASE w[1] = 18
  BY <1>3, ShiftDecoded DEF Row1
<1>4. CASE w[1] = 19
  BY <1>4, ShiftDecoded DEF Row1
<1>5. CASE w[1] = 20
  BY <1>5, <1>t DEF Row1
<1>6. CASE w[1] = 21
  BY <1>6, <1>t DEF Row1
<1>7. CASE w[1] = 22
  BY <1>7, <1>t DEF Row1
<1>8. CASE w[1] = 23
  BY <1>8, UnaryDecoded DEF Row1
<1>9. CASE w[1] = 24
  BY <1>9, <1>t DEF Row1
<1>10. CASE w[1] = 25
  BY <1>10, <1>t DEF Row1
<1>11. CASE w[1] = 26
  BY <1>11, <1>l, <1>i DEF Row1
<1>12. CASE w[1] = 27
  BY <1>12, StepDecoded DEF Row1
<1>13. CASE w[1] = 28
  BY <1>13, <1>t DEF Row1
<1>14. CASE w[1] = 29
  BY <1>14, <1>t DEF Row1
<1>15. CASE w[1] = 30
  <2>1. i = Bare("subx", "", 2)
    BY <1>15 DEF Row1
  <2> QED
    BY <1>15, <2>1, <1>b
<1>16. CASE w[1] = 31
  <2>1. i = LongOr("cmp", w, Bare("das", "", 2))
    BY <1>16 DEF Row1
  <2> QED
    BY <1>16, <2>1, <1>l, <1>d
<1> HIDE DEF i
<1>c. w[1] \in 16 .. 31
  <2>1. w[1] = 16 * Hi(w[1]) + Lo(w[1]) /\ Lo(w[1]) \in 0 .. 15
    BY <1>w, Halves
  <2> QED
    BY <2>1
<1> QED
  BY <1>c, <1>1, <1>2, <1>3, <1>4, <1>5, <1>6, <1>7, <1>8, <1>9, <1>10, <1>11, <1>12,
     <1>13, <1>14, <1>15, <1>16

LEMMA Row67Decoded ==
  ASSUME NEW w, Window(w), Hi(w[1]) \in {6, 7}
  PROVE  Decoded(Row67(w), w)
<1> DEFINE i == Row67(w)
<1> SUFFICES Decoded(i, w)
  OBVIOUS
<1>w. Len(w) \in Nat /\ Len(w) >= 2 /\ w[1] \in Byte
  BY WindowIs
<1>t. ASSUME NEW op \in {"or", "xor", "and"}, NEW size \in {"w"}, i = TwoReg(op, size, w)
      PROVE  Decoded(i, w)
  <2> HIDE DEF i
  <2> QED
    BY <1>t, TwoRegDecoded
<1>m. ASSUME NEW form \in {8, 10, 12, 14}, NEW size \in {"b", "w"}, i = MovEa(w, form, size, 0)
      PROVE  Decoded(i, w)
  <2> HIDE DEF i
  <2>1. Moved(i, w, form, size, 0)
    BY <1>w, <1>m, MovEaIs DEF Window
  <2> QED
    BY <1>w, <2>1, MovedDecoded
<1> DEFINE Ops == {"bset", "bnot", "bclr", "btst", "bst", "bist", "bor", "bxor", "band", "bld",
                   "bior", "bixor", "biand", "bild"}
<1>o. \A op \in Ops : op \notin {"stm", "ldm", "push", "pop", "subs", "sub"} /\ op \notin Sized
  BY DEF Sized, Rotates, Binary, OneOperand
<1>b. ASSUME NEW op \in Ops, i = TwoReg(op, "", w) \/ i = Insn(op, "", 2, R(Lo(w[2])), Imm)
      PROVE  Decoded(i, w)
  <2> HIDE DEF i
  <2> QED
    BY <1>b, <1>o, TwoRegDecoded, ByteDecoded
<1>e. ASSUME NEW size, i = Bare("eepmov", size, 4), Len(w) >= 4
      PROVE  Decoded(i, w)
  <2> HIDE DEF i
  <2> QED
    BY <1>e, <1>w, BareDecoded
<1>d. ASSUME Len(w) >= 8
      PROVE  Decoded(Mov78(w, 0, "b"), w) /\ Decoded(Bare("mov", "", 8), w)
  <2>1. Decoded(Mov78(w, 0, "b"), w)
    BY <1>d, Mov78Is
  <2>2. Decoded(Bare("mov", "", 8), w)
    BY <1>d, <1>w, BareDecoded
  <2> QED
    BY <2>1, <2>2
<1>1. CASE w[1] = 96
  <2>1. i = TwoReg("bset", "", w)
    BY <1>1 DEF Row67, BitNames
  <2> QED
    BY <1>1, <2>1, <1>b
<1>2. CASE w[1] = 97
  <2>1. i = TwoReg("bnot", "", w)
    BY <1>2 DEF Row67, BitNames
  <2> QED
    BY <1>2, <2>1, <1>b
<1>3. CASE w[1] = 98
  <2>1. i = TwoReg("bclr", "", w)
    BY <1>3 DEF Row67, BitNames
  <2> QED
    BY <1>3, <2>1, <1>b
<1>4. CASE w[1] = 99
  <2>1. i = TwoReg("btst", "", w)
    BY <1>4 DEF Row67, BitNames
  <2> QED
    BY <1>4, <2>1, <1>b
<1>5. CASE w[1] = 100
  BY <1>5, <1>t DEF Row67
<1>6. CASE w[1] = 101
  BY <1>6, <1>t DEF Row67
<1>7. CASE w[1] = 102
  BY <1>7, <1>t DEF Row67
<1>8. CASE w[1] = 103
  <2>1. i = Insn(IF Top(w[2]) THEN "bist" ELSE "bst", "", 2, R(Lo(w[2])), Imm)
    BY <1>8 DEF Row67
  <2> QED
    BY <1>8, <2>1, <1>b
<1>9. CASE w[1] = 104
  BY <1>9, <1>m DEF Row67, Lo
<1>10. CASE w[1] = 105
  BY <1>10, <1>m DEF Row67, Lo
<1>11. CASE w[1] = 106
  BY <1>11, <1>m DEF Row67, Lo
<1>12. CASE w[1] = 107
  BY <1>12, <1>m DEF Row67, Lo
<1>13. CASE w[1] = 108
  BY <1>13, <1>m DEF Row67, Lo
<1>14. CASE w[1] = 109
  BY <1>14, <1>m DEF Row67, Lo
<1>15. CASE w[1] = 110
  BY <1>15, <1>m DEF Row67, Lo
<1>16. CASE w[1] = 111
  BY <1>16, <1>m DEF Row67, Lo
<1>17. CASE w[1] = 112
  <2>1. i = Insn("bset", "", 2, R(Lo(w[2])), Imm)
    BY <1>17 DEF Row67, BitNames
  <2> QED
    BY <1>17, <2>1, <1>b
<1>18. CASE w[1] = 113
  <2>1. i = Insn("bnot", "", 2, R(Lo(w[2])), Imm)
    BY <1>18 DEF Row67, BitNames
  <2> QED
    BY <1>18, <2>1, <1>b
<1>19. CASE w[1] = 114
  <2>1. i = Insn("bclr", "", 2, R(Lo(w[2])), Imm)
    BY <1>19 DEF Row67, BitNames
  <2> QED
    BY <1>19, <2>1, <1>b
<1>20. CASE w[1] = 115
  <2>1. i = Insn("btst", "", 2, R(Lo(w[2])), Imm)
    BY <1>20 DEF Row67, BitNames
  <2> QED
    BY <1>20, <2>1, <1>b
<1>21. CASE w[1] = 116
  <2>1. i = Insn(IF Top(w[2]) THEN "bior" ELSE "bor", "", 2, R(Lo(w[2])), Imm)
    BY <1>21 DEF Row67
  <2> QED
    BY <1>21, <2>1, <1>b
<1>22. CASE w[1] = 117
  <2>1. i = Insn(IF Top(w[2]) THEN "bixor" ELSE "bxor", "", 2, R(Lo(w[2])), Imm)
    BY <1>22 DEF Row67
  <2> QED
    BY <1>22, <2>1, <1>b
<1>23. CASE w[1] = 118
  <2>1. i = Insn(IF Top(w[2]) THEN "biand" ELSE "band", "", 2, R(Lo(w[2])), Imm)
    BY <1>23 DEF Row67
  <2> QED
    BY <1>23, <2>1, <1>b
<1>24. CASE w[1] = 119
  <2>1. i = Insn(IF Top(w[2]) THEN "bild" ELSE "bld", "", 2, R(Lo(w[2])), Imm)
    BY <1>24 DEF Row67
  <2> QED
    BY <1>24, <2>1, <1>b
<1>25. CASE w[1] = 120 /\ Len(w) >= 8
  <2>1. i = IF Mov78(w, 0, "b") # Unk THEN Mov78(w, 0, "b") ELSE Bare("mov", "", 8)
    BY <1>25 DEF Row67
  <2> QED
    BY <1>25, <2>1, <1>d
<1>26. CASE w[1] = 120 /\ ~(Len(w) >= 8)
  BY <1>26, UnkDecoded DEF Row67
<1>27. CASE w[1] = 121
  BY <1>27, ImmediateDecoded DEF Row67
<1>28. CASE w[1] = 122
  BY <1>28, ImmediateDecoded DEF Row67
<1>29. CASE w[1] = 123 /\ Len(w) >= 4
  BY <1>29, <1>e DEF Row67
<1>30. CASE w[1] = 123 /\ ~(Len(w) >= 4)
  BY <1>30, UnkDecoded DEF Row67
<1>31. CASE w[1] = 124
  BY <1>31, BitMemDecoded DEF Row67
<1>32. CASE w[1] = 125
  BY <1>32, BitMemDecoded DEF Row67
<1>33. CASE w[1] = 126
  BY <1>33, BitMemDecoded DEF Row67
<1>34. CASE w[1] = 127
  BY <1>34, BitMemDecoded DEF Row67
<1> HIDE DEF i
<1>c. w[1] \in 96 .. 127
  <2>1. w[1] = 16 * Hi(w[1]) + Lo(w[1]) /\ Lo(w[1]) \in 0 .. 15
    BY <1>w, Halves
  <2> QED
    BY <2>1
<1> QED
  BY <1>c, <1>1, <1>2, <1>3, <1>4, <1>5, <1>6, <1>7, <1>8, <1>9, <1>10, <1>11, <1>12,
     <1>13, <1>14, <1>15, <1>16, <1>17, <1>18, <1>19, <1>20, <1>21, <1>22, <1>23, <1>24, <1>25, <1>26, <1>27, <1>28, <1>29, <1>30, <1>31, <1>32, <1>33, <1>34

LEMMA RowByteDecoded ==
  ASSUME NEW w, Window(w), Hi(w[1]) \in {2, 3} \cup 8 .. 15
  PROVE  Decoded(RowByte(w), w)
<1> DEFINE h == Hi(w[1])
           r == Lo(w[1])
<1>w. 2 <= Len(w)
  BY WindowIs
<1>m. IsReg(R(r)) /\ IsMem(Abs)
  <2>1. r \in 0 .. 15
    BY WindowIs, Halves
  <2> QED
    BY <2>1 DEF IsReg, IsMem, Abs
<1>1. CASE h = 2
  <2>1. RowByte(w) = Insn("mov", "b", 2, R(r), Abs)
    BY <1>1 DEF RowByte
  <2> QED
    BY <1>w, <1>m, <2>1, MoveDecoded
<1>2. CASE h = 3
  <2>1. RowByte(w) = Insn("mov", "b", 2, Abs, R(r))
    BY <1>2 DEF RowByte
  <2> QED
    BY <1>w, <1>m, <2>1, MoveDecoded
<1>3. CASE h \in 8 .. 15
  <2> DEFINE ops == <<"add", "addx", "cmp", "subx", "or", "xor", "and", "mov">>
             op == ops[h - 7]
  <2>1. RowByte(w) = Insn(op, "b", 2, R(r), Imm)
    BY <1>3 DEF RowByte
  <2>2. op \in {"add", "addx", "cmp", "subx", "or", "xor", "and", "mov"}
    BY <1>3
  <2> HIDE DEF op
  <2>3. op \notin {"stm", "ldm", "push", "pop", "subs", "sub"}
    BY <2>2
  <2> QED
    BY <2>1, <2>3, ByteDecoded
<1> QED
  BY <1>1, <1>2, <1>3

\* A transfer of control, with what the emitter reads of it in the bytes.
LEMMA TransferDecoded ==
  ASSUME NEW w, Window(w), NEW i, i.kind \in {"jmp", "jcc", "call", "ret", "rte", "trap"},
         i.op \notin {"stm", "ldm", "push", "pop", "subs", "sub"},
         i.len \in {2, 4}, i.len <= Len(w),
         i.kind = "jcc" => Tested(i, w) = i.op,
         i.kind \in {"jmp", "call"} => i.target # {} \/ IndirectTarget(w) = i.dst
  PROVE  Decoded(i, w)
BY DEF Decoded, Fits, Shaped, Framing, Reserving, Transferring

LEMMA CCNames ==
  ASSUME NEW cc \in 0 .. 15
  PROVE  CC[cc + 1] \notin {"stm", "ldm", "push", "pop", "subs", "sub"}
<1>1. /\ CC[1] = "bra" /\ CC[2] = "brn" /\ CC[3] = "bhi" /\ CC[4] = "bls"
      /\ CC[5] = "bcc" /\ CC[6] = "bcs" /\ CC[7] = "bne" /\ CC[8] = "beq"
      /\ CC[9] = "bvc" /\ CC[10] = "bvs" /\ CC[11] = "bpl" /\ CC[12] = "bmi"
      /\ CC[13] = "bge" /\ CC[14] = "blt" /\ CC[15] = "bgt" /\ CC[16] = "ble"
  BY DEF CC
<1>2. cc + 1 \in {1, 2, 3, 4, 5, 6, 7, 8, 9, 10, 11, 12, 13, 14, 15, 16}
  OBVIOUS
<1> QED
  BY <1>1, <1>2

LEMMA BranchDecoded ==
  ASSUME NEW w, Window(w), NEW cc \in 0 .. 15, NEW len \in {2, 4}, len <= Len(w), NEW target,
         cc = IF Hi(w[1]) = 4 THEN Lo(w[1]) ELSE Hi(w[2])
  PROVE  Decoded(Branch(cc, len, target), w)
<1> DEFINE i == Branch(cc, len, target)
<1>1. /\ i.op = CC[cc + 1] /\ i.kind = (IF cc = 0 THEN "jmp" ELSE "jcc")
      /\ i.len = len /\ i.target = {target}
  BY DEF Branch, Transfer, Bare, Insn
<1>2. CC[cc + 1] \notin {"stm", "ldm", "push", "pop", "subs", "sub"}
  BY CCNames
<1>3. CondTable = CC
  BY DEF CondTable, CC
<1> HIDE DEF i
<1>4. Tested(i, w) = i.op
  BY <1>1, <1>3 DEF Tested
<1>5. i.target # {}
  BY <1>1
<1> QED
  BY <1>1, <1>2, <1>4, <1>5, TransferDecoded DEF i

LEMMA Row45Decoded ==
  ASSUME NEW w, Window(w), Hi(w[1]) \in {4, 5}, NEW a
  PROVE  Decoded(Row45(w, a), w)
<1> DEFINE i == Row45(w, a)
<1> SUFFICES Decoded(i, w)
  OBVIOUS
<1>w. Len(w) \in Nat /\ Len(w) >= 2 /\ w[1] \in Byte
  BY WindowIs
<1> DEFINE near == a + 2 + Signed8(w[2])
           far == a + 4 + Signed16(w[3], w[4])
           abs == (w[2] * 256 + w[3]) * 256 + w[4]
           reg == R(Hi(w[2]) % 8)
<1>h. Hi(w[1]) \in 0 .. 15 /\ Lo(w[1]) \in 0 .. 15 /\ Hi(w[2]) \in 0 .. 15
  BY WindowIs, Halves
<1>u. i = Unk => Decoded(i, w)
  BY UnkDecoded
<1>f. \A op, kind, len, target :
        LET t == Transfer(op, kind, len, target)
        IN  /\ t.op = op /\ t.kind = kind /\ t.len = len /\ t.target = target
            /\ t.dst = None
  BY DEF Transfer, Bare, Insn
<1>t. \A target : \A op \in {"rts", "bsr", "rte", "trapa", "jmp", "jsr"},
         kind \in {"jmp", "call", "ret", "rte", "trap"}, len \in {2, 4} :
        /\ len <= Len(w)
        /\ kind \in {"jmp", "call"} => target # {} \/ IndirectTarget(w) = None
        => Decoded(Transfer(op, kind, len, target), w)
  <2> SUFFICES ASSUME NEW target, NEW op \in {"rts", "bsr", "rte", "trapa", "jmp", "jsr"},
                      NEW kind \in {"jmp", "call", "ret", "rte", "trap"},
                      NEW len \in {2, 4}, len <= Len(w),
                      kind \in {"jmp", "call"} => target # {} \/ IndirectTarget(w) = None
               PROVE  Decoded(Transfer(op, kind, len, target), w)
    OBVIOUS
  <2> DEFINE t == Transfer(op, kind, len, target)
  <2>1. t.op = op /\ t.kind = kind /\ t.len = len /\ t.target = target /\ t.dst = None
    BY <1>f
  <2> HIDE DEF t
  <2>2. t.op \notin {"stm", "ldm", "push", "pop", "subs", "sub"} /\ t.kind # "jcc"
    BY <2>1
  <2> QED
    BY <2>1, <2>2, TransferDecoded DEF t
<1>r. ASSUME NEW op \in {"jmp", "jsr"}, NEW kind \in {"jmp", "call"}, w[1] \in {89, 93},
             i = [Transfer(op, kind, 2, {}) EXCEPT !.dst = reg]
      PROVE  Decoded(i, w)
  <2>1. i.op = op /\ i.kind = kind /\ i.len = 2 /\ i.dst = reg
    BY <1>r DEF Transfer, Bare, Insn
  <2>2. IndirectTarget(w) = reg
    BY <1>r DEF IndirectTarget
  <2> HIDE DEF i, reg
  <2>3. i.op \notin {"stm", "ldm", "push", "pop", "subs", "sub"} /\ i.kind # "jcc"
    BY <2>1
  <2> QED
    BY <1>w, <2>1, <2>2, <2>3, TransferDecoded
<1>m. ASSUME NEW op \in {"mulxu", "divxu"}, NEW size, NEW n,
             i = Insn(op, size, 2, R(n), R(Hi(w[2])))
      PROVE  Decoded(i, w)
  <2> HIDE DEF i
  <2>1. op \notin {"stm", "ldm", "push", "pop", "subs", "sub"} /\ op \notin Sized
    BY DEF Sized, Rotates, Binary, OneOperand
  <2> QED
    BY <1>m, <1>w, <2>1, Modes, InsnDecoded
<1>1. CASE w[1] < 80
  <2>1. i = Branch(Lo(w[1]), 2, near)
    BY <1>1, SMTT(30) DEF Row45
  <2> HIDE DEF i, near, far, abs
  <2>2. Hi(w[1]) = 4
    <3>1. w[1] = 16 * Hi(w[1]) + Lo(w[1])
      BY <1>w, Halves
    <3> QED
      BY <1>1, <1>h, <3>1
  <2> QED
    BY <2>1, <1>h, <1>w, <2>2, BranchDecoded
<1>2. CASE w[1] = 80
  <2>1. i = Insn("mulxu", "b", 2, R(Lo(w[2])), R(Hi(w[2])))
    BY <1>2 DEF Row45
  <2> HIDE DEF i, near, far, abs
  <2> QED
    BY <2>1, <1>m
<1>3. CASE w[1] = 81
  <2>1. i = Insn("divxu", "b", 2, R(Lo(w[2])), R(Hi(w[2])))
    BY <1>3 DEF Row45
  <2> HIDE DEF i, near, far, abs
  <2> QED
    BY <2>1, <1>m
<1>4. CASE w[1] = 82
  <2>1. i = Insn("mulxu", "w", 2, R(Lo(w[2]) % 8), R(Hi(w[2])))
    BY <1>4 DEF Row45
  <2> HIDE DEF i, near, far, abs
  <2> QED
    BY <2>1, <1>m
<1>5. CASE w[1] = 83
  <2>1. i = Insn("divxu", "w", 2, R(Lo(w[2]) % 8), R(Hi(w[2])))
    BY <1>5 DEF Row45
  <2> HIDE DEF i, near, far, abs
  <2> QED
    BY <2>1, <1>m
<1>6. CASE w[1] = 84
  <2>1. i = Transfer("rts", "ret", 2, {})
    BY <1>6 DEF Row45
  <2> HIDE DEF i, near, far, abs
  <2> QED
    BY <2>1, <1>t, <1>w
<1>7. CASE w[1] = 85
  <2>1. i = Transfer("bsr", "call", 2, {near})
    BY <1>7 DEF Row45
  <2> HIDE DEF i, near, far, abs
  <2> QED
    BY <2>1, <1>t, <1>w
<1>8. CASE w[1] = 86
  <2>1. i = Transfer("rte", "rte", 2, {})
    BY <1>8 DEF Row45
  <2> HIDE DEF i, near, far, abs
  <2> QED
    BY <2>1, <1>t, <1>w
<1>9. CASE w[1] = 87
  <2>1. i = Transfer("trapa", "trap", 2, {})
    BY <1>9 DEF Row45
  <2> HIDE DEF i, near, far, abs
  <2> QED
    BY <2>1, <1>t, <1>w
<1>10. CASE w[1] = 88 /\ Len(w) >= 4
  <2>1. i = Branch(Hi(w[2]), 4, far)
    BY <1>10 DEF Row45
  <2> HIDE DEF i, near, far, abs
  <2>2. Hi(w[1]) # 4
    BY <1>10 DEF Hi
  <2> QED
    BY <2>1, <1>10, <1>h, <1>w, <2>2, BranchDecoded
<1>11. CASE w[1] = 89
  <2>1. i = [Transfer("jmp", "jmp", 2, {}) EXCEPT !.dst = reg]
    BY <1>11 DEF Row45
  <2> HIDE DEF i, reg
  <2> QED
    BY <1>11, <2>1, <1>r
<1>12. CASE w[1] = 90 /\ Len(w) >= 4
  <2>1. i = Transfer("jmp", "jmp", 4, {abs})
    BY <1>12 DEF Row45
  <2> HIDE DEF i, near, far, abs
  <2> QED
    BY <2>1, <1>12, <1>t, <1>w
<1>13. CASE w[1] = 91
  <2>1. i = Transfer("jmp", "jmp", 2, {})
    BY <1>13 DEF Row45
  <2> HIDE DEF i, near, far, abs
  <2>2. IndirectTarget(w) = None
    BY <1>13 DEF IndirectTarget
  <2> QED
    BY <2>1, <1>t, <1>w, <2>2
<1>14. CASE w[1] = 92 /\ Len(w) >= 4
  <2>1. i = Transfer("bsr", "call", 4, {far})
    BY <1>14 DEF Row45
  <2> HIDE DEF i, near, far, abs
  <2> QED
    BY <2>1, <1>14, <1>t, <1>w
<1>15. CASE w[1] = 93
  <2>1. i = [Transfer("jsr", "call", 2, {}) EXCEPT !.dst = reg]
    BY <1>15 DEF Row45
  <2> HIDE DEF i, reg
  <2> QED
    BY <1>15, <2>1, <1>r
<1>16. CASE w[1] = 94 /\ Len(w) >= 4
  <2>1. i = Transfer("jsr", "call", 4, {abs})
    BY <1>16 DEF Row45
  <2> HIDE DEF i, near, far, abs
  <2> QED
    BY <2>1, <1>16, <1>t, <1>w
<1>17. CASE w[1] = 95
  <2>1. i = Transfer("jsr", "call", 2, {})
    BY <1>17 DEF Row45
  <2> HIDE DEF i, near, far, abs
  <2>2. IndirectTarget(w) = None
    BY <1>17 DEF IndirectTarget
  <2> QED
    BY <2>1, <1>t, <1>w, <2>2
<1>18. CASE w[1] = 88 /\ ~(Len(w) >= 4)
  BY <1>18, <1>u DEF Row45
<1>19. CASE w[1] = 90 /\ ~(Len(w) >= 4)
  BY <1>19, <1>u DEF Row45
<1>20. CASE w[1] = 92 /\ ~(Len(w) >= 4)
  BY <1>20, <1>u DEF Row45
<1>21. CASE w[1] = 94 /\ ~(Len(w) >= 4)
  BY <1>21, <1>u DEF Row45
<1> HIDE DEF i
<1>c. w[1] \in 64 .. 95
  <2>1. w[1] = 16 * Hi(w[1]) + Lo(w[1]) /\ Lo(w[1]) \in 0 .. 15
    BY <1>w, Halves
  <2> QED
    BY <2>1
<1>v. w[1] < 80 \/ w[1] \in {80, 81, 82, 83, 84, 85, 86, 87, 88, 89, 90, 91, 92, 93, 94, 95}
  BY <1>c
<1> QED
  BY <1>v, <1>1, <1>2, <1>3, <1>4, <1>5, <1>6, <1>7, <1>8, <1>9, <1>10, <1>11, <1>12,
     <1>13, <1>14, <1>15, <1>16, <1>17, <1>18, <1>19, <1>20, <1>21

-----------------------------------------------------------------------------
(* decode. *)

\* The window of an address is the rest of the image.
Rest(d, a) == SubSeq(d, a + 1, Len(d))

LEMMA RestIs ==
  ASSUME NEW d \in Seq(Byte), NEW a \in Nat, a <= Len(d)
  PROVE  /\ Rest(d, a) \in Seq(Byte) /\ Len(Rest(d, a)) = Len(d) - a
         /\ \A k \in 1 .. (Len(d) - a) : Rest(d, a)[k] = d[a + k]
<1>1. Len(d) \in Nat
  BY LenProperties
<1>2. CASE a = Len(d)
  <2>1. Rest(d, a) = << >>
    BY <1>1, <1>2, SubSeqProperties DEF Rest
  <2> QED
    BY <1>1, <1>2, <2>1, EmptySeq
<1>3. CASE a < Len(d)
  BY <1>1, <1>3, SubSeqProperties DEF Rest
<1> QED
  BY <1>1, <1>2, <1>3

LEMMA DecodeRow ==
  ASSUME NEW d \in Seq(Byte), NEW a \in Nat, a + 2 <= Len(d)
  PROVE  LET w == Rest(d, a)
             h == Hi(w[1])
         IN  /\ Window(w) /\ h \in 0 .. 15
             /\ h = 0 => Decode(d, a) = Row0(w)
             /\ h = 1 => Decode(d, a) = Row1(w)
             /\ h \in {4, 5} => Decode(d, a) = Row45(w, a)
             /\ h \in {6, 7} => Decode(d, a) = Row67(w)
             /\ h \notin {0, 1, 4, 5, 6, 7} => Decode(d, a) = RowByte(w)
<1> DEFINE w == Rest(d, a)
           h == Hi(w[1])
           i == Decode(d, a)
<1>1. Len(d) \in Nat
  BY LenProperties
<1>2. Window(w)
  <2>1. a <= Len(d)
    BY <1>1
  <2>2. w \in Seq(Byte) /\ Len(w) = Len(d) - a
    BY <2>1, RestIs
  <2> HIDE DEF w
  <2>3. Len(w) >= 2
    BY <1>1, <2>2
  <2> QED
    BY <2>2, <2>3 DEF Window
<1>3. Len(w) \in Nat /\ Len(w) >= 2 /\ h \in 0 .. 15
  BY <1>2, WindowIs, Halves
<1>4. ~(Len(w) < 2)
  BY <1>3
<1>5. i = CASE Len(w) < 2 -> [Unk EXCEPT !.len = 1]
            [] Len(w) >= 2 /\ h = 0 -> Row0(w)
            [] Len(w) >= 2 /\ h = 1 -> Row1(w)
            [] Len(w) >= 2 /\ h \in {4, 5} -> Row45(w, a)
            [] Len(w) >= 2 /\ h \in {6, 7} -> Row67(w)
            [] OTHER -> RowByte(w)
  BY DEF Decode, Rest
<1> HIDE DEF i, w
<1>6. (h = 0 => i = Row0(w)) /\ (h = 1 => i = Row1(w))
  BY <1>3, <1>4, <1>5
<1>7. h \in {4, 5} => i = Row45(w, a)
  <2>1. h = 4 => i = Row45(w, a)
    BY <1>3, <1>4, <1>5
  <2>2. h = 5 => i = Row45(w, a)
    BY <1>3, <1>4, <1>5
  <2> QED
    BY <2>1, <2>2
<1>8. h \in {6, 7} => i = Row67(w)
  <2>1. h = 6 => i = Row67(w)
    BY <1>3, <1>4, <1>5
  <2>2. h = 7 => i = Row67(w)
    BY <1>3, <1>4, <1>5
  <2> QED
    BY <2>1, <2>2
<1>9. ASSUME h \notin {0, 1, 4, 5, 6, 7} PROVE i = RowByte(w)
  <2>1. h # 0 /\ h # 1 /\ h \notin {4, 5} /\ h \notin {6, 7}
    BY <1>9
  <2> QED
    BY <1>4, <1>5, <2>1, Zenon
<1> QED
  BY <1>2, <1>3, <1>6, <1>7, <1>8, <1>9 DEF i, w

LEMMA DecodeDecoded ==
  ASSUME NEW d \in Seq(Byte), NEW a \in Nat, a + 2 <= Len(d)
  PROVE  Window(Rest(d, a)) /\ Decoded(Decode(d, a), Rest(d, a))
<1> DEFINE w == Rest(d, a)
           h == Hi(w[1])
           i == Decode(d, a)
<1>1. /\ Window(w) /\ h \in 0 .. 15
      /\ h = 0 => i = Row0(w)
      /\ h = 1 => i = Row1(w)
      /\ h \in {4, 5} => i = Row45(w, a)
      /\ h \in {6, 7} => i = Row67(w)
      /\ h \notin {0, 1, 4, 5, 6, 7} => i = RowByte(w)
  BY DecodeRow
<1> HIDE DEF i, w
<1>2. ASSUME h = 0 PROVE Decoded(i, w)
  BY <1>1, <1>2, Row0Decoded
<1>3. ASSUME h = 1 PROVE Decoded(i, w)
  BY <1>1, <1>3, Row1Decoded
<1>4. ASSUME h \in {4, 5} PROVE Decoded(i, w)
  BY <1>1, <1>4, Row45Decoded
<1>5. ASSUME h \in {6, 7} PROVE Decoded(i, w)
  BY <1>1, <1>5, Row67Decoded
<1>6. ASSUME h \notin {0, 1, 4, 5, 6, 7} PROVE Decoded(i, w)
  <2>1. h \in {2, 3} \cup 8 .. 15
    BY <1>1, <1>6
  <2> QED
    BY <1>1, <1>6, <2>1, RowByteDecoded
<1>7. Decoded(i, w)
  BY <1>2, <1>3, <1>4, <1>5, <1>6
<1> QED
  BY <1>1, <1>7 DEF i, w

\* An odd byte at the end of an image.
LEMMA TailDecoded ==
  ASSUME NEW d \in Seq(Byte), NEW a \in Nat, a + 1 = Len(d)
  PROVE  Decode(d, a) = [Unk EXCEPT !.len = 1]
<1> DEFINE w == Rest(d, a)
           h == Hi(w[1])
           i == Decode(d, a)
<1>1. Len(w) = 1
  <2>1. Len(d) \in Nat
    BY LenProperties
  <2>2. a <= Len(d)
    BY <2>1
  <2>3. Len(w) = Len(d) - a
    BY <2>2, RestIs
  <2> QED
    BY <2>1, <2>3
<1>2. Len(w) < 2
  BY <1>1
<1>3. i = CASE Len(w) < 2 -> [Unk EXCEPT !.len = 1]
            [] Len(w) >= 2 /\ h = 0 -> Row0(w)
            [] Len(w) >= 2 /\ h = 1 -> Row1(w)
            [] Len(w) >= 2 /\ h \in {4, 5} -> Row45(w, a)
            [] Len(w) >= 2 /\ h \in {6, 7} -> Row67(w)
            [] OTHER -> RowByte(w)
  BY DEF Decode, Rest
<1> HIDE DEF i, w
<1> QED
  BY <1>1, <1>2, <1>3 DEF i

-----------------------------------------------------------------------------
(* A sweep. *)

\* What the sweep is at, while it has not ended.
At(i, raw, w) ==
  /\ i.len \in Nat \ {0} /\ i.len <= Len(w)
  /\ i.len % 2 = 0 \/ i.len = Len(w)
  /\ Emitted(i)
  /\ i.op \in {"stm", "ldm"} =>
       /\ raw[1] = 1 /\ raw[2] \in {16, 32, 48} /\ raw[3] = 109 /\ raw[4] \in Byte
       /\ i.op = "stm" <=> Top(raw[4])
       /\ i.len = 4 /\ i.size = "l"
  /\ i.op = "push" => \E k \in 0 .. 7 : i.src = R(k)
  /\ i.op = "pop" => \E k \in 0 .. 7 : i.dst = R(k)
  /\ Transferring(i, raw)

LEMMA HereIs ==
  ASSUME image \in Seq(Byte), pos \in Nat, pos < Len(image)
  PROVE  At(Here, Raw, Rest(image, pos)) /\ Len(Rest(image, pos)) = Len(image) - pos
<1> DEFINE w == Rest(image, pos)
           i == Here
           raw == Raw
<1>1. Len(image) \in Nat
  BY LenProperties
<1>2. /\ w \in Seq(Byte) /\ Len(w) = Len(image) - pos
      /\ \A k \in 1 .. Len(w) : w[k] = image[pos + k]
  <2>1. pos <= Len(image)
    BY <1>1
  <2> QED
    BY <2>1, RestIs
<1>3. ASSUME i.len \in Nat \ {0}, i.len <= Len(w)
      PROVE  \A k \in 1 .. i.len : raw[k] = w[k]
  <2>1. raw = SubSeq(image, pos + 1, pos + i.len)
    BY DEF Raw
  <2> HIDE DEF i, raw, w
  <2>2. pos + 1 <= pos + i.len + 1 /\ pos + i.len <= Len(image)
    BY <1>1, <1>2, <1>3
  <2>3. \A k \in 1 .. i.len : raw[k] = image[pos + k]
    BY <1>1, <1>3, <2>1, <2>2, SubSeqProperties
  <2> QED
    BY <1>2, <1>3, <2>3
<1>4. CASE pos + 2 <= Len(image)
  <2>1. Window(w) /\ Decoded(i, w)
    BY <1>4, DecodeDecoded DEF Here
  <2> HIDE DEF i, w, raw
  <2>2. i.len \in {2, 4, 6, 8, 10} /\ i.len <= Len(w)
    BY <2>1 DEF Decoded, Fits
  <2>3. \A k \in 1 .. i.len : raw[k] = w[k]
    BY <1>3, <2>2
  <2>4. raw[1] = w[1] /\ raw[2] = w[2]
    BY <2>2, <2>3
  <2>5. Emitted(i)
    BY <2>1, ShapedIsEmitted DEF Decoded
  <2>6. Transferring(i, raw)
    BY <2>1, <2>4 DEF Decoded, Transferring, Tested, IndirectTarget
  <2>7. ASSUME i.op \in {"stm", "ldm"}
        PROVE  /\ raw[1] = 1 /\ raw[2] \in {16, 32, 48} /\ raw[3] = 109 /\ raw[4] \in Byte
               /\ i.op = "stm" <=> Top(raw[4])
               /\ i.len = 4 /\ i.size = "l"
    <3>1. /\ i.len = 4 /\ i.size = "l" /\ w[1] = 1 /\ w[2] \in {16, 32, 48} /\ w[3] = 109
          /\ i.op = "stm" <=> Top(w[4])
      BY <2>1, <2>7 DEF Decoded, Framing
    <3>2. raw[3] = w[3] /\ raw[4] = w[4] /\ w[4] \in Byte
      BY <2>1, <2>2, <2>3, <3>1, WindowIs
    <3> QED
      BY <2>4, <3>1, <3>2
  <2>8. i.op = "push" => \E k \in 0 .. 7 : i.src = R(k)
    BY <2>1 DEF Decoded, Framing
  <2>9. i.op = "pop" => \E k \in 0 .. 7 : i.dst = R(k)
    BY <2>1 DEF Decoded, Framing
  <2> QED
    BY <1>2, <2>2, <2>5, <2>6, <2>7, <2>8, <2>9 DEF At, i, raw, w
<1>5. CASE pos + 1 = Len(image)
  <2>1. i = [Unk EXCEPT !.len = 1]
    BY <1>5, TailDecoded DEF Here
  <2>2. i.len = 1 /\ i.kind = "unk" /\ i.op = "?"
    BY <2>1 DEF Unk, Bare, Insn
  <2>3. Len(w) = 1
    BY <1>1, <1>2, <1>5
  <2> HIDE DEF i, w, raw
  <2>4. At(i, raw, w)
    BY <2>2, <2>3 DEF At, Emitted, Transferring
  <2> QED
    BY <1>2, <2>4 DEF i, raw, w
<1> QED
  BY <1>1, <1>4, <1>5

-----------------------------------------------------------------------------
(* Frames. *)

\* A save leaves the registers from b to t on the stack, the last one on top.
Holds(f, st) ==
  \E b \in Regs, t \in Regs :
    /\ b <= t /\ f.regs = b .. t
    /\ Len(st) = (t - b + 1) + Len(f.below)
    /\ \A k \in 1 .. (t - b + 1) : st[k] = f.held[t - k + 1]
    /\ \A k \in 1 .. Len(f.below) : st[(t - b + 1) + k] = f.below[k]

Frame == [regs : SUBSET Regs, held : [Regs -> Int], below : Seq(Int)]

Typed ==
  /\ image \in Seq(Byte) /\ pos \in 0 .. Len(image)
  /\ e \in [Regs -> Int]
  /\ stack \in Seq(Int) /\ Len(stack) <= 4 * pos
  /\ frames \in Seq(Frame)
\* Instructions are whole words, but for an odd byte at the end.
Aligned == pos % 2 = 0 \/ pos = Len(image)
\* Every frame lies on the stack above the one before it.
Chained ==
  /\ frames # << >> => Holds(frames[1], stack)
  /\ \A n \in 1 .. (Len(frames) - 1) : Holds(frames[n + 1], frames[n].below)
SweepInv == Typed /\ Aligned /\ Chained

LEMMA Eighth == ASSUME NEW b \in Byte PROVE b % 8 \in 0 .. 7
BY DEF Byte

LEMMA SavedAre ==
  ASSUME Typed, pos < Len(image), Saving
  PROVE  LET regs == Stored(Here, Raw)
         IN  \E b \in Regs, t \in Regs :
               /\ b <= t /\ t - b + 1 <= 4 /\ DOMAIN regs = 1 .. (t - b + 1)
               /\ Range(regs) = b .. t
               /\ \A k \in 1 .. (t - b + 1) : regs[k] = b + k - 1
<1> DEFINE i == Here
           raw == Raw
           regs == Stored(i, raw)
<1>1. At(i, raw, Rest(image, pos))
  BY HereIs DEF Typed
<1>2. Range(regs) \subseteq Regs /\ i.op \in {"stm", "push"}
  BY DEF Saving
<1>3. CASE i.op = "push"
  <2>1. PICK n \in 0 .. 7 : i.src = R(n)
    BY <1>1, <1>3 DEF At
  <2>2. regs = <<n>>
    BY <1>3, <2>1 DEF Stored, R, Operand
  <2> HIDE DEF i, raw, regs
  <2>3. DOMAIN regs = 1 .. 1 /\ regs[1] = n /\ Range(regs) = {n}
    BY <2>2 DEF Range
  <2>4. n \in Regs /\ n .. n = {n}
    BY <1>2, <2>3 DEF Regs
  <2>5. /\ n <= n /\ n - n + 1 <= 4 /\ DOMAIN regs = 1 .. (n - n + 1)
        /\ Range(regs) = n .. n
        /\ \A k \in 1 .. (n - n + 1) : regs[k] = n + k - 1
    BY <2>3, <2>4
  <2> QED
    BY <2>4, <2>5 DEF i, raw, regs
<1>4. CASE i.op = "stm"
  <2> DEFINE c == Count(raw)
             b == raw[4] % 8
             t == b + c - 1
  <2>1. raw[2] \in {16, 32, 48} /\ raw[4] \in Byte
    BY <1>1, <1>4 DEF At
  <2>2. c \in 2 .. 4 /\ b \in 0 .. 7
    <3> HIDE DEF raw
    <3>1. c = 2 \/ c = 3 \/ c = 4
      BY <2>1 DEF Count, Hi
    <3>2. b \in 0 .. 7
      BY <2>1, Eighth
    <3> QED
      BY <3>1, <3>2
  <2>3. regs = [k \in 1 .. c |-> b + k - 1]
    BY <1>4 DEF Stored
  <2> HIDE DEF i, raw, regs, c, b
  <2>4. Range(regs) = b .. t
    <3>1. ASSUME NEW r \in b .. t PROVE r \in Range(regs)
      <4>1. r - b + 1 \in 1 .. c /\ regs[r - b + 1] = r
        BY <2>2, <2>3
      <4> QED
        BY <2>3, <4>1 DEF Range
    <3>2. ASSUME NEW r \in Range(regs) PROVE r \in b .. t
      BY <2>2, <2>3 DEF Range
    <3> QED
      BY <3>1, <3>2
  <2>5. b \in Regs /\ t \in Regs
    <3>1. b \in b .. t /\ t \in b .. t
      BY <2>2
    <3> QED
      BY <1>2, <2>4, <3>1
  <2>6. t - b + 1 = c
    BY <2>2
  <2> QED
    BY <2>2, <2>3, <2>4, <2>5, <2>6, SMTT(30) DEF i, raw, regs
<1> QED
  BY <1>2, <1>3, <1>4

LEMMA LoadedAre ==
  ASSUME Typed, pos < Len(image), Restoring
  PROVE  LET regs == Loaded(Here, Raw)
         IN  \E b \in Regs, t \in Regs :
               /\ b <= t /\ t - b + 1 <= Len(stack) /\ DOMAIN regs = 1 .. (t - b + 1)
               /\ Len(regs) = t - b + 1 /\ Range(regs) = b .. t
               /\ \A k \in 1 .. (t - b + 1) : regs[k] = t - k + 1
<1> DEFINE i == Here
           raw == Raw
           regs == Loaded(i, raw)
<1>1. At(i, raw, Rest(image, pos))
  BY HereIs DEF Typed
<1>2. Range(regs) \subseteq Regs /\ i.op \in {"ldm", "pop"} /\ Len(regs) <= Len(stack)
  BY DEF Restoring
<1>3. CASE i.op = "pop"
  <2>1. PICK n \in 0 .. 7 : i.dst = R(n)
    BY <1>1, <1>3 DEF At
  <2>2. regs = <<n>>
    BY <1>3, <2>1 DEF Loaded, R, Operand
  <2> HIDE DEF i, raw, regs
  <2>3. DOMAIN regs = 1 .. 1 /\ regs[1] = n /\ Range(regs) = {n} /\ Len(regs) = 1
    BY <2>2 DEF Range
  <2>4. n \in Regs /\ n .. n = {n}
    BY <1>2, <2>3 DEF Regs
  <2>5. /\ n <= n /\ n - n + 1 <= Len(stack) /\ DOMAIN regs = 1 .. (n - n + 1)
        /\ Len(regs) = n - n + 1 /\ Range(regs) = n .. n
        /\ \A k \in 1 .. (n - n + 1) : regs[k] = n - k + 1
    BY <1>2, <2>3, <2>4
  <2> QED
    BY <2>4, <2>5 DEF i, raw, regs
<1>4. CASE i.op = "ldm"
  <2> DEFINE c == Count(raw)
             t == raw[4] % 8
             b == t - c + 1
  <2>1. raw[2] \in {16, 32, 48} /\ raw[4] \in Byte
    BY <1>1, <1>4 DEF At
  <2>2. c \in 2 .. 4 /\ t \in 0 .. 7
    <3> HIDE DEF raw
    <3>1. c = 2 \/ c = 3 \/ c = 4
      BY <2>1 DEF Count, Hi
    <3>2. t \in 0 .. 7
      BY <2>1, Eighth
    <3> QED
      BY <3>1, <3>2
  <2>3. regs = [k \in 1 .. c |-> t - k + 1]
    BY <1>4 DEF Loaded
  <2> HIDE DEF i, raw, regs, c, t
  <2>4. Range(regs) = b .. t
    <3>1. ASSUME NEW r \in b .. t PROVE r \in Range(regs)
      <4>1. t - r + 1 \in 1 .. c /\ regs[t - r + 1] = r
        BY <2>2, <2>3
      <4> QED
        BY <2>3, <4>1 DEF Range
    <3>2. ASSUME NEW r \in Range(regs) PROVE r \in b .. t
      BY <2>2, <2>3 DEF Range
    <3> QED
      BY <3>1, <3>2
  <2>5. b \in Regs /\ t \in Regs
    <3>1. b \in b .. t /\ t \in b .. t
      BY <2>2
    <3> QED
      BY <1>2, <2>4, <3>1
  <2>6. t - b + 1 = c /\ Len(regs) = c
    BY <2>2, <2>3
  <2> QED
    BY <1>2, <2>2, <2>3, <2>4, <2>5, <2>6 DEF i, raw, regs
<1> QED
  BY <1>2, <1>3, <1>4

\* Every step goes on to an instruction of the image, or to its end.
LEMMA AdvanceIs ==
  ASSUME Typed, Aligned, Advance
  PROVE  /\ image' = image /\ pos < Len(image)
         /\ pos' \in 0 .. Len(image) /\ pos' > pos /\ Aligned'
<1>1. image' = image /\ pos < Len(image) /\ pos' = pos + Here.len
  BY DEF Advance
<1>2. Len(image) \in Nat /\ pos \in Nat
  BY LenProperties DEF Typed
<1>3. At(Here, Raw, Rest(image, pos)) /\ Len(Rest(image, pos)) = Len(image) - pos
  BY <1>1, <1>2, HereIs DEF Typed
<1> DEFINE len == Here.len
<1>4. /\ len \in Nat \ {0} /\ len <= Len(image) - pos
      /\ len % 2 = 0 \/ len = Len(image) - pos
  BY <1>3 DEF At
<1> HIDE DEF len
<1>5. pos' = pos + len
  BY <1>1 DEF len
<1>6. pos' \in 0 .. Len(image) /\ pos' > pos
  BY <1>2, <1>4, <1>5
<1>7. pos' % 2 = 0 \/ pos' = Len(image)
  BY <1>1, <1>2, <1>4, <1>5 DEF Aligned
<1> QED
  BY <1>1, <1>6, <1>7 DEF Aligned

LEMMA SaveKeeps ==
  ASSUME SweepInv, Save
  PROVE  SweepInv'
<1> USE DEF SweepInv
<1>1. Advance /\ Saving /\ e' = e /\ image' = image
  BY DEF Save, Advance
<1>2. pos < Len(image) /\ pos' \in 0 .. Len(image) /\ pos' > pos /\ Aligned'
  BY <1>1, AdvanceIs
<1> DEFINE regs == Stored(Here, Raw)
           kept == [k \in DOMAIN regs |-> e[regs[k]]]
           f == [regs |-> Range(regs), held |-> e, below |-> stack]
<1>3. stack' = Reverse(kept) \o stack /\ frames' = <<f>> \o frames
  BY DEF Save
<1>4. PICK b \in Regs, t \in Regs :
        /\ b <= t /\ t - b + 1 <= 4 /\ DOMAIN regs = 1 .. (t - b + 1)
        /\ Range(regs) = b .. t
        /\ \A k \in 1 .. (t - b + 1) : regs[k] = b + k - 1
  BY <1>1, <1>2, SavedAre
<1> HIDE DEF regs
<1> DEFINE c == t - b + 1
<1>5. /\ e \in [Regs -> Int] /\ stack \in Seq(Int) /\ Len(stack) \in Nat
      /\ frames \in Seq(Frame) /\ Len(frames) \in Nat
      /\ c \in 1 .. 4 /\ b \in Int /\ t \in Int
  BY <1>4, LenProperties DEF Typed, Regs
<1> HIDE DEF c
<1>6. kept = [k \in 1 .. c |-> e[b + k - 1]]
  BY <1>4 DEF c
<1>7. kept \in Seq(Int) /\ Len(kept) = c
  <2>1. \A k \in 1 .. c : b + k - 1 \in Regs
    <3>1. b >= 0 /\ t <= 6 /\ b + c - 1 = t
      BY <1>4, <1>5, SMTT(30) DEF c, Regs
    <3> QED
      BY <1>5, <3>1 DEF Regs
  <2>2. \A k \in 1 .. c : e[b + k - 1] \in Int
    BY <1>5, <2>1
  <2> HIDE DEF kept
  <2> QED
    BY <1>5, <1>6, <2>2
<1>8. /\ Reverse(kept) \in Seq(Int) /\ Len(Reverse(kept)) = c
      /\ \A k \in 1 .. c : Reverse(kept)[k] = e[t - k + 1]
  <2> HIDE DEF kept
  <2>1. Reverse(kept) = [k \in 1 .. c |-> kept[(c - k) + 1]]
    BY <1>7 DEF Reverse
  <2>2. \A k \in 1 .. c : (c - k) + 1 \in 1 .. c /\ b + ((c - k) + 1) - 1 = t - k + 1
    BY <1>5 DEF c
  <2>3. \A k \in 1 .. c : kept[(c - k) + 1] = e[t - k + 1]
    BY <1>6, <2>2
  <2>4. \A k \in 1 .. c : kept[(c - k) + 1] \in Int
    BY <1>7, <2>2, ElementOfSeq
  <2> QED
    BY <1>5, <2>1, <2>3, <2>4
<1> HIDE DEF kept
<1>9. /\ stack' \in Seq(Int) /\ Len(stack') = c + Len(stack)
      /\ \A k \in 1 .. c : stack'[k] = e[t - k + 1]
      /\ \A k \in 1 .. Len(stack) : stack'[c + k] = stack[k]
  <2>1. /\ stack' \in Seq(Int) /\ Len(stack') = c + Len(stack)
        /\ \A k \in 1 .. c + Len(stack) :
             stack'[k] = IF k <= c THEN Reverse(kept)[k] ELSE stack[k - c]
    BY <1>3, <1>5, <1>8, ConcatProperties, SMTT(30)
  <2>2. \A k \in 1 .. c : k \in 1 .. c + Len(stack) /\ k <= c
    BY <1>5
  <2>3. \A k \in 1 .. Len(stack) :
           c + k \in 1 .. c + Len(stack) /\ ~(c + k <= c) /\ (c + k) - c = k
    BY <1>5
  <2>4. \A k \in 1 .. c : stack'[k] = e[t - k + 1]
    BY <1>8, <2>1, <2>2
  <2>5. \A k \in 1 .. Len(stack) : stack'[c + k] = stack[k]
    <3> TAKE k \in 1 .. Len(stack)
    <3>1. stack'[c + k] = IF c + k <= c THEN Reverse(kept)[c + k] ELSE stack[(c + k) - c]
      BY <2>1, <2>3
    <3> QED
      BY <2>3, <3>1
  <2> QED
    BY <2>1, <2>4, <2>5
<1>10. /\ f \in Frame /\ f.regs = b .. t /\ f.held = e /\ f.below = stack
  <2>1. b .. t \in SUBSET Regs
    BY <1>4, <1>5, SMTT(30) DEF Regs
  <2> QED
    BY <1>4, <1>5, <2>1 DEF Frame
<1> HIDE DEF f
<1>11. Holds(f, stack')
  <2>1. Len(stack') = c + Len(f.below)
    BY <1>9, <1>10
  <2>2. \A k \in 1 .. c : stack'[k] = f.held[t - k + 1]
    BY <1>9, <1>10
  <2>3. \A k \in 1 .. Len(f.below) : stack'[c + k] = f.below[k]
    BY <1>9, <1>10
  <2>4. f.regs = b .. t
    BY <1>10
  <2>5. b \in Regs /\ t \in Regs /\ b <= t
    BY <1>4
  <2> QED
    BY <2>1, <2>2, <2>3, <2>4, <2>5 DEF Holds, c
<1>12. /\ frames' \in Seq(Frame) /\ Len(frames') = Len(frames) + 1
       /\ frames'[1] = f
       /\ \A n \in 1 .. Len(frames) : frames'[n + 1] = frames[n]
  <2>1. <<f>> \in Seq(Frame) /\ Len(<<f>>) = 1 /\ <<f>>[1] = f
    BY <1>10
  <2> DEFINE one == <<f>>
  <2> HIDE DEF one
  <2>2. /\ frames' \in Seq(Frame) /\ Len(frames') = 1 + Len(frames)
        /\ \A n \in 1 .. 1 + Len(frames) :
             frames'[n] = IF n <= 1 THEN one[n] ELSE frames[n - 1]
    BY <1>3, <1>5, <2>1, ConcatProperties DEF one
  <2> QED
    BY <1>5, <2>1, <2>2 DEF one
<1>13. Chained'
  <2>1. ASSUME NEW n \in 1 .. (Len(frames') - 1)
        PROVE  Holds(frames'[n + 1], frames'[n].below)
    <3>1. CASE n = 1
      <4>1. frames'[n + 1] = frames[1] /\ frames'[n].below = stack /\ frames # << >>
        BY <1>5, <1>10, <1>12, <2>1, <3>1
      <4> QED
        BY <4>1 DEF Chained
    <3>2. CASE n # 1
      <4>1. n - 1 \in 1 .. (Len(frames) - 1) /\ n \in 1 .. Len(frames) /\ (n - 1) + 1 = n
        BY <1>5, <1>12, <2>1, <3>2, SMTT(30)
      <4>2. frames'[n + 1] = frames[n] /\ frames'[n] = frames[n - 1]
        BY <1>12, <4>1
      <4> QED
        BY <4>1, <4>2 DEF Chained
    <3> QED
      BY <3>1, <3>2
  <2> QED
    BY <1>11, <1>12, <2>1 DEF Chained
<1>14. Typed'
  <2>1. Len(stack') <= 4 * pos'
    <3>1. Len(stack) <= 4 * pos /\ pos \in Nat
      BY DEF Typed
    <3>2. pos' \in Int /\ pos' >= pos + 1
      <4>1. Len(image) \in Nat
        BY LenProperties DEF Typed
      <4> QED
        BY <1>2, <3>1, <4>1
    <3>3. c + Len(stack) <= 4 * (pos + 1)
      BY <1>5, <3>1
    <3> QED
      BY <1>5, <1>9, <3>1, <3>2, <3>3
  <2> QED
    BY <1>1, <1>2, <1>5, <1>9, <1>12, <2>1 DEF Typed
<1> QED
  BY <1>2, <1>13, <1>14

\* What a restore loads, and where it leaves the stack.
LEMMA RestoreIs ==
  ASSUME Typed, pos < Len(image), Restore
  PROVE  \E b \in Regs, t \in Regs :
           /\ b <= t /\ Range(Loaded(Here, Raw)) = b .. t
           /\ e' \in [Regs -> Int]
           /\ \A r \in b .. t : e'[r] = stack[t - r + 1]
           /\ stack' \in Seq(Int) /\ Len(stack') = Len(stack) - (t - b + 1)
           /\ \A k \in 1 .. Len(stack') : stack'[k] = stack[(t - b + 1) + k]
<1> DEFINE regs == Loaded(Here, Raw)
<1>1. /\ Restoring
      /\ e' = [r \in Regs |-> IF r \in Range(regs)
                               THEN stack[CHOOSE k \in DOMAIN regs : regs[k] = r] ELSE e[r]]
      /\ stack' = SubSeq(stack, Len(regs) + 1, Len(stack))
  BY DEF Restore
<1>2. PICK b \in Regs, t \in Regs :
        /\ b <= t /\ t - b + 1 <= Len(stack) /\ DOMAIN regs = 1 .. (t - b + 1)
        /\ Len(regs) = t - b + 1 /\ Range(regs) = b .. t
        /\ \A k \in 1 .. (t - b + 1) : regs[k] = t - k + 1
  BY <1>1, LoadedAre
<1> DEFINE c == t - b + 1
<1> HIDE DEF regs
<1>3. /\ e \in [Regs -> Int] /\ stack \in Seq(Int) /\ Len(stack) \in Nat
      /\ b \in Int /\ t \in Int /\ c \in Nat \ {0} /\ c <= Len(stack)
      /\ \A k \in 1 .. Len(stack) : stack[k] \in Int
  <2>1. e \in [Regs -> Int] /\ stack \in Seq(Int) /\ Len(stack) \in Nat
    BY LenProperties DEF Typed
  <2>2. b \in Int /\ t \in Int /\ c \in Nat \ {0} /\ c <= Len(stack)
    BY <1>2 DEF Regs
  <2>3. \A k \in 1 .. Len(stack) : stack[k] \in Int
    BY <2>1, ElementOfSeq
  <2> QED
    BY <2>1, <2>2, <2>3
<1>4. ASSUME NEW r \in b .. t
      PROVE  (CHOOSE k \in DOMAIN regs : regs[k] = r) = t - r + 1
  <2>1. t - r + 1 \in DOMAIN regs /\ regs[t - r + 1] = r
    <3>1. t - r + 1 \in 1 .. (t - b + 1) /\ t - (t - r + 1) + 1 = r
      BY <1>3
    <3> QED
      BY <1>2, <3>1
  <2>2. ASSUME NEW k \in DOMAIN regs, regs[k] = r PROVE k = t - r + 1
    <3>1. k \in Int /\ r \in Int /\ t \in Int /\ r = t - k + 1
      BY <1>2, <1>3, <2>2
    <3> QED
      BY <3>1, SMTT(30)
  <2> QED
    BY <2>1, <2>2
<1>5. \A r \in b .. t : r \in Regs /\ e'[r] = stack[t - r + 1] /\ e'[r] \in Int
  <2> TAKE r \in b .. t
  <2>1. r \in Range(regs) /\ r \in Regs
    <3>1. r \in Regs
      BY DEF Regs
    <3> QED
      BY <1>2, <3>1
  <2>2. e'[r] = stack[t - r + 1]
    BY <1>1, <1>4, <2>1
  <2>3. t - r + 1 \in 1 .. Len(stack)
    BY <1>2, <1>3
  <2> QED
    BY <1>3, <2>1, <2>2, <2>3
<1>6. e' \in [Regs -> Int]
  <2>1. ASSUME NEW r \in Regs PROVE e'[r] \in Int
    <3>1. CASE r \in b .. t
      BY <1>5, <3>1
    <3>2. CASE r \notin b .. t
      BY <1>1, <1>2, <1>3, <3>2
    <3> QED
      BY <3>1, <3>2
  <2>2. DOMAIN e' = Regs /\ e' = [r \in Regs |-> e'[r]]
    BY <1>1
  <2> QED
    BY <2>1, <2>2
<1>7. /\ stack' \in Seq(Int) /\ Len(stack') = Len(stack) - c
      /\ \A k \in 1 .. Len(stack') : stack'[k] = stack[c + k]
  <2> HIDE DEF c
  <2>1. stack' = SubSeq(stack, c + 1, Len(stack))
    BY <1>1, <1>2 DEF c
  <2>2. \A k \in (c + 1) .. Len(stack) : stack[k] \in Int
    BY <1>3
  <2>3. /\ stack' \in Seq(Int)
        /\ Len(stack') = IF c + 1 <= Len(stack) THEN Len(stack) - (c + 1) + 1 ELSE 0
        /\ \A k \in 1 .. Len(stack) - (c + 1) + 1 : stack'[k] = stack[(c + 1) + k - 1]
    BY <1>3, <2>1, <2>2, SubSeqProperties
  <2>4. Len(stack') = Len(stack) - c
    BY <1>3, <2>3
  <2>5. ASSUME NEW k \in 1 .. Len(stack') PROVE stack'[k] = stack[c + k]
    <3>1. k \in 1 .. Len(stack) - (c + 1) + 1 /\ (c + 1) + k - 1 = c + k
      BY <1>3, <2>4
    <3> QED
      BY <2>3, <3>1
  <2> QED
    BY <2>3, <2>4, <2>5
<1> QED
  BY <1>2, <1>5, <1>6, <1>7 DEF regs

\* A restore that names what the newest frame saved undoes that save.
LEMMA RestoreUndoes ==
  ASSUME Typed, Chained, pos < Len(image), Restore, frames # << >>,
         frames[1].regs = Range(Loaded(Here, Raw))
  PROVE  /\ \A r \in frames[1].regs : e'[r] = frames[1].held[r]
         /\ stack' = frames[1].below
<1> DEFINE f == frames[1]
<1>1. PICK b \in Regs, t \in Regs :
        /\ b <= t /\ f.regs = b .. t
        /\ \A r \in b .. t : e'[r] = stack[t - r + 1]
        /\ stack' \in Seq(Int) /\ Len(stack') = Len(stack) - (t - b + 1)
        /\ \A k \in 1 .. Len(stack') : stack'[k] = stack[(t - b + 1) + k]
  BY RestoreIs
<1>2. PICK b0 \in Regs, t0 \in Regs :
        /\ b0 <= t0 /\ f.regs = b0 .. t0
        /\ Len(stack) = (t0 - b0 + 1) + Len(f.below)
        /\ \A k \in 1 .. (t0 - b0 + 1) : stack[k] = f.held[t0 - k + 1]
        /\ \A k \in 1 .. Len(f.below) : stack[(t0 - b0 + 1) + k] = f.below[k]
  BY DEF Chained, Holds
<1>3. f \in Frame
  <2>1. Len(frames) \in Nat \ {0}
    BY EmptySeq DEF Typed
  <2> QED
    BY <2>1, ElementOfSeq DEF Typed
<1> HIDE DEF f
<1>4. b \in Int /\ t \in Int /\ b0 \in Int /\ t0 \in Int
  BY DEF Regs
<1>5. b0 = b /\ t0 = t
  <2>1. b \in b0 .. t0 /\ t \in b0 .. t0 /\ b0 \in b .. t /\ t0 \in b .. t
    BY <1>1, <1>2, <1>4
  <2> QED
    BY <1>4, <2>1
<1>6. ASSUME NEW r \in b .. t PROVE e'[r] = f.held[r]
  <2>1. t - r + 1 \in 1 .. (t - b + 1) /\ t - (t - r + 1) + 1 = r
    BY <1>4
  <2> QED
    BY <1>1, <1>2, <1>5, <2>1
<1>7. f.below \in Seq(Int) /\ Len(f.below) \in Nat
  <2>1. f.below \in Seq(Int)
    BY <1>3 DEF Frame
  <2> QED
    BY <2>1, LenProperties
<1>8. Len(stack') = Len(f.below)
  BY <1>1, <1>2, <1>4, <1>5, <1>7
<1>9. \A k \in 1 .. Len(stack') : stack'[k] = f.below[k]
  BY <1>1, <1>2, <1>5, <1>8
<1>10. stack' = f.below
  BY <1>1, <1>7, <1>8, <1>9, SeqEqual
<1> QED
  BY <1>1, <1>6, <1>10 DEF f

LEMMA RestoreKeeps ==
  ASSUME SweepInv, Restore
  PROVE  SweepInv'
<1> USE DEF SweepInv
<1>1. Advance /\ image' = image
  BY DEF Restore, Advance
<1>2. pos < Len(image) /\ pos' \in 0 .. Len(image) /\ pos' > pos /\ Aligned'
  BY <1>1, AdvanceIs
<1>3. PICK b \in Regs, t \in Regs :
        /\ b <= t /\ e' \in [Regs -> Int]
        /\ stack' \in Seq(Int) /\ Len(stack') = Len(stack) - (t - b + 1)
  BY <1>2, RestoreIs
<1>4. /\ Len(stack) \in Nat /\ Len(image) \in Nat /\ pos \in Nat
      /\ frames \in Seq(Frame) /\ Len(stack) <= 4 * pos
  BY LenProperties DEF Typed
<1> DEFINE same == frames # << >> /\ frames[1].regs = Range(Loaded(Here, Raw))
<1>5. frames' = IF same THEN Tail(frames) ELSE << >>
  BY DEF Restore
<1>6. Len(stack') <= 4 * pos'
  <2>1. b \in Int /\ t \in Int
    BY DEF Regs
  <2>2. pos' \in Int
    BY <1>2, <1>4
  <2> QED
    BY <1>2, <1>3, <1>4, <2>1, <2>2, SMTT(30)
<1>7. CASE same
  <2>1. /\ frames' \in Seq(Frame) /\ Len(frames') = Len(frames) - 1
        /\ \A n \in 1 .. Len(frames') : frames'[n] = frames[n + 1]
    BY <1>4, <1>5, <1>7, HeadTailProperties
  <2>2. stack' = frames[1].below
    BY <1>2, <1>7, RestoreUndoes
  <2>3. Len(frames) \in Nat
    BY <1>4, LenProperties
  <2>4. ASSUME frames' # << >> PROVE Holds(frames'[1], stack')
    <3>1. Len(frames') \in Nat \ {0}
      BY <2>1, <2>4, EmptySeq
    <3>2. 1 \in 1 .. (Len(frames) - 1) /\ 1 \in 1 .. Len(frames')
      BY <2>1, <2>3, <3>1
    <3> QED
      BY <2>1, <2>2, <3>2 DEF Chained
  <2>5. ASSUME NEW n \in 1 .. (Len(frames') - 1)
        PROVE  Holds(frames'[n + 1], frames'[n].below)
    <3>1. /\ n + 1 \in 1 .. (Len(frames) - 1)
          /\ n \in 1 .. Len(frames') /\ n + 1 \in 1 .. Len(frames')
      BY <2>1, <2>3
    <3> QED
      BY <2>1, <3>1 DEF Chained
  <2>6. Chained'
    BY <2>4, <2>5 DEF Chained
  <2> QED
    BY <1>1, <1>2, <1>3, <1>6, <2>1, <2>6 DEF Typed
<1>8. CASE ~same
  <2>1. frames' = << >>
    BY <1>5, <1>8
  <2>2. Chained' /\ frames' \in Seq(Frame)
    BY <2>1 DEF Chained
  <2> QED
    BY <1>1, <1>2, <1>3, <1>6, <2>2 DEF Typed
<1> QED
  BY <1>7, <1>8

LEMMA OtherKeeps ==
  ASSUME SweepInv, Other
  PROVE  SweepInv'
<1> USE DEF SweepInv
<1>1. Advance /\ image' = image /\ e' = [r \in Regs |-> (e[r] + 8) % 64]
  BY DEF Other, Advance
<1>2. pos < Len(image) /\ pos' \in 0 .. Len(image) /\ pos' > pos /\ Aligned'
  BY <1>1, AdvanceIs
<1>3. /\ Len(stack) \in Nat /\ Len(image) \in Nat /\ pos \in Nat
      /\ Len(stack) <= 4 * pos
  BY LenProperties DEF Typed
<1>4. e' \in [Regs -> Int]
  <2>1. \A r \in Regs : e[r] \in Int
    BY DEF Typed
  <2>2. \A r \in Regs : (e[r] + 8) % 64 \in Int
    BY <2>1
  <2> QED
    BY <1>1, <2>2
<1>5. \/ stack' = << >> /\ frames' = << >>
      \/ stack' = stack /\ frames' = frames
  BY DEF Other
<1>6. CASE stack' = << >> /\ frames' = << >>
  <2>1. stack' \in Seq(Int) /\ Len(stack') = 0 /\ frames' \in Seq(Frame) /\ Chained'
    BY <1>6 DEF Chained
  <2>2. 0 <= 4 * pos'
    <3>1. pos' \in Nat
      BY <1>2, <1>3
    <3>2. \A n \in Nat : 0 <= 4 * n
      OBVIOUS
    <3> QED
      BY <3>1, <3>2
  <2> QED
    BY <1>1, <1>2, <1>4, <2>1, <2>2 DEF Typed
<1>7. CASE stack' = stack /\ frames' = frames
  <2>1. Chained' /\ stack' \in Seq(Int) /\ frames' \in Seq(Frame)
    BY <1>7 DEF Chained, Typed
  <2>2. Len(stack') <= 4 * pos'
    BY <1>2, <1>3, <1>7
  <2> QED
    BY <1>1, <1>2, <1>4, <2>1, <2>2 DEF Typed
<1> QED
  BY <1>5, <1>6, <1>7

-----------------------------------------------------------------------------
(* What holds of every sweep of every image. *)

LEMMA SweepInvInit == Init => SweepInv
<1> SUFFICES ASSUME Init PROVE SweepInv
  OBVIOUS
<1>1. image \in Seq(Byte) /\ pos = 0
  BY ImagesAssumption DEF Init
<1>2. e \in [Regs -> Int] /\ stack = << >> /\ frames = << >>
  BY DEF Init, Regs
<1>3. Len(image) \in Nat
  BY <1>1, LenProperties
<1> QED
  BY <1>1, <1>2, <1>3 DEF SweepInv, Typed, Aligned, Chained

LEMMA SweepInvNext == SweepInv /\ [Next]_vars => SweepInv'
<1> SUFFICES ASSUME SweepInv, [Next]_vars PROVE SweepInv'
  OBVIOUS
<1>1. CASE Save
  BY <1>1, SaveKeeps
<1>2. CASE Restore
  BY <1>2, RestoreKeeps
<1>3. CASE Other
  BY <1>3, OtherKeeps
<1>4. CASE UNCHANGED vars
  BY <1>4 DEF vars, SweepInv, Typed, Aligned, Chained
<1> QED
  BY <1>1, <1>2, <1>3, <1>4 DEF Next

\* The inductive invariant of the sweep: the types, the alignment of what is
\* decoded, and every frame lying on the stack above the one before it.
THEOREM SweepInvHolds == Spec => []SweepInv
BY SweepInvInit, SweepInvNext, PTL DEF Spec

LEMMA SweepInvTyped == SweepInv => BodyTypeOK
<1> SUFFICES ASSUME SweepInv PROVE BodyTypeOK
  OBVIOUS
<1>1. Len(image) \in Nat /\ Len(stack) \in Nat
  BY LenProperties DEF SweepInv, Typed
<1>2. Len(stack) <= 4 * pos /\ pos <= Len(image) /\ pos \in Nat
  BY <1>1 DEF SweepInv, Typed
<1> QED
  BY <1>1, <1>2 DEF SweepInv, Typed, BodyTypeOK

\* No decode takes bytes that are not there.
THEOREM BodyTypeHolds == Spec => []BodyTypeOK
BY SweepInvHolds, SweepInvTyped, PTL

LEMMA SweepInvAt ==
  ASSUME SweepInv, pos < Len(image)
  PROVE  At(Here, Raw, Rest(image, pos))
<1>1. image \in Seq(Byte) /\ pos \in Nat
  BY LenProperties DEF SweepInv, Typed
<1> QED
  BY <1>1, HereIs

LEMMA SweepInvEmits == SweepInv => EmitTotal
BY SweepInvAt DEF At, Emitted, EmitTotal

\* The emitter is total on what the decoder returns: statements for it with
\* the operands and the size they need, or UNIMPLEMENTED.
THEOREM EmitIsTotal == Spec => []EmitTotal
BY SweepInvHolds, SweepInvEmits, PTL

LEMMA SweepInvTransfers == SweepInv => TransfersAgree
BY SweepInvAt DEF At, Transferring, TransfersAgree

\* The condition and the indirect target the emitter reads from the bytes
\* again are those decoded.
THEOREM TransfersHold == Spec => []TransfersAgree
BY SweepInvHolds, SweepInvTransfers, PTL

\* An epilogue undoes its prologue, at every nesting of frames.
THEOREM FramesAreRestored == Spec => FramesRestore
<1> DEFINE Undone ==
      pos < Len(image) /\ Restoring /\ frames # << >>
        /\ frames[1].regs = Range(Loaded(Here, Raw))
      => /\ \A r \in frames[1].regs : e'[r] = frames[1].held[r]
         /\ stack' = frames[1].below
<1>1. SweepInv /\ [Next]_vars => [Undone]_vars
  <2> SUFFICES ASSUME SweepInv, Next, pos < Len(image), Restoring, frames # << >>,
                      frames[1].regs = Range(Loaded(Here, Raw))
               PROVE  /\ \A r \in frames[1].regs : e'[r] = frames[1].held[r]
                      /\ stack' = frames[1].below
    OBVIOUS
  <2>1. ~Save
    BY DEF Save, Saving, Restoring
  <2>2. ~Other
    BY DEF Other
  <2>3. Restore
    BY <2>1, <2>2 DEF Next
  <2> QED
    BY <2>3, RestoreUndoes DEF SweepInv
<1>2. Spec => [][Undone]_vars
  BY <1>1, SweepInvHolds, PTL DEF Spec
<1> QED
  BY <1>2 DEF FramesRestore

-----------------------------------------------------------------------------
(* The prefix 01 00. *)

\* The same move with the opcode at two places.
Alike(long, short) ==
  /\ long # Unk /\ long.len = short.len + 2
  /\ long.dst.mode = short.dst.mode /\ long.src.mode = short.src.mode
  /\ short.op = "mov" => long.size = "l"

LEMMA InsnFields ==
  \A op, size, len, dst, src :
    LET i == Insn(op, size, len, dst, src)
    IN  /\ i.op = op /\ i.size = size /\ i.len = len /\ i.dst = dst /\ i.src = src
        /\ i.kind = "seq" /\ i # Unk
<1> SUFFICES ASSUME NEW op, NEW size, NEW len, NEW dst, NEW src
             PROVE  LET i == Insn(op, size, len, dst, src)
                    IN  /\ i.op = op /\ i.size = size /\ i.len = len /\ i.dst = dst
                        /\ i.src = src /\ i.kind = "seq" /\ i # Unk
  OBVIOUS
<1> DEFINE i == Insn(op, size, len, dst, src)
<1>1. /\ i.op = op /\ i.size = size /\ i.len = len /\ i.dst = dst /\ i.src = src
      /\ i.kind = "seq"
  BY DEF Insn
<1>2. Unk.kind = "unk"
  BY DEF Unk, Bare, Insn
<1> HIDE DEF i
<1>3. i # Unk
  BY <1>1, <1>2
<1> QED
  BY <1>1, <1>3 DEF i

LEMMA AlikeMoves ==
  ASSUME NEW size, NEW len \in Int, NEW n, NEW n0, NEW mem
  PROVE  /\ Alike(Insn("mov", "l", 2 + len, mem, R(n)), Insn("mov", size, 0 + len, mem, R(n0)))
         /\ Alike(Insn("mov", "l", 2 + len, R(n), mem), Insn("mov", size, 0 + len, R(n0), mem))
<1>1. R(n).mode = R(n0).mode
  BY Modes
<1>2. 2 + len = (0 + len) + 2
  OBVIOUS
<1>3. Alike(Insn("mov", "l", 2 + len, mem, R(n)), Insn("mov", size, 0 + len, mem, R(n0)))
  BY <1>1, <1>2, InsnFields DEF Alike
<1>4. Alike(Insn("mov", "l", 2 + len, R(n), mem), Insn("mov", size, 0 + len, R(n0), mem))
  BY <1>1, <1>2, InsnFields DEF Alike
<1> QED
  BY <1>3, <1>4

LEMMA BitsAlike ==
  ASSUME NEW w, NEW v, Len(v) \in Nat, Len(w) = Len(v) + 2, NEW need \in {6, 8},
         w[2 + need - 1] = v[0 + need - 1], BitAbs(v, 0, need) # Unk
  PROVE  Alike(BitAbs(w, 2, need), BitAbs(v, 0, need))
<1> DEFINE op == BitNamed(v[0 + need - 1])
<1>1. ~(Len(v) < 0 + need)
  BY DEF BitAbs
<1>2. ~(Len(w) < 2 + need)
  BY <1>1
<1>3. BitAbs(v, 0, need) = Insn(op, "", 0 + need, Abs, Imm)
  BY <1>1 DEF BitAbs, Total
<1>4. BitAbs(w, 2, need) = Insn(op, "", 2 + need, Abs, Imm)
  BY <1>2 DEF BitAbs, Total
<1>5. op # "mov"
  BY BitNamedIs
<1>6. 2 + need = (0 + need) + 2
  OBVIOUS
<1> HIDE DEF op
<1>7. Alike(Insn(op, "", 2 + need, Abs, Imm), Insn(op, "", 0 + need, Abs, Imm))
  <2> DEFINE long == Insn(op, "", 2 + need, Abs, Imm)
             short == Insn(op, "", 0 + need, Abs, Imm)
  <2>1. long.kind = "seq" /\ long.len = 2 + need /\ long.dst = Abs /\ long.src = Imm
    BY DEF Insn
  <2>2. short.op = op /\ short.len = 0 + need /\ short.dst = Abs /\ short.src = Imm
    BY DEF Insn
  <2>3. Unk.kind = "unk"
    BY DEF Unk, Bare, Insn
  <2> HIDE DEF long, short
  <2>4. long # Unk
    BY <2>1, <2>3
  <2>5. long.len = short.len + 2
    BY <1>6, <2>1, <2>2
  <2>6. Alike(long, short)
    BY <1>5, <2>1, <2>2, <2>4, <2>5 DEF Alike
  <2> QED
    BY <2>6 DEF long, short
<1> QED
  BY <1>3, <1>4, <1>7

LEMMA MovesAlike ==
  ASSUME NEW w, NEW v, Len(v) \in Nat, Len(v) >= 2, Len(w) = Len(v) + 2,
         \A k \in 1 .. Len(v) : w[k + 2] = v[k], v[2] \in Byte,
         NEW form \in {8, 10, 12, 14}, NEW size, MovEa(v, form, size, 0) # Unk
  PROVE  Alike(MovEa(w, form, "l", 2), MovEa(v, form, size, 0))
<1> DEFINE b1 == v[2]
           mode == Hi(b1)
           n == Lo(b1) % 8
           n0 == IF size = "l" THEN Lo(b1) % 8 ELSE Lo(b1)
           long == MovEa(w, form, "l", 2)
           short == MovEa(v, form, size, 0)
           longst(len, ea) == Insn("mov", "l", 2 + len, ea, R(n))
           longld(len, ea) == Insn("mov", "l", 2 + len, R(n), ea)
           shortst(len, ea) == Insn("mov", size, 0 + len, ea, R(n0))
           shortld(len, ea) == Insn("mov", size, 0 + len, R(n0), ea)
<1> SUFFICES ASSUME short # Unk PROVE Alike(long, short)
  OBVIOUS
<1>1. w[2 + 2] = b1 /\ v[0 + 2] = b1
  OBVIOUS
<1>2. mode \in 0 .. 15
  BY Halves
<1>a. ASSUME NEW len \in Int, NEW ea,
             \/ long = longst(len, ea) /\ short = shortst(len, ea)
             \/ long = longld(len, ea) /\ short = shortld(len, ea)
      PROVE  Alike(long, short)
  <2>1. Alike(longst(len, ea), shortst(len, ea)) /\ Alike(longld(len, ea), shortld(len, ea))
    BY AlikeMoves
  <2> HIDE DEF long, short, longst, longld, shortst, shortld
  <2> QED
    BY <1>a, <2>1
<1>3. CASE form = 8
  <2>1. long = IF Top(b1) THEN longst(2, Operand("ind", mode % 8))
               ELSE longld(2, Operand("ind", mode % 8))
    BY <1>1, <1>3 DEF MovEa, Total
  <2>2. short = IF Top(b1) THEN shortst(2, Operand("ind", mode % 8))
                ELSE shortld(2, Operand("ind", mode % 8))
    BY <1>1, <1>3 DEF MovEa, Total
  <2> HIDE DEF long, short, longst, longld, shortst, shortld
  <2> QED
    BY <1>a, <2>1, <2>2
<1>4. CASE form = 12
  <2>1. long = IF Top(b1) THEN longst(2, Operand("pd", mode % 8))
               ELSE longld(2, Operand("pi", mode % 8))
    BY <1>1, <1>4 DEF MovEa, Total
  <2>2. short = IF Top(b1) THEN shortst(2, Operand("pd", mode % 8))
                ELSE shortld(2, Operand("pi", mode % 8))
    BY <1>1, <1>4 DEF MovEa, Total
  <2> HIDE DEF long, short, longst, longld, shortst, shortld
  <2> QED
    BY <1>a, <2>1, <2>2
<1>5. CASE form = 14
  <2>1. long = IF ~(Len(w) >= 2 + 4) THEN Unk
               ELSE IF Top(b1) THEN longst(4, Operand("dsp", mode % 8))
               ELSE longld(4, Operand("dsp", mode % 8))
    BY <1>1, <1>5 DEF MovEa, Total
  <2>2. short = IF ~(Len(v) >= 0 + 4) THEN Unk
                ELSE IF Top(b1) THEN shortst(4, Operand("dsp", mode % 8))
                ELSE shortld(4, Operand("dsp", mode % 8))
    BY <1>1, <1>5 DEF MovEa, Total
  <2> HIDE DEF long, short, longst, longld, shortst, shortld
  <2>3. Len(v) >= 0 + 4
    BY <2>2
  <2>4. Len(w) >= 2 + 4
    BY <2>3
  <2> QED
    BY <1>a, <2>1, <2>2, <2>3, <2>4
<1>6. CASE form = 10 /\ mode \in {2, 10}
  <2>1. long = IF ~(Len(w) >= 2 + 6) THEN Unk
               ELSE IF mode = 10 THEN longst(6, Abs) ELSE longld(6, Abs)
    BY <1>1, <1>6 DEF MovEa, Total
  <2>2. short = IF ~(Len(v) >= 0 + 6) THEN Unk
                ELSE IF mode = 10 THEN shortst(6, Abs) ELSE shortld(6, Abs)
    BY <1>1, <1>6 DEF MovEa, Total
  <2> HIDE DEF long, short, longst, longld, shortst, shortld
  <2>3. Len(v) >= 0 + 6
    BY <2>2
  <2>4. Len(w) >= 2 + 6
    BY <2>3
  <2> QED
    BY <1>a, <2>1, <2>2, <2>3, <2>4
<1>7. CASE form = 10 /\ mode \notin {1, 2, 3, 9, 10, 11}
  <2>1. long = IF ~(Len(w) >= 2 + 4) THEN Unk
               ELSE IF mode = 8 THEN longst(4, Abs) ELSE longld(4, Abs)
    BY <1>1, <1>7 DEF MovEa, Total
  <2>2. short = IF ~(Len(v) >= 0 + 4) THEN Unk
                ELSE IF mode = 8 THEN shortst(4, Abs) ELSE shortld(4, Abs)
    BY <1>1, <1>7 DEF MovEa, Total
  <2> HIDE DEF long, short, longst, longld, shortst, shortld
  <2>3. Len(v) >= 0 + 4
    BY <2>2
  <2>4. Len(w) >= 2 + 4
    BY <2>3
  <2> QED
    BY <1>a, <2>1, <2>2, <2>3, <2>4
<1>8. CASE form = 10 /\ mode \in {1, 9}
  <2>1. long = BitAbs(w, 2, 6) /\ short = BitAbs(v, 0, 6)
    BY <1>1, <1>8 DEF MovEa
  <2> HIDE DEF long, short, longst, longld, shortst, shortld
  <2>2. ~(Len(v) < 0 + 6)
    BY <2>1 DEF BitAbs
  <2>3. w[2 + 6 - 1] = v[0 + 6 - 1]
    BY <2>2
  <2> QED
    BY <2>1, <2>3, BitsAlike
<1>9. CASE form = 10 /\ mode \in {3, 11}
  <2>1. long = BitAbs(w, 2, 8) /\ short = BitAbs(v, 0, 8)
    BY <1>1, <1>9 DEF MovEa
  <2> HIDE DEF long, short, longst, longld, shortst, shortld
  <2>2. ~(Len(v) < 0 + 8)
    BY <2>1 DEF BitAbs
  <2>3. w[2 + 8 - 1] = v[0 + 8 - 1]
    BY <2>2
  <2> QED
    BY <2>1, <2>3, BitsAlike
<1> QED
  BY <1>3, <1>4, <1>5, <1>6, <1>7, <1>8, <1>9

LEMMA FormIs == ASSUME NEW b \in 104 .. 111 PROVE (Lo(b) \div 2) * 2 \in {8, 10, 12, 14}
BY DEF Lo

LEMMA SweepInvPrefix == SweepInv => PrefixLong
<1> DEFINE w == Rest(image, pos)
           v == Rest(image, pos + 2)
           inner == Decode(image, pos + 2)
<1> SUFFICES ASSUME SweepInv, pos + 4 <= Len(image),
                    image[pos + 1] = 1, image[pos + 2] = 0, image[pos + 3] \in 104 .. 111,
                    inner # Unk
             PROVE  /\ Here.len = inner.len + 2
                    /\ Here.dst.mode = inner.dst.mode
                    /\ Here.src.mode = inner.src.mode
                    /\ inner.op = "mov" => Here.size = "l"
  BY DEF PrefixLong
<1>1. image \in Seq(Byte) /\ pos \in Nat /\ Len(image) \in Nat
  BY LenProperties DEF SweepInv, Typed
<1>2. /\ Len(w) = Len(image) - pos
      /\ \A k \in 1 .. (Len(image) - pos) : w[k] = image[pos + k]
  <2>1. pos <= Len(image)
    BY <1>1
  <2> QED
    BY <1>1, <2>1, RestIs
<1>3. /\ v \in Seq(Byte) /\ Len(v) = Len(image) - (pos + 2)
      /\ \A k \in 1 .. (Len(image) - (pos + 2)) : v[k] = image[(pos + 2) + k]
  <2>1. pos + 2 <= Len(image) /\ pos + 2 \in Nat
    BY <1>1
  <2> QED
    BY <1>1, <2>1, RestIs
<1> HIDE DEF w, v
<1>4. /\ Len(v) \in Nat /\ Len(v) >= 2 /\ Len(w) = Len(v) + 2
      /\ \A k \in 1 .. Len(v) : w[k + 2] = v[k]
  <2>1. Len(v) \in Nat /\ Len(v) >= 2 /\ Len(w) = Len(v) + 2
    BY <1>1, <1>2, <1>3
  <2>2. ASSUME NEW k \in 1 .. Len(v) PROVE w[k + 2] = v[k]
    <3>1. k + 2 \in 1 .. (Len(image) - pos) /\ pos + (k + 2) = (pos + 2) + k
      BY <1>1, <1>3
    <3> QED
      BY <1>2, <1>3, <3>1
  <2> QED
    BY <2>1, <2>2
<1>5. w[1] = 1 /\ w[2] = 0 /\ w[3] = v[1] /\ v[1] \in 104 .. 111 /\ v[2] \in Byte
  <2>1. w[1] = image[pos + 1] /\ w[2] = image[pos + 2] /\ w[3] = image[pos + 3]
    BY <1>1, <1>2
  <2>2. v[2] \in Byte /\ w[3] = v[1]
    BY <1>3, <1>4, ElementOfSeq
  <2> QED
    BY <2>1, <2>2
<1> DEFINE form == (Lo(v[1]) \div 2) * 2
           size == IF v[1] % 2 = 0 THEN "b" ELSE "w"
           short == MovEa(v, form, size, 0)
           long == MovEa(w, form, "l", 2)
<1>6. form \in {8, 10, 12, 14}
  BY <1>5, FormIs
<1>7. inner = short
  <2>1. inner = Row67(v)
    <3>1. Hi(v[1]) \in {6, 7}
      BY <1>5, SMTT(30) DEF Hi
    <3>2. pos + 2 \in Nat /\ (pos + 2) + 2 <= Len(image)
      BY <1>1
    <3> QED
      BY <1>1, <3>1, <3>2, DecodeRow DEF v
  <2>2. Row67(v) = short
    <3>1. CASE v[1] = 104
      BY <3>1 DEF Row67, Lo
    <3>2. CASE v[1] = 105
      BY <3>2 DEF Row67, Lo
    <3>3. CASE v[1] = 106
      BY <3>3 DEF Row67, Lo
    <3>4. CASE v[1] = 107
      BY <3>4 DEF Row67, Lo
    <3>5. CASE v[1] = 108
      BY <3>5 DEF Row67, Lo
    <3>6. CASE v[1] = 109
      BY <3>6 DEF Row67, Lo
    <3>7. CASE v[1] = 110
      BY <3>7 DEF Row67, Lo
    <3>8. CASE v[1] = 111
      BY <3>8 DEF Row67, Lo
    <3>9. v[1] \in {104, 105, 106, 107, 108, 109, 110, 111}
      BY <1>5
    <3> QED
      BY <3>1, <3>2, <3>3, <3>4, <3>5, <3>6, <3>7, <3>8, <3>9
  <2> QED
    BY <2>1, <2>2
<1>8. Alike(long, short)
  <2> HIDE DEF form, size
  <2> QED
    BY <1>4, <1>5, <1>6, <1>7, MovesAlike
<1>9. Here = PushPop(long)
  <2>1. Here = Row0(w)
    <3>1. Hi(w[1]) = 0
      BY <1>5 DEF Hi
    <3>2. pos + 2 <= Len(image)
      BY <1>1
    <3> QED
      BY <1>1, <3>1, <3>2, DecodeRow DEF Here, w
  <2>2. Row0(w) = Prefix01(w)
    BY <1>5 DEF Row0
  <2>3. Prefix01(w) = IF w[3] \in 104 .. 111 /\ long # Unk THEN PushPop(long)
                      ELSE IF w[3] = 120 /\ Len(w) >= 10
                        THEN IF Mov78(w, 2, "l") # Unk THEN Mov78(w, 2, "l")
                             ELSE Bare("mov", "l", 10)
                      ELSE Bare("mov", "l", 4)
    BY <1>4, <1>5 DEF Prefix01
  <2>4. long # Unk
    BY <1>8 DEF Alike
  <2> HIDE DEF long
  <2> QED
    BY <1>5, <2>1, <2>2, <2>3, <2>4
<1>10. /\ Here.len = long.len /\ Here.dst = long.dst /\ Here.src = long.src
       /\ Here.size = long.size
  <2> HIDE DEF long
  <2> QED
    BY <1>9 DEF PushPop
<1> HIDE DEF long, short, inner
<1> QED
  BY <1>7, <1>8, <1>10 DEF Alike

\* 01 00 before a move makes it long and changes nothing else about it.
THEOREM PrefixMakesLong == Spec => []PrefixLong
BY SweepInvHolds, SweepInvPrefix, PTL

-----------------------------------------------------------------------------
(* The seeds. *)

LEMMA HereBytes ==
  ASSUME image \in Seq(Byte), pos \in Nat, pos + 2 <= Len(image)
  PROVE  /\ Here.len \in {2, 4, 6, 8, 10} /\ pos + Here.len <= Len(image)
         /\ \A k \in 1 .. Here.len : Raw[k] = image[pos + k] /\ image[pos + k] \in Byte
         /\ Reserving(Here, Rest(image, pos))
         /\ Rest(image, pos)[1] = image[pos + 1] /\ Rest(image, pos)[2] = image[pos + 2]
<1> DEFINE w == Rest(image, pos)
           len == Here.len
<1>1. Len(image) \in Nat /\ pos <= Len(image)
  BY LenProperties
<1>2. /\ Len(w) = Len(image) - pos
      /\ \A k \in 1 .. (Len(image) - pos) : w[k] = image[pos + k]
  BY <1>1, RestIs
<1>3. len \in {2, 4, 6, 8, 10} /\ len <= Len(w) /\ Reserving(Here, w)
  BY DecodeDecoded DEF Here, Decoded, Fits
<1>4. Raw = SubSeq(image, pos + 1, pos + len)
  BY DEF Raw
<1> HIDE DEF len, w
<1>5. pos + len <= Len(image)
  BY <1>1, <1>2, <1>3
<1>6. \A k \in (pos + 1) .. (pos + len) : image[k] \in Byte
  <2>1. \A k \in (pos + 1) .. (pos + len) : k \in 1 .. Len(image)
    BY <1>1, <1>3, <1>5
  <2> QED
    BY <2>1, ElementOfSeq
<1>7. ASSUME NEW k \in 1 .. len PROVE Raw[k] = image[pos + k] /\ image[pos + k] \in Byte
  <2>1. \A m \in 1 .. (pos + len) - (pos + 1) + 1 : Raw[m] = image[(pos + 1) + m - 1]
    <3>1. pos + 1 \in Int /\ pos + len \in Int
      BY <1>3
    <3> QED
      BY <1>4, <1>6, <3>1, SubSeqProperties
  <2>2. /\ k \in 1 .. (pos + len) - (pos + 1) + 1 /\ (pos + 1) + k - 1 = pos + k
        /\ pos + k \in (pos + 1) .. (pos + len)
    BY <1>3
  <2> QED
    BY <1>6, <2>1, <2>2
<1>8. w[1] = image[pos + 1] /\ w[2] = image[pos + 2]
  BY <1>1, <1>2
<1> QED
  BY <1>3, <1>5, <1>7, <1>8 DEF len, w

\* A save decoded behind an instruction is where registers are saved.
LEMMA SaverSaves ==
  ASSUME image \in Seq(Byte), NEW a \in Nat, a % 2 = 0, a + 4 < Len(image),
         Decode(image, a).op \in {"stm", "push"}, image[a + 3] # 108
  PROVE  a \in Saves(image)
<1> DEFINE v == Rest(image, a)
           i == Decode(image, a)
<1>1. Len(image) \in Nat /\ a <= Len(image) /\ a + 2 <= Len(image)
  BY LenProperties
<1>2. /\ v \in Seq(Byte) /\ Len(v) = Len(image) - a
      /\ \A k \in 1 .. (Len(image) - a) : v[k] = image[a + k]
  BY <1>1, RestIs
<1>3. Framing(i, v)
  BY <1>1, DecodeDecoded DEF Decoded
<1> HIDE DEF i, v
<1>4. /\ v[1] = image[a + 1] /\ v[2] = image[a + 2] /\ v[3] = image[a + 3]
      /\ v[4] = image[a + 4]
  BY <1>1, <1>2
<1>5. /\ v[1] = 1 /\ v[2] \in {0, 16, 32, 48} /\ v[3] \in {108, 109} /\ Top(v[4])
  BY <1>3 DEF Framing, i
<1>6. Hi(v[2]) < 8 /\ Lo(v[2]) = 0
  <2>1. v[2] = 0 \/ v[2] = 16 \/ v[2] = 32 \/ v[2] = 48
    BY <1>5
  <2> QED
    BY <2>1 DEF Hi, Lo
<1>7. a \in 0 .. (Len(image) - 5)
  BY <1>1
<1>8. /\ image[a + 1] = 1 /\ image[a + 3] = 109
      /\ Hi(image[a + 2]) < 8 /\ Lo(image[a + 2]) = 0 /\ Top(image[a + 4])
  BY <1>4, <1>5, <1>6
<1> HIDE DEF Hi, Lo, Top
<1> QED
  BY <1>7, <1>8 DEF Saves

LEMMA EntryReserves ==
  ASSUME SweepInv, pos < Len(image), pos + Here.len + 4 < Len(image), Here.dst = R(7),
         \/ Here.op = "subs" /\ Hi(Raw[2]) = 9
         \/ /\ Here.op = "sub" /\ Here.size = "l" /\ Here.src = Imm
            /\ Raw[2] # 63 /\ ~(Raw[5] = 27 /\ Hi(Raw[6]) = 9)
  PROVE  /\ pos + Here.len \in Nat /\ (pos + Here.len) % 2 = 0
         /\ Reserves(image, pos + Here.len) = {pos}
<1> DEFINE w == Rest(image, pos)
           len == Here.len
<1>1. image \in Seq(Byte) /\ pos \in Nat /\ Len(image) \in Nat /\ pos % 2 = 0
  BY LenProperties DEF SweepInv, Typed, Aligned
<1>2. pos + 2 <= Len(image)
  <2>1. len \in Nat \ {0}
    BY SweepInvAt DEF At
  <2> HIDE DEF len
  <2>2. pos + len + 4 < Len(image)
    BY DEF len
  <2> QED
    BY <1>1, <2>1, <2>2
<1>3. /\ len \in {2, 4, 6, 8, 10}
      /\ \A k \in 1 .. len : Raw[k] = image[pos + k] /\ image[pos + k] \in Byte
      /\ Reserving(Here, w) /\ w[1] = image[pos + 1] /\ w[2] = image[pos + 2]
  BY <1>1, <1>2, HereBytes
<1>4. pos + len \in Nat /\ (pos + len) % 2 = 0
  <2> HIDE DEF len
  <2>1. len % 2 = 0 /\ len \in Nat
    BY <1>3
  <2> QED
    BY <1>1, <2>1
<1>5. CASE Here.op = "subs" /\ Hi(Raw[2]) = 9
  <2>1. len = 2 /\ w[1] = 27
    BY <1>3, <1>5 DEF Reserving
  <2>2. image[pos + 1] = 27 /\ Hi(image[pos + 2]) = 9
    BY <1>3, <1>5, <2>1
  <2> HIDE DEF len, w
  <2>3. (pos + len) - 1 = pos + 1 /\ pos + len = pos + 2 /\ (pos + len) - 2 = pos /\ pos + len >= 2
    BY <1>1, <2>1
  <2>4. Reserves(image, pos + len) = {pos}
    BY <2>2, <2>3 DEF Reserves
  <2> QED
    BY <1>4, <2>4 DEF len
<1>6. CASE /\ Here.op = "sub" /\ Here.size = "l" /\ Here.src = Imm
           /\ Raw[2] # 63 /\ ~(Raw[5] = 27 /\ Hi(Raw[6]) = 9)
  <2>1. /\ len = 6 /\ w[1] = 122 /\ Hi(w[2]) = 3 /\ R(7) = R(Lo(w[2]) % 8)
    BY <1>3, <1>6 DEF Reserving
  <2>2. /\ Raw[2] = image[pos + 2] /\ Raw[5] = image[pos + 5] /\ Raw[6] = image[pos + 6]
        /\ image[pos + 2] \in Byte
    BY <1>3, <2>1
  <2> HIDE DEF len
  <2>3. image[pos + 2] = 55
    <3>1. Lo(w[2]) % 8 = 7
      BY <2>1 DEF R, Operand
    <3>2. Lo(w[2]) \in 0 .. 15 /\ w[2] = 16 * Hi(w[2]) + Lo(w[2])
      BY <1>3, <2>2, Halves
    <3> HIDE DEF w
    <3>3. Lo(w[2]) = 7 \/ Lo(w[2]) = 15
      BY <3>1, <3>2
    <3>4. w[2] = 55 \/ w[2] = 63
      BY <2>1, <3>2, <3>3
    <3> QED
      BY <1>3, <1>6, <2>2, <3>4
  <2> HIDE DEF w
  <2>4. /\ (pos + len) - 1 = pos + 5 /\ pos + len = pos + 6 /\ pos + len >= 6
        /\ (pos + len) - 5 = pos + 1 /\ (pos + len) - 4 = pos + 2 /\ (pos + len) - 6 = pos
    BY <1>1, <2>1
  <2>5. ~(image[pos + 5] = 27 /\ Hi(image[pos + 6]) = 9) /\ image[pos + 1] = 122
    BY <1>3, <1>6, <2>1, <2>2
  <2>6. Reserves(image, pos + len) = {pos}
    BY <2>3, <2>4, <2>5 DEF Reserves
  <2> QED
    BY <1>4, <2>6 DEF len
<1> QED
  BY <1>5, <1>6

\* A seed in front of a save leads to it.
LEMMA SeedLeads ==
  ASSUME NEW d \in Seq(Byte), NEW a \in Saves(d), NEW entry \in Reserves(d, a)
  PROVE  Decode(d, entry).kind = "seq" /\ entry + Decode(d, entry).len = a
<1> DEFINE u == Rest(d, entry)
           i == Decode(d, entry)
<1>1. Len(d) \in Nat /\ a \in Nat /\ a + 5 <= Len(d)
  BY LenProperties DEF Saves
<1>2. CASE a >= 2 /\ d[a - 1] = 27 /\ Hi(d[a]) = 9
  <2>1. entry = a - 2
    BY <1>2 DEF Reserves
  <2>2. entry \in Nat /\ entry + 2 <= Len(d) /\ entry <= Len(d)
    BY <1>1, <1>2, <2>1
  <2>3. u[1] = 27 /\ Hi(u[2]) = 9
    <3>1. u[1] = d[entry + 1] /\ u[2] = d[entry + 2]
      <4>1. \A k \in 1 .. (Len(d) - entry) : u[k] = d[entry + k]
        BY <2>2, RestIs
      <4> HIDE DEF u, i
      <4>2. 1 \in 1 .. (Len(d) - entry) /\ 2 \in 1 .. (Len(d) - entry)
        BY <1>1, <2>2
      <4> QED
        BY <4>1, <4>2
    <3>2. entry + 1 = a - 1 /\ entry + 2 = a
      BY <1>1, <2>1
    <3> QED
      BY <1>2, <3>1, <3>2
  <2>4. i = Row1(u)
    <3>1. Hi(u[1]) = 1
      BY <2>3 DEF Hi
    <3> QED
      BY <2>2, <3>1, DecodeRow
  <2> HIDE DEF i, u
  <2>5. i = Step(u)
    BY <2>3, <2>4 DEF Row1
  <2>6. 9 \in DOMAIN StepOf
    BY DEF StepOf
  <2>7. i.kind = "seq" /\ i.len = 2
    BY <2>3, <2>5, <2>6 DEF Step, Insn
  <2> QED
    BY <1>1, <2>1, <2>7 DEF i
<1>3. CASE ~(a >= 2 /\ d[a - 1] = 27 /\ Hi(d[a]) = 9)
  <2>1. a >= 6 /\ d[a - 5] = 122 /\ d[a - 4] = 55 /\ entry = a - 6
    BY <1>3 DEF Reserves
  <2>2. entry \in Nat /\ entry + 2 <= Len(d) /\ entry <= Len(d) /\ entry + 6 <= Len(d)
    BY <1>1, <2>1
  <2>3. u[1] = 122 /\ u[2] = 55 /\ Len(u) = Len(d) - entry
    <3>1. u[1] = d[entry + 1] /\ u[2] = d[entry + 2] /\ Len(u) = Len(d) - entry
      <4>1. Len(u) = Len(d) - entry /\ \A k \in 1 .. (Len(d) - entry) : u[k] = d[entry + k]
        BY <2>2, RestIs
      <4> HIDE DEF u, i
      <4>2. 1 \in 1 .. (Len(d) - entry) /\ 2 \in 1 .. (Len(d) - entry)
        BY <1>1, <2>2
      <4> QED
        BY <4>1, <4>2
    <3>2. entry + 1 = a - 5 /\ entry + 2 = a - 4
      BY <1>1, <2>1
    <3> HIDE DEF u, i
    <3> QED
      BY <2>1, <3>1, <3>2
  <2>4. i = Row67(u)
    <3>1. Hi(u[1]) \in {6, 7}
      BY <2>3 DEF Hi
    <3> QED
      BY <2>2, <3>1, DecodeRow
  <2> HIDE DEF i, u
  <2>5. i = Immediate(u, 6, "l")
    BY <2>3, <2>4 DEF Row67
  <2>6. ~(Len(u) < 6 \/ Hi(u[2]) > 6)
    BY <1>1, <2>2, <2>3 DEF Hi
  <2>7. i.kind = "seq" /\ i.len = 6
    BY <2>5, <2>6 DEF Immediate, Insn
  <2> QED
    BY <1>1, <2>1, <2>7 DEF i
<1> QED
  BY <1>2, <1>3

LEMMA SweepInvSeeds == SweepInv => EntriesSeeded
<1> SUFFICES ASSUME SweepInv PROVE EntriesSeeded
  OBVIOUS
<1>1. image \in Seq(Byte)
  BY DEF SweepInv, Typed
<1> DEFINE next == pos + Here.len
<1>2. ASSUME pos < Len(image), Here.dst = R(7),
             \/ Here.op = "subs" /\ Hi(Raw[2]) = 9
             \/ /\ Here.op = "sub" /\ Here.size = "l" /\ Here.src = Imm
                /\ Raw[2] # 63 /\ ~(Raw[5] = 27 /\ Hi(Raw[6]) = 9),
             next + 4 < Len(image), Decode(image, next).op \in {"stm", "push"},
             image[next + 3] # 108
      PROVE  {pos, next} \subseteq prologue_seeds(image)
  <2>1. next \in Nat /\ next % 2 = 0 /\ Reserves(image, next) = {pos}
    BY <1>2, EntryReserves
  <2> HIDE DEF next
  <2>2. next \in Saves(image)
    BY <1>1, <1>2, <2>1, SaverSaves
  <2> QED
    BY <2>1, <2>2 DEF prologue_seeds
<1>3. \A a \in Saves(image) : \A entry \in Reserves(image, a) :
        Decode(image, entry).kind = "seq" /\ entry + Decode(image, entry).len = a
  BY <1>1, SeedLeads
<1> QED
  BY <1>2, <1>3 DEF EntriesSeeded

\* The seeds found by the way functions open are their entries as decoded.
THEOREM EntriesAreSeeded == Spec => []EntriesSeeded
BY SweepInvHolds, SweepInvSeeds, PTL
=============================================================================
