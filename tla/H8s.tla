-------------------------------- MODULE H8s --------------------------------
(***************************************************************************)
(* tools/h8s.py, the instruction decoder: from the bytes at an address to  *)
(* an Insn, whose length decides where the next decode starts.             *)
(*                                                                         *)
(* Kept of an Insn: mnemonic, size, length, control-flow class, static     *)
(* target, the addressing modes and registers of its structured operands   *)
(* (sd) and the raw bytes.  Immediates, addresses, displacements and the   *)
(* display strings are left out.  A group that returns None ends in the    *)
(* last line of decode, an "unk" of two bytes, so None is Unk here.        *)
(***************************************************************************)
EXTENDS Integers, Sequences

Byte == 0 .. 255
Hi(b) == b \div 16
Lo(b) == b % 16
Top(b) == b >= 128

\* Operands: ("r", n) to ("pd", n), the CCR, and no operand.
Operand(mode, n) == [mode |-> mode, n |-> n]
R(n) == Operand("r", n)
Imm == Operand("i", 0)
Abs == Operand("abs", 0)
Ccr == Operand("ccr", 0)
None == Operand("none", 0)

Insn(op, size, len, dst, src) ==
  [op |-> op, size |-> size, len |-> len, dst |-> dst, src |-> src,
   kind |-> "seq", target |-> {}]
Bare(op, size, len) == Insn(op, size, len, None, None)
Transfer(op, kind, len, target) ==
  [Bare(op, "", len) EXCEPT !.kind = kind, !.target = target]
Unk == [Bare("?", "", 2) EXCEPT !.kind = "unk"]

CC == <<"bra", "brn", "bhi", "bls", "bcc", "bcs", "bne", "beq",
        "bvc", "bvs", "bpl", "bmi", "bge", "blt", "bgt", "ble">>

-----------------------------------------------------------------------------
(* The groups with helpers of their own.  w is the window from the opcode  *)
(* to the end of the image, w[1] its first byte.                           *)

BitNames == <<"bset", "bnot", "bclr", "btst">>
BitNamed(bop) == IF bop \in 112 .. 115 THEN BitNames[bop - 111] ELSE "bit-op"
ImmOps == <<"mov", "add", "cmp", "sub", "or", "xor", "and">>

\* Variant: the prefix before the opcode not counted.
TotalUnprefixed(off, need) == need
\* _mov_ea's total, with `need` bytes from the opcode on.
Total(off, need) == off + need

\* A bit operation on an absolute address, the operation in its last two bytes.
BitAbs(w, off, need) ==
  IF Len(w) < off + need THEN Unk
  ELSE Insn(BitNamed(w[off + need - 1]), "", Total(off, need), Abs, Imm)

\* _mov_ea: 68-6F, with the opcode at offset `off` of the window.
MovEa(w, form, size, off) ==
  LET b1 == w[off + 2]
      mode == Hi(b1)
      fits(need) == Len(w) >= off + need
      reg == R(IF size = "l" THEN Lo(b1) % 8 ELSE Lo(b1))
      mov(need, store, ea) ==
        IF ~fits(need) THEN Unk
        ELSE IF store THEN Insn("mov", size, Total(off, need), ea, reg)
        ELSE Insn("mov", size, Total(off, need), reg, ea)
      m == mode % 8
  IN  CASE form = 10 /\ mode \in {3, 11} -> BitAbs(w, off, 8)
        [] form = 10 /\ mode \in {1, 9} -> BitAbs(w, off, 6)
        [] form = 10 /\ mode \in {2, 10} -> mov(6, mode = 10, Abs)
        [] form = 10 /\ mode \notin {1, 2, 3, 9, 10, 11} ->
             mov(4, mode = 8, Abs)
        [] form = 8 -> mov(2, Top(b1), Operand("ind", m))
        [] form = 12 ->
             mov(2, Top(b1), Operand(IF Top(b1) THEN "pd" ELSE "pi", m))
        [] form = 14 -> mov(4, Top(b1), Operand("dsp", m))

\* _decode_78: mov through a 32-bit displacement, eight bytes from `off`.
Mov78(w, off, force) ==
  LET b1 == w[off + 2]
      b2 == w[off + 3]
      b3 == w[off + 4]
      size == IF force = "l" THEN "l" ELSE IF b2 = 107 THEN "w" ELSE "b"
      reg == R(IF size = "l" THEN Lo(b3) % 8 ELSE Lo(b3))
      mem == Operand("dsp", Hi(b1))
  IN  IF \/ Lo(b1) # 0
         \/ Top(b1)
         \/ b2 \notin (IF force = "l" THEN {107} ELSE {106, 107})
         \/ Hi(b3) \notin {2, 10}
        THEN Unk
      ELSE IF Hi(b3) = 10 THEN Insn("mov", size, off + 8, mem, reg)
      ELSE Insn("mov", size, off + 8, reg, mem)

\* mov.l through ER7 with pre-decrement or post-increment is push or pop.
PushPop(i) ==
  IF i.dst = Operand("pd", 7) THEN [i EXCEPT !.op = "push"]
  ELSE IF i.src = Operand("pi", 7) THEN [i EXCEPT !.op = "pop"]
  ELSE i

\* _decode_01.
Prefix01(w) ==
  LET n == Len(w)
      b1 == w[2]
      b2 == w[3]
      b3 == w[4]
      wide == b2 \in {82, 83}
      ea == MovEa(w, (Lo(b2) \div 2) * 2, "l", 2)
  IN  CASE n < 4 -> IF b1 = 128 THEN Bare("sleep", "", 2) ELSE Unk
        [] n >= 4 /\ b1 \in {16, 32, 48} /\ b2 = 109 ->
             Bare(IF Top(b3) THEN "stm" ELSE "ldm", "l", 4)
        [] n >= 4 /\ b1 = 0 ->
             IF b2 \in 104 .. 111 /\ ea # Unk THEN PushPop(ea)
             ELSE IF b2 = 120 /\ n >= 10
               THEN LET r == Mov78(w, 2, "l")
                    IN  IF r # Unk THEN r ELSE Bare("mov", "l", 10)
             ELSE Bare("mov", "l", 4)
        [] n >= 4 /\ b1 \in {64, 65} -> Bare("ldc/stc", "", 4)
        [] n >= 4 /\ b1 = 128 -> Bare("sleep", "", 2)
        [] n >= 4 /\ b1 \in {192, 208} ->
             Insn(IF b1 = 192 THEN "mulxs" ELSE "divxs",
                  IF wide THEN "w" ELSE "b", 4,
                  R(IF wide THEN Lo(b3) % 8 ELSE Lo(b3)), R(Hi(b3)))
        [] n >= 4 /\ b1 = 240 /\ b2 \in 100 .. 102
             /\ ~Top(b3) /\ Lo(b3) < 8 ->
             Insn(<<"or", "xor", "and">>[b2 - 99], "l", 4, R(Lo(b3)), R(Hi(b3)))
        [] n >= 4 /\ b1 = 224 /\ b2 = 123 /\ Lo(b3) = 12 ->
             Insn("tas", "", 4, Operand("ind", Hi(b3) % 8), None)
        [] OTHER -> Unk

\* _STEP, _UNARY17 and _SHIFT: what the high nibble of the second byte means.
StepOf == [h \in {0, 5, 7, 8, 9, 13, 15} |->
             CASE h \in {0, 8, 9} -> <<"s", "">>
               [] h \in {5, 13} -> <<"x", "w">>
               [] h \in {7, 15} -> <<"x", "l">>]
Unary17 == [h \in {0, 1, 3, 5, 7, 8, 9, 11, 13, 15} |->
              <<CASE h \in {0, 1, 3} -> "not"
                  [] h \in {5, 7} -> "extu"
                  [] h \in {8, 9, 11} -> "neg"
                  [] h \in {13, 15} -> "exts",
                CASE h \in {0, 8} -> "b"
                  [] h \in {1, 5, 9, 13} -> "w"
                  [] h \in {3, 7, 11, 15} -> "l">>]
ShiftNames == <<<<"shll", "shal">>, <<"shlr", "shar">>,
                <<"rotxl", "rotl">>, <<"rotxr", "rotr">>>>
ShiftSizes == <<"b", "w", "", "l">>

Step(w) ==
  LET h == Hi(w[2])
      add == w[1] = 11
  IN  IF h \notin DOMAIN StepOf THEN Unk
      ELSE Insn(IF StepOf[h][1] = "s" THEN IF add THEN "adds" ELSE "subs"
                                      ELSE IF add THEN "inc" ELSE "dec",
                StepOf[h][2], 2, R(Lo(w[2])), Imm)

Unary(w) ==
  LET h == Hi(w[2])
  IN  IF h \notin DOMAIN Unary17 THEN Unk
      ELSE Insn(Unary17[h][1], Unary17[h][2], 2, R(Lo(w[2])), None)

Shift(w) ==
  LET h == Hi(w[2])
  IN  IF h % 4 = 2 THEN Unk
      ELSE Insn(ShiftNames[w[1] - 15][h \div 8 + 1], ShiftSizes[(h % 4) + 1], 2,
                R(Lo(w[2])), Imm)

\* Variant: the bytes left not counted.
ImmediateUnchecked(w, len, size) ==
  IF Hi(w[2]) > 6 THEN Unk
  ELSE Insn(ImmOps[Hi(w[2]) + 1], size, len,
            R(IF size = "l" THEN Lo(w[2]) % 8 ELSE Lo(w[2])), Imm)
\* _decode_79 and _decode_7a: a two- or four-byte immediate.
Immediate(w, len, size) ==
  IF Len(w) < len \/ Hi(w[2]) > 6 THEN Unk
  ELSE Insn(ImmOps[Hi(w[2]) + 1], size, len,
            R(IF size = "l" THEN Lo(w[2]) % 8 ELSE Lo(w[2])), Imm)

\* _BITOP and _decode_7c: bit operations on memory, operand first.
BitOp == [b \in (96 .. 99) \cup {103} \cup (112 .. 119) |->
            IF b = 103 THEN "bst"
            ELSE <<"bset", "bnot", "bclr", "btst",
                   "bor", "bxor", "band", "bld">>[(b % 16) + 1]]
BitMem(w) ==
  LET b2 == w[3]
      b3 == w[4]
  IN  IF Len(w) < 4 THEN Unk
      ELSE IF b2 \notin DOMAIN BitOp \/ Lo(b3) # 0 THEN Bare("bit-op", "", 4)
      ELSE Insn(IF b2 = 103 /\ Top(b3) THEN "bist" ELSE BitOp[b2], "", 4,
                IF w[1] \in {124, 125} THEN Operand("ind", Hi(w[2]) % 8) ELSE Abs,
                IF b2 < 112 THEN R(Hi(b3)) ELSE Imm)

-----------------------------------------------------------------------------
(* The rows of decode, by the high nibble of the first byte. *)

\* Two registers in the second byte, source high.
TwoReg(op, size, w) == Insn(op, size, 2, R(Lo(w[2])), R(Hi(w[2])))
\* The long form when the top bit is set, else a one-operand byte form.
LongOr(op, w, other) ==
  IF Top(w[2]) THEN Insn(op, "l", 2, R(Lo(w[2]) % 8), R(Hi(w[2]) % 8))
  ELSE other

Row0(w) ==
  LET b0 == w[1]
      b1 == w[2]
      byte == R(Lo(b1))
  IN  CASE b0 = 0 -> Bare("nop", "", 2)
        [] b0 = 1 -> Prefix01(w)
        [] b0 = 2 -> IF Hi(b1) = 0 THEN Insn("stc", "", 2, byte, Ccr)
                     ELSE Bare("stc", "", 2)
        [] b0 = 3 -> IF Hi(b1) = 0 THEN Insn("ldc", "", 2, Ccr, byte)
                     ELSE Bare("ldc", "", 2)
        [] b0 \in 4 .. 7 ->
             Insn(<<"orc", "xorc", "andc", "ldc">>[b0 - 3], "", 2, Ccr, Imm)
        [] b0 = 8 -> TwoReg("add", "b", w)
        [] b0 = 9 -> TwoReg("add", "w", w)
        [] b0 = 10 -> LongOr("add", w, Insn("inc", "b", 2, byte, Imm))
        [] b0 = 11 -> Step(w)
        [] b0 = 12 -> TwoReg("mov", "b", w)
        [] b0 = 13 -> TwoReg("mov", "w", w)
        [] b0 = 14 -> Bare("addx", "", 2)
        [] b0 = 15 -> LongOr("mov", w, Bare("daa", "", 2))

Row1(w) ==
  LET b0 == w[1]
      byte == R(Lo(w[2]))
  IN  CASE b0 \in 16 .. 19 -> Shift(w)
        [] b0 \in 20 .. 22 -> TwoReg(<<"or", "xor", "and">>[b0 - 19], "b", w)
        [] b0 = 23 -> Unary(w)
        [] b0 = 24 -> TwoReg("sub", "b", w)
        [] b0 = 25 -> TwoReg("sub", "w", w)
        [] b0 = 26 -> LongOr("sub", w, Insn("dec", "b", 2, byte, Imm))
        [] b0 = 27 -> Step(w)
        [] b0 = 28 -> TwoReg("cmp", "b", w)
        [] b0 = 29 -> TwoReg("cmp", "w", w)
        [] b0 = 30 -> Bare("subx", "", 2)
        [] b0 = 31 -> LongOr("cmp", w, Bare("das", "", 2))

Signed8(b) == IF Top(b) THEN b - 256 ELSE b
Signed16(h, l) == Signed8(h) * 256 + l
Branch(cc, len, target) ==
  Transfer(CC[cc + 1], IF cc = 0 THEN "jmp" ELSE "jcc", len, {target})

\* The control-transfer block, 4x and 5x; a is the address of w.
Row45(w, a) ==
  LET b0 == w[1]
      b1 == w[2]
      n == Len(w)
      near == a + 2 + Signed8(b1)
      far == a + 4 + Signed16(w[3], w[4])
      abs == (b1 * 256 + w[3]) * 256 + w[4]
      wide == b0 \in {82, 83}
      through(op, kind) == [Transfer(op, kind, 2, {}) EXCEPT !.dst = R(Hi(b1) % 8)]
  IN  CASE b0 < 80 -> Branch(Lo(b0), 2, near)
        [] b0 \in 80 .. 83 ->
             Insn(IF b0 % 2 = 0 THEN "mulxu" ELSE "divxu",
                  IF wide THEN "w" ELSE "b", 2,
                  R(IF wide THEN Lo(b1) % 8 ELSE Lo(b1)), R(Hi(b1)))
        [] b0 = 84 -> Transfer("rts", "ret", 2, {})
        [] b0 = 85 -> Transfer("bsr", "call", 2, {near})
        [] b0 = 86 -> Transfer("rte", "rte", 2, {})
        [] b0 = 87 -> Transfer("trapa", "trap", 2, {})
        [] b0 = 88 /\ n >= 4 -> Branch(Hi(b1), 4, far)
        [] b0 = 89 -> through("jmp", "jmp")
        [] b0 = 90 /\ n >= 4 -> Transfer("jmp", "jmp", 4, {abs})
        [] b0 = 91 -> Transfer("jmp", "jmp", 2, {})
        [] b0 = 92 /\ n >= 4 -> Transfer("bsr", "call", 4, {far})
        [] b0 = 93 -> through("jsr", "call")
        [] b0 = 94 /\ n >= 4 -> Transfer("jsr", "call", 4, {abs})
        [] b0 = 95 -> Transfer("jsr", "call", 2, {})
        [] OTHER -> Unk

\* 6x and 7x.
Row67(w) ==
  LET b0 == w[1]
      b1 == w[2]
      n == Len(w)
      byte == R(Lo(b1))
      carry == IF Top(b1) THEN <<"bior", "bixor", "biand", "bild">>
               ELSE <<"bor", "bxor", "band", "bld">>
  IN  CASE b0 \in 96 .. 99 -> TwoReg(BitNames[b0 - 95], "", w)
        [] b0 \in 100 .. 102 -> TwoReg(<<"or", "xor", "and">>[b0 - 99], "w", w)
        [] b0 = 103 -> Insn(IF Top(b1) THEN "bist" ELSE "bst", "", 2, byte, Imm)
        [] b0 \in 104 .. 111 ->
             MovEa(w, (Lo(b0) \div 2) * 2, IF b0 % 2 = 0 THEN "b" ELSE "w", 0)
        [] b0 \in 112 .. 115 -> Insn(BitNames[b0 - 111], "", 2, byte, Imm)
        [] b0 \in 116 .. 119 -> Insn(carry[b0 - 115], "", 2, byte, Imm)
        [] b0 = 120 /\ n >= 8 ->
             LET r == Mov78(w, 0, "b")
             IN  IF r # Unk THEN r ELSE Bare("mov", "", 8)
        [] b0 = 121 -> Immediate(w, 4, "w")
        [] b0 = 122 -> Immediate(w, 6, "l")
        [] b0 = 123 /\ n >= 4 -> Bare("eepmov", IF Top(b1) THEN "w" ELSE "b", 4)
        [] b0 \in 124 .. 127 -> BitMem(w)
        [] OTHER -> Unk

\* 2x, 3x and 8x-Fx: a byte register in the first byte.
RowByte(w) ==
  LET reg == R(Lo(w[1]))
      ops == <<"add", "addx", "cmp", "subx", "or", "xor", "and", "mov">>
  IN  CASE Hi(w[1]) = 2 -> Insn("mov", "b", 2, reg, Abs)
        [] Hi(w[1]) = 3 -> Insn("mov", "b", 2, Abs, reg)
        [] OTHER -> Insn(ops[Hi(w[1]) - 7], "b", 2, reg, Imm)

\* Variant: a truncated tail given no length.
DecodeStuck(d, a) == [Unk EXCEPT !.len = IF Len(d) - a < 2 THEN 0 ELSE 2]

\* decode(d, a).
Decode(d, a) ==
  LET w == SubSeq(d, a + 1, Len(d))
      h == Hi(w[1])
  IN  CASE Len(w) < 2 -> [Unk EXCEPT !.len = 1]
        [] Len(w) >= 2 /\ h = 0 -> Row0(w)
        [] Len(w) >= 2 /\ h = 1 -> Row1(w)
        [] Len(w) >= 2 /\ h \in {4, 5} -> Row45(w, a)
        [] Len(w) >= 2 /\ h \in {6, 7} -> Row67(w)
        [] OTHER -> RowByte(w)
=============================================================================
