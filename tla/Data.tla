-------------------------------- MODULE Data --------------------------------
(***************************************************************************)
(* What the C statements emit.body gives each instruction do: the eight    *)
(* ERn with their word and byte views, the operands rd, wr and ea render,  *)
(* the accessors of mem.c, and the frame cy_interrupt pushes.  Control     *)
(* transfers are in Machine; stm and ldm in Body.                          *)
(*                                                                         *)
(* What runs is a short piece of straight-line code, from any of a set of  *)
(* register contents.                                                      *)
(***************************************************************************)
EXTENDS Alu, Sequences

CONSTANTS
  MEM,       \* cells of the address space: CY_MEM_SIZE
  Hooked,    \* addresses cy_io_read and cy_io_write answer for
  Registers, \* e[0..7] at the start, ER0 and ER1 to be replaced
  Cells,     \* memory at the start
  Programs   \* records [code, same, xs, ys, fs]: the instructions, pairs of
             \* operands <<at the end, at the start>> to come out equal, and
             \* what ER0, ER1 and the flags may hold

\* Operands as decode describes them: "cc" is the CCR, "pc" the program
\* counter.
Operands ==
  [kind : {"r"}, size : Sizes, n : 0 .. 15]
    \cup [kind : {"i"}, size : Sizes, n : Nat]
    \cup [kind : {"cc", "pc"}, size : Sizes, n : {0}]
    \cup [kind : {"ind", "pi", "pd", "dsp"}, size : Sizes, n : 0 .. 7, d : Int]
    \cup [kind : {"abs"}, size : Sizes, n : Nat, d : Int]

Shifts == {"shll", "shal", "shlr", "shar"}
Loads == {"bld", "bild", "band", "biand", "bor", "bior", "bxor", "bixor"}
Sums == {"add", "sub", "cmp"}
Stepped == {"inc", "dec", "adds", "subs"}
Rotates == {"rotl", "rotr", "rotxl", "rotxr"}
MulDiv == {"mulxu", "mulxs", "divxu", "divxs"}
DstKept == Loads \cup {"cmp", "btst", "ldc", "orc", "andc", "xorc", "push",
                      "eepmov", "interrupt", "rte"}

\* The forms decode makes: a result goes to a register or to memory; sums are
\* of registers and immediates of one size; what is extended, shifted or
\* stepped is a register of the instruction's size, and what is multiplied or
\* divided one of twice that; counts are immediate, and so are the bit numbers
\* of C; bits are those of a byte; mov has one size and a register or an
\* immediate on one side, pre-decrements where it stores and post-increments
\* where it loads.  An adds or subs of a register nibble above 7 is left out:
\* no such instruction exists (h8s.py:16), and E[n] is past the array for it.
Formed(i) ==
  /\ i.op \notin DstKept => i.dst.kind \notin {"i", "cc", "pc"}
  /\ i.op = "mov" => /\ i.dst.size = i.src.size /\ i.dst.kind # "pi"
                     /\ i.src.kind \notin {"pd", "cc", "pc"}
                     /\ i.dst.kind = "r" \/ i.src.kind \in {"r", "i"}
  /\ i.op \in Sums \cup Stepped => /\ i.dst.kind = "r" /\ i.src.kind \in {"r", "i"}
                                  /\ i.dst.size = i.size /\ i.src.size = i.size
  /\ i.op \in Shifts \cup Loads \cup {"bst", "bist"} =>
       i.src.kind = "i" /\ i.src.n < BITS["b"]
  /\ i.op \in Shifts \cup Rotates \cup {"not", "neg", "extu", "exts"} =>
       i.dst.kind = "r" /\ i.dst.size = i.size /\ i.src.kind = "i"
  /\ i.op \in Rotates => i.src.n < BITS["b"]
  /\ i.op \in {"extu", "exts"} => i.size # "b"
  /\ i.op \in {"adds", "subs"} => i.size = "l" /\ i.dst.n < 8
  /\ i.op \in MulDiv => /\ i.size # "l" /\ i.dst.kind = "r" /\ i.src.kind = "r"
                          /\ i.src.size = i.size
                          /\ i.dst.size = IF i.size = "b" THEN "w" ELSE "l"
  /\ i.op \in {"bset", "bclr", "bnot", "bst", "bist"} =>
       /\ i.dst.size = "b" /\ i.dst.kind \in {"r", "ind", "abs"}
       /\ i.src.kind \in {"r", "i"}

ASSUME MemoryAssumption ==
  /\ MEM \in Nat /\ MEM >= 4 /\ MEM <= Weight(3)
  /\ Hooked \subseteq 0 .. (MEM - 1)
ASSUME StartAssumption ==
  /\ Registers \in [0 .. 7 -> 0 .. (UINT - 1)]
  /\ Cells \in [0 .. (MEM - 1) -> 0 .. (Modulus("b") - 1)]
ASSUME ProgramsAssumption ==
  \A p \in Programs :
    /\ p.code \in Seq([op : STRING, size : Sizes, dst : Operands, src : Operands])
    /\ \A k \in 1 .. Len(p.code) : Formed(p.code[k])
    /\ p.xs \subseteq 0 .. (UINT - 1) /\ p.ys \subseteq 0 .. (UINT - 1)
    /\ p.fs \subseteq [Flag -> {0, 1}]

VARIABLES
  code, same,  \* of the program
  n,           \* instructions executed
  m,           \* the cy_t
  before,      \* history: the cy_t before the last instruction
  start        \* history: the cy_t at the start

vars == <<code, same, n, m, before, start>>

-----------------------------------------------------------------------------
(* Registers and memory. *)

\* Where a register's view starts in its ERn.
Place(s, k) ==
  CASE s = "w" /\ k >= 8 -> Modulus("w")
    [] s = "b" /\ k < 8 -> Modulus("b")
    [] OTHER -> 1

reg_read(x, s, k) == (x.e[k % 8] \div Place(s, k)) % Modulus(s)

\* Variant: a write to a high byte clears the low one.
RegWriteClears(x, s, k, v) ==
  [x EXCEPT !.e[k % 8] =
     (@ - (@ % (Place(s, k) * Modulus(s)))) + (v % Modulus(s)) * Place(s, k)]

reg_write(x, s, k, v) ==
  [x EXCEPT !.e[k % 8] =
     @ + ((v % Modulus(s)) - reg_read(x, s, k)) * Place(s, k)]

Bytes(s) == BITS[s] \div BITS["b"]
Cell(a) == a % MEM

\* The j-th byte of a value of size s, the highest first.
Big(v, s, j) == (v \div Weight(Bytes(s) - 1 - j)) % Modulus("b")

\* Byte accesses ask the peripherals first; word and long ones do not.
cy_read(x, s, a) ==
  LET byte(j) == x.mem[Cell(a + j)] * Weight(Bytes(s) - 1 - j)
  IN  CASE s = "b" -> IF Cell(a) \in Hooked THEN x.io[Cell(a)] ELSE x.mem[Cell(a)]
        [] s = "w" -> byte(0) + byte(1)
        [] s = "l" -> byte(0) + byte(1) + byte(2) + byte(3)
cy_write(x, s, a, v) ==
  IF s = "b" /\ Cell(a) \in Hooked
    THEN [x EXCEPT !.io[Cell(a)] = v % Modulus("b")]
    ELSE [x EXCEPT !.mem = [c \in DOMAIN @ |->
            IF Cell(c - a) < Bytes(s) THEN Big(v, s, Cell(c - a)) ELSE @[c]]]

ea(x, o) == CASE o.kind = "abs" -> o.n
              [] o.kind = "dsp" -> x.e[o.n] + o.d
              [] OTHER -> x.e[o.n]
rd(x, o) == CASE o.kind = "r" -> reg_read(x, o.size, o.n)
              [] o.kind = "i" -> o.n % Modulus(o.size)
              [] o.kind = "cc" -> CY_CCR_GET(x.f)
              [] o.kind = "pc" -> x.pc
              [] OTHER -> cy_read(x, o.size, ea(x, o))
wr(x, o, v) == IF o.kind = "r" THEN reg_write(x, o.size, o.n, v)
               ELSE cy_write(x, o.size, ea(x, o), v)

AddTo(x, k, d) == [x EXCEPT !.e[k] = (@ + d) % UINT]

\* The address register of a post-increment or pre-decrement moves by the
\* operand's bytes.
Moved(x, i, kind, sign) ==
  LET moving == {o \in {i.dst, i.src} : o.kind = kind}
  IN  IF moving = {} THEN x
      ELSE LET o == CHOOSE o \in moving : TRUE
           IN  AddTo(x, o.n, sign * Bytes(o.size))
Pre(x, i) == Moved(x, i, "pd", -1)
Post(x, i) == Moved(x, i, "pi", 1)

-----------------------------------------------------------------------------
(* The instructions. *)

Now == code[n + 1]
At(ops) == n < Len(code) /\ Now.op \in ops
Becomes(x) ==
  m' = x /\ n' = n + 1 /\ before' = m /\ UNCHANGED <<code, same, start>>

Dst == rd(m, Now.dst)
Src == rd(m, Now.src)
Size == Now.size

\* t written to the destination, N and Z set from it.
Result(t) == [wr(m, Now.dst, t) EXCEPT !.f = SETNZ(@, t, Size)]

Mov ==
  /\ At({"mov"})
  /\ LET x == Pre(m, Now)
         t == rd(x, Now.src)
     IN  Becomes(Post([wr(x, Now.dst, t) EXCEPT !.f = SETNZ(@, t, Size)], Now))

Sum ==
  /\ At(Sums)
  /\ LET t == IF Now.op = "add" THEN Dst + Src ELSE Dst - Src
         f == IF Now.op = "add" THEN SETFLAGS_ADD(m.f, Dst, Src, t, Size)
              ELSE SETFLAGS_SUB(m.f, Dst, Src, t, Size)
     IN  Becomes(IF Now.op = "cmp" THEN [m EXCEPT !.f = f]
                 ELSE [wr(m, Now.dst, t) EXCEPT !.f = f])

\* Variant: the carry in left out of the sum.
SumExtendedNoCarry ==
  /\ At({"addx", "subx"})
  /\ LET t == IF Now.op = "addx" THEN Dst + Src ELSE Dst - Src
         f == IF Now.op = "addx" THEN SETFLAGS_ADD(m.f, Dst, Src, t, Size)
              ELSE SETFLAGS_SUB(m.f, Dst, Src, t, Size)
     IN  Becomes([wr(m, Now.dst, t) EXCEPT !.f = f])

\* The carry is folded into the operand the macro compares.
SumExtended ==
  /\ At({"addx", "subx"})
  /\ LET c == m.f.cf
         t == IF Now.op = "addx" THEN Dst + Src + c ELSE Dst - Src - c
         f == IF Now.op = "addx" THEN SETFLAGS_ADD(m.f, Dst, Src + c, t, Size)
              ELSE SETFLAGS_SUB(m.f, Dst, Src - c, t, Size)
     IN  Becomes([wr(m, Now.dst, t) EXCEPT !.f = f])

Logic ==
  /\ At({"and", "or", "xor"})
  /\ LET a == Ones(Dst, Size)
         b == Ones(Src, Size)
     IN  Becomes(Result(FromOnes(CASE Now.op = "and" -> a \cap b
                                   [] Now.op = "or" -> a \cup b
                                   [] Now.op = "xor" -> (a \ b) \cup (b \ a))))

\* The address adjustments: the whole ERn, and no flags.
Adjust ==
  /\ At({"adds", "subs"})
  /\ Becomes(AddTo(m, Now.dst.n, IF Now.op = "adds" THEN Src ELSE -Src))

Unary ==
  /\ At({"inc", "dec", "not", "neg"})
  /\ Becomes(Result(CASE Now.op = "inc" -> Dst + Src
                      [] Now.op = "dec" -> Dst - Src
                      [] Now.op = "not" -> UINT - 1 - Dst
                      [] Now.op = "neg" -> 0 - Dst))

\* The narrow register is read under the wide one's number.
Extend ==
  /\ At({"extu", "exts"})
  /\ LET half == IF Size = "w" THEN "b" ELSE "w"
         v == reg_read(m, half, Now.dst.n)
     IN  Becomes(Result(IF Now.op = "extu" THEN v ELSE Signed(v, half)))

\* None of them sets C.
Shift ==
  /\ At(Shifts)
  /\ Becomes(Result(CASE Now.op \in {"shll", "shal"} -> Dst * Two[Src]
                      [] Now.op = "shlr" -> Dst \div Two[Src]
                      [] Now.op = "shar" -> Signed(Dst, Size) \div Two[Src]))

\* One place, whatever the count.
Rotate ==
  /\ At(Rotates)
  /\ LET top == BITS[Size] - 1
         out == BitAt(Dst, IF Now.op \in {"rotl", "rotxl"} THEN top ELSE 0)
         in == IF Now.op \in {"rotxl", "rotxr"} THEN m.f.cf ELSE out
         t == IF Now.op \in {"rotl", "rotxl"} THEN 2 * Dst + in
              ELSE Dst \div 2 + in * Two[top]
     IN  Becomes([Result(t) EXCEPT !.f.cf = out])

\* A bit number in a register counts modulo the bits of a byte.
BitNumber == Src % BITS["b"]

BitModify ==
  /\ At({"bset", "bclr", "bnot"})
  /\ LET a == Ones(Dst, "b")
         t == CASE Now.op = "bset" -> a \cup {BitNumber}
                [] Now.op = "bclr" -> a \ {BitNumber}
                [] Now.op = "bnot" -> (a \ {BitNumber}) \cup ({BitNumber} \ a)
     IN  Becomes(wr(m, Now.dst, FromOnes(t)))

BitTest ==
  /\ At({"btst"})
  /\ Becomes([m EXCEPT !.f.zf = 1 - BitAt(Dst, BitNumber)])

BitLoad ==
  /\ At(Loads)
  /\ LET bit == BitAt(Dst, Src)
         in == IF Now.op \in {"bild", "biand", "bior", "bixor"} THEN 1 - bit
               ELSE bit
         c == m.f.cf
     IN  Becomes([m EXCEPT !.f.cf =
           CASE Now.op \in {"bld", "bild"} -> in
             [] Now.op \in {"band", "biand"} -> c * in
             [] Now.op \in {"bor", "bior"} -> Bit(c + in > 0)
             [] Now.op \in {"bxor", "bixor"} -> (c + in) % 2])

BitStore ==
  /\ At({"bst", "bist"})
  /\ LET v == IF Now.op = "bst" THEN m.f.cf ELSE 1 - m.f.cf
     IN  Becomes(wr(m, Now.dst, Dst + (v - BitAt(Dst, Src)) * Two[Src]))

\* The product of the destination's low half and the source, wrapped as the
\* builds' int32_t does.
Multiply ==
  /\ At({"mulxu", "mulxs"})
  /\ LET v == Dst % Modulus(Size)
     IN  Becomes(wr(m, Now.dst, IF Now.op = "mulxu" THEN v * Src
                                ELSE Signed(v, Size) * Signed(Src, Size)))

\* C division, towards zero, of the destination as an int32_t.  The least one
\* by -1 wraps here; a build whose host traps instead takes no further step.
Quotient(a, b) ==
  LET q == (IF a < 0 THEN -a ELSE a) \div (IF b < 0 THEN -b ELSE b)
  IN  IF (a < 0) = (b < 0) THEN q ELSE -q

Divide ==
  /\ At({"divxu", "divxs"})
  /\ LET a == Signed(Dst, "l")
         b == IF Now.op = "divxs" THEN Signed(Src, Size) ELSE Src
         q == Quotient(a, b)
         half == Modulus(Size)
     IN  Becomes(IF b = 0 THEN m
                 ELSE wr(m, Now.dst, ((a - b * q) % half) * half + (q % half)))

Tas ==
  /\ At({"tas"})
  /\ LET t == FromOnes(Ones(Dst, "b") \cup {BITS["b"] - 1})
     IN  Becomes([wr(m, Now.dst, t) EXCEPT !.f = SETNZ(@, Dst, "b")])

\* @ER5 to @ER6 byte by byte, as many as R4 says: the byte form counts in
\* R4's high byte.
Eepmov ==
  /\ At({"eepmov"})
  /\ LET count == reg_read(m, Size, 4)
         one(x) == AddTo(AddTo(cy_write(x, "b", x.e[6], cy_read(x, "b", x.e[5])),
                               5, 1), 6, 1)
         copied[k \in 0 .. count] == IF k = 0 THEN m ELSE one(copied[k - 1])
     IN  Becomes(reg_write(copied[count], Size, 4, 0))

CcrOp ==
  /\ At({"stc", "ldc", "orc", "andc", "xorc"})
  /\ LET ccr == CY_CCR_GET(m.f)
         a == Ones(ccr, "b")
         b == Ones(Src, "b")
     IN  Becomes(IF Now.op = "stc" THEN wr(m, Now.dst, ccr)
                 ELSE [m EXCEPT !.f = CY_CCR_SET(@,
                         CASE Now.op = "ldc" -> Src
                           [] Now.op = "orc" -> FromOnes(a \cup b)
                           [] Now.op = "andc" -> FromOnes(a \cap b)
                           [] Now.op = "xorc" -> FromOnes((a \ b) \cup (b \ a)))])

Push ==
  /\ At({"push"})
  /\ LET x == AddTo(m, 7, -4)
     IN  Becomes(cy_write(x, "l", x.e[7], rd(x, Now.src)))

Pop ==
  /\ At({"pop"})
  /\ Becomes(AddTo(wr(m, Now.dst, cy_read(m, "l", m.e[7])), 7, 4))

\* cy_interrupt: the CCR in the top byte of the longword pushed.
Interrupt ==
  /\ At({"interrupt"})
  /\ LET x == AddTo(m, 7, -4)
         frame == CY_CCR_GET(m.f) * Weight(3) + Cell(m.pc)
         y == cy_write(x, "l", x.e[7], frame)
     IN  Becomes([y EXCEPT !.f.iff = 1, !.pc = Cell(cy_read(y, "l", Src))])

Rte ==
  /\ At({"rte"})
  /\ LET t == cy_read(m, "l", m.e[7])
     IN  Becomes([AddTo(m, 7, 4) EXCEPT
                    !.f = CY_CCR_SET(@, t \div Weight(3)),
                    !.pc = Cell(t)])

Init ==
  \E p \in Programs : \E x \in p.xs, y \in p.ys, f \in p.fs :
    /\ code = p.code /\ same = p.same /\ n = 0
    /\ m = [e |-> [Registers EXCEPT ![0] = x, ![1] = y], f |-> f, pc |-> 1,
            mem |-> Cells, io |-> [a \in Hooked |-> a % Modulus("b")]]
    /\ before = m /\ start = m

Next ==
  \/ Mov \/ Sum \/ SumExtended \/ Logic \/ Adjust \/ Unary \/ Extend
  \/ Shift \/ Rotate \/ BitModify \/ BitTest \/ BitLoad \/ BitStore
  \/ Multiply \/ Divide \/ Tas \/ Eepmov \/ CcrOp \/ Push \/ Pop
  \/ Interrupt \/ Rte
Spec == Init /\ [][Next]_vars

-----------------------------------------------------------------------------
(* Properties. *)

Last == code[n]
Old(o) == rd(Pre(before, Last), o)
Executed(ops) == n > 0 /\ Last.op \in ops

\* A set of bits moved up by c places in a ring of w.
Around(S, c, w) == {(k + c) % w : k \in S}

\* The quotient has a place: half values of either sign, h without one.
Fits(a, b, h, signed) ==
  LET sizeof(c) == IF c < 0 THEN -c ELSE c
      half == h \div 2
  IN  sizeof(a) < sizeof(b) * (IF ~signed THEN h
                               ELSE IF (a < 0) = (b < 0) THEN half ELSE half + 1)

\* The destination's value v is what the instruction makes of a, b and the
\* carry c, by whole numbers or by the places of bits.
Right(i, c, a, b, v) ==
  LET s == i.dst.size
      w == BITS[s]
      places == 0 .. (w - 1)
      h == Modulus(i.size)
      low == Two[w \div 2]
      bits == Ones(a, s)
      ring == bits \cup (IF c = 1 THEN {w} ELSE {})
      q == IF i.op = "divxu" THEN v % h ELSE Signed(v % h, i.size)
      r == IF i.op = "divxu" THEN v \div h ELSE Signed(v \div h, i.size)
      dividend == IF i.op = "divxu" THEN a ELSE Signed(a, s)
      divisor == IF i.op = "divxu" THEN b ELSE Signed(b, i.size)
  IN  CASE i.op = "mov" -> v = b
        [] i.op \in {"add", "inc", "adds"} -> v = (a + b) % Modulus(s)
        [] i.op \in {"sub", "dec", "subs"} -> v = (a - b) % Modulus(s)
        [] i.op = "not" -> Ones(v, s) = places \ bits
        [] i.op = "neg" -> (v + a) % Modulus(s) = 0
        [] i.op = "extu" -> v = a % low
        [] i.op = "exts" -> v % low = a % low /\ Signed(v, s) < low \div 2
                              /\ Signed(v, s) >= -(low \div 2)
        [] i.op \in {"shll", "shal"} ->
             Ones(v, s) = {k + b : k \in bits} \cap places
        [] i.op = "shlr" -> Ones(v, s) = {k - b : k \in bits} \cap places
        [] i.op = "shar" ->
             Ones(v, s) = {k \in places : (IF k + b < w THEN k + b ELSE w - 1)
                                            \in bits}
        [] i.op = "rotl" -> Ones(v, s) = Around(bits, b, w)
        [] i.op = "rotr" -> Ones(v, s) = Around(bits, w - b, w)
        [] i.op = "rotxl" -> Ones(v, s) = Around(ring, b, w + 1) \ {w}
        [] i.op = "rotxr" -> Ones(v, s) = Around(ring, w + 1 - b, w + 1) \ {w}
        [] i.op = "mulxu" -> v = (a % h) * b
        [] i.op = "mulxs" -> Signed(v, s) = Signed(a % h, i.size)
                                              * Signed(b, i.size)
        [] i.op \in {"divxu", "divxs"} ->
             IF b = 0 THEN v = a
             ELSE Fits(dividend, divisor, h, i.op = "divxs") =>
                    /\ dividend = q * divisor + r
                    /\ r * r < divisor * divisor
                    /\ r = 0 \/ (r < 0) = (dividend < 0)
        [] OTHER -> TRUE

\* Where the emitter is known to be wrong: extensions to a word, whose byte
\* is read under the word's number, and of a long by a number of 8 or more;
\* rotates by two; unsigned dividends with the top bit set and negative ones
\* of a byte division; a load into its own address register, which is
\* incremented after it.
Faulty(i, a) ==
  \/ i.op \in {"extu", "exts"} /\ (i.size = "w" \/ i.dst.n >= 8)
  \/ i.op \in Rotates /\ i.src.n # 1
  \/ i.op = "divxu" /\ i.size = "w" /\ Negative(a, "l")
  \/ i.op = "divxs" /\ i.size = "b" /\ Negative(a, "w")
  \/ i.op = "mov" /\ i.src.kind = "pi" /\ i.dst.kind = "r" /\ i.dst.n % 8 = i.src.n

\* The bytes of the registers, and those an operand is made of.
Lanes == (0 .. 7) \X (0 .. 3)
Lane(x, l) == (x.e[l[1]] \div Weight(l[2])) % Modulus("b")
LanesOf(o) ==
  IF o.kind = "r"
    THEN {l \in Lanes : /\ l[1] = o.n % 8
                        /\ Weight(l[2]) >= Place(o.size, o.n)
                        /\ Weight(l[2]) < Place(o.size, o.n)
                                                   * Modulus(o.size)}
    ELSE IF o.kind \in {"pi", "pd"} THEN {l \in Lanes : l[1] = o.n}
    ELSE {}
CellsOf(o) ==
  IF o.kind \in {"r", "i"} THEN {}
  ELSE {Cell(ea(Pre(before, Last), o) + j) : j \in 0 .. (Bytes(o.size) - 1)}

Exact == {"mov", "add", "sub", "inc", "dec", "adds", "subs", "not", "neg",
          "extu", "exts"} \cup Shifts \cup Rotates \cup MulDiv
KeepFlags == {"adds", "subs", "bset", "bclr", "bnot", "bst", "bist"} \cup MulDiv

\* Every instruction leaves its result in its destination and everything
\* else as it was -- "an 8-bit write has to leave the other 24 bits alone"
\* (h8s.h:8-11): the other bytes of the same register, the other registers,
\* memory and, for those that have no business with them, the flags.
ResultsExact ==
  Executed(Exact \cup KeepFlags) =>
    LET v == IF Last.dst.kind = "r" THEN rd(m, Last.dst)
             ELSE cy_read(m, Last.dst.size, ea(Pre(before, Last), Last.dst))
    IN  /\ Faulty(Last, Old(Last.dst))
             \/ Right(Last, before.f.cf, Old(Last.dst), Old(Last.src), v)
        /\ \A l \in Lanes \ (LanesOf(Last.dst) \cup LanesOf(Last.src)) :
             Lane(m, l) = Lane(before, l)
        /\ \A c \in DOMAIN m.mem \ CellsOf(Last.dst) :
             m.mem[c] = before.mem[c]
        /\ Last.op \in KeepFlags => m.f = before.f

\* At the end of an idiom what it should bring back is back: the flags and
\* the mask of a critical section (emit.py:224-225), an interrupted
\* computation's registers, flags and PC, pushed and popped registers, bits
\* carried through C, a product divided again, a long written and read in
\* pieces, a block moved.
Restores ==
  n = Len(code) => \A p \in same : rd(m, p[1]) = rd(start, p[2])

\* After an addition, subtraction or comparison V says that the exact signed
\* result does not fit, N and Z describe the wrapped one, for every size and
\* both signs (h8s.h:200-224).
OverflowIsSigned ==
  Executed(Sums) =>
    LET s == Last.size
        a == Old(Last.dst)
        b == Old(Last.src)
        add == Last.op = "add"
        exact == IF add THEN Signed(a, s) + Signed(b, s)
                 ELSE Signed(a, s) - Signed(b, s)
        half == Modulus(s) \div 2
    IN  /\ (m.f.vf = 1) <=> exact \notin (-half) .. (half - 1)
        /\ (m.f.nf = 1) <=> Negative(exact % Modulus(s), s)
        /\ (m.f.zf = 1) <=> exact % Modulus(s) = 0

\* A conditional branch after a compare takes the side its name says, signed
\* and unsigned, at every size, wrapped differences included: the macros and
\* cy_cond agree on what the flags mean (mem.c:93-113).
ComparisonsDecide ==
  Executed({"cmp", "sub"}) =>
    LET a == Old(Last.dst)
        b == Old(Last.src)
        sa == Signed(a, Last.size)
        sb == Signed(b, Last.size)
        meaning ==
          {<<"beq", a = b>>, <<"bhi", a > b>>, <<"bcc", a >= b>>,
           <<"bne", a # b>>, <<"bls", a <= b>>, <<"bcs", a < b>>,
           <<"bgt", sa > sb>>, <<"ble", sa <= sb>>,
           <<"bge", sa >= sb>>, <<"blt", sa < sb>>}
    IN  \A k \in meaning : cy_cond(m.f, k[1]) = k[2]

\* Arithmetic a byte at a time, up to a long's four: an add or sub of the low
\* bytes, then addx or subx upwards, each into a register of its own that no
\* later one reads.
Limbs ==
  /\ Len(code) \in 1 .. 4 /\ code[1].op \in {"add", "sub"}
  /\ \A k \in 1 .. Len(code) :
       /\ k > 1 => code[k].op = IF code[1].op = "add" THEN "addx" ELSE "subx"
       /\ code[k].size = "b" /\ code[k].dst.size = "b" /\ code[k].src.size = "b"
       /\ code[k].dst.kind = "r" /\ code[k].src.kind \in {"r", "i"}
       /\ \A j \in 1 .. (k - 1) : code[j].dst \notin {code[k].dst, code[k].src}

\* The number the first k destinations or sources hold, the lowest byte first.
Number(x, side, k) ==
  LET upto[j \in 0 .. k] ==
        IF j = 0 THEN 0
        ELSE upto[j - 1] + rd(x, code[j][side]) * Weight(j - 1)
  IN  upto[k]

\* Arithmetic in bytes comes out right: the carry or borrow of the low byte
\* reaches the second (emit.py:242-250).  It goes further in additions, but
\* for a carry into a source byte of all ones, which is lost; subtractions
\* go no further with certainty: see BorrowOut.
LimbsRight ==
  LET a == Number(start, "dst", n)
      b == Number(start, "src", n)
      lost == \E k \in 2 .. (n - 1) : rd(start, code[k].src) = Modulus("b") - 1
  IN  Limbs /\ n > 0 /\ (n <= 2 \/ (code[1].op = "add" /\ ~lost)) =>
        Number(m, "dst", n) =
          (IF code[1].op = "add" THEN a + b ELSE a - b) % Weight(n)

\* "Carry out of the top bit" (h8s.h:198): after add, in every size, C says
\* that the sum does not fit.
CarryOut ==
  Executed({"add"}) =>
    ((m.f.cf = 1) <=> Old(Last.dst) + Old(Last.src) >= Modulus(Last.size))

\* "Borrow" (h8s.h:212): after sub and after each subx, C says that the
\* number subtracted so far was the larger.
BorrowOut ==
  Limbs /\ n > 0 /\ code[1].op = "sub" =>
    ((m.f.cf = 1) <=> Number(start, "dst", n) < Number(start, "src", n))
=============================================================================
