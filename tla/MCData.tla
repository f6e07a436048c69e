------------------------------- MODULE MCData -------------------------------
(***************************************************************************)
(* Data with bytes of seven bits: a long fits the integers of TLC, a half  *)
(* carry falls inside the byte and the CCR byte has room for all six flags *)
(* and one user bit.  Single instructions on every byte and on the edges   *)
(* of words and longs; byte-wise arithmetic; and idioms of the firmware.   *)
(***************************************************************************)
EXTENDS Data, TLC

MCBits == [b |-> 7, w |-> 14, l |-> 28]
MCCcr == [iff |-> 6, hf |-> 5, nf |-> 3, zf |-> 2, vf |-> 1, cf |-> 0]

MCRegisters == (0 :> 0) @@ (1 :> 0) @@ (2 :> 44761219) @@ (3 :> 8) @@ (4 :> 3)
                 @@ (5 :> 0) @@ (6 :> 9) @@ (7 :> 16)
MCCells == [a \in 0 .. 15 |-> 10 + 7 * a]
MCHooked == {13}

r(s, k) == [kind |-> "r", size |-> s, n |-> k]
i(s, v) == [kind |-> "i", size |-> s, n |-> v]
at(kind, s, k) == [kind |-> kind, size |-> s, n |-> k, d |-> 2]
none == i("b", 0)
cc == [kind |-> "cc", size |-> "b", n |-> 0]
pc == [kind |-> "pc", size |-> "l", n |-> 0]
I(op, s, dst, src) == [op |-> op, size |-> s, dst |-> dst, src |-> src]

Clear == [q \in Flag |-> 0]
Raised == [q \in Flag |-> 1]
Set(S) == [q \in Flag |-> IF q \in S THEN 1 ELSE 0]
AllFlags == [Flag -> {0, 1}]

\* Contents of ER0 and ER1: every byte, or the edges of a size.
Edges(s) ==
  LET M == Modulus(s)
  IN  {0, 1, 2, 15, 16, M \div 2 - 2, M \div 2 - 1, M \div 2, M \div 2 + 1,
       M - 16, M - 2, M - 1, (M \div 3) * 2, M \div 3, M \div 128 - 1}
Filled(s, vs) == {v + Modulus(s) * ((55555 * 37) % (UINT \div Modulus(s))) : v \in vs}
All(s) == Filled(s, IF s = "b" THEN 0 .. (Modulus("b") - 1) ELSE Edges(s))
Few(s) == Filled(s, Edges(s))

P(is, xs, ys, fs) ==
  [code |-> is, same |-> {}, xs |-> xs, ys |-> ys, fs |-> fs]

\* The low or the high view of ER0 and ER1.
Lo(s, k) == r(s, IF s = "b" THEN k + 8 ELSE k)
HighByte(vs) == {(v % 128) * 128 + 35 : v \in vs}

Binary ==
  {P(<<I(op, s, Lo(s, 0), Lo(s, 1))>>, All(s), Few(s), {Raised})
   : op \in {"add", "sub", "cmp", "and", "or", "xor", "mov"}, s \in Sizes}
  \cup {P(<<I(op, "b", r("b", 0), i("b", v))>>, HighByte(Few("b")), {77},
          {Set({"cf"})})
        : op \in {"add", "addx", "sub", "cmp", "subx", "mov"},
          v \in {0, 1, 63, 64, 127}}
  \cup {P(<<I(op, "w", r("w", 8), r("w", 1))>>, {5 * 16384 + 9, UINT - 1},
          Few("w"), {Clear}) : op \in {"add", "mov"}}

Unaries ==
  {P(<<I(op, s, Lo(s, 0), i(s, k))>>, All(s), {0}, {Clear, Raised})
   : op \in {"inc", "dec"}, s \in Sizes, k \in {1, 2}}
  \cup {P(<<I(op, s, Lo(s, 0), none)>>, All(s), {0}, {Raised})
   : op \in {"not", "neg"}, s \in Sizes}
  \cup {P(<<I(op, s, r(s, 0), none)>>, All("w") \cup Few("l"), {0}, {Raised})
   : op \in {"extu", "exts"}, s \in {"w", "l"}}
  \cup {P(<<I(op, "l", r("l", 0), i("l", k))>>, Few("l"), {0}, {Raised})
   : op \in {"adds", "subs"}, k \in {1, 2, 4}}
  \cup {P(<<I(op, s, Lo(s, 0), i(s, k))>>, All(s), {0}, {Clear, Raised})
   : op \in {"shll", "shal", "shlr", "shar", "rotl", "rotr", "rotxl", "rotxr"},
     s \in Sizes, k \in {1, 2}}

\* Divisors that leave room for the quotient.
Products ==
  {P(<<I(op, "b", r("w", 0), r("b", 9))>>, Few("w"), Few("b"), {Raised})
   : op \in {"mulxu", "mulxs"}}
  \cup {P(<<I(op, "w", r("l", 0), r("w", 1))>>, Few("l"), Few("w"), {Raised})
   : op \in {"mulxu", "mulxs"}}
  \cup {P(<<I("divxu", "b", r("w", 0), r("b", 9))>>, Edges("b"), Few("b"), {Clear}),
        P(<<I("divxu", "b", r("w", 0), r("b", 9))>>, {8127, 128}, {66, 100, 127},
          {Clear}),
        P(<<I("divxu", "w", r("l", 0), r("w", 1))>>, {0, 7, 134000000, UINT - 5},
          {0, 8190, 16383}, {Clear}),
        P(<<I("divxs", "b", r("w", 0), r("b", 9))>>, {0, 5, 60, 16380}, {0, 127},
          {Clear}),
        P(<<I("divxs", "b", r("w", 0), r("b", 9))>>, {60, 500}, {9, 64, 119},
          {Clear}),
        P(<<I("divxs", "w", r("l", 0), r("w", 1))>>,
          {0, 99, 50000, UINT - 7, UINT - 50000}, {0, 20, 16364, 8192}, {Clear})}

BitForms ==
  {P(<<I(op, "b", o, i("b", k))>>, All("b"), {0}, {Clear, Raised})
   : op \in {"bset", "bclr", "bnot", "btst", "bld", "bild", "band", "biand",
             "bor", "bior", "bxor", "bixor", "bst", "bist"},
     o \in {r("b", 8), r("b", 0), at("ind", "b", 3), at("abs", "b", 13)},
     k \in {0, 3, 6}}
  \cup {P(<<I("bset", "b", r("b", 8), r("b", 9))>>, {1}, Few("b"), {Clear}),
        P(<<I("tas", "b", at("ind", "b", 3), none)>>, {1}, {1}, {Clear})}

\* Three limbs: r0l, r0h, r1l.
LimbEdges == {0, 1, 63, 127}
Limbed ==
  {P(<<I(IF up THEN "add" ELSE "sub", "b", r("b", 8), i("b", a)),
       I(IF up THEN "addx" ELSE "subx", "b", r("b", 0), i("b", b)),
       I(IF up THEN "addx" ELSE "subx", "b", r("b", 9), i("b", c))>>,
     {128 * h + l : h \in LimbEdges, l \in LimbEdges}, LimbEdges, {Raised})
   : up \in BOOLEAN, a \in LimbEdges, b \in LimbEdges, c \in LimbEdges}

Idiom(is, same_, xs, ys, fs) ==
  [code |-> is, same |-> same_, xs |-> xs, ys |-> ys, fs |-> fs]
Same(o) == <<o, o>>
Er(k) == r("l", k)
Twice(a) == <<a, a>>

Idioms ==
  {\* a critical section round arithmetic, flags saved in r1h
   Idiom(<<I("stc", "b", r("b", 1), cc), I("orc", "b", cc, i("b", 64)),
           I("add", "w", r("w", 0), i("w", 8191)),
           I("ldc", "b", cc, r("b", 1))>>, {Same(cc)}, {0, 8000}, {0}, AllFlags),
   Idiom(<<I("xorc", "b", cc, i("b", 47)), I("andc", "b", cc, i("b", 127)),
           I("xorc", "b", cc, i("b", 47))>>, {Same(cc)}, {0}, {0}, AllFlags),
   \* an interrupt whose handler saves er0, computes and returns
   Idiom(<<I("interrupt", "l", none, i("l", 0)),
           I("push", "l", at("pd", "l", 7), Er(0)),
           I("mov", "l", Er(0), at("ind", "l", 3)), I("neg", "l", Er(0), none),
           I("pop", "l", Er(0), at("pi", "l", 7)), I("rte", "l", none, none)>>,
         {Same(Er(0)), Same(Er(1)), Same(Er(7)), Same(cc), Same(pc)},
         Few("l"), {9}, AllFlags),
   \* a long written as a long, read in pieces, and the reverse
   Idiom(<<I("mov", "l", at("pd", "l", 7), Er(0)),
           I("mov", "w", r("w", 9), at("pi", "w", 7)),
           I("mov", "b", r("b", 1), at("pi", "b", 7)),
           I("mov", "b", r("b", 9), at("pi", "b", 7))>>,
         {Same(Er(0)), <<Er(1), Er(0)>>, Same(Er(7))}, Few("l"), {0}, {Clear}),
   Idiom(<<I("mov", "b", at("abs", "b", 3), r("b", 8)),
           I("mov", "b", at("abs", "b", 2), r("b", 0)),
           I("mov", "w", at("abs", "w", 0), r("w", 8)),
           I("mov", "l", Er(1), at("abs", "l", 0)),
           I("mov", "l", at("dsp", "l", 3), Er(1)),
           I("mov", "l", Er(0), at("dsp", "l", 3))>>,
         {Same(Er(0)), <<Er(1), Er(0)>>}, Few("l"), {0}, {Clear}),
   \* a byte through a register of a peripheral
   Idiom(<<I("mov", "b", at("abs", "b", 13), r("b", 8)),
           I("mov", "b", r("b", 9), at("abs", "b", 13))>>,
         {<<r("b", 9), r("b", 8)>>}, All("b"), {0}, {Clear}),
   \* a bit carried from one byte to another, and back inverted
   Idiom(<<I("bld", "b", r("b", 8), i("b", 3)), I("bist", "b", r("b", 1), i("b", 0)),
           I("bild", "b", r("b", 1), i("b", 0)), I("bst", "b", r("b", 8), i("b", 3))>>,
         {Same(Er(0))}, All("b"), {0, 255}, {Clear}),
   \* a block moved up and back down: er5 to er6 by r4
   Idiom(<<I("mov", "l", Er(1), Er(4)), I("eepmov", "w", none, none),
           I("mov", "l", Er(6), i("l", 0)), I("mov", "l", Er(5), i("l", 9)),
           I("mov", "b", at("abs", "b", 0), i("b", 0)),
           I("mov", "l", Er(4), Er(1)), I("eepmov", "w", none, none)>>,
         {<<at("abs", "b", a), at("abs", "b", a)>> : a \in 0 .. 2}
           \cup {<<at("abs", "b", 9 + a), at("abs", "b", a)>> : a \in 0 .. 2}
           \cup {<<r("w", 4), i("w", 0)>>}, {0}, {0}, {Clear})}
  \cup
  {Idiom(Twice(I(op, s, Lo(s, 0), none)), {Same(Er(0))}, All(s), {0}, {Clear})
   : op \in {"not", "neg"}, s \in Sizes}
  \cup
  {Idiom(<<I(p[1], s, Lo(s, 0), i(s, 1)), I(p[2], s, Lo(s, 0), i(s, 1))>>,
         {Same(Er(0))}, All(s), {0}, {Clear, Raised})
   : p \in {<<"rotl", "rotr">>, <<"rotxl", "rotxr">>, <<"rotxr", "rotxl">>,
            <<"inc", "dec">>}, s \in Sizes}
  \cup
  \* every bit of a byte through C, w + 1 times; and once round without it
  {Idiom([k \in 1 .. 8 |-> I(op, "b", r("b", 0), i("b", 1))], {Same(Er(0))},
         HighByte(All("b")), {0}, {Clear, Set({"cf"})}) : op \in {"rotxl", "rotxr"}}
  \cup
  {Idiom([k \in 1 .. 7 |-> I(op, "b", r("b", 0), i("b", 1))], {Same(Er(0))},
         HighByte(All("b")), {0}, {Clear}) : op \in {"rotl", "rotr"}}
  \cup
  \* a product divided by its factor
  {Idiom(<<I("mulxu", "b", r("w", 0), r("b", 9)), I("divxu", "b", r("w", 0), r("b", 9))>>,
         {Same(r("b", 8)), <<r("b", 0), i("b", 0)>>}, Few("b"), Few("b") \ Filled("b", {0}),
         {Clear})}
  \cup
  {Idiom(<<I("add", s, Lo(s, 0), Lo(s, 1)), I("sub", s, Lo(s, 0), Lo(s, 1))>>,
         {Same(Er(0))}, All(s), Few(s), {Clear}) : s \in Sizes}

MCPrograms == Binary \cup Unaries \cup Products \cup BitForms \cup Limbed \cup Idioms
=============================================================================
