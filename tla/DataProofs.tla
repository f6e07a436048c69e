------------------------------ MODULE DataProofs ------------------------------
(***************************************************************************)
(* Proofs about Alu.tla and Data.tla: for every width of a byte, every     *)
(* operand and every program.  First what the flags say of a sum, then     *)
(* what each instruction writes and what it leaves alone, last sums in     *)
(* bytes.                                                                  *)
(***************************************************************************)
EXTENDS Data, SequenceTheorems, WellFoundedInduction, TLAPS

-----------------------------------------------------------------------------
(* Induction and recursion up to a bound. *)

LEMMA NatMin ==
  ASSUME NEW T, T \subseteq Nat, T # {}
  PROVE  \E x \in T : \A y \in T : x <= y
<1> DEFINE R == OpToRel(<, Nat)
<1>1. IsWellFoundedOn(R, Nat)
  BY NatLessThanWellFounded
<1>2. \A x, y \in Nat : x < y => <<x, y>> \in R
  BY DEF OpToRel
<1> HIDE DEF R
<1>3. PICK x \in T : \A y \in T : <<y, x>> \notin R
  BY <1>1, WFMin
<1>4. \A y \in T : ~(y < x)
  BY <1>2, <1>3
<1>5. \A y \in T : x <= y
  BY <1>4
<1> QED
  BY <1>5

LEMMA Induct ==
  ASSUME NEW N \in Nat, NEW S, 0 \in S, \A k \in 1 .. N : k - 1 \in S => k \in S
  PROVE  \A k \in 0 .. N : k \in S
<1> SUFFICES ASSUME NEW j \in 0 .. N, j \notin S PROVE FALSE
  OBVIOUS
<1> DEFINE T == {k \in 0 .. N : k \notin S}
<1>1. PICK k \in T : \A i \in T : k <= i
  <2>1. T \subseteq Nat /\ T # {}
    OBVIOUS
  <2> QED
    BY <2>1, NatMin
<1>2. k \in 1 .. N /\ k - 1 \in 0 .. N /\ ~(k <= k - 1)
  OBVIOUS
<1>3. k - 1 \in S
  BY <1>1, <1>2
<1> QED
  BY <1>2, <1>3

\* A function that starts somewhere in V and stays there step by step.
Steps(N, V, step) == \A k \in 1 .. N, v \in V : step[k][v] \in V
Goes(N, V, base, step, f) ==
  /\ f \in [0 .. N -> V] /\ f[0] = base
  /\ \A k \in 1 .. N : f[k] = step[k][f[k - 1]]

LEMMA Recursion ==
  ASSUME NEW N \in Nat, NEW V, NEW base \in V, NEW step, Steps(N, V, step)
  PROVE  \E f : Goes(N, V, base, step, f)
<1> USE DEF Steps
<1> DEFINE Good(i, f) == Goes(i, V, base, step, f)
           S == {i \in 0 .. N : \E f : Good(i, f)}
<1>1. 0 \in S
  <2>1. Good(0, [k \in 0 .. 0 |-> base])
    BY DEF Goes
  <2> HIDE DEF Good
  <2>2. \E f : Good(0, f)
    BY <2>1
  <2> QED
    BY <2>2
<1>2. ASSUME NEW i \in 1 .. N, i - 1 \in S PROVE i \in S
  <2>1. PICK f : Good(i - 1, f)
    BY <1>2
  <2> USE DEF Goes
  <2> DEFINE g == [k \in 0 .. i |-> IF k = i THEN step[i][f[i - 1]] ELSE f[k]]
  <2>2. f[i - 1] \in V /\ step[i][f[i - 1]] \in V
    BY <2>1
  <2>3. \A k \in 0 .. i : k # i => k \in 0 .. (i - 1)
    OBVIOUS
  <2>4. g \in [0 .. i -> V] /\ g[0] = base
    BY <2>1, <2>2, <2>3
  <2>5. ASSUME NEW k \in 1 .. i PROVE g[k] = step[k][g[k - 1]]
    <3>1. CASE k = i
      <4>1. g[k] = step[i][f[i - 1]]
        BY <3>1
      <4>2. i - 1 \in 0 .. i /\ i - 1 # i
        OBVIOUS
      <4>3. g[k - 1] = f[i - 1]
        BY <3>1, <4>2
      <4> QED
        BY <3>1, <4>1, <4>3
    <3>2. CASE k # i
      <4>1. k \in 1 .. (i - 1) /\ g[k] = f[k]
        BY <2>3, <3>2
      <4>2. k - 1 \in 0 .. i /\ k - 1 # i
        BY <4>1
      <4>3. g[k - 1] = f[k - 1]
        BY <4>2
      <4> QED
        BY <2>1, <4>1, <4>3
    <3> QED
      BY <3>1, <3>2
  <2> HIDE DEF g
  <2>6. Good(i, g)
    BY <2>4, <2>5
  <2> QED
    BY <2>6, SMTT(30)
<1>3. N \in S
  <2> HIDE DEF S
  <2>1. \A i \in 0 .. N : i \in S
    BY <1>1, <1>2, Induct
  <2> QED
    BY <2>1
<1>4. PICK f : Good(N, f)
  BY <1>3
<1> QED
  BY <1>4

-----------------------------------------------------------------------------
(* Powers of two. *)

Widest == BITS["l"]

LEMMA WidthsAre ==
  /\ BITS["b"] \in Nat /\ BITS["b"] >= 2
  /\ BITS["w"] = 2 * BITS["b"] /\ BITS["l"] = 4 * BITS["b"]
  /\ Widest \in Nat /\ Widest >= 8
  /\ \A s \in Sizes : BITS[s] \in 0 .. Widest /\ BITS[s] >= 2
  /\ NIB \in 0 .. Widest /\ NIB >= 1
BY WidthAssumption DEF Widest, Sizes

LEMMA TwoIsDefined ==
  Two = [k \in 0 .. Widest |-> IF k = 0 THEN 1 ELSE 2 * Two[k - 1]]
<1> DEFINE V == Nat
           one == 1
           step == [k \in 1 .. Widest |-> [v \in V |-> 2 * v]]
<1>1. Steps(Widest, V, step)
  BY DEF Steps
<1>2. PICK f : Goes(Widest, V, one, step, f)
  <2>1. Widest \in Nat /\ one \in V
    BY WidthsAre
  <2> HIDE DEF step, V, one
  <2> QED
    BY <1>1, <2>1, Recursion
<1>3. ASSUME NEW k \in 1 .. Widest PROVE f[k] = 2 * f[k - 1]
  <2>1. k - 1 \in 0 .. Widest
    BY WidthsAre
  <2>2. f[k - 1] \in Nat
    BY <1>2, <2>1 DEF Goes
  <2> QED
    BY <1>2, <2>2 DEF Goes
<1> HIDE DEF step, V
<1>4. f = [k \in 0 .. Widest |-> IF k = 0 THEN 1 ELSE 2 * f[k - 1]]
  <2>1. ASSUME NEW k \in 0 .. Widest
        PROVE  f[k] = IF k = 0 THEN 1 ELSE 2 * f[k - 1]
    <3>1. k # 0 => k \in 1 .. Widest
      BY WidthsAre
    <3> QED
      BY <1>2, <1>3, <3>1 DEF Goes
  <2>2. f = [k \in 0 .. Widest |-> f[k]]
    BY <1>2 DEF Goes
  <2> QED
    BY <2>1, <2>2
<1>5. Two = CHOOSE g : g = [k \in 0 .. Widest |-> IF k = 0 THEN 1 ELSE 2 * g[k - 1]]
  BY DEF Two, Widest
<1> QED
  BY <1>4, <1>5

LEMMA TwoIs ==
  /\ Two[0] = 1
  /\ \A k \in 0 .. Widest : Two[k] \in Nat /\ Two[k] >= 1
  /\ \A k \in 1 .. Widest : Two[k] = 2 * Two[k - 1]
<1>1. Two[0] = 1 /\ 0 \in 0 .. Widest
  BY TwoIsDefined, WidthsAre
<1>2. ASSUME NEW k \in 1 .. Widest PROVE Two[k] = 2 * Two[k - 1]
  <2>1. k \in 0 .. Widest /\ k # 0
    BY WidthsAre
  <2> QED
    BY <2>1, TwoIsDefined
<1> DEFINE S == {k \in 0 .. Widest : Two[k] \in Nat /\ Two[k] >= 1}
<1>3. 0 \in S
  BY <1>1
<1>4. ASSUME NEW k \in 1 .. Widest, k - 1 \in S PROVE k \in S
  <2>1. Two[k - 1] \in Nat /\ Two[k - 1] >= 1 /\ k \in 0 .. Widest
    BY <1>4, WidthsAre
  <2> QED
    BY <1>2, <2>1
<1> HIDE DEF S
<1>5. \A k \in 0 .. Widest : k \in S
  BY <1>3, <1>4, Induct, WidthsAre
<1> QED
  BY <1>1, <1>2, <1>5 DEF S

\* Exponents add.
LEMMA TwoAdds ==
  ASSUME NEW i \in 0 .. Widest, NEW j \in 0 .. Widest, i + j \in 0 .. Widest
  PROVE  Two[i + j] = Two[i] * Two[j]
<1> DEFINE S == {k \in 0 .. j : Two[i + k] = Two[i] * Two[k]}
<1>1. 0 \in S
  <2>1. i + 0 = i /\ Two[i] \in Nat
    BY TwoIs, WidthsAre
  <2>2. Two[i] * 1 = Two[i]
    BY <2>1
  <2> QED
    BY <2>1, <2>2, TwoIs, WidthsAre
<1>2. ASSUME NEW k \in 1 .. j, k - 1 \in S PROVE k \in S
  <2>1. k \in 1 .. Widest /\ i + k \in 1 .. Widest /\ i + (k - 1) = (i + k) - 1
        /\ k - 1 \in 0 .. Widest /\ i + (k - 1) \in 0 .. Widest
    BY WidthsAre
  <2>2. Two[i + k] = 2 * Two[i + (k - 1)] /\ Two[k] = 2 * Two[k - 1]
    BY <2>1, TwoIs
  <2>3. Two[i + (k - 1)] = Two[i] * Two[k - 1]
    BY <1>2
  <2>4. Two[i] \in Nat /\ Two[k - 1] \in Nat
    BY <2>1, TwoIs
  <2>5. 2 * (Two[i] * Two[k - 1]) = Two[i] * (2 * Two[k - 1])
    BY <2>4
  <2> QED
    BY <2>2, <2>3, <2>5
<1>3. j \in Nat
  OBVIOUS
<1> HIDE DEF S
<1>4. j \in S
  BY <1>1, <1>2, <1>3, Induct
<1> QED
  BY <1>4 DEF S

\* The sizes: a word is a byte of bytes, a long a word of words.
LEMMA SizesAre ==
  /\ \A s \in Sizes : Modulus(s) \in Nat /\ Modulus(s) >= 4
  /\ Modulus("w") = Modulus("b") * Modulus("b")
  /\ UINT = Modulus("w") * Modulus("w")
  /\ UINT \in Nat /\ UINT >= 4
  /\ Weight(0) = 1 /\ Weight(1) = Modulus("b") /\ Weight(2) = Modulus("w")
  /\ Weight(3) = Modulus("b") * Modulus("w")
  /\ Bytes("b") = 1 /\ Bytes("w") = 2 /\ Bytes("l") = 4
<1> DEFINE B == BITS["b"]
<1>0. B \in Nat /\ B >= 2 /\ Widest = 4 * B /\ BITS["w"] = 2 * B /\ BITS["l"] = 4 * B
  BY WidthsAre DEF Widest
<1> HIDE DEF B
<1>1. ASSUME NEW s \in Sizes PROVE Modulus(s) \in Nat /\ Modulus(s) >= 4
  <2>1. BITS[s] \in 1 .. Widest /\ BITS[s] - 1 \in 1 .. Widest
        /\ BITS[s] - 1 - 1 \in 0 .. Widest
    BY WidthsAre
  <2>2. Two[BITS[s]] = 2 * Two[BITS[s] - 1] /\ Two[BITS[s] - 1] = 2 * Two[BITS[s] - 1 - 1]
        /\ Two[BITS[s] - 1 - 1] \in Nat /\ Two[BITS[s] - 1 - 1] >= 1
    BY <2>1, TwoIs
  <2> QED
    BY <2>2 DEF Modulus
<1>2. Two[B + B] = Two[B] * Two[B]
  BY <1>0, TwoAdds
<1>3. Two[2 * B + 2 * B] = Two[2 * B] * Two[2 * B] /\ Two[B + 2 * B] = Two[B] * Two[2 * B]
  BY <1>0, TwoAdds
<1>4. B + B = 2 * B /\ 2 * B + 2 * B = 4 * B /\ B + 2 * B = B * 3 /\ B * 2 = 2 * B
      /\ B * 1 = B /\ B * 0 = 0
  BY <1>0
<1>5. Modulus("b") = Two[B] /\ Modulus("w") = Two[2 * B] /\ UINT = Two[4 * B]
  BY <1>0 DEF Modulus, UINT, B
<1>6. Weight(0) = Two[0] /\ Weight(1) = Two[B] /\ Weight(2) = Two[2 * B]
      /\ Weight(3) = Two[B * 3]
  BY <1>4 DEF Weight, B
<1>7. Bytes("b") = 1 /\ Bytes("w") = 2 /\ Bytes("l") = 4
  <2>1. B \div B = 1 /\ (2 * B) \div B = 2 /\ (4 * B) \div B = 4
    BY <1>0
  <2> QED
    BY <1>0, <2>1 DEF Bytes, B
<1>8. UINT \in Nat /\ UINT >= 4
  BY <1>1 DEF UINT, Sizes
<1> QED
  BY <1>1, <1>2, <1>3, <1>4, <1>5, <1>6, <1>7, <1>8, TwoIs DEF Sizes

-----------------------------------------------------------------------------
(* Division, and the digits of a number. *)

\* So many divisors and a remainder are fewer than more divisors.
LEMMA FewerDivisors ==
  ASSUME NEW d \in Nat, NEW p \in Int, NEW q \in Int, p < q,
         NEW r \in 0 .. (d - 1)
  PROVE  d * p + r < d * q
<1>1. PICK k \in Nat : q = p + 1 + k
  <2>1. q - p - 1 \in Nat /\ q = p + 1 + (q - p - 1)
    OBVIOUS
  <2> QED
    BY <2>1
<1>2. d * q = d * p + d + d * k /\ d * k \in Nat /\ d * p \in Int
  BY <1>1
<1> QED
  BY <1>2

LEMMA Division ==
  ASSUME NEW v \in Int, NEW d \in Nat, d >= 1
  PROVE  \E q \in Int, r \in 0 .. (d - 1) :
           v \div d = q /\ v % d = r /\ v = d * q + r
<1> DEFINE q == v \div d
           r == v % d
<1>1. q \in Int /\ r \in Int /\ v = d * q + r /\ r >= 0 /\ r < d
  OBVIOUS
<1> HIDE DEF q, r
<1>2. \E p \in Int, s \in 0 .. (d - 1) : q = p /\ r = s /\ v = d * p + s
  BY <1>1
<1> QED
  BY <1>2 DEF q, r

LEMMA QuotientIs ==
  ASSUME NEW d \in Nat, d >= 1, NEW q \in Int, NEW r \in 0 .. (d - 1)
  PROVE  (d * q + r) \div d = q /\ (d * q + r) % d = r
<1> DEFINE v == d * q + r
<1>0. v \in Int
  OBVIOUS
<1> HIDE DEF v
<1>1. PICK p \in Int, s \in 0 .. (d - 1) : v \div d = p /\ v % d = s /\ v = d * p + s
  BY <1>0, Division
<1>2. v = d * q + r /\ d * q \in Int /\ d * p \in Int
  BY DEF v
<1>3. ~(p < q)
  <2>1. p < q => d * p + s < d * q
    BY FewerDivisors
  <2> QED
    BY <1>1, <1>2, <2>1
<1>4. ~(q < p)
  <2>1. q < p => d * q + r < d * p
    BY FewerDivisors
  <2> QED
    BY <1>1, <1>2, <2>1
<1>5. p = q
  BY <1>3, <1>4
<1>6. s = r
  BY <1>1, <1>2, <1>5
<1> QED
  BY <1>1, <1>5, <1>6 DEF v

LEMMA RemainderRange ==
  ASSUME NEW v \in Int, NEW d \in Nat, d >= 1
  PROVE  v % d \in 0 .. (d - 1)
BY Division

LEMMA SmallRemainder ==
  ASSUME NEW d \in Nat, d >= 1, NEW r \in 0 .. (d - 1)
  PROVE  r % d = r
<1>1. (d * 0 + r) % d = r
  BY QuotientIs
<1> QED
  BY <1>1

LEMMA ProductOfNat ==
  ASSUME NEW a \in Nat, NEW b \in Nat, a >= 1, b >= 1
  PROVE  a * b \in Nat /\ a * b >= 1 /\ a * b >= a
<1>1. PICK k \in Nat : b = 1 + k
  <2>1. b - 1 \in Nat /\ b = 1 + (b - 1)
    OBVIOUS
  <2> QED
    BY <2>1
<1>2. a * b = a + a * k /\ a * k \in Nat
  BY <1>1
<1> QED
  BY <1>2

\* A number below P * (M * Q) is h digits of base M and one more, o, above
\* the part below P.
LEMMA DigitOf ==
  ASSUME NEW P \in Nat, P >= 1, NEW M \in Nat, M >= 1, NEW Q \in Nat, Q >= 1,
         NEW v \in 0 .. (P * (M * Q) - 1)
  PROVE  \E h \in 0 .. (Q - 1), o \in 0 .. (M - 1), r \in 0 .. (P - 1) :
           v = P * (M * h + o) + r /\ (v \div P) % M = o
<1>0. v \in Int /\ v >= 0 /\ v < P * (M * Q) /\ M * Q \in Nat
  <2>1. M * Q \in Nat
    BY ProductOfNat
  <2>2. P * (M * Q) \in Nat
    BY <2>1
  <2> QED
    BY <2>1, <2>2
<1>1. PICK q \in Int, r \in 0 .. (P - 1) : v \div P = q /\ v = P * q + r
  BY <1>0, Division
<1>2. PICK h \in Int, o \in 0 .. (M - 1) : q % M = o /\ q = M * h + o
  BY Division
<1>3. q >= 0
  <2>1. q < 0 => P * q + r < P * 0
    BY FewerDivisors
  <2>2. P * q \in Int /\ P * 0 = 0
    OBVIOUS
  <2> QED
    BY <1>0, <1>1, <2>1, <2>2
<1>4. h >= 0
  <2>1. h < 0 => M * h + o < M * 0
    BY FewerDivisors
  <2>2. M * h \in Int /\ M * 0 = 0
    OBVIOUS
  <2> QED
    BY <1>2, <1>3, <2>1, <2>2
<1>5. q < M * Q
  <2>1. M * Q < q => P * (M * Q) + 0 < P * q
    BY <1>0, FewerDivisors
  <2>2. P * q \in Int /\ P * (M * Q) \in Nat
    BY <1>0
  <2>3. M * Q # q /\ ~(M * Q < q)
    BY <1>0, <1>1, <2>1, <2>2
  <2> QED
    BY <1>0, <2>3
<1>6. h < Q
  <2>1. Q < h => M * Q + 0 < M * h
    BY FewerDivisors
  <2>2. M * h \in Int
    OBVIOUS
  <2>3. Q # h /\ ~(Q < h)
    BY <1>0, <1>2, <1>5, <2>1, <2>2
  <2> QED
    BY <2>3
<1>7. h \in 0 .. (Q - 1)
  BY <1>4, <1>6
<1> QED
  BY <1>1, <1>2, <1>7

\* And such digits are a number below P * (M * Q).
LEMMA DigitsMake ==
  ASSUME NEW P \in Nat, P >= 1, NEW M \in Nat, M >= 1, NEW Q \in Nat, Q >= 1,
         NEW h \in 0 .. (Q - 1), NEW o \in 0 .. (M - 1), NEW r \in 0 .. (P - 1)
  PROVE  /\ P * (M * h + o) + r \in 0 .. (P * (M * Q) - 1)
         /\ ((P * (M * h + o) + r) \div P) % M = o
<1>0. M * h \in Nat /\ M * Q \in Nat /\ h \in Nat /\ o \in Nat /\ h < Q /\ r \in Nat
  OBVIOUS
<1> DEFINE q == M * h + o
<1>1. q \in Nat /\ q < M * Q
  <2>1. M * h + o < M * Q
    BY <1>0, FewerDivisors
  <2> QED
    BY <1>0, <2>1
<1>2. q % M = o
  BY <1>0, QuotientIs
<1> HIDE DEF q
<1>3. P * q + r < P * (M * Q) /\ P * q \in Nat /\ P * (M * Q) \in Nat
  BY <1>0, <1>1, FewerDivisors
<1>4. (P * q + r) \div P = q
  BY <1>1, QuotientIs
<1> QED
  BY <1>0, <1>2, <1>3, <1>4 DEF q

-----------------------------------------------------------------------------
(* The registers and their views. *)

Byte == 0 .. (Modulus("b") - 1)
Registers32 == [0 .. 7 -> 0 .. (UINT - 1)]
Flags == [Flag -> {0, 1}]
Cy == [e : Registers32, f : Flags, pc : 0 .. (MEM - 1),
       mem : [0 .. (MEM - 1) -> Byte], io : [Hooked -> Byte]]

\* A view is a digit of its ERn: so much below it, so much above.
LEMMA ViewsAreDigits ==
  ASSUME NEW s \in Sizes, NEW k \in 0 .. 15
  PROVE  /\ Place(s, k) \in Nat /\ Place(s, k) >= 1
         /\ \E Q \in Nat : Q >= 1 /\ UINT = Place(s, k) * (Modulus(s) * Q)
<1>1. PICK B \in Nat : B = Modulus("b") /\ B >= 4
  BY SizesAre DEF Sizes
<1>2. Modulus("w") = B * B /\ B * B \in Nat /\ UINT = (B * B) * (B * B)
      /\ UINT \in Nat /\ UINT >= 4
  BY <1>1, SizesAre
<1>3. B * B >= 1 /\ B * (B * B) \in Nat /\ B * (B * B) >= 1
  BY <1>1, <1>2, ProductOfNat
<1>4. (B * B) * (B * B) = B * (B * (B * B)) /\ (B * B) * (B * B) = 1 * (B * (B * (B * B)))
      /\ (B * B) * (B * B) = 1 * ((B * B) * (B * B))
      /\ (B * B) * (B * B) = (B * B) * ((B * B) * 1)
  <2>1. \A x, y \in Nat : B * x = B * x /\ (B * B) * x = B * (B * x) /\ 1 * x = x /\ x * 1 = x
    BY <1>1
  <2>2. B * (B * (B * B)) \in Nat /\ (B * B) * (B * B) \in Nat
    BY <1>1, <1>2, <1>3
  <2> QED
    BY <1>2, <2>1, <2>2
<1>5. CASE s = "b"
  <2>1. CASE k < 8
    <3>1. Place(s, k) = B
      BY <1>1, <1>5, <2>1 DEF Place
    <3> QED
      BY <1>1, <1>2, <1>3, <1>4, <1>5, <3>1
  <2>2. CASE k >= 8
    <3>1. Place(s, k) = 1
      BY <1>5, <2>2 DEF Place
    <3> QED
      BY <1>1, <1>2, <1>3, <1>4, <1>5, <3>1
  <2> QED
    BY <2>1, <2>2
<1>6. CASE s = "w"
  <2>1. CASE k >= 8
    <3>1. Place(s, k) = B * B
      BY <1>2, <1>6, <2>1 DEF Place
    <3>2. UINT = (B * B) * ((B * B) * 1)
      BY <1>2, <1>4
    <3> QED
      BY <1>2, <1>3, <1>6, <3>1, <3>2
  <2>2. CASE k < 8
    <3>1. Place(s, k) = 1
      BY <1>6, <2>2 DEF Place
    <3> QED
      BY <1>2, <1>3, <1>4, <1>6, <3>1
  <2> QED
    BY <2>1, <2>2
<1>7. CASE s = "l"
  <2>1. Place(s, k) = 1 /\ Modulus(s) = UINT
    BY <1>7 DEF Place, UINT
  <2>2. UINT = 1 * (UINT * 1)
    BY <1>2
  <2> QED
    BY <2>1, <2>2
<1> QED
  BY <1>5, <1>6, <1>7 DEF Sizes

\* Writing a view leaves the value written in it and a register of 32 bits.
LEMMA ViewWritten ==
  ASSUME NEW s \in Sizes, NEW k \in 0 .. 15, NEW v \in 0 .. (UINT - 1),
         NEW w \in 0 .. (Modulus(s) - 1)
  PROVE  LET P == Place(s, k)
             M == Modulus(s)
             u == v + (w - ((v \div P) % M)) * P
         IN  u \in 0 .. (UINT - 1) /\ (u \div P) % M = w
<1> DEFINE P == Place(s, k)
           M == Modulus(s)
<1>1. M \in Nat /\ M >= 1
  BY SizesAre
<1>2. P \in Nat /\ P >= 1
  BY ViewsAreDigits
<1>3. PICK Q \in Nat : Q >= 1 /\ UINT = P * (M * Q)
  BY ViewsAreDigits
<1>4. v \in 0 .. (P * (M * Q) - 1) /\ w \in 0 .. (M - 1)
  BY <1>3
<1> HIDE DEF P, M
<1>5. PICK h \in 0 .. (Q - 1), o \in 0 .. (M - 1), r \in 0 .. (P - 1) :
        v = P * (M * h + o) + r /\ (v \div P) % M = o
  BY <1>1, <1>2, <1>3, <1>4, DigitOf, ZenonT(30)
<1> DEFINE u == v + (w - ((v \div P) % M)) * P
<1>6. u = P * (M * h + w) + r
  <2>1. u = P * (M * h + o) + r + (w - o) * P
    BY <1>5
  <2>2. M * h \in Int
    BY <1>1
  <2> QED
    BY <1>1, <1>2, <2>1, <2>2
<1>7. u \in 0 .. (P * (M * Q) - 1) /\ (u \div P) % M = w
  BY <1>1, <1>2, <1>3, <1>4, <1>6, DigitsMake, SMTT(30)
<1> QED
  BY <1>3, <1>7 DEF P, M

LEMMA ReadsRegister ==
  ASSUME NEW x, x.e \in Registers32, NEW s \in Sizes, NEW k \in 0 .. 15
  PROVE  /\ k % 8 \in 0 .. 7 /\ x.e[k % 8] \in 0 .. (UINT - 1)
         /\ reg_read(x, s, k) \in 0 .. (Modulus(s) - 1)
<1>1. k % 8 \in 0 .. 7
  OBVIOUS
<1>2. x.e[k % 8] \in 0 .. (UINT - 1)
  BY <1>1 DEF Registers32
<1>3. x.e[k % 8] \div Place(s, k) \in Int
  <2>1. Place(s, k) \in Nat /\ Place(s, k) >= 1 /\ x.e[k % 8] \in Int
    BY <1>2, ViewsAreDigits, SizesAre
  <2>2. \A a \in Int, d \in Nat : d >= 1 => a \div d \in Int
    OBVIOUS
  <2> QED
    BY <2>1, <2>2
<1>4. Modulus(s) \in Nat /\ Modulus(s) >= 1
  BY SizesAre
<1> QED
  BY <1>1, <1>2, <1>3, <1>4, RemainderRange DEF reg_read

LEMMA WritesRegister ==
  ASSUME NEW x \in Cy, NEW s \in Sizes, NEW k \in 0 .. 15, NEW v \in Int
  PROVE  /\ reg_write(x, s, k, v) \in Cy
         /\ reg_read(reg_write(x, s, k, v), s, k) = v % Modulus(s)
         /\ reg_write(x, s, k, v).f = x.f
<1> DEFINE j == k % 8
           P == Place(s, k)
           w == v % Modulus(s)
           u == x.e[j] + (w - reg_read(x, s, k)) * P
           y == [x EXCEPT !.e[j] = u]
<1>1. x.e \in Registers32
  BY DEF Cy
<1>2. j \in 0 .. 7 /\ x.e[j] \in 0 .. (UINT - 1)
  BY <1>1, ReadsRegister
<1>3. w \in 0 .. (Modulus(s) - 1)
  <2>1. Modulus(s) \in Nat /\ Modulus(s) >= 1
    BY SizesAre
  <2> QED
    BY <2>1, RemainderRange
<1>4. u \in 0 .. (UINT - 1) /\ (u \div P) % Modulus(s) = w
  <2>1. reg_read(x, s, k) = (x.e[j] \div P) % Modulus(s)
    BY DEF reg_read
  <2> HIDE DEF j, w
  <2>2. LET z == x.e[j] + (w - ((x.e[j] \div P) % Modulus(s))) * P
        IN  z \in 0 .. (UINT - 1) /\ (z \div P) % Modulus(s) = w
    BY <1>2, <1>3, ViewWritten
  <2> QED
    BY <2>1, <2>2
<1>5. reg_write(x, s, k, v) = y
  BY DEF reg_write
<1> HIDE DEF u, j, P, w
<1>6. y \in Cy /\ y.e[j] = u /\ y.f = x.f
  BY <1>2, <1>4 DEF Cy, Registers32
<1>7. reg_read(y, s, k) = (y.e[j] \div P) % Modulus(s)
  BY DEF reg_read, j, P
<1> QED
  BY <1>4, <1>5, <1>6, <1>7 DEF w

-----------------------------------------------------------------------------
(* Numbers from bits, and the CCR byte. *)

\* The partial sums of FromOnes.
IsSum(S, g) ==
  /\ g \in [0 .. Widest -> Nat] /\ g[0] = 0
  /\ \A k \in 1 .. Widest : g[k] = g[k - 1] + (IF k - 1 \in S THEN Two[k - 1] ELSE 0)

LEMMA FromOnesIsSum ==
  ASSUME NEW S
  PROVE  \E g : IsSum(S, g) /\ FromOnes(S) = g[Widest]
<1> DEFINE V == Nat
           zero == 0
           step == [k \in 1 .. Widest |->
                      [v \in V |-> v + (IF k - 1 \in S THEN Two[k - 1] ELSE 0)]]
           body(g) == [k \in 0 .. BITS["l"] |->
                         IF k = 0 THEN 0
                         ELSE g[k - 1] + (IF k - 1 \in S THEN Two[k - 1] ELSE 0)]
<1>1. \A k \in 1 .. Widest : k - 1 \in 0 .. Widest /\ Two[k - 1] \in Nat
  BY TwoIs, WidthsAre
<1>2. Steps(Widest, V, step)
  BY <1>1 DEF Steps
<1>3. PICK g : Goes(Widest, V, zero, step, g)
  <2>1. Widest \in Nat /\ zero \in V
    BY WidthsAre
  <2> HIDE DEF step, V, zero
  <2> QED
    BY <1>2, <2>1, Recursion
<1>4. IsSum(S, g)
  BY <1>1, <1>3 DEF Goes, IsSum
<1>5. ASSUME NEW h, IsSum(S, h) PROVE h = body(h)
  <2>1. \A k \in 0 .. Widest : k # 0 => k \in 1 .. Widest
    BY WidthsAre
  <2> QED
    BY <1>5, <2>1 DEF IsSum, Widest
<1>6. ASSUME NEW h, h = body(h) PROVE IsSum(S, h)
  <2>1. h = [k \in 0 .. Widest |-> h[k]] /\ h[0] = 0
        /\ \A k \in 1 .. Widest : h[k] = h[k - 1] + (IF k - 1 \in S THEN Two[k - 1] ELSE 0)
    <3>1. \A k \in 0 .. Widest :
            h[k] = IF k = 0 THEN 0
                   ELSE h[k - 1] + (IF k - 1 \in S THEN Two[k - 1] ELSE 0)
      BY <1>6 DEF Widest
    <3>2. h = [k \in 0 .. Widest |-> h[k]]
      BY <1>6 DEF Widest
    <3>3. 0 \in 0 .. Widest /\ \A k \in 1 .. Widest : k \in 0 .. Widest /\ k # 0
      BY WidthsAre
    <3> QED
      BY <3>1, <3>2, <3>3
  <2> DEFINE T == {k \in 0 .. Widest : h[k] \in Nat}
  <2>2. 0 \in T
    BY <2>1, WidthsAre
  <2>3. ASSUME NEW k \in 1 .. Widest, k - 1 \in T PROVE k \in T
    <3>1. k \in 0 .. Widest /\ h[k - 1] \in Nat
      BY <2>3, WidthsAre
    <3>2. h[k] = h[k - 1] + (IF k - 1 \in S THEN Two[k - 1] ELSE 0)
      BY <2>1
    <3>3. h[k] \in Nat
      BY <1>1, <3>1, <3>2
    <3> QED
      BY <3>1, <3>3
  <2> HIDE DEF T
  <2>4. \A k \in 0 .. Widest : k \in T
    BY <2>2, <2>3, Induct, WidthsAre
  <2> QED
    BY <2>1, <2>4 DEF IsSum, T
<1> DEFINE u == CHOOSE h : h = body(h)
<1>7. FromOnes(S) = u[Widest]
  BY DEF FromOnes, Widest
<1>8. u = body(u)
  <2> HIDE DEF body
  <2> QED
    BY <1>4, <1>5
<1> HIDE DEF u, body
<1>9. IsSum(S, u)
  BY <1>6, <1>8
<1> QED
  BY <1>7, <1>9

LEMMA BitsOfSum ==
  ASSUME NEW S, NEW g, IsSum(S, g), NEW n0 \in 0 .. Widest
  PROVE  /\ g[n0] \in 0 .. (Two[n0] - 1)
         /\ \A i \in 0 .. (n0 - 1) : BitAt(g[n0], i) = Bit(i \in S)
<1> DEFINE Good(k) == /\ g[k] \in 0 .. (Two[k] - 1)
                      /\ \A i \in 0 .. (k - 1) : BitAt(g[k], i) = Bit(i \in S)
           T == {k \in 0 .. Widest : Good(k)}
<1>1. 0 \in T
  <2>1. 0 \in 0 .. Widest /\ g[0] = 0 /\ Two[0] = 1
    BY TwoIs, WidthsAre DEF IsSum
  <2> QED
    BY <2>1
<1>2. ASSUME NEW k \in 1 .. Widest, k - 1 \in T PROVE k \in T
  <2> DEFINE j == k - 1
             b == Bit(j \in S)
  <2>1. j \in 0 .. Widest /\ k = j + 1 /\ k \in 0 .. Widest
    BY WidthsAre
  <2>2. Good(j)
    BY <1>2
  <2>3. b \in {0, 1}
    BY DEF Bit
  <2>4. Two[k] = 2 * Two[j] /\ Two[j] \in Nat /\ Two[j] >= 1
    BY <2>1, TwoIs
  <2>5. g[k] = Two[j] * b + g[j] /\ g[j] \in 0 .. (Two[j] - 1)
    <3>1. g[k] = g[j] + (IF j \in S THEN Two[j] ELSE 0)
      BY DEF IsSum
    <3>2. g[j] \in 0 .. (Two[j] - 1)
      BY <2>2
    <3>3. CASE j \in S
      BY <2>4, <3>1, <3>2, <3>3 DEF Bit
    <3>4. CASE j \notin S
      BY <2>4, <3>1, <3>2, <3>4 DEF Bit
    <3> QED
      BY <3>2, <3>3, <3>4
  <2> HIDE DEF b
  <2>6. g[k] \in 0 .. (Two[k] - 1)
    <3>1. CASE b = 0
      BY <2>4, <2>5, <3>1
    <3>2. CASE b = 1
      BY <2>4, <2>5, <3>2
    <3> QED
      BY <2>3, <3>1, <3>2
  <2>7. BitAt(g[k], j) = b
    <3>1. (Two[j] * b + g[j]) \div Two[j] = b
      <4>1. b \in Int /\ g[j] \in 0 .. (Two[j] - 1)
        BY <2>3, <2>5
      <4> HIDE DEF j
      <4> QED
        BY <2>4, <4>1, QuotientIs
    <3>2. b % 2 = b
      BY <2>3
    <3> QED
      BY <2>5, <3>1, <3>2 DEF BitAt
  <2>8. ASSUME NEW i \in 0 .. (j - 1) PROVE BitAt(g[k], i) = BitAt(g[j], i)
    <3>1. i \in 0 .. Widest /\ j - i \in 1 .. Widest /\ j - i - 1 \in 0 .. Widest
          /\ i + (j - i) = j
      BY <2>1, WidthsAre
    <3>2. Two[j] = Two[i] * Two[j - i]
      BY <2>1, <3>1, TwoAdds
    <3>3. PICK c \in Nat : c = Two[j - i - 1] /\ Two[j - i] = 2 * c
      BY <3>1, TwoIs
    <3>4. PICK t \in Nat : t = Two[i] /\ t >= 1
      BY <3>1, TwoIs
    <3>5. PICK q \in Int, r \in 0 .. (t - 1) : g[j] \div t = q /\ g[j] = t * q + r
      <4>1. g[j] \in Int
        BY <2>4, <2>5
      <4> HIDE DEF j
      <4>2. PICK x \in Int : x = g[j]
        BY <4>1
      <4>3. \E q \in Int, r \in 0 .. (t - 1) : x \div t = q /\ x % t = r /\ x = t * q + r
        BY <3>4, Division
      <4> QED
        BY <4>2, <4>3
    <3>6. g[k] = t * (q + 2 * c * b) + r
      <4>1. Two[j] = t * (2 * c)
        BY <3>2, <3>3, <3>4
      <4>2. CASE b = 0
        BY <2>5, <3>5, <4>1, <4>2
      <4>3. CASE b = 1
        BY <2>5, <3>5, <4>1, <4>3
      <4> QED
        BY <2>3, <4>2, <4>3
    <3>7. g[k] \div t = q + 2 * c * b
      <4>1. q + 2 * c * b \in Int
        BY <2>3
      <4> QED
        BY <3>4, <3>6, <4>1, QuotientIs
    <3>8. (q + 2 * c * b) % 2 = q % 2
      <4>1. CASE b = 0
        BY <4>1
      <4>2. CASE b = 1
        BY <4>2
      <4> QED
        BY <2>3, <4>1, <4>2
    <3> QED
      BY <3>4, <3>5, <3>7, <3>8 DEF BitAt
  <2>9. ASSUME NEW i \in 0 .. (k - 1) PROVE BitAt(g[k], i) = Bit(i \in S)
    <3>1. CASE i = j
      BY <2>7, <3>1 DEF b
    <3>2. CASE i # j
      <4>1. i \in 0 .. (j - 1)
        BY <2>1, <3>2
      <4> QED
        BY <2>2, <2>8, <4>1
    <3> QED
      BY <3>1, <3>2
  <2> HIDE DEF j
  <2> QED
    BY <2>1, <2>6, <2>9
<1> HIDE DEF T
<1>3. n0 \in T
  BY <1>1, <1>2, Induct, WidthsAre
<1> QED
  BY <1>3 DEF T

LEMMA BitsAndNumber ==
  ASSUME NEW S
  PROVE  /\ FromOnes(S) \in Nat
         /\ \A i \in 0 .. (Widest - 1) : BitAt(FromOnes(S), i) = Bit(i \in S)
<1>1. PICK g : IsSum(S, g) /\ FromOnes(S) = g[Widest]
  BY FromOnesIsSum
<1>2. Widest \in 0 .. Widest
  BY WidthsAre
<1>3. g[Widest] \in Nat
  BY <1>1, <1>2 DEF IsSum
<1> QED
  BY <1>1, <1>2, <1>3, BitsOfSum

LEMMA BitIsBit ==
  /\ \A p \in BOOLEAN : Bit(p) \in {0, 1}
  /\ \A v \in Int, k \in 0 .. Widest : BitAt(v, k) \in {0, 1}
<1>1. ASSUME NEW v \in Int, NEW k \in 0 .. Widest PROVE BitAt(v, k) \in {0, 1}
  <2>1. Two[k] \in Nat /\ Two[k] >= 1
    BY TwoIs
  <2>2. PICK q \in Int : v \div Two[k] = q
    BY <2>1, Division
  <2> QED
    BY <2>2 DEF BitAt
<1> QED
  BY <1>1 DEF Bit

\* A CCR saved as a byte comes back with every flag as it was: stc and ldc,
\* and the frame of an interrupt (h8s.h CY_CCR_GET, CY_CCR_SET).
THEOREM CcrComesBack ==
  ASSUME NEW f \in Flags, NEW g \in Flags
  PROVE  CY_CCR_SET(g, CY_CCR_GET(f)) = f
<1> DEFINE S == {CCRBIT[p] : p \in {q \in Flag : f[q] = 1}}
<1>1. ASSUME NEW q \in Flag PROVE BitAt(FromOnes(S), CCRBIT[q]) = f[q]
  <2>1. CCRBIT[q] \in 0 .. (Widest - 1)
    BY CcrAssumption, WidthsAre DEF Widest
  <2>2. CCRBIT[q] \in S <=> f[q] = 1
    BY CcrAssumption
  <2>3. f[q] \in {0, 1}
    BY DEF Flags
  <2> HIDE DEF S
  <2>4. BitAt(FromOnes(S), CCRBIT[q]) = Bit(CCRBIT[q] \in S)
    BY <2>1, BitsAndNumber
  <2> QED
    BY <2>2, <2>3, <2>4 DEF Bit
<1>2. CY_CCR_SET(g, CY_CCR_GET(f)) = [q \in Flag |-> BitAt(FromOnes(S), CCRBIT[q])]
  BY DEF CY_CCR_SET, CY_CCR_GET
<1>3. f = [q \in Flag |-> f[q]]
  BY DEF Flags
<1> HIDE DEF S
<1> QED
  BY <1>1, <1>2, <1>3

-----------------------------------------------------------------------------
(* What the flags of a sum say. *)

LEMMA RemainderShifts ==
  ASSUME NEW v \in Int, NEW d \in Nat, d >= 1, NEW k \in Int
  PROVE  (v + d * k) % d = v % d
<1>1. PICK q \in Int, r \in 0 .. (d - 1) : v % d = r /\ v = d * q + r
  BY Division, ZenonT(60)
<1>2. v + d * k = d * (q + k) + r
  BY <1>1
<1>3. (d * (q + k) + r) % d = r
  BY QuotientIs
<1> QED
  BY <1>1, <1>2, <1>3

\* The sum and the difference of two values of a size.
LEMMA Wrapped ==
  ASSUME NEW M \in Nat, M >= 1, NEW a \in 0 .. (M - 1), NEW b \in 0 .. (M - 1)
  PROVE  /\ (a + b) % M = IF a + b < M THEN a + b ELSE a + b - M
         /\ (a - b) % M = IF a >= b THEN a - b ELSE a - b + M
<1>1. (a + b - M + M * 1) % M = (a + b - M) % M
      /\ (a - b + M * 1) % M = (a - b) % M
  <2>1. \A v \in Int, k \in Int : (v + M * k) % M = v % M
    BY RemainderShifts
  <2>2. a + b - M \in Int /\ a - b \in Int /\ 1 \in Int
    OBVIOUS
  <2> QED
    BY <2>1, <2>2, Zenon
<1>2. a + b - M + M * 1 = a + b /\ a - b + M * 1 = a - b + M
  OBVIOUS
<1>3. a + b < M => (a + b) % M = a + b
  <2>1. a + b < M => a + b \in 0 .. (M - 1)
    OBVIOUS
  <2> QED
    BY <2>1, SmallRemainder
<1>4. ~(a + b < M) => (a + b - M) % M = a + b - M
  <2>1. ~(a + b < M) => a + b - M \in 0 .. (M - 1)
    OBVIOUS
  <2> QED
    BY <2>1, SmallRemainder
<1>5. a >= b => (a - b) % M = a - b
  <2>1. a >= b => a - b \in 0 .. (M - 1)
    OBVIOUS
  <2> QED
    BY <2>1, SmallRemainder
<1>6. ~(a >= b) => (a - b + M) % M = a - b + M
  <2>1. ~(a >= b) => a - b + M \in 0 .. (M - 1)
    OBVIOUS
  <2> QED
    BY <2>1, SmallRemainder
<1>7. (a + b) % M = (a + b - M) % M /\ (a - b + M) % M = (a - b) % M
  BY <1>1, <1>2
<1> QED
  BY <1>3, <1>4, <1>5, <1>6, <1>7

\* Half of a size, and the value a signed number wraps to.
LEMMA Halves ==
  ASSUME NEW s \in Sizes
  PROVE  \E H \in Nat :
           /\ H >= 2 /\ Modulus(s) = 2 * H /\ Modulus(s) \div 2 = H
           /\ \A v : Negative(v, s) <=> v >= H
           /\ \A v : Signed(v, s) = IF v >= H THEN v - Modulus(s) ELSE v
<1>1. BITS[s] \in 1 .. Widest /\ BITS[s] - 1 \in 0 .. Widest
  BY WidthsAre
<1>2. PICK H \in Nat : H = Two[BITS[s] - 1] /\ Modulus(s) = 2 * H
  BY <1>1, TwoIs DEF Modulus
<1>3. Modulus(s) >= 4
  BY SizesAre
<1>4. H >= 2 /\ Modulus(s) \div 2 = H
  BY <1>2, <1>3
<1> QED
  BY <1>2, <1>4 DEF Negative, Signed

\* Twice as far below zero is the same number.
LEMMA SignedSums ==
  ASSUME NEW s \in Sizes, NEW a \in 0 .. (Modulus(s) - 1), NEW b \in 0 .. (Modulus(s) - 1)
  PROVE  /\ Signed(a, s) \in Int /\ Signed(b, s) \in Int
         /\ (Signed(a, s) + Signed(b, s)) % Modulus(s) = (a + b) % Modulus(s)
         /\ (Signed(a, s) - Signed(b, s)) % Modulus(s) = (a - b) % Modulus(s)
<1>1. PICK M \in Nat : M = Modulus(s) /\ M >= 1
  BY SizesAre
<1>2. PICK i \in Int : i \in {0, -1} /\ Signed(a, s) = a + M * i
  BY <1>1 DEF Signed
<1>3. PICK j \in Int : j \in {0, -1} /\ Signed(b, s) = b + M * j
  BY <1>1 DEF Signed
<1>4. a \in Int /\ b \in Int /\ M * i \in Int /\ M * j \in Int
  BY <1>1
<1>5. (a + b + M * (i + j)) % M = (a + b) % M /\ (a - b + M * (i - j)) % M = (a - b) % M
  <2>1. \A v \in Int, k \in Int : (v + M * k) % M = v % M
    BY <1>1, RemainderShifts
  <2>2. a + b \in Int /\ a - b \in Int /\ i + j \in Int /\ i - j \in Int
    BY <1>4
  <2> QED
    BY <2>1, <2>2, Zenon
<1>6. a + b + M * (i + j) = (a + M * i) + (b + M * j)
      /\ a - b + M * (i - j) = (a + M * i) - (b + M * j)
  BY <1>1, <1>4
<1> DEFINE x == Signed(a, s)
           y == Signed(b, s)
<1>7. x + y = a + b + M * (i + j) /\ x - y = a - b + M * (i - j) /\ x \in Int /\ y \in Int
  BY <1>2, <1>3, <1>4, <1>6
<1> QED
  BY <1>1, <1>5, <1>7

\* V, N and Z of flags f are right about an exact result.
Says(f, exact, s) ==
  LET half == Modulus(s) \div 2
  IN  /\ (f.vf = 1) <=> exact \notin (-half) .. (half - 1)
      /\ (f.nf = 1) <=> Negative(exact % Modulus(s), s)
      /\ (f.zf = 1) <=> exact % Modulus(s) = 0

\* The flags as the macros leave them for a result that wraps to r.
Marks(g, r, s) ==
  g \in Flags /\ ((g.nf = 1) <=> Negative(r, s)) /\ ((g.zf = 1) <=> r = 0)
AddMarks(g, a, b, r, s) ==
  Marks(g, r, s) /\ ((g.vf = 1) <=> /\ ~(Negative(a, s) <=> Negative(r, s))
                                    /\ ~(Negative(b, s) <=> Negative(r, s)))
SubMarks(g, a, b, r, s) ==
  /\ Marks(g, r, s) /\ ((g.vf = 1) <=> /\ ~(Negative(a, s) <=> Negative(b, s))
                                       /\ ~(Negative(a, s) <=> Negative(r, s)))
  /\ (g.cf = 1) <=> a < b

LEMMA MacrosSet ==
  ASSUME NEW f \in Flags, NEW s \in Sizes, NEW t \in Int,
         NEW a \in 0 .. (Modulus(s) - 1), NEW b \in 0 .. (Modulus(s) - 1)
  PROVE  /\ AddMarks(SETFLAGS_ADD(f, a, b, t, s), a, b, t % Modulus(s), s)
         /\ SubMarks(SETFLAGS_SUB(f, a, b, t, s), a, b, t % Modulus(s), s)
<1> DEFINE M == Modulus(s)
           r == t % M
<1>1. M \in Nat /\ M >= 1
  BY SizesAre
<1>2. r \in 0 .. (M - 1) /\ r % M = r /\ a % M = a /\ b % M = b
  <2>1. r \in 0 .. (M - 1)
    BY <1>1, RemainderRange
  <2> HIDE DEF M, r
  <2>2. r % M = r
    BY <1>1, <2>1, SmallRemainder
  <2>3. a % M = a /\ b % M = b
    BY <1>1, SmallRemainder DEF M
  <2> QED
    BY <2>1, <2>2, <2>3
<1>3. \A p : Bit(p) \in {0, 1} /\ (Bit(p) = 1 <=> p)
  BY DEF Bit
<1> DEFINE h1 == Bit(Nibble(a) + Nibble(b) >= Two[NIB])
           h2 == Bit(Nibble(a) < Nibble(b))
           c1 == Bit((a + b) % UINT > M - 1)
           nz == SETNZ(f, r, s)
           v1 == Bit(Negative(a, s) # Negative(r, s) /\ Negative(b, s) # Negative(r, s))
           v2 == Bit(Negative(a, s) # Negative(b, s) /\ Negative(a, s) # Negative(r, s))
           c2 == Bit(a < b)
<1>4. SETFLAGS_ADD(f, a, b, t, s) = [nz EXCEPT !.cf = c1, !.vf = v1, !.hf = h1]
  BY <1>2, Zenon DEF SETFLAGS_ADD
<1>5. SETFLAGS_SUB(f, a, b, t, s) = [nz EXCEPT !.cf = c2, !.vf = v2, !.hf = h2]
  BY <1>2, Zenon DEF SETFLAGS_SUB
<1>6. nz = [f EXCEPT !.nf = Bit(Negative(r, s)), !.zf = Bit(r = 0), !.vf = 0]
  BY <1>2, Zenon DEF SETNZ
<1>7. h1 \in {0, 1} /\ h2 \in {0, 1} /\ c1 \in {0, 1} /\ c2 \in {0, 1} /\ v1 \in {0, 1}
      /\ v2 \in {0, 1} /\ Bit(Negative(r, s)) \in {0, 1} /\ Bit(r = 0) \in {0, 1}
  BY <1>3, Zenon
<1>8. (c2 = 1 <=> a < b)
      /\ (v1 = 1 <=> /\ ~(Negative(a, s) <=> Negative(r, s))
                     /\ ~(Negative(b, s) <=> Negative(r, s)))
      /\ (v2 = 1 <=> /\ ~(Negative(a, s) <=> Negative(b, s))
                     /\ ~(Negative(a, s) <=> Negative(r, s)))
      /\ (Bit(Negative(r, s)) = 1 <=> Negative(r, s)) /\ (Bit(r = 0) = 1 <=> r = 0)
  <2> HIDE DEF r
  <2> QED
    BY DEF Bit, Negative
<1> DEFINE n1 == Bit(Negative(r, s))
           z1 == Bit(r = 0)
<1> HIDE DEF h1, h2, c1, c2, v1, v2, n1, z1, nz
<1>9. nz \in Flags /\ nz.nf = n1 /\ nz.zf = z1
  <2>1. n1 \in {0, 1} /\ z1 \in {0, 1} /\ nz = [f EXCEPT !.nf = n1, !.zf = z1, !.vf = 0]
    BY <1>6, <1>7 DEF n1, z1
  <2> QED
    BY <2>1 DEF Flags, Flag
<1> DEFINE full(c, v, h) == [nz EXCEPT !.cf = c, !.vf = v, !.hf = h]
<1>10. \A c, v, h \in {0, 1} :
         /\ full(c, v, h) \in Flags /\ full(c, v, h).cf = c /\ full(c, v, h).vf = v
         /\ full(c, v, h).nf = n1 /\ full(c, v, h).zf = z1
  BY <1>9 DEF Flags, Flag
<1>11. (n1 = 1 <=> Negative(r, s)) /\ (z1 = 1 <=> r = 0)
  BY <1>8 DEF n1, z1
<1> HIDE DEF r
<1> DEFINE up == SETFLAGS_ADD(f, a, b, t, s)
           down == SETFLAGS_SUB(f, a, b, t, s)
<1>12. up = full(c1, v1, h1) /\ down = full(c2, v2, h2)
  BY <1>4, <1>5
<1> HIDE DEF up, down, full
<1>13. up \in Flags /\ up.vf = v1 /\ up.nf = n1 /\ up.zf = z1
  BY <1>7, <1>10, <1>12
<1>14. down \in Flags /\ down.vf = v2 /\ down.nf = n1 /\ down.zf = z1 /\ down.cf = c2
  BY <1>7, <1>10, <1>12
<1>15. Marks(up, r, s) /\ Marks(down, r, s)
  BY <1>11, <1>13, <1>14 DEF Marks
<1> QED
  BY <1>8, <1>13, <1>14, <1>15 DEF up, down, r, AddMarks, SubMarks

\* V after an addition: the exact signed sum does not fit.
LEMMA SumSays ==
  ASSUME NEW f \in Flags, NEW s \in Sizes,
         NEW a \in 0 .. (Modulus(s) - 1), NEW b \in 0 .. (Modulus(s) - 1)
  PROVE  Says(SETFLAGS_ADD(f, a, b, a + b, s), Signed(a, s) + Signed(b, s), s)
<1> DEFINE M == Modulus(s)
           r == (a + b) % M
           g == SETFLAGS_ADD(f, a, b, a + b, s)
           x == Signed(a, s) + Signed(b, s)
<1>1. PICK H \in Nat :
        /\ H >= 2 /\ M = 2 * H /\ M \div 2 = H
        /\ \A v : Negative(v, s) <=> v >= H
        /\ \A v : Signed(v, s) = IF v >= H THEN v - M ELSE v
  BY Halves
<1>2. r = IF a + b < M THEN a + b ELSE a + b - M
  BY <1>1, Wrapped
<1>3. x % M = r
  BY SignedSums
<1>4. AddMarks(g, a, b, r, s)
  <2>1. a + b \in Int
    BY <1>1
  <2> QED
    BY <2>1, MacrosSet
<1> HIDE DEF g
<1>5. g.vf = 1 <=> x \notin (-H) .. (H - 1)
  <2>1. g.vf = 1 <=> ~(a >= H <=> r >= H) /\ ~(b >= H <=> r >= H)
    BY <1>1, <1>4 DEF AddMarks
  <2>2. x = (IF a >= H THEN a - M ELSE a) + (IF b >= H THEN b - M ELSE b)
    BY <1>1
  <2>3. a \in 0 .. (2 * H - 1) /\ b \in 0 .. (2 * H - 1) /\ M = 2 * H
    BY <1>1
  <2> HIDE DEF M, r, x
  <2> QED
    BY <1>2, <2>1, <2>2, <2>3
<1> HIDE DEF x, r
<1> QED
  BY <1>1, <1>3, <1>4, <1>5 DEF Says, AddMarks, Marks, g, x

LEMMA DifferenceSays ==
  ASSUME NEW f \in Flags, NEW s \in Sizes,
         NEW a \in 0 .. (Modulus(s) - 1), NEW b \in 0 .. (Modulus(s) - 1)
  PROVE  Says(SETFLAGS_SUB(f, a, b, a - b, s), Signed(a, s) - Signed(b, s), s)
<1> DEFINE M == Modulus(s)
           r == (a - b) % M
           g == SETFLAGS_SUB(f, a, b, a - b, s)
           x == Signed(a, s) - Signed(b, s)
<1>1. PICK H \in Nat :
        /\ H >= 2 /\ M = 2 * H /\ M \div 2 = H
        /\ \A v : Negative(v, s) <=> v >= H
        /\ \A v : Signed(v, s) = IF v >= H THEN v - M ELSE v
  BY Halves
<1>2. r = IF a >= b THEN a - b ELSE a - b + M
  BY <1>1, Wrapped
<1>3. x % M = r
  BY SignedSums
<1>4. SubMarks(g, a, b, r, s)
  <2>1. a - b \in Int
    BY <1>1
  <2> QED
    BY <2>1, MacrosSet
<1> HIDE DEF g
<1>5. g.vf = 1 <=> x \notin (-H) .. (H - 1)
  <2>1. g.vf = 1 <=> ~(a >= H <=> b >= H) /\ ~(a >= H <=> r >= H)
    BY <1>1, <1>4 DEF SubMarks
  <2>2. x = (IF a >= H THEN a - M ELSE a) - (IF b >= H THEN b - M ELSE b)
    BY <1>1
  <2>3. a \in 0 .. (2 * H - 1) /\ b \in 0 .. (2 * H - 1) /\ M = 2 * H
    BY <1>1
  <2> HIDE DEF M, r, x
  <2> QED
    BY <1>2, <2>1, <2>2, <2>3
<1> HIDE DEF x, r
<1> QED
  BY <1>1, <1>3, <1>4, <1>5 DEF Says, SubMarks, Marks, g, x

\* The side each conditional branch takes after a comparison of a and b.
Meaning(a, b, s) ==
  LET sa == Signed(a, s)
      sb == Signed(b, s)
  IN  {<<"beq", a = b>>, <<"bhi", a > b>>, <<"bcc", a >= b>>,
       <<"bne", a # b>>, <<"bls", a <= b>>, <<"bcs", a < b>>,
       <<"bgt", sa > sb>>, <<"ble", sa <= sb>>,
       <<"bge", sa >= sb>>, <<"blt", sa < sb>>}

LEMMA BranchesDecide ==
  ASSUME NEW f \in Flags, NEW s \in Sizes,
         NEW a \in 0 .. (Modulus(s) - 1), NEW b \in 0 .. (Modulus(s) - 1)
  PROVE  \A k \in Meaning(a, b, s) :
           cy_cond(SETFLAGS_SUB(f, a, b, a - b, s), k[1]) = k[2]
<1> DEFINE M == Modulus(s)
           r == (a - b) % M
           g == SETFLAGS_SUB(f, a, b, a - b, s)
           sa == Signed(a, s)
           sb == Signed(b, s)
<1>1. PICK H \in Nat :
        /\ H >= 2 /\ M = 2 * H /\ M \div 2 = H
        /\ \A v : Negative(v, s) <=> v >= H
        /\ \A v : Signed(v, s) = IF v >= H THEN v - M ELSE v
  BY Halves
<1>2. r = IF a >= b THEN a - b ELSE a - b + M
  BY <1>1, Wrapped
<1>3. SubMarks(g, a, b, r, s)
  <2>1. a - b \in Int
    BY <1>1
  <2> QED
    BY <2>1, MacrosSet
<1> HIDE DEF g
<1>4. g.cf \in {0, 1} /\ g.zf \in {0, 1} /\ g.nf \in {0, 1} /\ g.vf \in {0, 1}
  BY <1>3 DEF SubMarks, Marks, Flags, Flag
<1>5. /\ g.nf = 1 <=> r >= H
      /\ g.zf = 1 <=> r = 0
      /\ g.cf = 1 <=> a < b
      /\ g.vf = 1 <=> ~(a >= H <=> b >= H) /\ ~(a >= H <=> r >= H)
  BY <1>1, <1>3 DEF SubMarks, Marks
<1>6. sa = (IF a >= H THEN a - M ELSE a) /\ sb = (IF b >= H THEN b - M ELSE b)
  BY <1>1
<1>7. a \in 0 .. (2 * H - 1) /\ b \in 0 .. (2 * H - 1) /\ M = 2 * H
  BY <1>1
<1> HIDE DEF M, r, sa, sb
<1>8. (g.zf = 1 <=> a = b) /\ (g.nf = g.vf <=> sa >= sb)
  BY <1>2, <1>4, <1>5, <1>6, <1>7
<1>9. sa \in Int /\ sb \in Int /\ (sa = sb <=> a = b)
  BY <1>6, <1>7
<1> DEFINE is(cc, p) == cy_cond(g, cc) = p
<1>10. is("beq", a = b) /\ is("bhi", a > b) /\ is("bcc", a >= b) /\ is("bne", a # b)
       /\ is("bls", a <= b) /\ is("bcs", a < b)
  BY <1>4, <1>5, <1>7, <1>8 DEF cy_cond
<1>11. is("bgt", sa > sb) /\ is("ble", sa <= sb) /\ is("bge", sa >= sb)
       /\ is("blt", sa < sb)
  BY <1>4, <1>8, <1>9 DEF cy_cond
<1> HIDE DEF is
<1>12. \A k \in Meaning(a, b, s) : is(k[1], k[2])
  BY <1>10, <1>11 DEF Meaning, sa, sb
<1> QED
  BY <1>12 DEF is, g

-----------------------------------------------------------------------------
(* Memory and operands. *)

LEMMA Fields ==
  ASSUME NEW x \in Cy
  PROVE  /\ \A k \in 0 .. 7 : x.e[k] \in 0 .. (UINT - 1) /\ x.e[k] \in Int
         /\ \A c \in 0 .. (MEM - 1) : x.mem[c] \in Byte /\ x.mem[c] \in Int
         /\ \A c \in Hooked : x.io[c] \in Byte /\ x.io[c] \in Int
         /\ x.f \in Flags
<1>1. x.e \in Registers32 /\ x.mem \in [0 .. (MEM - 1) -> Byte] /\ x.io \in [Hooked -> Byte]
      /\ x.f \in Flags
  BY DEF Cy
<1>2. UINT \in Nat /\ Modulus("b") \in Nat
  BY SizesAre DEF Sizes
<1>3. Byte \subseteq Int /\ 0 .. (UINT - 1) \subseteq Int
  BY <1>2 DEF Byte
<1> QED
  BY <1>1, <1>3 DEF Registers32

LEMMA CellsAre ==
  ASSUME NEW a \in Int
  PROVE  MEM \in Nat /\ MEM >= 4 /\ Cell(a) \in 0 .. (MEM - 1)
<1>1. MEM \in Nat /\ MEM >= 4
  BY MemoryAssumption
<1>2. Cell(a) \in 0 .. (MEM - 1)
  BY <1>1, RemainderRange DEF Cell
<1> QED
  BY <1>1, <1>2

LEMMA WeightsAre ==
  \A j \in 0 .. 3 : Weight(j) \in Nat /\ Weight(j) >= 1
<1>1. Modulus("b") \in Nat /\ Modulus("b") >= 4 /\ Modulus("w") \in Nat /\ Modulus("w") >= 4
  BY SizesAre DEF Sizes
<1>2. Modulus("b") * Modulus("w") \in Nat /\ Modulus("b") * Modulus("w") >= 1
  BY <1>1, ProductOfNat
<1>3. \A j \in 0 .. 3 : j = 0 \/ j = 1 \/ j = 2 \/ j = 3
  OBVIOUS
<1> QED
  BY <1>1, <1>2, <1>3, SizesAre

LEMMA BytesAre ==
  ASSUME NEW s \in Sizes, NEW v \in Int, NEW j \in Nat, j < Bytes(s)
  PROVE  Big(v, s, j) \in Byte
<1>1. Bytes(s) - 1 - j \in 0 .. 3
  BY SizesAre DEF Sizes
<1>2. PICK w \in Nat : w = Weight(Bytes(s) - 1 - j) /\ w >= 1
  BY <1>1, WeightsAre
<1>3. v \div w \in Int
  BY <1>2, Division
<1>4. Modulus("b") \in Nat /\ Modulus("b") >= 1
  BY SizesAre DEF Sizes
<1>5. (v \div w) % Modulus("b") \in Byte
  BY <1>3, <1>4, RemainderRange DEF Byte
<1> QED
  BY <1>2, <1>5 DEF Big

LEMMA ReadsMemory ==
  ASSUME NEW x \in Cy, NEW s \in Sizes, NEW a \in Int
  PROVE  cy_read(x, s, a) \in Int
<1>1. \A c \in Int : x.mem[Cell(c)] \in Int
  BY CellsAre, Fields
<1>2. Cell(a) \in Hooked => x.io[Cell(a)] \in Int
  BY Fields
<1> DEFINE byte(j) == x.mem[Cell(a + j)] * Weight(Bytes(s) - 1 - j)
<1>3. ASSUME NEW j \in 0 .. 3, j < Bytes(s) PROVE byte(j) \in Int
  <2>1. Bytes(s) - 1 - j \in 0 .. 3
    BY <1>3, SizesAre DEF Sizes
  <2>2. Weight(Bytes(s) - 1 - j) \in Int
    BY <2>1, WeightsAre
  <2>3. x.mem[Cell(a + j)] \in Int
    BY <1>1
  <2>4. \A y, z \in Int : y * z \in Int
    OBVIOUS
  <2> QED
    BY <2>2, <2>3, <2>4
<1> HIDE DEF byte
<1>4. CASE s = "b"
  BY <1>1, <1>2, <1>4 DEF cy_read
<1>5. CASE s = "w"
  <2>1. byte(0) \in Int /\ byte(1) \in Int
    BY <1>3, <1>5, SizesAre
  <2>2. cy_read(x, s, a) = byte(0) + byte(1)
    BY <1>5 DEF cy_read, byte
  <2> QED
    BY <2>1, <2>2
<1>6. CASE s = "l"
  <2>1. byte(0) \in Int /\ byte(1) \in Int /\ byte(2) \in Int /\ byte(3) \in Int
    BY <1>3, <1>6, SizesAre
  <2>2. cy_read(x, s, a) = byte(0) + byte(1) + byte(2) + byte(3)
    BY <1>6 DEF cy_read, byte
  <2> QED
    BY <2>1, <2>2
<1> QED
  BY <1>4, <1>5, <1>6 DEF Sizes

LEMMA WritesMemory ==
  ASSUME NEW x \in Cy, NEW s \in Sizes, NEW a \in Int, NEW v \in Int
  PROVE  cy_write(x, s, a, v) \in Cy /\ cy_write(x, s, a, v).f = x.f
                                     /\ cy_write(x, s, a, v).e = x.e
<1>1. v % Modulus("b") \in Byte
  <2>1. Modulus("b") \in Nat /\ Modulus("b") >= 1
    BY SizesAre DEF Sizes
  <2> QED
    BY <2>1, RemainderRange DEF Byte
<1>2. CASE s = "b" /\ Cell(a) \in Hooked
  <2> DEFINE y == [x EXCEPT !.io[Cell(a)] = v % Modulus("b")]
  <2>1. cy_write(x, s, a, v) = y
    BY <1>2 DEF cy_write
  <2>2. y \in Cy /\ y.f = x.f /\ y.e = x.e
    BY <1>1, <1>2 DEF Cy
  <2> QED
    BY <2>1, <2>2
<1>3. CASE ~(s = "b" /\ Cell(a) \in Hooked)
  <2> DEFINE mem == [c \in DOMAIN x.mem |-> IF Cell(c - a) < Bytes(s)
                                            THEN Big(v, s, Cell(c - a)) ELSE x.mem[c]]
             y == [x EXCEPT !.mem = mem]
  <2>1. cy_write(x, s, a, v) = y
    BY <1>3 DEF cy_write
  <2>2. x.mem \in [0 .. (MEM - 1) -> Byte] /\ DOMAIN x.mem = 0 .. (MEM - 1)
    BY DEF Cy
  <2>3. ASSUME NEW c \in 0 .. (MEM - 1), Cell(c - a) < Bytes(s)
        PROVE  Big(v, s, Cell(c - a)) \in Byte
    <3>1. MEM \in Nat
      BY MemoryAssumption
    <3>2. c - a \in Int
      BY <3>1
    <3>3. Cell(c - a) \in Nat
      BY <3>2, CellsAre
    <3> QED
      BY <2>3, <3>3, BytesAre
  <2>4. mem \in [0 .. (MEM - 1) -> Byte]
    BY <2>2, <2>3
  <2> HIDE DEF mem
  <2>5. y \in Cy /\ y.f = x.f /\ y.e = x.e
    BY <2>4 DEF Cy
  <2> QED
    BY <2>1, <2>5
<1> QED
  BY <1>2, <1>3

LEMMA Adds ==
  ASSUME NEW x \in Cy, NEW k \in 0 .. 7, NEW d \in Int
  PROVE  AddTo(x, k, d) \in Cy /\ AddTo(x, k, d).f = x.f
<1>1. (x.e[k] + d) % UINT \in 0 .. (UINT - 1)
  <2>1. x.e[k] \in 0 .. (UINT - 1) /\ UINT \in Nat /\ UINT >= 1
    BY Fields, SizesAre
  <2>2. x.e[k] + d \in Int
    BY <2>1
  <2> QED
    BY <2>1, <2>2, RemainderRange
<1> DEFINE u == (x.e[k] + d) % UINT
<1>2. AddTo(x, k, d) = [x EXCEPT !.e[k] = u]
  BY DEF AddTo
<1> HIDE DEF u
<1>3. u \in 0 .. (UINT - 1)
  BY <1>1 DEF u
<1> DEFINE y == [x EXCEPT !.e[k] = u]
<1>4. y \in Cy /\ y.f = x.f
  BY <1>3 DEF Cy, Registers32
<1> QED
  BY <1>2, <1>4

\* Operands in memory.
Cellular == {"ind", "pi", "pd", "dsp", "abs"}

LEMMA OperandsAre ==
  ASSUME NEW o \in Operands
  PROVE  /\ o.size \in Sizes /\ o.kind \in Cellular \cup {"r", "i", "cc", "pc"}
         /\ o.kind = "r" => o.n \in 0 .. 15
         /\ o.kind \in {"i", "abs"} => o.n \in Nat
         /\ o.kind \in {"ind", "pi", "pd", "dsp"} => o.n \in 0 .. 7
         /\ o.kind = "dsp" => o.d \in Int
BY DEF Operands, Cellular

LEMMA Addresses ==
  ASSUME NEW x \in Cy, NEW o \in Operands, o.kind \in Cellular
  PROVE  ea(x, o) \in Int
<1>1. \A k \in 0 .. 7 : x.e[k] \in Int
  BY Fields
<1>2. CASE o.kind = "abs"
  BY <1>2, OperandsAre DEF ea
<1>3. CASE o.kind = "dsp"
  BY <1>1, <1>3, OperandsAre DEF ea
<1>4. CASE o.kind \in {"ind", "pi", "pd"}
  BY <1>1, <1>4, OperandsAre DEF ea
<1> QED
  BY <1>2, <1>3, <1>4 DEF Cellular

LEMMA Reads ==
  ASSUME NEW x \in Cy, NEW o \in Operands
  PROVE  /\ rd(x, o) \in Int
         /\ o.kind \in {"r", "i"} => rd(x, o) \in 0 .. (Modulus(o.size) - 1)
<1>1. o.size \in Sizes /\ Modulus(o.size) \in Nat /\ Modulus(o.size) >= 1
  BY OperandsAre, SizesAre
<1>2. CASE o.kind = "r"
  <2>1. x.e \in Registers32 /\ o.n \in 0 .. 15
    BY <1>2, OperandsAre DEF Cy
  <2>2. reg_read(x, o.size, o.n) \in 0 .. (Modulus(o.size) - 1)
    BY <1>1, <2>1, ReadsRegister
  <2> QED
    BY <1>1, <1>2, <2>2 DEF rd
<1>3. CASE o.kind = "i"
  <2>1. o.n % Modulus(o.size) \in 0 .. (Modulus(o.size) - 1)
    <3>1. o.n \in Int
      BY <1>3, OperandsAre
    <3> QED
      BY <1>1, <3>1, RemainderRange, ZenonT(30)
  <2> QED
    BY <1>1, <1>3, <2>1 DEF rd
<1>4. CASE o.kind = "cc"
  BY <1>4, BitsAndNumber DEF rd, CY_CCR_GET
<1>5. CASE o.kind = "pc"
  BY <1>5, MemoryAssumption DEF rd, Cy
<1>6. CASE o.kind \in Cellular
  <2>1. ea(x, o) \in Int
    BY <1>6, Addresses
  <2>2. rd(x, o) = cy_read(x, o.size, ea(x, o))
    BY <1>6 DEF rd, Cellular
  <2>3. cy_read(x, o.size, ea(x, o)) \in Int
    BY <1>1, <2>1, ReadsMemory
  <2> QED
    BY <1>6, <2>2, <2>3 DEF Cellular
<1> QED
  BY <1>2, <1>3, <1>4, <1>5, <1>6, OperandsAre

LEMMA Writes ==
  ASSUME NEW x \in Cy, NEW o \in Operands, NEW v \in Int, o.kind \notin {"i", "cc", "pc"}
  PROVE  wr(x, o, v) \in Cy /\ wr(x, o, v).f = x.f
<1>1. CASE o.kind = "r"
  BY <1>1, OperandsAre, WritesRegister DEF wr
<1>2. CASE o.kind # "r"
  <2>1. o.kind \in Cellular /\ o.size \in Sizes
    BY <1>2, OperandsAre
  <2>2. ea(x, o) \in Int
    BY <2>1, Addresses
  <2> QED
    BY <1>2, <2>1, <2>2, WritesMemory DEF wr
<1> QED
  BY <1>1, <1>2

LEMMA Flagged ==
  ASSUME NEW x \in Cy, NEW g \in Flags
  PROVE  [x EXCEPT !.f = g] \in Cy
BY DEF Cy

LEMMA NZKeepsFlags ==
  ASSUME NEW f \in Flags, NEW t \in Int, NEW s \in Sizes
  PROVE  SETNZ(f, t, s) \in Flags
<1> DEFINE a == Bit(Negative(t % Modulus(s), s))
           b == Bit(t % Modulus(s) = 0)
<1>1. a \in {0, 1} /\ b \in {0, 1}
  BY DEF Bit
<1>2. SETNZ(f, t, s) = [f EXCEPT !.nf = a, !.zf = b, !.vf = 0]
  BY DEF SETNZ
<1> HIDE DEF a, b
<1> QED
  BY <1>1, <1>2 DEF Flags, Flag

LEMMA CcrKeepsFlags ==
  ASSUME NEW f, NEW v \in Int
  PROVE  CY_CCR_SET(f, v) \in Flags
<1>1. ASSUME NEW q \in Flag PROVE BitAt(v, CCRBIT[q]) \in {0, 1}
  <2>1. CCRBIT[q] \in 0 .. Widest
    BY CcrAssumption, WidthsAre DEF Widest
  <2> QED
    BY <2>1, BitIsBit
<1> QED
  BY <1>1 DEF CY_CCR_SET, Flags

-----------------------------------------------------------------------------
(* The invariant. *)

Instructions == [op : STRING, size : Sizes, dst : Operands, src : Operands]

DataTypeOK ==
  /\ code \in Seq(Instructions) /\ \A k \in 1 .. Len(code) : Formed(code[k])
  /\ n \in 0 .. Len(code)
  /\ m \in Cy /\ before \in Cy /\ start \in Cy

\* The flags of a sum are those the macro makes of what its operands were.
SumFlagged ==
  Executed(Sums) =>
    LET a == rd(before, Last.dst)
        b == rd(before, Last.src)
    IN  m.f = IF Last.op = "add" THEN SETFLAGS_ADD(before.f, a, b, a + b, Last.size)
              ELSE SETFLAGS_SUB(before.f, a, b, a - b, Last.size)

DataInv == DataTypeOK /\ SumFlagged

LEMMA DataInitInv == Init => DataInv
<1> SUFFICES ASSUME Init PROVE DataInv
  OBVIOUS
<1>1. PICK p \in Programs : \E x \in p.xs, y \in p.ys, f \in p.fs :
        /\ code = p.code /\ same = p.same /\ n = 0
        /\ m = [e |-> [Registers EXCEPT ![0] = x, ![1] = y], f |-> f, pc |-> 1,
                mem |-> Cells, io |-> [a \in Hooked |-> a % Modulus("b")]]
        /\ before = m /\ start = m
  BY DEF Init
<1>2. PICK x \in p.xs, y \in p.ys, f \in p.fs :
        /\ code = p.code /\ same = p.same /\ n = 0
        /\ m = [e |-> [Registers EXCEPT ![0] = x, ![1] = y], f |-> f, pc |-> 1,
                mem |-> Cells, io |-> [a \in Hooked |-> a % Modulus("b")]]
        /\ before = m /\ start = m
  BY <1>1
<1>3. /\ code \in Seq(Instructions) /\ \A k \in 1 .. Len(code) : Formed(code[k])
      /\ x \in 0 .. (UINT - 1) /\ y \in 0 .. (UINT - 1) /\ f \in Flags
  BY <1>2, ProgramsAssumption DEF Instructions, Flags
<1>4. [Registers EXCEPT ![0] = x, ![1] = y] \in Registers32
  BY <1>3, StartAssumption DEF Registers32
<1>5. Cells \in [0 .. (MEM - 1) -> Byte] /\ 1 \in 0 .. (MEM - 1)
  <2>1. Cells \in [0 .. (MEM - 1) -> Byte]
    BY StartAssumption DEF Byte
  <2>2. MEM \in Nat /\ MEM >= 4
    BY MemoryAssumption
  <2> QED
    BY <2>1, <2>2
<1>6. [a \in Hooked |-> a % Modulus("b")] \in [Hooked -> Byte]
  <2>1. Modulus("b") \in Nat /\ Modulus("b") >= 1 /\ \A a \in Hooked : a \in Int
    BY SizesAre, MemoryAssumption DEF Sizes
  <2> QED
    BY <2>1, RemainderRange DEF Byte
<1>7. m \in Cy
  BY <1>2, <1>3, <1>4, <1>5, <1>6 DEF Cy
<1>8. n \in 0 .. Len(code) /\ ~(n > 0)
  BY <1>2, <1>3, LenProperties
<1> QED
  BY <1>2, <1>3, <1>7, <1>8 DEF DataInv, DataTypeOK, SumFlagged, Executed

LEMMA NowIs ==
  ASSUME DataTypeOK, n < Len(code)
  PROVE  /\ Now \in Instructions /\ Formed(Now) /\ n + 1 \in 0 .. Len(code) /\ n + 1 > 0
         /\ Now.dst \in Operands /\ Now.src \in Operands /\ Now.size \in Sizes
         /\ Dst \in Int /\ Src \in Int
<1>1. n + 1 \in 1 .. Len(code)
  BY LenProperties DEF DataTypeOK
<1>2. Now \in Instructions /\ Formed(Now)
  BY <1>1, ElementOfSeq DEF DataTypeOK, Now
<1>3. Now.dst \in Operands /\ Now.src \in Operands /\ Now.size \in Sizes
  BY <1>2 DEF Instructions
<1>4. Dst \in Int /\ Src \in Int
  BY <1>3, Reads DEF DataTypeOK, Dst, Src
<1> QED
  BY <1>1, <1>2, <1>3, <1>4

\* An instruction that writes its destination has one to write.
LEMMA Results ==
  ASSUME DataTypeOK, n < Len(code), Now.op \notin DstKept, NEW t \in Int
  PROVE  /\ wr(m, Now.dst, t) \in Cy
         /\ \A g \in Flags : [wr(m, Now.dst, t) EXCEPT !.f = g] \in Cy
         /\ Result(t) \in Cy /\ Result(t).f \in Flags
<1>1. Now.dst \in Operands /\ Now.dst.kind \notin {"i", "cc", "pc"} /\ Size \in Sizes
  BY NowIs DEF Formed, Size
<1>2. m \in Cy
  BY DEF DataTypeOK
<1>3. PICK x \in Cy : x = wr(m, Now.dst, t) /\ x.f = m.f
  BY <1>1, <1>2, Writes
<1>4. x.f \in Flags
  BY Fields
<1>5. SETNZ(x.f, t, Size) \in Flags
  BY <1>1, <1>4, NZKeepsFlags
<1>6. Result(t) = [x EXCEPT !.f = SETNZ(x.f, t, Size)]
  BY <1>3 DEF Result
<1>7. Result(t) \in Cy
  BY <1>5, <1>6, Flagged
<1> QED
  BY <1>3, <1>7, Flagged, Fields

-----------------------------------------------------------------------------
(* Every instruction leaves a cy_t. *)

\* What is common to them: the cy_t after one, from the one it becomes.
LEMMA BecomesCy ==
  ASSUME DataTypeOK, NEW x, Becomes(x), x \in Cy, n < Len(code)
  PROVE  DataTypeOK'
BY NowIs DEF Becomes, DataTypeOK

LEMMA MovesCy ==
  ASSUME NEW x \in Cy, NEW i \in Instructions, NEW kind \in {"pi", "pd"},
         NEW sign \in {1, -1}
  PROVE  Moved(x, i, kind, sign) \in Cy
<1> DEFINE moving == {o \in {i.dst, i.src} : o.kind = kind}
           o == CHOOSE o \in moving : TRUE
<1>1. CASE moving = {}
  <2>1. Moved(x, i, kind, sign) = x
    BY <1>1 DEF Moved
  <2> QED
    BY <2>1
<1>2. CASE moving # {}
  <2>1. o \in moving
    BY <1>2
  <2>2. o \in Operands /\ o.kind = kind
    BY <2>1 DEF Instructions
  <2> HIDE DEF o
  <2>3. o.n \in 0 .. 7 /\ o.size \in Sizes
    BY <2>2, OperandsAre
  <2>4. sign * Bytes(o.size) \in Int
    BY <2>3, SizesAre DEF Sizes
  <2>5. Moved(x, i, kind, sign) = AddTo(x, o.n, sign * Bytes(o.size))
    BY <1>2 DEF Moved, o
  <2> QED
    BY <2>3, <2>4, <2>5, Adds
<1> QED
  BY <1>1, <1>2

LEMMA SignedIsInt ==
  ASSUME NEW v \in Int, NEW s \in Sizes
  PROVE  Signed(v, s) \in Int
BY SizesAre DEF Signed

LEMMA IntDivides ==
  ASSUME NEW v \in Int, NEW d \in Nat, d >= 1
  PROVE  v \div d \in Int /\ v % d \in Int
BY Division

LEMMA MovKeeps == ASSUME DataTypeOK, Mov PROVE DataTypeOK'
<1> DEFINE x == Pre(m, Now)
           t == rd(x, Now.src)
           y == [wr(x, Now.dst, t) EXCEPT !.f = SETNZ(@, t, Size)]
<1>1. n < Len(code) /\ Now.op = "mov" /\ Becomes(Post(y, Now))
  BY DEF Mov, At
<1>2. Now \in Instructions /\ Now.dst \in Operands /\ Now.src \in Operands /\ Size \in Sizes
      /\ Formed(Now)
  BY <1>1, NowIs DEF Size
<1>3. x \in Cy
  BY <1>2, MovesCy DEF Pre, DataTypeOK
<1>4. t \in Int
  BY <1>2, <1>3, Reads
<1>5. Now.dst.kind \notin {"i", "cc", "pc"}
  BY <1>1, <1>2 DEF Formed, DstKept, Loads
<1> HIDE DEF x, t
<1>6. PICK z \in Cy : z = wr(x, Now.dst, t)
  BY <1>2, <1>3, <1>4, <1>5, Writes
<1>7. SETNZ(z.f, t, Size) \in Flags
  BY <1>2, <1>4, NZKeepsFlags, Fields
<1>8. y \in Cy
  BY <1>6, <1>7, Flagged
<1> HIDE DEF y
<1>9. Post(y, Now) \in Cy
  BY <1>2, <1>8, MovesCy DEF Post
<1> QED
  BY <1>1, <1>9, BecomesCy

LEMMA SumKeeps ==
  ASSUME DataTypeOK, Sum
  PROVE  /\ DataTypeOK'
         /\ m'.f = IF Now.op = "add" THEN SETFLAGS_ADD(m.f, Dst, Src, Dst + Src, Size)
                   ELSE SETFLAGS_SUB(m.f, Dst, Src, Dst - Src, Size)
<1> DEFINE t == IF Now.op = "add" THEN Dst + Src ELSE Dst - Src
           f == IF Now.op = "add" THEN SETFLAGS_ADD(m.f, Dst, Src, t, Size)
                ELSE SETFLAGS_SUB(m.f, Dst, Src, t, Size)
           x == IF Now.op = "cmp" THEN [m EXCEPT !.f = f]
                ELSE [wr(m, Now.dst, t) EXCEPT !.f = f]
<1>1. n < Len(code) /\ Now.op \in Sums /\ Becomes(x)
  BY DEF Sum, At
<1>2. /\ Now.dst \in Operands /\ Now.src \in Operands /\ Size \in Sizes
      /\ Formed(Now) /\ Dst \in Int /\ Src \in Int /\ m \in Cy
  BY <1>1, NowIs DEF Size, DataTypeOK
<1>3. /\ Now.dst.kind = "r" /\ Now.src.kind \in {"r", "i"}
      /\ Now.dst.size = Size /\ Now.src.size = Size
  BY <1>1, <1>2 DEF Formed, Size
<1>4. Dst \in 0 .. (Modulus(Size) - 1) /\ Src \in 0 .. (Modulus(Size) - 1)
  BY <1>2, <1>3, Reads DEF Dst, Src
<1>5. t \in Int
  BY <1>2
<1>6. f \in Flags
  <2>1. m.f \in Flags
    BY <1>2, Fields
  <2>2. /\ SETFLAGS_ADD(m.f, Dst, Src, t, Size) \in Flags
        /\ SETFLAGS_SUB(m.f, Dst, Src, t, Size) \in Flags
    BY <1>2, <1>4, <1>5, <2>1, MacrosSet DEF AddMarks, SubMarks, Marks
  <2> QED
    BY <2>2
<1> HIDE DEF f, t
<1>7. x \in Cy /\ x.f = f
  <2>1. CASE Now.op = "cmp"
    BY <1>2, <1>6, <2>1, Flagged DEF Cy
  <2>2. CASE Now.op # "cmp"
    <3>1. PICK z \in Cy : z = wr(m, Now.dst, t)
      BY <1>2, <1>3, <1>5, Writes
    <3>2. x = [z EXCEPT !.f = f]
      BY <2>2, <3>1
    <3> QED
      BY <1>6, <3>2, Flagged DEF Cy
  <2> QED
    BY <2>1, <2>2
<1>8. m' = x
  BY <1>1 DEF Becomes
<1>9. DataTypeOK'
  BY <1>1, <1>7, BecomesCy
<1> QED
  BY <1>7, <1>8, <1>9 DEF f, t

LEMMA MacrosKeepFlags ==
  ASSUME NEW f \in Flags, NEW x, NEW y, NEW t \in Int, NEW s \in Sizes
  PROVE  SETFLAGS_ADD(f, x, y, t, s) \in Flags /\ SETFLAGS_SUB(f, x, y, t, s) \in Flags
<1> DEFINE a == x % Modulus(s)
           b == y % Modulus(s)
           r == t % Modulus(s)
           nz == SETNZ(f, r, s)
           c1 == Bit((a + b) % UINT > Modulus(s) - 1)
           v1 == Bit(Negative(a, s) # Negative(r, s) /\ Negative(b, s) # Negative(r, s))
           h1 == Bit(Nibble(a) + Nibble(b) >= Two[NIB])
           c2 == Bit(a < b)
           v2 == Bit(Negative(a, s) # Negative(b, s) /\ Negative(a, s) # Negative(r, s))
           h2 == Bit(Nibble(a) < Nibble(b))
<1>1. c1 \in {0, 1} /\ v1 \in {0, 1} /\ h1 \in {0, 1} /\ c2 \in {0, 1} /\ v2 \in {0, 1}
      /\ h2 \in {0, 1}
  BY Zenon DEF Bit
<1>2. nz \in Flags
  <2>1. r \in Int
    BY SizesAre, IntDivides
  <2> HIDE DEF r
  <2> QED
    BY <2>1, NZKeepsFlags
<1>3. /\ SETFLAGS_ADD(f, x, y, t, s) = [nz EXCEPT !.cf = c1, !.vf = v1, !.hf = h1]
      /\ SETFLAGS_SUB(f, x, y, t, s) = [nz EXCEPT !.cf = c2, !.vf = v2, !.hf = h2]
  BY Zenon DEF SETFLAGS_ADD, SETFLAGS_SUB
<1> HIDE DEF c1, v1, h1, c2, v2, h2, nz
<1>4. \A c, v, h \in {0, 1} : [nz EXCEPT !.cf = c, !.vf = v, !.hf = h] \in Flags
  BY <1>2 DEF Flags, Flag
<1> QED
  BY <1>1, <1>3, <1>4

LEMMA SumExtendedKeeps == ASSUME DataTypeOK, SumExtended PROVE DataTypeOK'
<1> DEFINE c == m.f.cf
           t == IF Now.op = "addx" THEN Dst + Src + c ELSE Dst - Src - c
           f == IF Now.op = "addx" THEN SETFLAGS_ADD(m.f, Dst, Src + c, t, Size)
                ELSE SETFLAGS_SUB(m.f, Dst, Src - c, t, Size)
           x == [wr(m, Now.dst, t) EXCEPT !.f = f]
<1>1. n < Len(code) /\ Now.op \in {"addx", "subx"} /\ Becomes(x)
  BY DEF SumExtended, At
<1>2. Dst \in Int /\ Src \in Int /\ Size \in Sizes /\ m.f \in Flags
  BY <1>1, NowIs, Fields DEF Size, DataTypeOK
<1>3. c \in Int
  BY <1>2 DEF Flags, Flag
<1>4. t \in Int
  BY <1>2, <1>3
<1> HIDE DEF t
<1>5. f \in Flags
  BY <1>2, <1>4, MacrosKeepFlags
<1> HIDE DEF f
<1>6. Now.op \notin DstKept
  BY <1>1 DEF DstKept, Loads
<1>7. x \in Cy
  BY <1>1, <1>4, <1>5, <1>6, Results
<1> QED
  BY <1>1, <1>7, BecomesCy

\* An instruction whose result goes through Result leaves a cy_t.
LEMMA ResultKeeps ==
  ASSUME DataTypeOK, n < Len(code), Now.op \notin DstKept, NEW t \in Int,
         Becomes(Result(t))
  PROVE  DataTypeOK'
BY Results, BecomesCy

LEMMA LogicKeeps == ASSUME DataTypeOK, Logic PROVE DataTypeOK'
<1> DEFINE a == Ones(Dst, Size)
           b == Ones(Src, Size)
           bits == CASE Now.op = "and" -> a \cap b
                     [] Now.op = "or" -> a \cup b
                     [] Now.op = "xor" -> (a \ b) \cup (b \ a)
<1>1. n < Len(code) /\ Now.op \in {"and", "or", "xor"} /\ Becomes(Result(FromOnes(bits)))
  BY DEF Logic, At
<1>2. Now.op \notin DstKept
  BY <1>1 DEF DstKept, Loads
<1> HIDE DEF bits
<1>3. FromOnes(bits) \in Int
  BY BitsAndNumber
<1> QED
  BY <1>1, <1>2, <1>3, ResultKeeps

LEMMA AdjustKeeps == ASSUME DataTypeOK, Adjust PROVE DataTypeOK'
<1> DEFINE x == AddTo(m, Now.dst.n, IF Now.op = "adds" THEN Src ELSE -Src)
<1>1. n < Len(code) /\ Now.op \in {"adds", "subs"} /\ Becomes(x)
  BY DEF Adjust, At
<1>2. Now.dst \in Operands /\ Formed(Now) /\ Src \in Int
  BY <1>1, NowIs
<1>3. Now.dst.kind = "r" /\ Now.dst.n < 8
  BY <1>1, <1>2 DEF Formed, Stepped
<1>4. Now.dst.n \in 0 .. 7
  BY <1>2, <1>3, OperandsAre
<1>5. x \in Cy
  <2>1. (IF Now.op = "adds" THEN Src ELSE -Src) \in Int
    BY <1>2
  <2> QED
    BY <1>4, <2>1, Adds DEF DataTypeOK
<1> QED
  BY <1>1, <1>5, BecomesCy

LEMMA UnaryKeeps == ASSUME DataTypeOK, Unary PROVE DataTypeOK'
<1> DEFINE t == CASE Now.op = "inc" -> Dst + Src
                  [] Now.op = "dec" -> Dst - Src
                  [] Now.op = "not" -> UINT - 1 - Dst
                  [] Now.op = "neg" -> 0 - Dst
<1>1. n < Len(code) /\ Now.op \in {"inc", "dec", "not", "neg"} /\ Becomes(Result(t))
  BY DEF Unary, At
<1>2. Now.op \notin DstKept
  BY <1>1 DEF DstKept, Loads
<1>3. t \in Int
  BY <1>1, NowIs, SizesAre
<1> HIDE DEF t
<1> QED
  BY <1>1, <1>2, <1>3, ResultKeeps

LEMMA ExtendKeeps == ASSUME DataTypeOK, Extend PROVE DataTypeOK'
<1> DEFINE half == IF Size = "w" THEN "b" ELSE "w"
           v == reg_read(m, half, Now.dst.n)
           t == IF Now.op = "extu" THEN v ELSE Signed(v, half)
<1>1. n < Len(code) /\ Now.op \in {"extu", "exts"} /\ Becomes(Result(t))
  BY DEF Extend, At
<1>2. Now.op \notin DstKept
  BY <1>1 DEF DstKept, Loads
<1>3. half \in Sizes
  BY DEF Sizes
<1>4. Now.dst.n \in 0 .. 15
  BY <1>1, NowIs, OperandsAre DEF Formed
<1>5. v \in Int
  <2>1. m.e \in Registers32 /\ Modulus(half) \in Nat
    BY <1>3, SizesAre DEF DataTypeOK, Cy
  <2> HIDE DEF half
  <2>2. v \in 0 .. (Modulus(half) - 1)
    BY <1>3, <1>4, <2>1, ReadsRegister
  <2> QED
    BY <2>1, <2>2
<1>6. t \in Int
  BY <1>3, <1>5, SignedIsInt
<1> HIDE DEF t
<1> QED
  BY <1>1, <1>2, <1>6, ResultKeeps

LEMMA CountsAre ==
  ASSUME DataTypeOK, n < Len(code), Now.op \in Shifts \cup Loads \cup {"bst", "bist"}
  PROVE  Src \in 0 .. Widest
<1>1. Formed(Now) /\ Now.src \in Operands
  BY NowIs
<1>2. Now.src.kind = "i" /\ Now.src.n < BITS["b"]
  BY <1>1 DEF Formed
<1>3. Now.src.n \in Nat /\ Src = Now.src.n % Modulus(Now.src.size)
  BY <1>1, <1>2, OperandsAre DEF Src, rd
<1>4. PICK M \in Nat : M = Modulus(Now.src.size) /\ M >= 1
  BY <1>1, OperandsAre, SizesAre
<1>5. Now.src.n % M <= Now.src.n /\ Now.src.n % M >= 0 /\ Now.src.n % M \in Int
  BY <1>3, <1>4
<1> QED
  BY <1>2, <1>3, <1>4, <1>5, WidthsAre DEF Widest

LEMMA ShiftKeeps == ASSUME DataTypeOK, Shift PROVE DataTypeOK'
<1> DEFINE t == CASE Now.op \in {"shll", "shal"} -> Dst * Two[Src]
                  [] Now.op = "shlr" -> Dst \div Two[Src]
                  [] Now.op = "shar" -> Signed(Dst, Size) \div Two[Src]
<1>1. n < Len(code) /\ Now.op \in Shifts /\ Becomes(Result(t))
  BY DEF Shift, At
<1>2. Now.op \notin DstKept
  BY <1>1 DEF DstKept, Loads, Shifts
<1>3. Size \in Sizes /\ Dst \in Int
  BY <1>1, NowIs DEF Size
<1>4. Src \in 0 .. Widest
  BY <1>1, CountsAre
<1>5. PICK d \in Nat : d = Two[Src] /\ d >= 1
  BY <1>4, TwoIs
<1>6. Dst * d \in Int /\ Dst \div d \in Int /\ Signed(Dst, Size) \div d \in Int
  BY <1>3, <1>5, IntDivides, SignedIsInt
<1>7. t \in Int
  BY <1>1, <1>5, <1>6 DEF Shifts
<1> HIDE DEF t
<1> QED
  BY <1>1, <1>2, <1>7, ResultKeeps

LEMMA RotateKeeps == ASSUME DataTypeOK, Rotate PROVE DataTypeOK'
<1> DEFINE top == BITS[Size] - 1
           out == BitAt(Dst, IF Now.op \in {"rotl", "rotxl"} THEN top ELSE 0)
           in == IF Now.op \in {"rotxl", "rotxr"} THEN m.f.cf ELSE out
           t == IF Now.op \in {"rotl", "rotxl"} THEN 2 * Dst + in
                ELSE Dst \div 2 + in * Two[top]
           x == [Result(t) EXCEPT !.f.cf = out]
<1>1. n < Len(code) /\ Now.op \in {"rotl", "rotr", "rotxl", "rotxr"} /\ Becomes(x)
  BY DEF Rotate, Rotates, At
<1>2. Now.op \notin DstKept
  BY <1>1 DEF DstKept, Loads
<1>3. Size \in Sizes /\ Dst \in Int /\ m.f \in Flags
  BY <1>1, NowIs, Fields DEF Size, DataTypeOK
<1>4. top \in 0 .. Widest /\ 0 \in 0 .. Widest
  BY <1>3, WidthsAre
<1>5. out \in {0, 1}
  BY <1>3, <1>4, BitIsBit
<1>6. in \in {0, 1}
  BY <1>3, <1>5 DEF Flags, Flag
<1>7. t \in Int
  <2>1. Two[top] \in Nat
    BY <1>4, TwoIs
  <2> HIDE DEF in, top
  <2> QED
    BY <1>3, <1>6, <2>1
<1> HIDE DEF t, out
<1>8. Result(t) \in Cy /\ Result(t).f \in Flags
  BY <1>1, <1>2, <1>7, Results
<1>9. x \in Cy
  BY <1>5, <1>8 DEF Cy, Flags, Flag
<1> QED
  BY <1>1, <1>9, BecomesCy

LEMMA BitModifyKeeps == ASSUME DataTypeOK, BitModify PROVE DataTypeOK'
<1> DEFINE a == Ones(Dst, "b")
           t == CASE Now.op = "bset" -> a \cup {BitNumber}
                  [] Now.op = "bclr" -> a \ {BitNumber}
                  [] Now.op = "bnot" -> (a \ {BitNumber}) \cup ({BitNumber} \ a)
           x == wr(m, Now.dst, FromOnes(t))
<1>1. n < Len(code) /\ Now.op \in {"bset", "bclr", "bnot"} /\ Becomes(x)
  BY DEF BitModify, At
<1>2. Now.op \notin DstKept
  BY <1>1 DEF DstKept, Loads
<1> HIDE DEF t
<1>3. FromOnes(t) \in Int
  BY BitsAndNumber
<1>4. x \in Cy
  BY <1>1, <1>2, <1>3, Results
<1> QED
  BY <1>1, <1>4, BecomesCy

LEMMA BitTestKeeps == ASSUME DataTypeOK, BitTest PROVE DataTypeOK'
<1> DEFINE z == 1 - BitAt(Dst, BitNumber)
           x == [m EXCEPT !.f.zf = z]
<1>1. n < Len(code) /\ Becomes(x)
  BY DEF BitTest, At
<1>2. Dst \in Int /\ Src \in Int /\ m \in Cy /\ m.f \in Flags
  BY <1>1, NowIs, Fields DEF DataTypeOK
<1>3. BitNumber \in 0 .. Widest
  <2>1. BitNumber \in 0 .. (BITS["b"] - 1)
    <3>1. BITS["b"] \in Nat /\ BITS["b"] >= 1
      BY WidthsAre
    <3> QED
      BY <1>2, <3>1, RemainderRange DEF BitNumber
  <2> QED
    BY <2>1, WidthsAre DEF Widest
<1>4. z \in {0, 1}
  <2>1. BitAt(Dst, BitNumber) \in {0, 1}
    BY <1>2, <1>3, BitIsBit
  <2> QED
    BY <2>1
<1> HIDE DEF z
<1>5. x \in Cy
  BY <1>2, <1>4 DEF Cy, Flags, Flag
<1> QED
  BY <1>1, <1>5, BecomesCy

LEMMA BitLoadKeeps == ASSUME DataTypeOK, BitLoad PROVE DataTypeOK'
<1> DEFINE bit == BitAt(Dst, Src)
           in == IF Now.op \in {"bild", "biand", "bior", "bixor"} THEN 1 - bit
                 ELSE bit
           c == m.f.cf
           v == CASE Now.op \in {"bld", "bild"} -> in
                  [] Now.op \in {"band", "biand"} -> c * in
                  [] Now.op \in {"bor", "bior"} -> Bit(c + in > 0)
                  [] Now.op \in {"bxor", "bixor"} -> (c + in) % 2
           x == [m EXCEPT !.f.cf = v]
<1>1. n < Len(code) /\ Now.op \in Loads /\ Becomes(x)
  BY DEF BitLoad, At
<1>2. Dst \in Int /\ m \in Cy /\ m.f \in Flags
  BY <1>1, NowIs, Fields DEF DataTypeOK
<1>3. bit \in {0, 1}
  BY <1>1, <1>2, CountsAre, BitIsBit
<1> HIDE DEF bit
<1>4. in \in {0, 1} /\ c \in {0, 1}
  BY <1>2, <1>3 DEF Flags, Flag
<1> HIDE DEF in, c
<1>5. v \in {0, 1}
  <2>1. c * in \in {0, 1} /\ (c + in) % 2 \in {0, 1}
    BY <1>4
  <2> QED
    BY <1>1, <1>4, <2>1 DEF Bit, Loads
<1> HIDE DEF v
<1>6. x \in Cy
  BY <1>2, <1>5 DEF Cy, Flags, Flag
<1> QED
  BY <1>1, <1>6, BecomesCy

LEMMA BitStoreKeeps == ASSUME DataTypeOK, BitStore PROVE DataTypeOK'
<1> DEFINE v == IF Now.op = "bst" THEN m.f.cf ELSE 1 - m.f.cf
           t == Dst + (v - BitAt(Dst, Src)) * Two[Src]
           x == wr(m, Now.dst, t)
<1>1. n < Len(code) /\ Now.op \in {"bst", "bist"} /\ Becomes(x)
  BY DEF BitStore, At
<1>2. Dst \in Int /\ m.f \in Flags
  BY <1>1, NowIs, Fields DEF DataTypeOK
<1>3. Src \in 0 .. Widest
  BY <1>1, CountsAre
<1>4. v \in Int /\ Two[Src] \in Int /\ BitAt(Dst, Src) \in Int
  <2>1. m.f.cf \in {0, 1}
    BY <1>2 DEF Flags, Flag
  <2>2. v \in Int
    BY <2>1
  <2>3. BitAt(Dst, Src) \in {0, 1}
    BY <1>2, <1>3, BitIsBit
  <2>4. Two[Src] \in Nat
    BY <1>3, TwoIs
  <2> QED
    BY <2>2, <2>3, <2>4
<1> HIDE DEF v
<1>5. t \in Int
  BY <1>2, <1>4
<1> HIDE DEF t
<1>6. Now.op \notin DstKept
  BY <1>1 DEF DstKept, Loads
<1>7. x \in Cy
  BY <1>1, <1>5, <1>6, Results
<1> QED
  BY <1>1, <1>7, BecomesCy

LEMMA MultiplyKeeps == ASSUME DataTypeOK, Multiply PROVE DataTypeOK'
<1> DEFINE v == Dst % Modulus(Size)
           t == IF Now.op = "mulxu" THEN v * Src
                ELSE Signed(v, Size) * Signed(Src, Size)
           x == wr(m, Now.dst, t)
<1>1. n < Len(code) /\ Now.op \in {"mulxu", "mulxs"} /\ Becomes(x)
  BY DEF Multiply, At
<1>2. Dst \in Int /\ Src \in Int /\ Size \in Sizes
  BY <1>1, NowIs DEF Size
<1>3. v \in Int
  BY <1>2, SizesAre, IntDivides
<1> HIDE DEF v
<1>4. Signed(v, Size) \in Int /\ Signed(Src, Size) \in Int
  BY <1>2, <1>3, SignedIsInt
<1>5. t \in Int
  <2>1. \A y, z \in Int : y * z \in Int
    OBVIOUS
  <2> QED
    BY <1>2, <1>3, <1>4, <2>1
<1> HIDE DEF t
<1>6. Now.op \notin DstKept
  BY <1>1 DEF DstKept, Loads
<1>7. x \in Cy
  BY <1>1, <1>5, <1>6, Results
<1> QED
  BY <1>1, <1>7, BecomesCy

LEMMA DivideKeeps == ASSUME DataTypeOK, Divide PROVE DataTypeOK'
<1> DEFINE a == Signed(Dst, "l")
           b == IF Now.op = "divxs" THEN Signed(Src, Size) ELSE Src
           q == Quotient(a, b)
           half == Modulus(Size)
           t == ((a - b * q) % half) * half + (q % half)
           x == IF b = 0 THEN m ELSE wr(m, Now.dst, t)
<1>1. n < Len(code) /\ Now.op \in {"divxu", "divxs"} /\ Becomes(x)
  BY DEF Divide, At
<1>2. Dst \in Int /\ Src \in Int /\ Size \in Sizes
  BY <1>1, NowIs DEF Size
<1>3. half \in Nat /\ half >= 1
  BY <1>2, SizesAre
<1>4. a \in Int /\ b \in Int
  BY <1>2, SignedIsInt DEF Sizes
<1> HIDE DEF a, b, half
<1>5. CASE b = 0
  BY <1>1, <1>5, BecomesCy DEF DataTypeOK
<1>6. CASE b # 0
  <2> DEFINE w == (IF a < 0 THEN -a ELSE a) \div (IF b < 0 THEN -b ELSE b)
  <2>1. w \in Int
    <3>1. PICK c \in Int : c = IF a < 0 THEN -a ELSE a
      BY <1>4
    <3>2. PICK d \in Nat : d >= 1 /\ d = IF b < 0 THEN -b ELSE b
      BY <1>4, <1>6
    <3>3. c \div d \in Int
      BY <3>2, IntDivides
    <3> QED
      BY <3>1, <3>2, <3>3
  <2>2. q = IF (a < 0) = (b < 0) THEN w ELSE -w
    BY DEF Quotient
  <2> HIDE DEF w, q
  <2>3. q \in Int
    BY <2>1, <2>2
  <2>4. a - b * q \in Int
    BY <1>4, <2>3
  <2>5. (a - b * q) % half \in Int /\ q % half \in Int
    BY <1>3, <2>3, <2>4, IntDivides
  <2>6. t \in Int
    BY <1>3, <2>5
  <2> HIDE DEF t
  <2>7. Now.op \notin DstKept
    BY <1>1 DEF DstKept, Loads
  <2>8. x \in Cy
    BY <1>1, <1>6, <2>6, <2>7, Results
  <2> QED
    BY <1>1, <2>8, BecomesCy
<1> QED
  BY <1>5, <1>6

LEMMA TasKeeps == ASSUME DataTypeOK, Tas PROVE DataTypeOK'
<1> DEFINE t == FromOnes(Ones(Dst, "b") \cup {BITS["b"] - 1})
           x == [wr(m, Now.dst, t) EXCEPT !.f = SETNZ(@, Dst, "b")]
<1>1. n < Len(code) /\ Now.op = "tas" /\ Becomes(x)
  BY DEF Tas, At
<1>2. Now.op \notin DstKept
  BY <1>1 DEF DstKept, Loads
<1>3. t \in Int
  BY BitsAndNumber
<1> HIDE DEF t
<1>4. Dst \in Int /\ "b" \in Sizes
  BY <1>1, NowIs DEF Sizes
<1>5. PICK z \in Cy : z = wr(m, Now.dst, t)
  BY <1>1, <1>2, <1>3, Results
<1>6. SETNZ(z.f, Dst, "b") \in Flags
  BY <1>4, NZKeepsFlags, Fields
<1>7. x \in Cy
  BY <1>5, <1>6, Flagged
<1> QED
  BY <1>1, <1>7, BecomesCy

LEMMA EepmovKeeps == ASSUME DataTypeOK, Eepmov PROVE DataTypeOK'
<1> DEFINE count == reg_read(m, Size, 4)
           one(x) == AddTo(AddTo(cy_write(x, "b", x.e[6], cy_read(x, "b", x.e[5])),
                                 5, 1), 6, 1)
           body(h) == [k \in 0 .. count |-> IF k = 0 THEN m ELSE one(h[k - 1])]
           copied == CHOOSE h : h = body(h)
           y == reg_write(copied[count], Size, 4, 0)
<1>1. n < Len(code) /\ Becomes(y)
  BY DEF Eepmov, At
<1>2. Size \in Sizes /\ m \in Cy
  BY <1>1, NowIs DEF Size, DataTypeOK
<1>3. count \in Nat
  <2>1. count \in 0 .. (Modulus(Size) - 1) /\ Modulus(Size) \in Nat
    BY <1>2, ReadsRegister, SizesAre DEF Cy
  <2> HIDE DEF count
  <2> QED
    BY <2>1
<1>4. ASSUME NEW x \in Cy PROVE one(x) \in Cy
  <2>1. x.e[5] \in Int /\ x.e[6] \in Int /\ "b" \in Sizes
    BY Fields DEF Sizes
  <2>2. PICK z \in Cy : z = cy_write(x, "b", x.e[6], cy_read(x, "b", x.e[5]))
    BY <2>1, ReadsMemory, WritesMemory
  <2>3. AddTo(z, 5, 1) \in Cy
    BY Adds
  <2>4. AddTo(AddTo(z, 5, 1), 6, 1) \in Cy
    BY <2>3, Adds
  <2> QED
    BY <2>2, <2>4
<1> HIDE DEF count, one
<1>5. \E h : h = body(h)
  <2> DEFINE V == Cy
             base == m
             step == [k \in 1 .. count |-> [v \in V |-> one(v)]]
  <2>1. base \in V /\ Steps(count, V, step)
    BY <1>2, <1>4 DEF Steps
  <2>2. PICK h : Goes(count, V, base, step, h)
    <3> HIDE DEF V, base, step
    <3> QED
      BY <1>3, <2>1, Recursion
  <2>3. ASSUME NEW k \in 0 .. count PROVE h[k] = IF k = 0 THEN m ELSE one(h[k - 1])
    <3>1. CASE k = 0
      BY <2>2, <3>1 DEF Goes
    <3>2. CASE k # 0
      <4>1. k \in 1 .. count /\ k - 1 \in 0 .. count
        BY <1>3, <3>2
      <4>2. h[k] = step[k][h[k - 1]] /\ h[k - 1] \in V
        <5> HIDE DEF V, base, step
        <5> QED
          BY <2>2, <4>1 DEF Goes
      <4>3. h[k] = one(h[k - 1])
        BY <4>1, <4>2
      <4> QED
        BY <3>2, <4>3
    <3> QED
      BY <3>1, <3>2
  <2>4. h = [k \in 0 .. count |-> h[k]]
    BY <2>2 DEF Goes
  <2>5. h = body(h)
    BY <2>3, <2>4
  <2> HIDE DEF body
  <2> QED
    BY <2>5
<1>6. copied = body(copied)
  <2> HIDE DEF body
  <2> QED
    BY <1>5
<1> HIDE DEF copied
<1>7. \A k \in 0 .. count : copied[k] = IF k = 0 THEN m ELSE one(copied[k - 1])
  BY <1>6
<1> HIDE DEF body
<1> DEFINE S == {k \in 0 .. count : copied[k] \in Cy}
<1>8. 0 \in S
  BY <1>2, <1>3, <1>7
<1>9. ASSUME NEW k \in 1 .. count, k - 1 \in S PROVE k \in S
  <2>1. k \in 0 .. count /\ k # 0 /\ copied[k - 1] \in Cy
    BY <1>3, <1>9
  <2>2. copied[k] = one(copied[k - 1])
    BY <1>7, <2>1
  <2> QED
    BY <1>4, <2>1, <2>2
<1> HIDE DEF S
<1>10. count \in S
  BY <1>3, <1>8, <1>9, Induct
<1>11. copied[count] \in Cy
  BY <1>10 DEF S
<1>12. y \in Cy
  <2>1. PICK z \in Cy : z = copied[count]
    BY <1>11
  <2>2. 4 \in 0 .. 15 /\ 0 \in Int
    OBVIOUS
  <2>3. reg_write(z, Size, 4, 0) \in Cy
    BY <1>2, <2>2, WritesRegister
  <2> QED
    BY <2>1, <2>3
<1> QED
  BY <1>1, <1>12, BecomesCy

LEMMA CcrOpKeeps == ASSUME DataTypeOK, CcrOp PROVE DataTypeOK'
<1> DEFINE ccr == CY_CCR_GET(m.f)
           a == Ones(ccr, "b")
           b == Ones(Src, "b")
           v == CASE Now.op = "ldc" -> Src
                  [] Now.op = "orc" -> FromOnes(a \cup b)
                  [] Now.op = "andc" -> FromOnes(a \cap b)
                  [] Now.op = "xorc" -> FromOnes((a \ b) \cup (b \ a))
           x == IF Now.op = "stc" THEN wr(m, Now.dst, ccr)
                ELSE [m EXCEPT !.f = CY_CCR_SET(@, v)]
<1>1. n < Len(code) /\ Now.op \in {"stc", "ldc", "orc", "andc", "xorc"} /\ Becomes(x)
  BY DEF CcrOp, At
<1>2. Src \in Int /\ m \in Cy
  BY <1>1, NowIs DEF DataTypeOK
<1> HIDE DEF a, b
<1>3. ccr \in Int
  BY BitsAndNumber DEF CY_CCR_GET
<1> HIDE DEF ccr
<1>4. CASE Now.op = "stc"
  <2>1. Now.op \notin DstKept
    BY <1>4 DEF DstKept, Loads
  <2>2. x \in Cy
    BY <1>1, <1>3, <1>4, <2>1, Results
  <2> QED
    BY <1>1, <2>2, BecomesCy
<1>5. CASE Now.op # "stc"
  <2>1. v \in Int
    <3>1. FromOnes(a \cup b) \in Int /\ FromOnes(a \cap b) \in Int
          /\ FromOnes((a \ b) \cup (b \ a)) \in Int
      BY BitsAndNumber
    <3> QED
      BY <1>1, <1>2, <1>5, <3>1
  <2> HIDE DEF v
  <2>2. CY_CCR_SET(m.f, v) \in Flags
    BY <2>1, CcrKeepsFlags
  <2>3. x \in Cy
    BY <1>2, <1>5, <2>2, Flagged
  <2> QED
    BY <1>1, <2>3, BecomesCy
<1> QED
  BY <1>4, <1>5

LEMMA PushKeeps == ASSUME DataTypeOK, Push PROVE DataTypeOK'
<1> DEFINE x == AddTo(m, 7, -4)
           y == cy_write(x, "l", x.e[7], rd(x, Now.src))
<1>1. n < Len(code) /\ Becomes(y)
  BY DEF Push, At
<1>2. Now.src \in Operands /\ "l" \in Sizes
  BY <1>1, NowIs DEF Sizes
<1>3. x \in Cy
  BY Adds DEF DataTypeOK
<1> HIDE DEF x
<1>4. x.e[7] \in Int /\ rd(x, Now.src) \in Int
  BY <1>2, <1>3, Fields, Reads
<1>5. y \in Cy
  BY <1>2, <1>3, <1>4, WritesMemory
<1> QED
  BY <1>1, <1>5, BecomesCy

LEMMA PopKeeps == ASSUME DataTypeOK, Pop PROVE DataTypeOK'
<1> DEFINE v == cy_read(m, "l", m.e[7])
           y == AddTo(wr(m, Now.dst, v), 7, 4)
<1>1. n < Len(code) /\ Now.op = "pop" /\ Becomes(y)
  BY DEF Pop, At
<1>2. m \in Cy /\ m.e[7] \in Int /\ "l" \in Sizes
  BY Fields DEF DataTypeOK, Sizes
<1>3. v \in Int
  BY <1>2, ReadsMemory
<1>4. Now.op \notin DstKept
  BY <1>1 DEF DstKept, Loads
<1> HIDE DEF v
<1>5. wr(m, Now.dst, v) \in Cy
  BY <1>1, <1>3, <1>4, Results
<1>6. y \in Cy
  BY <1>5, Adds
<1> QED
  BY <1>1, <1>6, BecomesCy

LEMMA InterruptKeeps == ASSUME DataTypeOK, Interrupt PROVE DataTypeOK'
<1> DEFINE x == AddTo(m, 7, -4)
           frame == CY_CCR_GET(m.f) * Weight(3) + Cell(m.pc)
           y == cy_write(x, "l", x.e[7], frame)
           target == Cell(cy_read(y, "l", Src))
           z == [y EXCEPT !.f.iff = 1, !.pc = target]
<1>1. n < Len(code) /\ Becomes(z)
  BY DEF Interrupt, At
<1>2. Src \in Int /\ "l" \in Sizes /\ m \in Cy
  BY <1>1, NowIs DEF Sizes, DataTypeOK
<1>3. x \in Cy
  BY <1>2, Adds
<1> HIDE DEF x
<1>4. frame \in Int
  <2>1. CY_CCR_GET(m.f) \in Nat /\ Weight(3) \in Nat
    BY BitsAndNumber, WeightsAre DEF CY_CCR_GET
  <2>2. m.pc \in Int
    BY <1>2, MemoryAssumption DEF Cy
  <2>3. Cell(m.pc) \in Nat
    BY <2>2, CellsAre
  <2> QED
    BY <2>1, <2>3
<1> HIDE DEF frame
<1>5. y \in Cy
  BY <1>2, <1>3, <1>4, WritesMemory, Fields
<1> HIDE DEF y
<1>6. target \in 0 .. (MEM - 1) /\ y.f \in Flags
  BY <1>2, <1>5, ReadsMemory, CellsAre, Fields
<1> HIDE DEF target
<1>7. z \in Cy
  BY <1>5, <1>6 DEF Cy, Flags, Flag
<1> QED
  BY <1>1, <1>7, BecomesCy

LEMMA RteKeeps == ASSUME DataTypeOK, Rte PROVE DataTypeOK'
<1> DEFINE t == cy_read(m, "l", m.e[7])
           x == AddTo(m, 7, 4)
           g == CY_CCR_SET(x.f, t \div Weight(3))
           target == Cell(t)
           y == [x EXCEPT !.f = g, !.pc = target]
<1>1. n < Len(code) /\ Becomes(y)
  BY DEF Rte, At
<1>2. m \in Cy /\ m.e[7] \in Int /\ "l" \in Sizes
  BY Fields DEF DataTypeOK, Sizes
<1>3. t \in Int
  BY <1>2, ReadsMemory
<1> HIDE DEF t
<1>4. x \in Cy
  BY <1>2, Adds
<1>5. g \in Flags
  <2>1. t \div Weight(3) \in Int
    BY <1>3, WeightsAre, IntDivides
  <2> QED
    BY <2>1, CcrKeepsFlags
<1>6. target \in 0 .. (MEM - 1)
  BY <1>3, CellsAre
<1> HIDE DEF x, g, target
<1>7. y \in Cy
  BY <1>4, <1>5, <1>6 DEF Cy
<1> QED
  BY <1>1, <1>7, BecomesCy

-----------------------------------------------------------------------------
(* The theorems. *)

LEMMA DataNextInv == DataInv /\ [Next]_vars => DataInv'
<1> SUFFICES ASSUME DataInv, [Next]_vars PROVE DataInv'
  OBVIOUS
<1>0. DataTypeOK
  BY DEF DataInv
<1>1. CASE Sum
  <2>1. /\ DataTypeOK'
        /\ m'.f = IF Now.op = "add" THEN SETFLAGS_ADD(m.f, Dst, Src, Dst + Src, Size)
                  ELSE SETFLAGS_SUB(m.f, Dst, Src, Dst - Src, Size)
    BY <1>0, <1>1, SumKeeps
  <2>2. before' = m /\ Last' = Now
    <3>1. n' = n + 1 /\ code' = code /\ before' = m
      BY <1>1 DEF Sum, Becomes
    <3> QED
      BY <3>1 DEF Last, Now
  <2>3. SumFlagged'
    BY <2>1, <2>2 DEF SumFlagged, Dst, Src, Size
  <2> QED
    BY <2>1, <2>3 DEF DataInv
<1>2. ASSUME n < Len(code), Now.op \notin Sums, n' = n + 1, code' = code, DataTypeOK'
      PROVE  DataInv'
  <2>1. ~(Last'.op \in Sums)
    BY <1>2 DEF Last, Now
  <2> QED
    BY <1>2, <2>1 DEF DataInv, SumFlagged, Executed
<1>3. CASE SumExtended
  BY <1>0, <1>2, <1>3, SumExtendedKeeps DEF SumExtended, At, Becomes, Sums
<1>4. CASE Logic
  BY <1>0, <1>2, <1>4, LogicKeeps DEF Logic, At, Becomes, Sums
<1>5. CASE Mov
  BY <1>0, <1>2, <1>5, MovKeeps DEF Mov, At, Becomes, Sums
<1>6. CASE Adjust
  BY <1>0, <1>2, <1>6, AdjustKeeps DEF Adjust, At, Becomes, Sums
<1>7. CASE Unary
  BY <1>0, <1>2, <1>7, UnaryKeeps DEF Unary, At, Becomes, Sums
<1>8. CASE Extend
  BY <1>0, <1>2, <1>8, ExtendKeeps DEF Extend, At, Becomes, Sums
<1>9. CASE Shift
  BY <1>0, <1>2, <1>9, ShiftKeeps DEF Shift, Shifts, At, Becomes, Sums
<1>10. CASE Rotate
  BY <1>0, <1>2, <1>10, RotateKeeps DEF Rotate, Rotates, At, Becomes, Sums
<1>11. CASE BitModify
  BY <1>0, <1>2, <1>11, BitModifyKeeps DEF BitModify, At, Becomes, Sums
<1>12. CASE BitTest
  BY <1>0, <1>2, <1>12, BitTestKeeps DEF BitTest, At, Becomes, Sums
<1>13. CASE BitLoad
  BY <1>0, <1>2, <1>13, BitLoadKeeps DEF BitLoad, Loads, At, Becomes, Sums
<1>14. CASE BitStore
  BY <1>0, <1>2, <1>14, BitStoreKeeps DEF BitStore, At, Becomes, Sums
<1>15. CASE Multiply
  BY <1>0, <1>2, <1>15, MultiplyKeeps DEF Multiply, At, Becomes, Sums
<1>16. CASE Divide
  BY <1>0, <1>2, <1>16, DivideKeeps DEF Divide, At, Becomes, Sums
<1>17. CASE Tas
  BY <1>0, <1>2, <1>17, TasKeeps DEF Tas, At, Becomes, Sums
<1>18. CASE Eepmov
  BY <1>0, <1>2, <1>18, EepmovKeeps DEF Eepmov, At, Becomes, Sums
<1>19. CASE CcrOp
  BY <1>0, <1>2, <1>19, CcrOpKeeps DEF CcrOp, At, Becomes, Sums
<1>20. CASE Push
  BY <1>0, <1>2, <1>20, PushKeeps DEF Push, At, Becomes, Sums
<1>21. CASE Pop
  BY <1>0, <1>2, <1>21, PopKeeps DEF Pop, At, Becomes, Sums
<1>22. CASE Interrupt
  BY <1>0, <1>2, <1>22, InterruptKeeps DEF Interrupt, At, Becomes, Sums
<1>23. CASE Rte
  BY <1>0, <1>2, <1>23, RteKeeps DEF Rte, At, Becomes, Sums
<1>24. CASE UNCHANGED vars
  BY <1>24 DEF vars, DataInv, DataTypeOK, SumFlagged, Executed, Last
<1> QED
  BY <1>1, <1>3, <1>4, <1>5, <1>6, <1>7, <1>8, <1>9, <1>10, <1>11, <1>12, <1>13, <1>14,
     <1>15, <1>16, <1>17, <1>18, <1>19, <1>20, <1>21, <1>22, <1>23, <1>24 DEF Next

\* Registers stay 32 bits wide, memory and peripherals hold bytes, flags are
\* bits and the PC an address after every instruction of every program, and
\* the flags a sum leaves are the macro's of what its operands held.
THEOREM DataInvHolds == Spec => []DataInv
<1>1. Init => DataInv
  BY DataInitInv
<1>2. DataInv /\ [Next]_vars => DataInv'
  BY DataNextInv
<1> QED
  BY <1>1, <1>2, PTL DEF Spec

\* What the operands of a sum held: numbers of its size, whatever moves.
LEMMA SumOperands ==
  ASSUME DataInv, Executed(Sums)
  PROVE  LET a == Old(Last.dst)
             b == Old(Last.src)
             s == Last.size
         IN  /\ s \in Sizes /\ a \in 0 .. (Modulus(s) - 1) /\ b \in 0 .. (Modulus(s) - 1)
             /\ before.f \in Flags
             /\ m.f = IF Last.op = "add" THEN SETFLAGS_ADD(before.f, a, b, a + b, s)
                      ELSE SETFLAGS_SUB(before.f, a, b, a - b, s)
<1>1. n \in 1 .. Len(code)
  BY LenProperties DEF DataInv, DataTypeOK, Executed
<1>2. Last \in Instructions /\ Formed(Last) /\ Last.op \in Sums
  BY <1>1, ElementOfSeq DEF DataInv, DataTypeOK, Last, Executed
<1>3. /\ Last.dst \in Operands /\ Last.src \in Operands /\ Last.size \in Sizes
      /\ Last.dst.kind = "r" /\ Last.src.kind \in {"r", "i"}
      /\ Last.dst.size = Last.size /\ Last.src.size = Last.size
  BY <1>2 DEF Formed, Instructions
<1>4. Pre(before, Last) = before
  BY <1>3 DEF Pre, Moved
<1>5. before \in Cy /\ before.f \in Flags
  BY Fields DEF DataInv, DataTypeOK
<1>6. /\ rd(before, Last.dst) \in 0 .. (Modulus(Last.size) - 1)
      /\ rd(before, Last.src) \in 0 .. (Modulus(Last.size) - 1)
  BY <1>3, <1>5, Reads
<1>7. Old(Last.dst) = rd(before, Last.dst) /\ Old(Last.src) = rd(before, Last.src)
  BY <1>4 DEF Old
<1> QED
  BY <1>3, <1>5, <1>6, <1>7 DEF DataInv, SumFlagged

\* After add, sub and cmp, V says that the exact signed result does not fit
\* the size, and N and Z describe the wrapped one: for every size, both
\* signs and every operand (h8s.h:200-224).
THEOREM OverflowHolds == Spec => []OverflowIsSigned
<1>1. ASSUME DataInv PROVE OverflowIsSigned
  <2> SUFFICES ASSUME Executed(Sums) PROVE OverflowIsSigned
    BY DEF OverflowIsSigned
  <2> DEFINE a == Old(Last.dst)
             b == Old(Last.src)
             s == Last.size
             sum == Signed(a, s) + Signed(b, s)
             difference == Signed(a, s) - Signed(b, s)
  <2>1. /\ s \in Sizes /\ a \in 0 .. (Modulus(s) - 1) /\ b \in 0 .. (Modulus(s) - 1)
        /\ before.f \in Flags
        /\ m.f = IF Last.op = "add" THEN SETFLAGS_ADD(before.f, a, b, a + b, s)
                 ELSE SETFLAGS_SUB(before.f, a, b, a - b, s)
    BY <1>1, SumOperands
  <2>2. Says(m.f, IF Last.op = "add" THEN sum ELSE difference, s)
    <3> HIDE DEF a, b, s
    <3>1. CASE Last.op = "add"
      BY <2>1, <3>1, SumSays
    <3>2. CASE Last.op # "add"
      BY <2>1, <3>2, DifferenceSays
    <3> QED
      BY <3>1, <3>2
  <2> QED
    BY <2>2 DEF OverflowIsSigned, Says
<1> QED
  BY <1>1, DataInvHolds, PTL

\* After cmp and sub, each conditional branch takes the side its name says,
\* signed and unsigned: the macros and cy_cond agree on what the flags mean,
\* for every size and every pair of operands (mem.c:93-113).
THEOREM ComparisonsHold == Spec => []ComparisonsDecide
<1>1. ASSUME DataInv PROVE ComparisonsDecide
  <2> SUFFICES ASSUME Executed({"cmp", "sub"}) PROVE ComparisonsDecide
    BY DEF ComparisonsDecide
  <2> DEFINE a == Old(Last.dst)
             b == Old(Last.src)
             s == Last.size
  <2>1. Executed(Sums) /\ Last.op # "add"
    BY DEF Executed, Sums
  <2>2. /\ s \in Sizes /\ a \in 0 .. (Modulus(s) - 1) /\ b \in 0 .. (Modulus(s) - 1)
        /\ before.f \in Flags
        /\ m.f = SETFLAGS_SUB(before.f, a, b, a - b, s)
    BY <1>1, <2>1, SumOperands
  <2>3. \A k \in Meaning(a, b, s) : cy_cond(m.f, k[1]) = k[2]
    <3> HIDE DEF a, b, s
    <3> QED
      BY <2>2, BranchesDecide
  <2> QED
    BY <2>3 DEF ComparisonsDecide, Meaning
<1> QED
  BY <1>1, DataInvHolds, PTL

\* A digit, counted W each and B in all, is what it is whatever stands above
\* it.
Above(D, W, B) == \E c \in Int : D = (W * B) * c

LEMMA UpperIrrelevant ==
  ASSUME NEW W \in Nat, W >= 1, NEW B \in Nat, B >= 1,
         NEW D \in Int, Above(D, W, B), NEW v \in Int, NEW q \in Int
  PROVE  ((v + D * q) \div W) % B = (v \div W) % B
<1>0. PICK c \in Int : D = (W * B) * c
  BY DEF Above
<1>1. PICK t \in Int, r \in 0 .. (W - 1) : v \div W = t /\ v = W * t + r
  BY Division
<1>2. PICK x \in Int : x = B * (c * q)
  OBVIOUS
<1>3. D * q = W * x
  <2>1. ((W * B) * c) * q = W * (B * (c * q))
    OBVIOUS
  <2> QED
    BY <1>0, <1>2, <2>1
<1>4. v + W * x = W * (t + x) + r
  BY <1>1, <1>2
<1>5. (v + W * x) \div W = t + x
  <2>1. PICK y \in Int : y = t + x
    OBVIOUS
  <2>2. (W * y + r) \div W = y
    BY QuotientIs
  <2> QED
    BY <1>4, <2>1, <2>2
<1>6. (t + B * (c * q)) % B = t % B
  <2>1. PICK k \in Int : k = c * q
    OBVIOUS
  <2>2. (t + B * k) % B = t % B
    BY RemainderShifts
  <2> QED
    BY <2>1, <2>2
<1> QED
  BY <1>1, <1>2, <1>3, <1>5, <1>6

\* And whatever stands below it.
LEMMA LowerIrrelevant ==
  ASSUME NEW D \in Nat, D >= 1, NEW c \in Nat, c >= 1, NEW h \in Int,
         NEW r \in 0 .. (D - 1)
  PROVE  (D * h + r) \div (D * c) = h \div c
<1>1. PICK g \in Int, k \in 0 .. (c - 1) : h \div c = g /\ h = c * g + k
  BY Division
<1>2. D * c \in Nat /\ D * c >= 1
  BY ProductOfNat
<1>3. D * k + r \in 0 .. (D * c - 1)
  <2>1. D * k + r < D * c
    BY FewerDivisors
  <2>2. D * k \in Nat
    OBVIOUS
  <2> QED
    BY <1>2, <2>1, <2>2
<1>4. D * h + r = (D * c) * g + (D * k + r)
  <2>1. D * (c * g + k) = (D * c) * g + D * k
    OBVIOUS
  <2>2. D * k \in Int /\ (D * c) * g \in Int
    OBVIOUS
  <2> QED
    BY <1>1, <2>1, <2>2
<1> DEFINE d == D * c
           s == D * k + r
<1>5. d \in Nat /\ d >= 1 /\ s \in 0 .. (d - 1) /\ D * h + r = d * g + s
  BY <1>2, <1>3, <1>4
<1> HIDE DEF d, s
<1>6. (d * g + s) \div d = g
  BY <1>5, QuotientIs
<1> QED
  BY <1>1, <1>5, <1>6 DEF d

\* Dividing twice is dividing by the product.
LEMMA DividesTwice ==
  ASSUME NEW D \in Nat, D >= 1, NEW c \in Nat, c >= 1, NEW v \in Int
  PROVE  (v \div D) \div c = v \div (D * c)
<1>1. PICK h \in Int, r \in 0 .. (D - 1) : v \div D = h /\ v = D * h + r
  BY Division
<1> QED
  BY <1>1, LowerIrrelevant

-----------------------------------------------------------------------------
(* Bits. *)

\* The bits below a size's top come through a wrap to that size.
LEMMA BitsOfWrapped ==
  ASSUME NEW i \in 0 .. Widest, NEW k \in Nat, k < i, NEW v \in Int, NEW q \in Int
  PROVE  BitAt(v + Two[i] * q, k) = BitAt(v, k)
<1>1. k \in 0 .. Widest /\ k + 1 \in 0 .. Widest /\ i - (k + 1) \in 0 .. Widest
      /\ (k + 1) + (i - (k + 1)) = i /\ k + 1 \in 1 .. Widest /\ (k + 1) - 1 = k
  BY WidthsAre
<1>2. Two[i] = Two[k + 1] * Two[i - (k + 1)]
  BY <1>1, TwoAdds
<1>3. PICK t \in Nat : t = Two[k] /\ t >= 1 /\ Two[k + 1] = 2 * t
  BY <1>1, TwoIs
<1>4. PICK c \in Nat : c = Two[i - (k + 1)]
  BY <1>1, TwoIs
<1>5. PICK D \in Int : D = Two[i] /\ Above(D, t, 2)
  <2>1. Two[i] = (t * 2) * c
    BY <1>2, <1>3, <1>4
  <2>2. Above(Two[i], t, 2)
    BY <1>4, <2>1 DEF Above
  <2> QED
    BY <2>2, TwoIs
<1>6. ((v + D * q) \div t) % 2 = (v \div t) % 2
  BY <1>3, <1>5, UpperIrrelevant
<1> QED
  BY <1>3, <1>5, <1>6 DEF BitAt

LEMMA BitsWrappedOnce ==
  ASSUME NEW i \in 0 .. Widest, NEW k \in Nat, k < i, NEW v \in Int
  PROVE  BitAt(v - Two[i], k) = BitAt(v, k)
<1>1. PICK q \in Int : q = -1
  OBVIOUS
<1>2. BitAt(v + Two[i] * q, k) = BitAt(v, k)
  BY BitsOfWrapped, Zenon
<1>3. v + Two[i] * q = v - Two[i]
  BY <1>1, TwoIs
<1> QED
  BY <1>2, <1>3

LEMMA BitsOfRemainder ==
  ASSUME NEW i \in 0 .. Widest, NEW k \in Nat, k < i, NEW v \in Int
  PROVE  BitAt(v % Two[i], k) = BitAt(v, k)
<1>1. PICK M \in Nat : M = Two[i] /\ M >= 1
  BY TwoIs
<1>2. PICK q \in Int, r \in 0 .. (M - 1) : v % M = r /\ v = M * q + r
  BY <1>1, Division, ZenonT(30)
<1>3. r \in Int /\ v = r + M * q
  BY <1>2
<1>4. BitAt(r + Two[i] * q, k) = BitAt(r, k)
  BY <1>3, BitsOfWrapped
<1> QED
  BY <1>1, <1>2, <1>3, <1>4

\* Shifted right, a bit moves down; shifted left, up.
LEMMA BitsShiftedRight ==
  ASSUME NEW i \in 0 .. Widest, NEW k \in 0 .. Widest, i + k \in 0 .. Widest, NEW v \in Int
  PROVE  BitAt(v \div Two[i], k) = BitAt(v, i + k)
<1>1. Two[i + k] = Two[i] * Two[k]
  BY TwoAdds
<1>2. PICK d \in Nat : d = Two[i] /\ d >= 1
  BY TwoIs
<1>3. PICK c \in Nat : c = Two[k] /\ c >= 1
  BY TwoIs
<1>4. (v \div d) \div c = v \div (d * c)
  BY <1>2, <1>3, DividesTwice
<1> QED
  BY <1>1, <1>2, <1>3, <1>4 DEF BitAt

LEMMA BitsShiftedLeft ==
  ASSUME NEW i \in 0 .. Widest, NEW k \in 0 .. Widest, NEW v \in Int
  PROVE  /\ k < i => BitAt(v * Two[i], k) = 0
         /\ k >= i => BitAt(v * Two[i], k) = BitAt(v, k - i)
<1>1. CASE k < i
  <2>1. BitAt(0 + Two[i] * v, k) = BitAt(0, k)
    <3>1. 0 \in Int /\ k \in Nat
      OBVIOUS
    <3> QED
      BY <1>1, <3>1, BitsOfWrapped, Zenon
  <2>2. PICK d \in Nat : d = Two[i]
    BY TwoIs
  <2>3. 0 + d * v = v * d
    BY <2>2
  <2>4. BitAt(0, k) = 0
    <3>1. PICK c \in Nat : c = Two[k] /\ c >= 1
      BY TwoIs
    <3>2. (c * 0 + 0) \div c = 0
      BY <3>1, QuotientIs
    <3>3. 0 \div c = 0
      BY <3>1, <3>2
    <3> QED
      BY <3>1, <3>3 DEF BitAt
  <2> QED
    BY <1>1, <2>1, <2>2, <2>3, <2>4
<1>2. CASE k >= i
  <2>1. k - i \in 0 .. Widest /\ i + (k - i) = k
    BY <1>2, WidthsAre
  <2>2. Two[k] = Two[i] * Two[k - i]
    BY <2>1, TwoAdds
  <2>3. PICK d \in Nat : d = Two[i] /\ d >= 1
    BY TwoIs
  <2>4. PICK c \in Nat : c = Two[k - i] /\ c >= 1
    BY <2>1, TwoIs
  <2>5. (d * v + 0) \div (d * c) = v \div c
    BY <2>3, <2>4, LowerIrrelevant
  <2>6. d * v + 0 = v * d
    BY <2>3
  <2> QED
    BY <1>2, <2>2, <2>3, <2>4, <2>5, <2>6 DEF BitAt
<1> QED
  BY <1>1, <1>2

\* Shifted by one, with a bit let in from below.
LEMMA BitsOfDoubled ==
  ASSUME NEW k \in 0 .. Widest, NEW v \in Int, NEW in \in {0, 1}
  PROVE  BitAt(2 * v + in, k) = IF k = 0 THEN in ELSE BitAt(v, k - 1)
<1>1. CASE k = 0
  BY <1>1, TwoIs DEF BitAt
<1>2. CASE k # 0
  <2>1. k \in 1 .. Widest /\ k - 1 \in 0 .. Widest
    BY <1>2, WidthsAre
  <2>2. PICK c \in Nat : c = Two[k - 1] /\ c >= 1 /\ Two[k] = 2 * c
    BY <2>1, TwoIs
  <2>3. (2 * v + in) \div (2 * c) = v \div c
    <3>1. 2 \in Nat /\ 2 >= 1 /\ in \in 0 .. (2 - 1)
      OBVIOUS
    <3> QED
      BY <2>2, <3>1, LowerIrrelevant, Zenon
  <2> QED
    BY <1>2, <2>2, <2>3 DEF BitAt
<1> QED
  BY <1>1, <1>2

\* The bits above a number are clear, and set above a negative one.
LEMMA BitsAbove ==
  ASSUME NEW k \in 0 .. Widest, NEW v \in Int
  PROVE  /\ v \in 0 .. (Two[k] - 1) => BitAt(v, k) = 0
         /\ v \in (-Two[k]) .. (-1) => BitAt(v, k) = 1
<1>1. PICK d \in Nat : d = Two[k] /\ d >= 1
  BY TwoIs
<1>2. CASE v \in 0 .. (d - 1)
  <2>1. (d * 0 + v) \div d = 0 /\ d * 0 + v = v
    BY <1>1, <1>2, QuotientIs
  <2> QED
    BY <1>1, <1>2, <2>1 DEF BitAt
<1>3. CASE v \in (-d) .. (-1)
  <2>1. v + d \in 0 .. (d - 1) /\ d * (-1) + (v + d) = v
    BY <1>1, <1>3
  <2>2. (d * (-1) + (v + d)) \div d = -1
    BY <1>1, <2>1, QuotientIs
  <2> QED
    BY <1>1, <1>3, <2>1, <2>2 DEF BitAt
<1> QED
  BY <1>1, <1>2, <1>3

\* What is left of a number of all ones has the other bits.
LEMMA BitsOfComplement ==
  ASSUME NEW i \in 0 .. Widest, NEW k \in Nat, k < i, NEW v \in Int
  PROVE  BitAt(Two[i] - 1 - v, k) = 1 - BitAt(v, k)
<1>1. k \in 0 .. Widest
  BY WidthsAre
<1>2. PICK d \in Nat : d = Two[k] /\ d >= 1
  BY <1>1, TwoIs
<1>3. PICK q \in Int, r \in 0 .. (d - 1) : v \div d = q /\ v = d * q + r
  BY <1>2, Division, ZenonT(30)
<1>4. -1 - v = d * (-1 - q) + (d - 1 - r) /\ d - 1 - r \in 0 .. (d - 1)
  BY <1>2, <1>3
<1>5. (-1 - v) \div d = -1 - q
  BY <1>2, <1>4, QuotientIs
<1>6. BitAt(-1 - v + Two[i] * 1, k) = BitAt(-1 - v, k)
  <2>1. -1 - v \in Int /\ 1 \in Int
    OBVIOUS
  <2> QED
    BY <2>1, BitsOfWrapped, Zenon
<1>7. -1 - v + Two[i] * 1 = Two[i] - 1 - v
  BY TwoIs
<1>8. (-1 - q) % 2 = 1 - (q % 2)
  BY <1>3
<1> QED
  BY <1>2, <1>3, <1>5, <1>6, <1>7, <1>8 DEF BitAt

-----------------------------------------------------------------------------
(* The bytes of a register. *)

LEMMA WeightIs ==
  /\ \A i \in 0 .. 4 : Weight(i) \in Nat /\ Weight(i) >= 1
  /\ \A i, j, k \in 0 .. 4 : k = i + j => Weight(k) = Weight(i) * Weight(j)
  /\ Weight(4) = UINT
<1> DEFINE B == BITS["b"]
<1>0. B \in Nat /\ B >= 2 /\ Widest = 4 * B /\ BITS["l"] = 4 * B
  BY WidthsAre DEF Widest
<1> HIDE DEF B
<1>1. ASSUME NEW i \in 0 .. 4 PROVE B * i \in 0 .. Widest
  <2>1. i = 0 \/ i = 1 \/ i = 2 \/ i = 3 \/ i = 4
    OBVIOUS
  <2> QED
    BY <1>0, <2>1
<1>2. ASSUME NEW i \in 0 .. 4, NEW j \in 0 .. 4, NEW k \in 0 .. 4, k = i + j
      PROVE  Weight(k) = Weight(i) * Weight(j)
  <2>1. B * k = B * i + B * j
    BY <1>0, <1>2
  <2>2. B * i \in 0 .. Widest /\ B * j \in 0 .. Widest /\ B * k \in 0 .. Widest
    BY <1>1
  <2>3. PICK p \in 0 .. Widest : p = B * i
    BY <2>2
  <2>4. PICK q \in 0 .. Widest : q = B * j /\ p + q \in 0 .. Widest /\ p + q = B * k
    BY <2>1, <2>2, <2>3
  <2>5. Two[p + q] = Two[p] * Two[q]
    BY <2>4, TwoAdds
  <2> QED
    BY <2>3, <2>4, <2>5 DEF Weight, B
<1>3. B * 4 = 4 * B
  BY <1>0
<1>4. Weight(4) = UINT
  BY <1>0, <1>3 DEF Weight, UINT, Modulus, B
<1>5. ASSUME NEW i \in 0 .. 4 PROVE Weight(i) \in Nat /\ Weight(i) >= 1
  <2>1. B * i \in 0 .. Widest
    BY <1>1
  <2> QED
    BY <2>1, TwoIs DEF Weight, B
<1> QED
  BY <1>2, <1>4, <1>5

LEMMA WeightsMultiply ==
  ASSUME NEW i \in 0 .. 4, NEW j \in 0 .. 4, NEW k \in 0 .. 4, k = i + j
  PROVE  Weight(k) = Weight(i) * Weight(j)
BY WeightIs, Zenon

LEMMA WeightsGrow ==
  ASSUME NEW i \in 0 .. 4, NEW j \in 0 .. 4, i < j
  PROVE  Weight(i) < Weight(j)
<1>1. PICK u \in 0 .. 4 : j = i + u /\ u >= 1
  <2>1. j - i \in 0 .. 4 /\ j = i + (j - i) /\ j - i >= 1
    OBVIOUS
  <2> QED
    BY <2>1
<1>2. PICK y \in 0 .. 4 : u = 1 + y
  <2>1. u - 1 \in 0 .. 4 /\ u = 1 + (u - 1)
    BY <1>1
  <2> QED
    BY <2>1
<1>3. Weight(j) = Weight(i) * Weight(u) /\ Weight(u) = Weight(1) * Weight(y)
  <2>1. 1 \in 0 .. 4
    OBVIOUS
  <2> QED
    BY <1>1, <1>2, <2>1, WeightsMultiply, Zenon
<1>4. PICK a \in Nat : a = Weight(i) /\ a >= 1
  BY WeightIs
<1>5. PICK c \in Nat : c = Weight(y) /\ c >= 1
  BY WeightIs
<1>6. PICK b \in Nat : b = Weight(1) /\ b >= 4
  BY SizesAre DEF Sizes
<1>7. b * c \in Nat /\ b * c >= b
  BY <1>5, <1>6, ProductOfNat
<1>8. PICK d \in Nat : d = b * c /\ d >= 2
  BY <1>6, <1>7
<1>9. a * d >= a * 2
  <2>1. d - 2 \in Nat /\ a * d = a * 2 + a * (d - 2)
    BY <1>8
  <2>2. a * (d - 2) \in Nat
    BY <2>1
  <2> QED
    BY <2>1, <2>2
<1> QED
  BY <1>3, <1>4, <1>5, <1>6, <1>8, <1>9

LEMMA PlacesAre ==
  ASSUME NEW s \in Sizes, NEW k \in 0 .. 15
  PROVE  /\ Bytes(s) \in {1, 2, 4} /\ Modulus(s) = Weight(Bytes(s))
         /\ \E p \in 0 .. 2 : Place(s, k) = Weight(p) /\ p + Bytes(s) \in 1 .. 4
<1>1. /\ Weight(0) = 1 /\ Weight(1) = Modulus("b") /\ Weight(2) = Modulus("w")
      /\ Weight(4) = Modulus("l")
      /\ Bytes("b") = 1 /\ Bytes("w") = 2 /\ Bytes("l") = 4
  BY SizesAre, WeightIs DEF UINT
<1>2. CASE s = "b"
  <2>1. CASE k < 8
    <3>1. Place(s, k) = Weight(1)
      BY <1>1, <1>2, <2>1 DEF Place
    <3> QED
      BY <1>1, <1>2, <3>1
  <2>2. CASE k >= 8
    <3>1. Place(s, k) = Weight(0)
      BY <1>1, <1>2, <2>2 DEF Place
    <3> QED
      BY <1>1, <1>2, <3>1
  <2> QED
    BY <2>1, <2>2
<1>3. CASE s = "w"
  <2>1. CASE k >= 8
    <3>1. Place(s, k) = Weight(2)
      BY <1>1, <1>3, <2>1 DEF Place
    <3> QED
      BY <1>1, <1>3, <3>1
  <2>2. CASE k < 8
    <3>1. Place(s, k) = Weight(0)
      BY <1>1, <1>3, <2>2 DEF Place
    <3> QED
      BY <1>1, <1>3, <3>1
  <2> QED
    BY <2>1, <2>2
<1>4. CASE s = "l"
  <2>1. Place(s, k) = Weight(0)
    BY <1>1, <1>4 DEF Place
  <2> QED
    BY <1>1, <1>4, <2>1
<1> QED
  BY <1>2, <1>3, <1>4 DEF Sizes

\* A digit of Weight(d) in its place, above a part below Weight(p), replaced;
\* and the bytes it takes up.
Replaced(p, d, u, v) ==
  \E h \in Int, o, w \in 0 .. (Weight(d) - 1), r \in 0 .. (Weight(p) - 1) :
    /\ u = Weight(p) * (Weight(d) * h + o) + r
    /\ v = Weight(p) * (Weight(d) * h + w) + r
Takes(p, d, j) == Weight(j) >= Weight(p) /\ Weight(j) < Weight(p) * Weight(d)

\* The bytes below it and above it are left alone.
LEMMA DigitWritten ==
  ASSUME NEW p \in 0 .. 4, NEW d \in 1 .. 4, p + d \in 1 .. 4, NEW j \in 0 .. 3,
         ~Takes(p, d, j), NEW u, NEW v, Replaced(p, d, u, v)
  PROVE  (u \div Weight(j)) % Modulus("b") = (v \div Weight(j)) % Modulus("b")
<1> PICK h \in Int, o \in 0 .. (Weight(d) - 1), w \in 0 .. (Weight(d) - 1),
         r \in 0 .. (Weight(p) - 1) :
      /\ u = Weight(p) * (Weight(d) * h + o) + r
      /\ v = Weight(p) * (Weight(d) * h + w) + r
  BY DEF Replaced
<1>0. d \in 0 .. 4 /\ j \in 0 .. 4 /\ p + d \in 0 .. 4 /\ 1 \in 0 .. 4
  OBVIOUS
<1>1. PICK P \in Nat : P = Weight(p) /\ P >= 1
  BY WeightIs
<1>2. PICK M \in Nat : M = Weight(d) /\ M >= 1
  BY <1>0, WeightIs
<1>3. PICK W \in Nat : W = Weight(j) /\ W >= 1
  BY <1>0, WeightIs
<1>4. PICK B \in Nat : B = Modulus("b") /\ B >= 1 /\ B = Weight(1)
  BY SizesAre DEF Sizes
<1>5. Weight(p + d) = P * M
  BY <1>0, <1>1, <1>2, WeightsMultiply, Zenon
<1>6. j < p \/ j >= p + d
  <2> SUFFICES ASSUME j >= p, j < p + d PROVE FALSE
    OBVIOUS
  <2>1. W < P * M
    BY <1>3, <1>5, WeightsGrow
  <2>2. W >= P
    <3>1. CASE j = p
      BY <1>1, <1>3, <3>1
    <3>2. CASE j > p
      BY <1>1, <1>3, <3>2, WeightsGrow
    <3> QED
      BY <3>1, <3>2
  <2> QED
    BY <1>1, <1>2, <1>3, <2>1, <2>2 DEF Takes
<1>7. CASE j < p
  <2>1. PICK y \in 0 .. 4, k \in 0 .. 4 : y = j + 1 /\ p = y + k
    <3>1. j + 1 \in 0 .. 4 /\ p - (j + 1) \in 0 .. 4 /\ p = (j + 1) + (p - (j + 1))
      BY <1>7
    <3> QED
      BY <3>1
  <2>2. Weight(y) = Weight(j) * Weight(1) /\ Weight(p) = Weight(y) * Weight(k)
    BY <1>0, <2>1, WeightsMultiply, Zenon
  <2>3. PICK c \in Nat : c = Weight(k)
    BY WeightIs
  <2>4. P = (W * B) * c
    BY <1>1, <1>3, <1>4, <2>2, <2>3
  <2>5. c \in Int
    BY <2>3
  <2>6. Above(P, W, B)
    BY <2>4, <2>5, Zenon DEF Above
  <2>7. ASSUME NEW q \in Int PROVE ((P * q + r) \div W) % B = (r \div W) % B
    <3>1. r \in Int
      BY <1>1
    <3>2. ((r + P * q) \div W) % B = (r \div W) % B
      BY <1>1, <1>3, <1>4, <2>6, <3>1, UpperIrrelevant
    <3>3. r + P * q = P * q + r
      BY <3>1
    <3> QED
      BY <3>2, <3>3
  <2>8. M * h + o \in Int /\ M * h + w \in Int
    BY <1>2
  <2> QED
    BY <1>1, <1>2, <1>3, <1>4, <2>7, <2>8
<1>8. CASE j >= p + d
  <2>1. PICK k \in 0 .. 4 : j = (p + d) + k
    <3>1. j - (p + d) \in 0 .. 4 /\ j = (p + d) + (j - (p + d))
      BY <1>8
    <3> QED
      BY <3>1
  <2>2. Weight(j) = Weight(p + d) * Weight(k)
    BY <1>0, <2>1, WeightsMultiply, Zenon
  <2>3. PICK c \in Nat : c = Weight(k) /\ c >= 1
    BY WeightIs
  <2>4. PICK D \in Nat : D = P * M /\ D >= 1
    BY <1>1, <1>2, ProductOfNat
  <2>5. ASSUME NEW z \in 0 .. (M - 1) PROVE (P * (M * h + z) + r) \div W = h \div c
    <3>1. P * (M * h + z) + r = D * h + (P * z + r)
      <4>1. P * (M * h + z) = (P * M) * h + P * z
        BY <1>1, <1>2
      <4>2. P * z \in Int /\ (P * M) * h \in Int
        BY <1>1, <1>2
      <4>3. r \in Int
        BY <1>1
      <4> QED
        BY <2>4, <4>1, <4>2, <4>3
    <3>2. P * z + r \in 0 .. (D - 1)
      <4>1. P * z + r < P * M
        BY <1>1, <1>2, FewerDivisors
      <4>2. P * z \in Nat
        BY <1>1, <1>2
      <4> QED
        BY <1>1, <2>4, <4>1, <4>2
    <3>3. (D * h + (P * z + r)) \div (D * c) = h \div c
      <4>1. PICK y \in 0 .. (D - 1) : y = P * z + r
        BY <3>2
      <4>2. (D * h + y) \div (D * c) = h \div c
        BY <2>3, <2>4, LowerIrrelevant, ZenonT(30)
      <4> QED
        BY <4>1, <4>2
    <3> QED
      BY <1>3, <1>5, <2>2, <2>3, <2>4, <3>1, <3>3
  <2> QED
    BY <1>1, <1>2, <1>3, <1>4, <2>5
<1> QED
  BY <1>6, <1>7, <1>8

\* A written register leaves the other registers and everything else alone.
LEMMA WriteLeaves ==
  ASSUME NEW x \in Cy, NEW s \in Sizes, NEW k \in 0 .. 15, NEW v \in Int
  PROVE  LET y == reg_write(x, s, k, v)
         IN  /\ y.mem = x.mem /\ y.io = x.io /\ y.pc = x.pc /\ y.f = x.f
             /\ \A j \in 0 .. 7 : j # k % 8 => y.e[j] = x.e[j]
<1> DEFINE u == x.e[k % 8] + ((v % Modulus(s)) - reg_read(x, s, k)) * Place(s, k)
           y == [x EXCEPT !.e[k % 8] = u]
<1>1. reg_write(x, s, k, v) = y
  BY DEF reg_write
<1> HIDE DEF u
<1>2. y.mem = x.mem /\ y.io = x.io /\ y.pc = x.pc /\ y.f = x.f
  BY DEF Cy
<1>3. \A j \in 0 .. 7 : j # k % 8 => y.e[j] = x.e[j]
  BY DEF Cy, Registers32
<1> QED
  BY <1>1, <1>2, <1>3

\* And the other bytes of its own register (h8s.h:8-11).
LEMMA WriteLeavesLanes ==
  ASSUME NEW x \in Cy, NEW s \in Sizes, NEW k \in 0 .. 15, NEW v \in Int, NEW l \in Lanes,
         ~(/\ l[1] = k % 8 /\ Weight(l[2]) >= Place(s, k)
           /\ Weight(l[2]) < Place(s, k) * Modulus(s))
  PROVE  Lane(reg_write(x, s, k, v), l) = Lane(x, l)
<1>0. l[1] \in 0 .. 7 /\ l[2] \in 0 .. 3
  BY DEF Lanes
<1>1. CASE l[1] # k % 8
  BY <1>0, <1>1, WriteLeaves DEF Lane
<1>2. CASE l[1] = k % 8
  <2> DEFINE g == k % 8
             w0 == v % Modulus(s)
             e0 == x.e[g]
             o0 == reg_read(x, s, k)
  <2>1. PICK p \in 0 .. 2 : Place(s, k) = Weight(p) /\ p + Bytes(s) \in 1 .. 4
    BY PlacesAre
  <2>2. PICK d \in 1 .. 4 : d = Bytes(s) /\ Modulus(s) = Weight(d) /\ p + d \in 1 .. 4
    BY <2>1, PlacesAre
  <2>3. PICK P \in Nat : P = Weight(p) /\ P = Place(s, k) /\ P >= 1
    BY <2>1, ViewsAreDigits
  <2>4. PICK M \in Nat : M = Weight(d) /\ M = Modulus(s) /\ M >= 1
    BY <2>2, SizesAre
  <2>5. g \in 0 .. 7 /\ e0 \in 0 .. (UINT - 1)
    BY ReadsRegister DEF Cy
  <2>6. PICK Q \in Nat : Q >= 1 /\ UINT = P * (M * Q)
    BY <2>3, <2>4, ViewsAreDigits
  <2>7. o0 = (e0 \div P) % M
    BY <2>3, <2>4 DEF reg_read
  <2>8. w0 \in 0 .. (M - 1)
    BY <2>4, RemainderRange
  <2>9. reg_write(x, s, k, v) = [x EXCEPT !.e[g] = e0 + (w0 - o0) * P]
    BY <2>3 DEF reg_write
  <2> HIDE DEF g, w0, e0, o0
  <2>10. PICK h \in 0 .. (Q - 1), o \in 0 .. (M - 1), r \in 0 .. (P - 1) :
           e0 = P * (M * h + o) + r /\ (e0 \div P) % M = o
    BY <2>3, <2>4, <2>5, <2>6, DigitOf, ZenonT(120)
  <2>11. PICK w \in 0 .. (M - 1) : w = w0
    BY <2>8
  <2>12. e0 + (w0 - o0) * P = P * (M * h + w) + r
    <3>1. e0 + (w - o) * P = P * (M * h + o) + r + (w - o) * P
      BY <2>10
    <3>2. M * h \in Int
      BY <2>4
    <3> QED
      BY <2>3, <2>7, <2>10, <2>11, <3>1, <3>2
  <2>13. Replaced(p, d, e0, e0 + (w0 - o0) * P)
    BY <2>3, <2>4, <2>10, <2>12 DEF Replaced
  <2>14. [x EXCEPT !.e[g] = e0 + (w0 - o0) * P].e[g] = e0 + (w0 - o0) * P
    BY <2>5 DEF Cy, Registers32
  <2>15. l[1] = g /\ x.e[g] = e0
    BY <1>2 DEF g, e0
  <2>16. PICK j \in 0 .. 3 : j = l[2] /\ ~Takes(p, d, j)
    BY <1>0, <1>2, <2>3, <2>4 DEF Takes
  <2>17. (e0 \div Weight(j)) % Modulus("b")
           = ((e0 + (w0 - o0) * P) \div Weight(j)) % Modulus("b")
    <3>1. PICK u : u = e0 + (w0 - o0) * P
      OBVIOUS
    <3>2. p \in 0 .. 4
      OBVIOUS
    <3> QED
      BY <2>2, <2>13, <2>16, <3>1, <3>2, DigitWritten
  <2> QED
    BY <2>9, <2>14, <2>15, <2>16, <2>17 DEF Lane
<1> QED
  BY <1>1, <1>2

-----------------------------------------------------------------------------
(* What memory gives back. *)

\* A number below P * M from the part below P and a digit above it.
LEMMA Reassembled ==
  ASSUME NEW P \in Nat, P >= 1, NEW M \in Nat, M >= 1, NEW v \in Int
  PROVE  v % (P * M) = ((v \div P) % M) * P + (v % P)
<1>1. PICK q \in Int, r \in 0 .. (P - 1) : v \div P = q /\ v % P = r /\ v = P * q + r
  BY Division
<1>2. PICK h \in Int, o \in 0 .. (M - 1) : q % M = o /\ q = M * h + o
  BY Division
<1>3. PICK D \in Nat : D = P * M /\ D >= 1
  BY ProductOfNat
<1>4. P * o + r \in 0 .. (D - 1)
  <2>1. P * o + r < P * M
    BY FewerDivisors
  <2>2. P * o \in Nat
    OBVIOUS
  <2> QED
    BY <1>3, <2>1, <2>2
<1>5. v = D * h + (P * o + r)
  <2>1. P * (M * h + o) = (P * M) * h + P * o
    OBVIOUS
  <2>2. (P * M) * h \in Int /\ P * o \in Int
    OBVIOUS
  <2> QED
    BY <1>1, <1>2, <1>3, <2>1, <2>2
<1>6. v % D = P * o + r
  <2>1. PICK y \in 0 .. (D - 1) : y = P * o + r
    BY <1>4
  <2>2. (D * h + y) % D = y
    BY <1>3, QuotientIs
  <2> QED
    BY <1>5, <2>1, <2>2
<1>7. ((v \div P) % M) * P + (v % P) = P * o + r
  <2>1. o * P + r = P * o + r
    OBVIOUS
  <2>2. ((v \div P) % M) * P + (v % P) = o * P + r
    BY <1>1, <1>2, Zenon
  <2> QED
    BY <2>1, <2>2
<1> QED
  BY <1>3, <1>6, <1>7

\* A word and a long from their bytes.
LEMMA BytesMake ==
  ASSUME NEW v \in Int
  PROVE  /\ Big(v, "b", 0) = v % Modulus("b")
         /\ Big(v, "w", 0) * Weight(1) + Big(v, "w", 1) * Weight(0) = v % Modulus("w")
         /\ Big(v, "l", 0) * Weight(3) + Big(v, "l", 1) * Weight(2)
              + Big(v, "l", 2) * Weight(1) + Big(v, "l", 3) * Weight(0) = v % UINT
<1> DEFINE digit(j) == (v \div Weight(j)) % Modulus("b")
           term(j) == digit(j) * Weight(j)
           rest(j) == v % Weight(j)
<1>1. ASSUME NEW j \in 0 .. 3
      PROVE  /\ digit(j) \in Int /\ term(j) \in Int /\ rest(j) \in Int
             /\ rest(j + 1) = term(j) + rest(j)
  <2>1. j \in 0 .. 4 /\ 1 \in 0 .. 4 /\ j + 1 \in 0 .. 4
    OBVIOUS
  <2>2. PICK P \in Nat : P = Weight(j) /\ P >= 1
    BY <2>1, WeightIs
  <2>3. PICK B \in Nat : B = Modulus("b") /\ B >= 1 /\ B = Weight(1)
    BY SizesAre DEF Sizes
  <2>4. Weight(j + 1) = P * B
    <3>1. Weight(j + 1) = Weight(j) * Weight(1)
      BY <2>1, WeightsMultiply, Zenon
    <3> QED
      BY <2>2, <2>3, <3>1
  <2>5. v % (P * B) = ((v \div P) % B) * P + (v % P)
    BY <2>2, <2>3, Reassembled
  <2>6. PICK x \in Int : x = (v \div P) % B
    BY <2>2, <2>3, IntDivides
  <2>7. x * P \in Int /\ v % P \in Int
    BY <2>2, IntDivides
  <2>8. digit(j) = x /\ term(j) = x * P /\ rest(j) = v % P
    BY <2>2, <2>3, <2>6, Zenon
  <2>9. rest(j + 1) = x * P + (v % P)
    BY <2>4, <2>5, <2>6, Zenon
  <2> HIDE DEF digit, term, rest
  <2> QED
    BY <2>6, <2>7, <2>8, <2>9, Zenon
<1>2. /\ Weight(0) = 1 /\ Weight(1) = Modulus("b") /\ Weight(2) = Modulus("w")
      /\ Weight(4) = UINT
      /\ Bytes("b") = 1 /\ Bytes("w") = 2 /\ Bytes("l") = 4
  BY SizesAre, WeightIs
<1>3. Big(v, "b", 0) = digit(0) /\ Big(v, "w", 0) = digit(1) /\ Big(v, "w", 1) = digit(0)
      /\ Big(v, "l", 0) = digit(3) /\ Big(v, "l", 1) = digit(2)
      /\ Big(v, "l", 2) = digit(1) /\ Big(v, "l", 3) = digit(0)
  BY <1>2 DEF Big
<1>4. rest(0) = 0
  BY <1>2
<1>5. term(0) = digit(0)
  BY <1>1, <1>2
<1>6. rest(1) = v % Modulus("b") /\ rest(2) = v % Modulus("w") /\ rest(4) = v % UINT
  BY <1>2
<1>7. /\ Big(v, "w", 0) * Weight(1) = term(1) /\ Big(v, "w", 1) * Weight(0) = term(0)
      /\ Big(v, "l", 0) * Weight(3) = term(3) /\ Big(v, "l", 1) * Weight(2) = term(2)
      /\ Big(v, "l", 2) * Weight(1) = term(1) /\ Big(v, "l", 3) * Weight(0) = term(0)
  BY <1>3
<1> HIDE DEF digit, term, rest
<1>8. rest(1) = term(0) + rest(0) /\ rest(2) = term(1) + rest(1)
      /\ rest(3) = term(2) + rest(2) /\ rest(4) = term(3) + rest(3)
  <2>1. 0 + 1 = 1 /\ 1 + 1 = 2 /\ 2 + 1 = 3 /\ 3 + 1 = 4
    OBVIOUS
  <2> QED
    BY <1>1, <2>1
<1>9. /\ term(0) \in Int /\ term(1) \in Int /\ term(2) \in Int /\ term(3) \in Int
  BY <1>1
<1>10. rest(1) = term(0) /\ rest(2) = term(1) + term(0)
       /\ rest(4) = term(3) + term(2) + term(1) + term(0)
  BY <1>4, <1>8, <1>9
<1> QED
  BY <1>3, <1>5, <1>6, <1>7, <1>10

\* Where a cell stands from the address it was reached from.
LEMMA CellBack ==
  ASSUME NEW a \in Int, NEW j \in 0 .. 3
  PROVE  Cell(Cell(a + j) - a) = j
<1>1. PICK M \in Nat : M = MEM /\ M >= 4
  BY MemoryAssumption
<1>2. PICK q \in Int, c \in 0 .. (M - 1) : (a + j) % M = c /\ a + j = M * q + c
  <2>1. a + j \in Int
    OBVIOUS
  <2> QED
    BY <1>1, <2>1, Division
<1>3. PICK p \in Int : p = -q
  OBVIOUS
<1>4. c - a = j + M * p /\ j \in Int
  BY <1>1, <1>2, <1>3
<1>0. (j + M * p) % M = j % M
  <2>1. M >= 1
    BY <1>1
  <2> QED
    BY <1>4, <2>1, RemainderShifts, Zenon
<1>5. j % M = j
  BY <1>1
<1> QED
  BY <1>0, <1>1, <1>2, <1>4, <1>5 DEF Cell

\* And the other way round.
LEMMA CellForth ==
  ASSUME NEW a \in Int, NEW c \in 0 .. (MEM - 1)
  PROVE  Cell(a + Cell(c - a)) = c
<1>1. PICK M \in Nat : M = MEM /\ M >= 4
  BY MemoryAssumption
<1>2. PICK q \in Int, r \in 0 .. (M - 1) : (c - a) % M = r /\ c - a = M * q + r
  <2>1. c - a \in Int
    BY <1>1
  <2> QED
    BY <1>1, <2>1, Division
<1>3. a + r = c + M * (-q)
  BY <1>1, <1>2
<1>4. (c + M * (-q)) % M = c % M
  <2>1. -q \in Int /\ c \in Int
    BY <1>1
  <2> QED
    BY <1>1, <2>1, RemainderShifts
<1>5. c % M = c
  BY <1>1, SmallRemainder
<1> QED
  BY <1>1, <1>2, <1>3, <1>4, <1>5 DEF Cell

Spanned(a, s) == {Cell(a + j) : j \in 0 .. (Bytes(s) - 1)}

\* A write changes the cells it is to, each to its byte, and no other.
LEMMA WritesCells ==
  ASSUME NEW x \in Cy, NEW s \in Sizes, NEW a \in Int, NEW v \in Int
  PROVE  LET y == cy_write(x, s, a, v)
         IN  /\ y.pc = x.pc
             /\ \A c \in (0 .. (MEM - 1)) \ Spanned(a, s) : y.mem[c] = x.mem[c]
             /\ ~(s = "b" /\ Cell(a) \in Hooked) =>
                  \A j \in 0 .. (Bytes(s) - 1) : y.mem[Cell(a + j)] = Big(v, s, j)
             /\ (s = "b" /\ Cell(a) \in Hooked) =>
                  y.io[Cell(a)] = v % Modulus("b")
<1>0. x.mem \in [0 .. (MEM - 1) -> Byte] /\ DOMAIN x.mem = 0 .. (MEM - 1) /\ MEM \in Nat
  BY MemoryAssumption DEF Cy
<1>1. CASE s = "b" /\ Cell(a) \in Hooked
  <2> DEFINE y == [x EXCEPT !.io[Cell(a)] = v % Modulus("b")]
  <2>1. cy_write(x, s, a, v) = y
    BY <1>1 DEF cy_write
  <2>2. y.pc = x.pc /\ y.mem = x.mem /\ y.io[Cell(a)] = v % Modulus("b")
    BY <1>1 DEF Cy
  <2> QED
    BY <1>1, <2>1, <2>2
<1>2. CASE ~(s = "b" /\ Cell(a) \in Hooked)
  <2> DEFINE mem == [c \in DOMAIN x.mem |-> IF Cell(c - a) < Bytes(s)
                                            THEN Big(v, s, Cell(c - a)) ELSE x.mem[c]]
             y == [x EXCEPT !.mem = mem]
  <2>1. cy_write(x, s, a, v) = y
    BY <1>2 DEF cy_write
  <2>2. y.pc = x.pc /\ y.mem = mem
    BY DEF Cy
  <2>3. Bytes(s) \in 1 .. 4
    BY PlacesAre
  <2>4. ASSUME NEW j \in 0 .. (Bytes(s) - 1) PROVE mem[Cell(a + j)] = Big(v, s, j)
    <3>1. j \in 0 .. 3 /\ a + j \in Int /\ j < Bytes(s)
      BY <2>3
    <3>2. Cell(a + j) \in 0 .. (MEM - 1)
      BY <3>1, CellsAre
    <3>3. Cell(Cell(a + j) - a) = j
      BY <3>1, CellBack
    <3> QED
      BY <1>0, <3>1, <3>2, <3>3
  <2>5. ASSUME NEW c \in (0 .. (MEM - 1)) \ Spanned(a, s) PROVE mem[c] = x.mem[c]
    <3>1. c - a \in Int /\ Cell(a + Cell(c - a)) = c
      BY <1>0, CellForth
    <3>2. Cell(c - a) \in Nat
      BY <3>1, CellsAre
    <3>3. ~(Cell(c - a) < Bytes(s))
      <4>1. Cell(c - a) < Bytes(s) => Cell(c - a) \in 0 .. (Bytes(s) - 1)
        BY <2>3, <3>2
      <4> QED
        BY <3>1, <4>1 DEF Spanned
    <3> QED
      BY <1>0, <3>3
  <2> HIDE DEF mem, y
  <2> QED
    BY <1>2, <2>1, <2>2, <2>4, <2>5
<1> QED
  BY <1>1, <1>2

\* A value written is read back, as far as its size goes: by the peripheral
\* that took it, or from memory.
LEMMA ReadsBack ==
  ASSUME NEW x \in Cy, NEW s \in Sizes, NEW a \in Int, NEW v \in Int
  PROVE  cy_read(cy_write(x, s, a, v), s, a) = v % Modulus(s)
<1> DEFINE y == cy_write(x, s, a, v)
<1>1. CASE s = "b" /\ Cell(a) \in Hooked
  <2>1. y.io[Cell(a)] = v % Modulus("b")
    BY <1>1, WritesCells
  <2> HIDE DEF y
  <2>2. cy_read(y, s, a) = y.io[Cell(a)]
    BY <1>1 DEF cy_read
  <2> QED
    BY <1>1, <2>1, <2>2 DEF y
<1>2. CASE ~(s = "b" /\ Cell(a) \in Hooked)
  <2>1. \A j \in 0 .. (Bytes(s) - 1) : y.mem[Cell(a + j)] = Big(v, s, j)
    BY <1>2, WritesCells
  <2>2. Bytes("b") = 1 /\ Bytes("w") = 2 /\ Bytes("l") = 4
    BY SizesAre
  <2> HIDE DEF y
  <2>3. CASE s = "b"
    <3>1. y.mem[Cell(a + 0)] = Big(v, s, 0) /\ a + 0 = a
      BY <2>1, <2>2, <2>3
    <3>2. cy_read(y, s, a) = y.mem[Cell(a)]
      BY <1>2, <2>3 DEF cy_read
    <3> QED
      BY <2>3, <3>1, <3>2, BytesMake DEF y
  <2>4. CASE s = "w"
    <3>1. y.mem[Cell(a + 0)] = Big(v, s, 0) /\ y.mem[Cell(a + 1)] = Big(v, s, 1)
      BY <2>1, <2>2, <2>4
    <3>2. cy_read(y, s, a) = y.mem[Cell(a + 0)] * Weight(1) + y.mem[Cell(a + 1)] * Weight(0)
      BY <2>2, <2>4 DEF cy_read
    <3> QED
      BY <2>4, <3>1, <3>2, BytesMake DEF y
  <2>5. CASE s = "l"
    <3>1. /\ y.mem[Cell(a + 0)] = Big(v, s, 0) /\ y.mem[Cell(a + 1)] = Big(v, s, 1)
          /\ y.mem[Cell(a + 2)] = Big(v, s, 2) /\ y.mem[Cell(a + 3)] = Big(v, s, 3)
      BY <2>1, <2>2, <2>5
    <3>2. cy_read(y, s, a)
            = y.mem[Cell(a + 0)] * Weight(3) + y.mem[Cell(a + 1)] * Weight(2)
                + y.mem[Cell(a + 2)] * Weight(1) + y.mem[Cell(a + 3)] * Weight(0)
      BY <2>2, <2>5 DEF cy_read
    <3> QED
      BY <2>5, <3>1, <3>2, BytesMake DEF y, UINT
  <2> QED
    BY <2>3, <2>4, <2>5 DEF Sizes
<1> QED
  BY <1>1, <1>2

\* What is read fits its size.
LEMMA ReadFits ==
  ASSUME NEW x \in Cy, NEW s \in Sizes, NEW a \in Int
  PROVE  cy_read(x, s, a) \in 0 .. (Modulus(s) - 1)
<1>1. \A c \in Int : x.mem[Cell(c)] \in Byte
  BY CellsAre, Fields
<1>2. Cell(a) \in Hooked => x.io[Cell(a)] \in Byte
  BY Fields
<1>3. Bytes("b") = 1 /\ Bytes("w") = 2 /\ Bytes("l") = 4
  BY SizesAre
<1>4. PICK B \in Nat : B = Modulus("b") /\ B >= 4
  BY SizesAre DEF Sizes
<1>5. /\ Modulus("w") = B * B /\ Modulus("l") = (B * B) * (B * B)
      /\ Weight(0) = 1 /\ Weight(1) = B /\ Weight(2) = B * B /\ Weight(3) = B * (B * B)
  BY <1>4, SizesAre DEF UINT
<1>6. PICK C \in Nat : C = B * B
  BY <1>4
<1>7. ASSUME NEW D \in Nat, NEW h \in Byte, NEW r \in 0 .. (D - 1), D >= 1
      PROVE  h * D + r \in 0 .. (B * D - 1)
  <2>1. h \in Int /\ h < B /\ h >= 0
    BY <1>4 DEF Byte
  <2>2. D * h + r < D * B
    BY <1>4, <1>7, <2>1, FewerDivisors
  <2>3. D * h = h * D /\ D * B = B * D /\ h * D \in Nat /\ B * D \in Nat
    BY <1>4, <2>1
  <2> QED
    BY <2>2, <2>3
<1>8. CASE s = "b"
  BY <1>1, <1>2, <1>8 DEF cy_read, Byte
<1>9. CASE s = "w"
  <2>1. PICK p \in Byte, q \in Byte : p = x.mem[Cell(a + 0)] /\ q = x.mem[Cell(a + 1)]
    BY <1>1
  <2>2. cy_read(x, s, a) = p * Weight(1) + q * Weight(0)
    BY <1>3, <1>9, <2>1 DEF cy_read
  <2>3. q \in 0 .. (B - 1) /\ q * 1 = q
    BY <1>4 DEF Byte
  <2>4. p * B + q \in 0 .. (B * B - 1)
    BY <1>4, <1>7, <2>3
  <2> QED
    BY <1>5, <1>9, <2>2, <2>3, <2>4
<1>10. CASE s = "l"
  <2>1. PICK p \in Byte, q \in Byte, g \in Byte, h \in Byte :
          /\ p = x.mem[Cell(a + 0)] /\ q = x.mem[Cell(a + 1)]
          /\ g = x.mem[Cell(a + 2)] /\ h = x.mem[Cell(a + 3)]
    BY <1>1
  <2>2. cy_read(x, s, a) = p * Weight(3) + q * Weight(2) + g * Weight(1) + h * Weight(0)
    BY <1>3, <1>10, <2>1 DEF cy_read
  <2>3. h \in 0 .. (B - 1) /\ h * 1 = h /\ p \in Int /\ q \in Int /\ g \in Int /\ h \in Int
    BY <1>4 DEF Byte
  <2>4. PICK E \in Nat, F \in Nat : E = B * C /\ F = B * E /\ E >= 1 /\ C >= 1
    <3>1. C >= 1 /\ B * C \in Nat /\ B * C >= 1
      BY <1>4, <1>6, ProductOfNat
    <3>2. B * (B * C) \in Nat
      BY <1>4, <3>1
    <3> QED
      BY <3>1, <3>2
  <2>5. PICK u \in 0 .. (C - 1) : u = g * B + h
    BY <1>4, <1>6, <1>7, <2>3
  <2>6. PICK t \in 0 .. (E - 1) : t = q * C + u
    BY <1>7, <2>4, <2>5
  <2>7. p * E + t \in 0 .. (F - 1)
    BY <1>7, <2>4, <2>6
  <2>8. F = C * C
    <3>1. B * (B * C) = (B * B) * C
      BY <1>4
    <3> QED
      BY <1>6, <2>4, <3>1
  <2>9. cy_read(x, s, a) = p * E + t
    <3>1. Weight(3) = E /\ Weight(2) = C /\ Weight(1) = B /\ Weight(0) = 1
      BY <1>5, <1>6, <2>4
    <3>2. cy_read(x, s, a) = p * E + q * C + g * B + h
      BY <2>2, <2>3, <3>1
    <3>3. p * E \in Int /\ q * C \in Int /\ g * B \in Int
      BY <1>4, <2>3
    <3> QED
      BY <2>3, <2>5, <2>6, <3>2, <3>3
  <2> QED
    BY <1>5, <1>6, <1>10, <2>7, <2>8, <2>9
<1> QED
  BY <1>8, <1>9, <1>10 DEF Sizes

-----------------------------------------------------------------------------
(* What the results are, by bits. *)

\* The bits of a size, and those of a wrapped number.
LEMMA OnesAre ==
  ASSUME NEW s \in Sizes, NEW v \in Int
  PROVE  /\ BITS[s] \in 2 .. Widest
         /\ \A k \in 0 .. (BITS[s] - 1) :
              /\ k \in 0 .. Widest /\ k \in Nat /\ k < BITS[s]
              /\ BitAt(v % Modulus(s), k) = BitAt(v, k) /\ BitAt(v, k) \in {0, 1}
              /\ k \in Ones(v % Modulus(s), s) <=> BitAt(v, k) = 1
              /\ k \in Ones(v, s) <=> BitAt(v, k) = 1
<1>1. BITS[s] \in 2 .. Widest
  BY WidthsAre
<1>2. ASSUME NEW k \in 0 .. (BITS[s] - 1)
      PROVE  /\ k \in 0 .. Widest /\ k \in Nat /\ k < BITS[s]
             /\ BitAt(v % Modulus(s), k) = BitAt(v, k) /\ BitAt(v, k) \in {0, 1}
  <2>1. k \in 0 .. Widest /\ k \in Nat /\ k < BITS[s] /\ BITS[s] \in 0 .. Widest
    BY <1>1, WidthsAre
  <2>2. BitAt(v % Two[BITS[s]], k) = BitAt(v, k)
    BY <2>1, BitsOfRemainder
  <2>3. BitAt(v, k) \in {0, 1}
    BY <2>1, BitIsBit
  <2> QED
    BY <2>1, <2>2, <2>3 DEF Modulus
<1> QED
  BY <1>1, <1>2 DEF Ones

LEMMA ComplementIs ==
  ASSUME NEW s \in Sizes, NEW a \in Int
  PROVE  Ones((UINT - 1 - a) % Modulus(s), s) = (0 .. (BITS[s] - 1)) \ Ones(a, s)
<1> DEFINE t == UINT - 1 - a
<1>1. t \in Int
  BY SizesAre
<1>2. ASSUME NEW k \in 0 .. (BITS[s] - 1) PROVE BitAt(t, k) = 1 - BitAt(a, k)
  <2>1. k \in Nat /\ k < Widest /\ Widest \in 0 .. Widest
    BY WidthsAre
  <2>2. BitAt(Two[Widest] - 1 - a, k) = 1 - BitAt(a, k)
    BY <2>1, BitsOfComplement
  <2> QED
    BY <2>2 DEF UINT, Modulus, Widest
<1> HIDE DEF t
<1>3. ASSUME NEW k \in 0 .. (BITS[s] - 1)
      PROVE  k \in Ones(t % Modulus(s), s) <=> k \notin Ones(a, s)
  <2>1. k \in Ones(t % Modulus(s), s) <=> BitAt(t, k) = 1
    BY <1>1, OnesAre
  <2>2. BitAt(a, k) \in {0, 1} /\ (k \in Ones(a, s) <=> BitAt(a, k) = 1)
    BY OnesAre
  <2> QED
    BY <1>2, <2>1, <2>2
<1>4. Ones(t % Modulus(s), s) \subseteq 0 .. (BITS[s] - 1)
      /\ Ones(a, s) \subseteq 0 .. (BITS[s] - 1)
  BY DEF Ones
<1> QED
  BY <1>3, <1>4 DEF t

MovedUp(S, b, w) == {k + b : k \in S} \cap (0 .. (w - 1))

LEMMA LeftIs ==
  ASSUME NEW s \in Sizes, NEW a \in Int, NEW b \in 0 .. (BITS[s] - 1),
         NEW t, t = a * Two[b]
  PROVE  Ones(t % Modulus(s), s) = MovedUp(Ones(a, s), b, BITS[s])
<1> DEFINE w == BITS[s]
<1>1. b \in 0 .. Widest /\ w \in 2 .. Widest /\ w \in Nat
  BY OnesAre, WidthsAre
<1>2. t \in Int
  BY <1>1, TwoIs
<1>3. \A k \in 0 .. (w - 1) :
        BitAt(t, k) = IF k < b THEN 0 ELSE BitAt(a, k - b)
  <2>1. ASSUME NEW k \in 0 .. (w - 1)
        PROVE  BitAt(t, k) = IF k < b THEN 0 ELSE BitAt(a, k - b)
    <3>1. k \in 0 .. Widest
      BY OnesAre
    <3>2. (k < b => BitAt(a * Two[b], k) = 0)
          /\ (k >= b => BitAt(a * Two[b], k) = BitAt(a, k - b))
      BY <1>1, <3>1, BitsShiftedLeft
    <3>3. k < b \/ k >= b
      BY <1>1, <3>1
    <3> QED
      BY <1>1, <3>1, <3>2, <3>3
  <2> QED
    BY <2>1
<1>4. \A k \in 0 .. (w - 1) : k \in Ones(t % Modulus(s), s) <=> BitAt(t, k) = 1
  BY <1>2, OnesAre
<1>5. \A k \in 0 .. (w - 1) : k \in Ones(a, s) <=> BitAt(a, k) = 1
  BY OnesAre
<1>6. Ones(t % Modulus(s), s) \subseteq 0 .. (w - 1) /\ Ones(a, s) \subseteq 0 .. (w - 1)
  BY DEF Ones
<1> HIDE DEF w
<1>7. ASSUME NEW k \in 0 .. (w - 1)
      PROVE  k \in Ones(t % Modulus(s), s) <=> \E j \in Ones(a, s) : k = j + b
  <2>1. k \in Ones(t % Modulus(s), s) <=> (k >= b /\ BitAt(a, k - b) = 1)
    BY <1>1, <1>3, <1>4
  <2>2. k >= b => k - b \in 0 .. (w - 1) /\ k = (k - b) + b
    BY <1>1
  <2>3. \A j \in Ones(a, s) : k = j + b => k >= b /\ j = k - b
    BY <1>1, <1>6
  <2> QED
    BY <1>5, <1>6, <2>1, <2>2, <2>3
<1> QED
  BY <1>6, <1>7 DEF w, MovedUp

\* A number of a size, shifted right as an unsigned or a signed one.
LEMMA RightIs ==
  ASSUME NEW s \in Sizes, NEW a \in 0 .. (Modulus(s) - 1), NEW b \in 0 .. (BITS[s] - 1)
  PROVE  /\ Ones((a \div Two[b]) % Modulus(s), s)
              = {k - b : k \in Ones(a, s)} \cap (0 .. (BITS[s] - 1))
         /\ Ones((Signed(a, s) \div Two[b]) % Modulus(s), s)
              = {k \in 0 .. (BITS[s] - 1) :
                   (IF k + b < BITS[s] THEN k + b ELSE BITS[s] - 1) \in Ones(a, s)}
<1> DEFINE w == BITS[s]
           top == BITS[s] - 1
           z == Signed(a, s)
<1>1. /\ b \in 0 .. Widest /\ w \in 2 .. Widest /\ w \in 0 .. Widest /\ w \in Nat
      /\ b \in Nat /\ b < w /\ top \in 0 .. Widest /\ top \in 0 .. (w - 1) /\ w - b \in 1 .. w
      /\ w - b \in 0 .. Widest /\ (w - b) + b = w /\ top + 1 = w /\ w \in 1 .. Widest
      /\ Widest \in Nat
  BY OnesAre, WidthsAre
<1>2. PICK H \in Nat :
        /\ H >= 2 /\ Modulus(s) = 2 * H /\ H = Two[top]
        /\ z = IF a >= H THEN a - Modulus(s) ELSE a
  <2>1. PICK H \in Nat :
          /\ H >= 2 /\ Modulus(s) = 2 * H
          /\ \A v : Signed(v, s) = IF v >= H THEN v - Modulus(s) ELSE v
    BY Halves
  <2>2. Two[w] = 2 * Two[top] /\ Two[top] \in Nat
    BY <1>1, TwoIs
  <2> QED
    BY <2>1, <2>2 DEF Modulus
<1>3. PICK M \in Nat : M = Modulus(s) /\ M = 2 * H /\ M = Two[w]
  BY <1>2 DEF Modulus
<1>4. a \in 0 .. (M - 1) /\ z \in (-H) .. (H - 1) /\ a \in Int /\ z \in Int
  BY <1>2, <1>3
<1>5. PICK d \in Nat : d = Two[b] /\ d >= 1
  BY <1>1, TwoIs
<1>6. PICK u \in Int, p \in Int : u = a \div d /\ p = z \div d
  BY <1>4, <1>5, IntDivides
<1> HIDE DEF w, top, z
\* Below the top the bits are those of a, moved down.
<1>7. ASSUME NEW k \in 0 .. (w - 1), k + b < w
      PROVE  BitAt(u, k) = BitAt(a, k + b) /\ BitAt(p, k) = BitAt(a, k + b)
  <2>1. k \in 0 .. Widest /\ b + k \in 0 .. Widest /\ b + k = k + b /\ k + b \in Nat
    BY <1>1, <1>7
  <2>2. \A v \in Int : BitAt(v \div Two[b], k) = BitAt(v, b + k)
    BY <1>1, <2>1, BitsShiftedRight
  <2>3. BitAt(z, k + b) = BitAt(a, k + b)
    <3>1. CASE a >= H
      <4>1. PICK i \in Nat : i = k + b /\ i < w
        BY <1>7, <2>1
      <4>2. BitAt(a - Two[w], i) = BitAt(a, i)
        BY <1>1, <1>4, <4>1, BitsWrappedOnce
      <4> QED
        BY <1>2, <1>3, <3>1, <4>1, <4>2
    <3>2. CASE ~(a >= H)
      BY <1>2, <3>2
    <3> QED
      BY <3>1, <3>2
  <2> QED
    BY <1>4, <1>5, <1>6, <2>1, <2>2, <2>3
\* Above it they are clear, or all the sign.
<1>8. ASSUME NEW k \in 0 .. (w - 1), k + b >= w
      PROVE  BitAt(u, k) = 0 /\ BitAt(p, k) = IF a >= H THEN 1 ELSE 0
  <2>1. k \in 0 .. Widest /\ k + b >= w /\ k >= w - b
    BY <1>1, <1>8
  <2>2. PICK g \in Nat : g = Two[w - b] /\ g >= 1 /\ M = g * d
    <3>1. Two[(w - b) + b] = Two[w - b] * Two[b]
      BY <1>1, TwoAdds
    <3> QED
      BY <1>1, <1>3, <1>5, <3>1, TwoIs
  <2>3. PICK c \in Nat : c = Two[k] /\ c >= g
    <3>1. PICK e \in 0 .. Widest : k = (w - b) + e
      <4>1. k - (w - b) \in 0 .. Widest /\ k = (w - b) + (k - (w - b))
        BY <1>1, <2>1
      <4> QED
        BY <4>1
    <3>2. Two[k] = Two[w - b] * Two[e]
      <4>1. (w - b) + e \in 0 .. Widest
        BY <2>1, <3>1
      <4>2. Two[(w - b) + e] = Two[w - b] * Two[e]
        BY <1>1, <4>1, TwoAdds
      <4> QED
        BY <3>1, <4>2
    <3>3. PICK f \in Nat : f = Two[e] /\ f >= 1
      BY TwoIs
    <3>4. g * f \in Nat /\ g * f >= g
      BY <2>2, <3>3, ProductOfNat
    <3> QED
      BY <2>2, <3>2, <3>3, <3>4
  <2>4. ASSUME NEW v \in Int, NEW q \in Int, q = v \div d, v < M, v >= -M
        PROVE  q < g /\ q >= -g /\ (v >= 0 <=> q >= 0)
    <3>1. PICK r \in 0 .. (d - 1) : v = d * q + r
      <4>1. \E y \in Int, r \in 0 .. (d - 1) : v \div d = y /\ v % d = r /\ v = d * y + r
        BY <1>5, Division
      <4> QED
        BY <2>4, <4>1
    <3>2. q < g
      <4> SUFFICES ASSUME g <= q PROVE FALSE
        BY <2>2, <2>4
      <4>1. q - g \in Nat /\ d * q = d * g + d * (q - g)
        BY <1>5, <2>2
      <4>2. d * (q - g) \in Nat
        BY <4>1
      <4>3. d * g = M /\ d * q \in Int
        BY <1>5, <2>2
      <4> QED
        BY <2>4, <3>1, <4>1, <4>2, <4>3
    <3>3. q >= -g
      <4> SUFFICES ASSUME q < -g PROVE FALSE
        BY <2>2, <2>4
      <4>1. d * q + r < d * (-g)
        BY <1>5, <2>2, FewerDivisors
      <4>2. d * (-g) = -M
        BY <1>5, <2>2
      <4> QED
        BY <2>4, <3>1, <4>1, <4>2
    <3>4. q < 0 => v < 0
      <4>1. q < 0 => d * q + r < d * 0
        BY <1>5, FewerDivisors
      <4> QED
        BY <1>5, <3>1, <4>1
    <3>5. q >= 0 => v >= 0
      <4>1. q >= 0 => d * q \in Nat
        BY <1>5
      <4> QED
        BY <3>1, <4>1
    <3> QED
      BY <2>4, <3>2, <3>3, <3>4, <3>5
  <2>5. u < g /\ u >= 0
    <3>1. a < M /\ a >= -M /\ a >= 0
      BY <1>3, <1>4
    <3> QED
      BY <1>4, <1>6, <2>4, <3>1, Zenon
  <2>6. p < g /\ p >= -g /\ (z >= 0 <=> p >= 0)
    <3>1. z < M /\ z >= -M
      BY <1>3, <1>4
    <3> QED
      BY <1>4, <1>6, <2>4, <3>1, Zenon
  <2>7. (u \in 0 .. (Two[k] - 1) => BitAt(u, k) = 0)
        /\ (p \in 0 .. (Two[k] - 1) => BitAt(p, k) = 0)
        /\ (p \in (-Two[k]) .. (-1) => BitAt(p, k) = 1)
    BY <2>1, BitsAbove
  <2>8. a >= H <=> z < 0
    BY <1>2, <1>3, <1>4
  <2> QED
    BY <1>4, <2>2, <2>3, <2>5, <2>6, <2>7, <2>8
\* The sign is the top bit.
<1>9. top \in Ones(a, s) <=> a >= H
  <2>1. top \in Ones(a, s) <=> BitAt(a, top) = 1
    BY <1>1, <1>4, OnesAre DEF w
  <2>2. a < H => BitAt(a, top) = 0
    BY <1>1, <1>2, <1>4, BitsAbove
  <2>3. a >= H => BitAt(a, top) = 1
    <3> SUFFICES ASSUME a >= H PROVE BitAt(a, top) = 1
      OBVIOUS
    <3>1. H * 1 + (a - H) = a /\ a - H \in 0 .. (H - 1)
      BY <1>2, <1>3, <1>4
    <3>2. PICK y \in 0 .. (H - 1) : y = a - H /\ H * 1 + y = a
      BY <3>1
    <3>3. (H * 1 + y) \div H = 1
      BY <1>2, QuotientIs
    <3> QED
      BY <1>2, <3>2, <3>3 DEF BitAt
  <2> QED
    BY <1>2, <1>4, <2>1, <2>2, <2>3
<1>10. /\ \A k \in 0 .. (w - 1) : k \in Ones(u % Modulus(s), s) <=> BitAt(u, k) = 1
       /\ \A k \in 0 .. (w - 1) : k \in Ones(p % Modulus(s), s) <=> BitAt(p, k) = 1
       /\ \A k \in 0 .. (w - 1) : k \in Ones(a, s) <=> BitAt(a, k) = 1
  BY <1>4, OnesAre DEF w
<1>11. /\ Ones(u % Modulus(s), s) \subseteq 0 .. (w - 1)
       /\ Ones(p % Modulus(s), s) \subseteq 0 .. (w - 1) /\ Ones(a, s) \subseteq 0 .. (w - 1)
  BY DEF Ones, w
<1>12. Ones(u % Modulus(s), s) = {k - b : k \in Ones(a, s)} \cap (0 .. (w - 1))
  <2>1. ASSUME NEW k \in 0 .. (w - 1)
        PROVE  k \in Ones(u % Modulus(s), s) <=> \E j \in Ones(a, s) : k = j - b
    <3>1. k \in Ones(u % Modulus(s), s) <=> (k + b < w /\ BitAt(a, k + b) = 1)
      BY <1>1, <1>7, <1>8, <1>10
    <3>2. k + b < w => k + b \in 0 .. (w - 1) /\ k = (k + b) - b
      BY <1>1
    <3>3. \A j \in Ones(a, s) : k = j - b => k + b < w /\ j = k + b
      BY <1>1, <1>11
    <3> QED
      BY <1>10, <1>11, <3>1, <3>2, <3>3
  <2> QED
    BY <1>11, <2>1
<1>13. Ones(p % Modulus(s), s)
         = {k \in 0 .. (w - 1) : (IF k + b < w THEN k + b ELSE top) \in Ones(a, s)}
  <2>1. ASSUME NEW k \in 0 .. (w - 1)
        PROVE  k \in Ones(p % Modulus(s), s)
                 <=> (IF k + b < w THEN k + b ELSE top) \in Ones(a, s)
    <3>1. CASE k + b < w
      <4>1. k + b \in 0 .. (w - 1)
        BY <1>1, <3>1
      <4> QED
        BY <1>7, <1>10, <3>1, <4>1
    <3>2. CASE ~(k + b < w)
      <4>1. k + b >= w
        BY <1>1, <3>2
      <4> QED
        BY <1>8, <1>9, <1>10, <3>2, <4>1
    <3> QED
      BY <3>1, <3>2
  <2> QED
    BY <1>11, <2>1
<1> QED
  BY <1>5, <1>6, <1>12, <1>13 DEF w, top, z

\* A ring of w places turned by one, either way.
LEMMA RingTurned ==
  ASSUME NEW w \in Nat, w >= 2, NEW S, S \subseteq 0 .. (w - 1)
  PROVE  /\ Around(S, 1, w)
              = {j \in 0 .. (w - 1) : (IF j = 0 THEN w - 1 ELSE j - 1) \in S}
         /\ Around(S, w - 1, w)
              = {j \in 0 .. (w - 1) : (IF j = w - 1 THEN 0 ELSE j + 1) \in S}
<1>1. ASSUME NEW k \in 0 .. (w - 1)
      PROVE  /\ (k + 1) % w = IF k = w - 1 THEN 0 ELSE k + 1
             /\ (k + (w - 1)) % w = IF k = 0 THEN w - 1 ELSE k - 1
  <2>1. 1 \in 0 .. (w - 1) /\ w - 1 \in 0 .. (w - 1)
    OBVIOUS
  <2>2. \A b \in 0 .. (w - 1) : (k + b) % w = IF k + b < w THEN k + b ELSE k + b - w
    BY Wrapped
  <2>3. (k + 1) % w = IF k + 1 < w THEN k + 1 ELSE k + 1 - w
    BY <2>1, <2>2
  <2>4. (k + (w - 1)) % w = IF k + (w - 1) < w THEN k + (w - 1) ELSE k + (w - 1) - w
    BY <2>1, <2>2
  <2>5. k + 1 < w <=> k # w - 1
    OBVIOUS
  <2>6. k + (w - 1) < w <=> k = 0
    OBVIOUS
  <2>7. k = w - 1 => k + 1 - w = 0
    OBVIOUS
  <2>8. k + (w - 1) - w = k - 1 /\ (k = 0 => k + (w - 1) = w - 1)
    OBVIOUS
  <2> QED
    BY <2>3, <2>4, <2>5, <2>6, <2>7, <2>8
<1> DEFINE up(k) == IF k = w - 1 THEN 0 ELSE k + 1
           down(k) == IF k = 0 THEN w - 1 ELSE k - 1
<1>2. \A k \in 0 .. (w - 1) :
        up(k) \in 0 .. (w - 1) /\ down(k) \in 0 .. (w - 1)
        /\ up(down(k)) = k /\ down(up(k)) = k
  OBVIOUS
<1>3. Around(S, 1, w) = {up(k) : k \in S} /\ Around(S, w - 1, w) = {down(k) : k \in S}
  BY <1>1 DEF Around
<1> HIDE DEF up, down
<1>4. {up(k) : k \in S} = {j \in 0 .. (w - 1) : down(j) \in S}
  BY <1>2
<1>5. {down(k) : k \in S} = {j \in 0 .. (w - 1) : up(j) \in S}
  BY <1>2
<1> QED
  BY <1>3, <1>4, <1>5 DEF up, down

\* What is let in takes the place at one end, the other bits move by one.
LEMMA TurnedIs ==
  ASSUME NEW s \in Sizes, NEW a \in 0 .. (Modulus(s) - 1), NEW in \in {0, 1}
  PROVE  LET top == BITS[s] - 1
         IN  /\ Ones((2 * a + in) % Modulus(s), s)
                  = {j \in 0 .. top : IF j = 0 THEN in = 1 ELSE j - 1 \in Ones(a, s)}
             /\ Ones((a \div 2 + in * Two[top]) % Modulus(s), s)
                  = {j \in 0 .. top : IF j = top THEN in = 1 ELSE j + 1 \in Ones(a, s)}
<1> DEFINE top == BITS[s] - 1
<1>1. /\ BITS[s] \in 2 .. Widest /\ BITS[s] \in 1 .. Widest /\ top \in 1 .. Widest
      /\ top \in 0 .. Widest /\ Widest \in Nat /\ 1 \in 0 .. Widest
  BY OnesAre, WidthsAre
<1>2. PICK H \in Nat : H >= 1 /\ H = Two[top] /\ Modulus(s) = 2 * H
  BY <1>1, TwoIs DEF Modulus
<1>3. a \in Int /\ a \div 2 \in Int /\ a \div 2 \in 0 .. (H - 1) /\ 2 * a + in \in Int
      /\ a \div 2 + in * H \in Int
  BY <1>2
<1> DEFINE t == 2 * a + in
           u == a \div 2 + in * H
<1>4. \A j \in 0 .. top : BitAt(t, j) = IF j = 0 THEN in ELSE BitAt(a, j - 1)
  <2>1. ASSUME NEW j \in 0 .. top PROVE BitAt(t, j) = IF j = 0 THEN in ELSE BitAt(a, j - 1)
    <3>1. j \in 0 .. Widest
      BY <1>1
    <3> QED
      BY <1>3, <3>1, BitsOfDoubled
  <2> QED
    BY <2>1
<1>5. \A j \in 0 .. top : BitAt(u, j) = IF j = top THEN in ELSE BitAt(a, j + 1)
  <2>1. ASSUME NEW j \in 0 .. top, j # top PROVE BitAt(u, j) = BitAt(a, j + 1)
    <3>1. j \in Nat /\ j < top /\ j \in 0 .. Widest /\ 1 + j \in 0 .. Widest /\ 1 + j = j + 1
      BY <1>1, <2>1
    <3>2. PICK q \in Int : q = in
      OBVIOUS
    <3>3. BitAt(a \div 2 + Two[top] * q, j) = BitAt(a \div 2, j)
      <4>1. PICK i \in 0 .. Widest, v \in Int : i = top /\ v = a \div 2
        BY <1>1, <1>3
      <4>2. j < i /\ j \in Nat
        BY <3>1, <4>1
      <4>3. BitAt(v + Two[i] * q, j) = BitAt(v, j)
        BY <4>2, BitsOfWrapped, ZenonT(60)
      <4> QED
        BY <4>1, <4>3
    <3>4. a \div 2 + Two[top] * q = u
      BY <1>2, <1>3, <3>2
    <3>5. BitAt(a \div Two[1], j) = BitAt(a, 1 + j)
      BY <1>1, <1>3, <3>1, BitsShiftedRight
    <3>6. Two[1] = 2
      BY <1>1, TwoIs
    <3> QED
      BY <3>1, <3>3, <3>4, <3>5, <3>6
  <2>2. BitAt(u, top) = in
    <3>1. PICK y \in 0 .. (H - 1) : y = a \div 2
      BY <1>3
    <3>2. PICK q \in Int : q = in
      OBVIOUS
    <3>3. (H * q + y) \div H = q
      <4>1. H >= 1
        BY <1>2
      <4>2. (H * q + y) \div H = q /\ (H * q + y) % H = y
        BY <4>1, QuotientIs
      <4> QED
        BY <4>2
    <3>4. u = H * q + y
      BY <1>2, <3>1, <3>2
    <3>5. q % 2 = in
      BY <3>2
    <3>6. BitAt(u, top) = (u \div H) % 2
      BY <1>2 DEF BitAt
    <3> QED
      BY <3>3, <3>4, <3>5, <3>6
  <2> QED
    BY <2>1, <2>2
<1> HIDE DEF t, u
<1>6. t \in Int /\ u \in Int
  BY <1>3 DEF t, u
<1>7. /\ \A k \in 0 .. top : k \in Ones(t % Modulus(s), s) <=> BitAt(t, k) = 1
      /\ \A k \in 0 .. top : k \in Ones(u % Modulus(s), s) <=> BitAt(u, k) = 1
      /\ \A k \in 0 .. top : k \in Ones(a, s) <=> BitAt(a, k) = 1
  BY <1>3, <1>6, OnesAre
<1>8. Ones(t % Modulus(s), s) \subseteq 0 .. top /\ Ones(u % Modulus(s), s) \subseteq 0 .. top
  BY DEF Ones
<1> HIDE DEF top
<1>9. Ones(t % Modulus(s), s)
        = {j \in 0 .. top : IF j = 0 THEN in = 1 ELSE j - 1 \in Ones(a, s)}
  <2>1. \A j \in 0 .. top : j # 0 => j - 1 \in 0 .. top
    BY <1>1
  <2>2. \A j \in 0 .. top : j \in Ones(t % Modulus(s), s)
          <=> IF j = 0 THEN in = 1 ELSE j - 1 \in Ones(a, s)
    BY <1>4, <1>7, <2>1
  <2> QED
    BY <1>8, <2>2
<1>10. Ones(u % Modulus(s), s)
         = {j \in 0 .. top : IF j = top THEN in = 1 ELSE j + 1 \in Ones(a, s)}
  <2>1. \A j \in 0 .. top : j # top => j + 1 \in 0 .. top
    BY <1>1
  <2>2. \A j \in 0 .. top : j \in Ones(u % Modulus(s), s)
          <=> IF j = top THEN in = 1 ELSE j + 1 \in Ones(a, s)
    BY <1>5, <1>7, <2>1
  <2> QED
    BY <1>8, <2>2
<1> QED
  BY <1>2, <1>9, <1>10 DEF t, u, top

\* The four rotates, without and with C in the ring.
RotatesTo(s, a, c) ==
  LET w == BITS[s]
      top == w - 1
      bits == Ones(a, s)
      ring == bits \cup (IF c = 1 THEN {w} ELSE {})
  IN  /\ Ones((2 * a + BitAt(a, top)) % Modulus(s), s) = Around(bits, 1, w)
      /\ Ones((a \div 2 + BitAt(a, 0) * Two[top]) % Modulus(s), s)
           = Around(bits, w - 1, w)
      /\ Ones((2 * a + c) % Modulus(s), s) = Around(ring, 1, w + 1) \ {w}
      /\ Ones((a \div 2 + c * Two[top]) % Modulus(s), s)
           = Around(ring, w + 1 - 1, w + 1) \ {w}

LEMMA RotatesAre ==
  ASSUME NEW s \in Sizes, NEW a \in 0 .. (Modulus(s) - 1), NEW c \in {0, 1}
  PROVE  RotatesTo(s, a, c)
<1> DEFINE w == BITS[s]
           top == w - 1
           bits == Ones(a, s)
           ring == bits \cup (IF c = 1 THEN {w} ELSE {})
<1>1. a \in Int /\ w \in Nat /\ w >= 2 /\ top \in 0 .. (w - 1) /\ 0 \in 0 .. (w - 1)
  BY SizesAre, OnesAre, WidthsAre
<1>2. /\ BitAt(a, top) \in {0, 1} /\ (top \in bits <=> BitAt(a, top) = 1)
      /\ BitAt(a, 0) \in {0, 1} /\ (0 \in bits <=> BitAt(a, 0) = 1)
  BY <1>1, OnesAre
<1>3. bits \subseteq 0 .. (w - 1)
  BY DEF Ones
<1>4. ASSUME NEW in \in {0, 1}
      PROVE  /\ Ones((2 * a + in) % Modulus(s), s)
                  = {j \in 0 .. top : IF j = 0 THEN in = 1 ELSE j - 1 \in bits}
             /\ Ones((a \div 2 + in * Two[top]) % Modulus(s), s)
                  = {j \in 0 .. top : IF j = top THEN in = 1 ELSE j + 1 \in bits}
  BY TurnedIs
<1> HIDE DEF w, bits
<1>5. /\ Around(bits, 1, w) = {j \in 0 .. top : (IF j = 0 THEN top ELSE j - 1) \in bits}
      /\ Around(bits, w - 1, w) = {j \in 0 .. top : (IF j = top THEN 0 ELSE j + 1) \in bits}
  BY <1>1, <1>3, RingTurned
<1>6. /\ Around(ring, 1, w + 1) = {j \in 0 .. w : (IF j = 0 THEN w ELSE j - 1) \in ring}
      /\ Around(ring, w, w + 1) = {j \in 0 .. w : (IF j = w THEN 0 ELSE j + 1) \in ring}
  <2>1. ring \subseteq 0 .. w
    BY <1>1, <1>3
  <2> HIDE DEF ring
  <2>2. PICK y \in Nat : y = w + 1 /\ y >= 2 /\ y - 1 = w
    BY <1>1
  <2>3. ring \subseteq 0 .. (y - 1)
    BY <2>1, <2>2
  <2>4. /\ Around(ring, 1, y)
              = {j \in 0 .. (y - 1) : (IF j = 0 THEN y - 1 ELSE j - 1) \in ring}
        /\ Around(ring, y - 1, y)
              = {j \in 0 .. (y - 1) : (IF j = y - 1 THEN 0 ELSE j + 1) \in ring}
    BY <2>2, <2>3, RingTurned
  <2> QED
    BY <2>2, <2>4
<1>7. w + 1 - 1 = w
  BY <1>1
<1>8. \A j \in 0 .. w : j # w <=> j \in 0 .. top
  BY <1>1
<1>9. \A j \in 0 .. top : (j # 0 => j - 1 # w) /\ (j + 1 = w <=> j = top)
  BY <1>1
<1>10. w \notin bits /\ \A j : j \in ring <=> j \in bits \/ (j = w /\ c = 1)
  BY <1>1, <1>3
<1> HIDE DEF ring
<1>11. Around(ring, 1, w + 1) \ {w} = {j \in 0 .. top : IF j = 0 THEN c = 1 ELSE j - 1 \in bits}
  <2>1. \A j \in 0 .. top : (IF j = 0 THEN w ELSE j - 1) \in ring
                              <=> (IF j = 0 THEN c = 1 ELSE j - 1 \in bits)
    BY <1>9, <1>10
  <2>2. 0 .. top \subseteq 0 .. w
    BY <1>1
  <2> HIDE DEF top
  <2> QED
    BY <1>6, <1>8, <2>1, <2>2
<1>12. Around(ring, w, w + 1) \ {w} = {j \in 0 .. top : IF j = top THEN c = 1 ELSE j + 1 \in bits}
  <2>1. \A j \in 0 .. top : (IF j = w THEN 0 ELSE j + 1) \in ring
                              <=> (IF j = top THEN c = 1 ELSE j + 1 \in bits)
    <3>1. \A j \in 0 .. top : j # w
      BY <1>1
    <3>2. \A j \in 0 .. top : j + 1 \in ring <=> (j + 1 \in bits \/ (j = top /\ c = 1))
      BY <1>9, <1>10
    <3>3. top + 1 \notin bits
      BY <1>1, <1>10
    <3> QED
      BY <3>1, <3>2, <3>3
  <2>2. 0 .. top \subseteq 0 .. w
    BY <1>1
  <2> HIDE DEF top
  <2> QED
    BY <1>6, <1>8, <2>1, <2>2
<1>13. /\ Ones((2 * a + BitAt(a, top)) % Modulus(s), s) = Around(bits, 1, w)
       /\ Ones((a \div 2 + BitAt(a, 0) * Two[top]) % Modulus(s), s) = Around(bits, w - 1, w)
  <2>1. /\ Ones((2 * a + BitAt(a, top)) % Modulus(s), s)
             = {j \in 0 .. top : IF j = 0 THEN BitAt(a, top) = 1 ELSE j - 1 \in bits}
        /\ Ones((a \div 2 + BitAt(a, 0) * Two[top]) % Modulus(s), s)
             = {j \in 0 .. top : IF j = top THEN BitAt(a, 0) = 1 ELSE j + 1 \in bits}
    <3> HIDE DEF top
    <3> QED
      BY <1>2, <1>4
  <2>2. {j \in 0 .. top : IF j = 0 THEN BitAt(a, top) = 1 ELSE j - 1 \in bits}
          = {j \in 0 .. top : (IF j = 0 THEN top ELSE j - 1) \in bits}
    <3> HIDE DEF top
    <3> QED
      BY <1>2
  <2>3. {j \in 0 .. top : IF j = top THEN BitAt(a, 0) = 1 ELSE j + 1 \in bits}
          = {j \in 0 .. top : (IF j = top THEN 0 ELSE j + 1) \in bits}
    <3> HIDE DEF top
    <3> QED
      BY <1>2
  <2> HIDE DEF top
  <2> QED
    BY <1>5, <2>1, <2>2, <2>3
<1>14. /\ Ones((2 * a + c) % Modulus(s), s) = Around(ring, 1, w + 1) \ {w}
       /\ Ones((a \div 2 + c * Two[top]) % Modulus(s), s) = Around(ring, w, w + 1) \ {w}
  <2> HIDE DEF top
  <2> QED
    BY <1>4, <1>11, <1>12
<1> QED
  BY <1>7, <1>13, <1>14 DEF w, bits, ring, RotatesTo

-----------------------------------------------------------------------------
(* What the results are, by numbers. *)

\* A signed number that has room survives its wrap.
LEMMA SignedBack ==
  ASSUME NEW s \in Sizes, NEW p \in Int,
         p >= -(Modulus(s) \div 2), p < Modulus(s) \div 2
  PROVE  Signed(p % Modulus(s), s) = p
<1>1. PICK H \in Nat :
        /\ H >= 2 /\ Modulus(s) = 2 * H /\ Modulus(s) \div 2 = H
        /\ \A v : Signed(v, s) = IF v >= H THEN v - Modulus(s) ELSE v
  BY Halves
<1>2. PICK M \in Nat : M = Modulus(s) /\ M = 2 * H /\ M >= 1
  BY <1>1
<1>3. CASE p >= 0
  <2>1. p \in 0 .. (M - 1)
    BY <1>1, <1>2, <1>3
  <2>2. p % M = p
    BY <1>2, <2>1, SmallRemainder
  <2> QED
    BY <1>1, <1>2, <1>3, <2>2
<1>4. CASE p < 0
  <2>1. PICK r \in 0 .. (M - 1), q \in Int : r = p + M /\ q = 1 /\ p + M * q = r
    <3>1. p + M \in 0 .. (M - 1) /\ p + M * 1 = p + M
      BY <1>1, <1>2, <1>4
    <3> QED
      BY <3>1
  <2>2. (p + M * q) % M = p % M
    BY <1>2, RemainderShifts, Zenon
  <2>3. r % M = r
    BY <1>2, SmallRemainder
  <2> QED
    BY <1>1, <1>2, <1>4, <2>1, <2>2, <2>3
<1> QED
  BY <1>3, <1>4

\* A number and what it is negated to.
LEMMA NegatedIs ==
  ASSUME NEW M \in Nat, M >= 1, NEW a \in Int
  PROVE  (((0 - a) % M) + a) % M = 0
<1>1. PICK q \in Int, r \in 0 .. (M - 1) : (0 - a) % M = r /\ 0 - a = M * q + r
  <2>1. 0 - a \in Int
    OBVIOUS
  <2> QED
    BY <2>1, Division
<1>2. PICK p \in Int : p = -q /\ r + a = M * p + 0
  <2>1. -q \in Int /\ r + a = M * (-q) + 0
    BY <1>1
  <2> QED
    BY <2>1
<1>3. 0 \in 0 .. (M - 1)
  OBVIOUS
<1>4. (M * p + 0) % M = 0
  BY <1>3, QuotientIs
<1> QED
  BY <1>1, <1>2, <1>4

\* A word extended to a long.
LEMMA ExtendedIs ==
  ASSUME NEW a \in 0 .. (UINT - 1)
  PROVE  LET low == Two[BITS["l"] \div 2]
             z == Signed(a % Modulus("w"), "w")
         IN  /\ (a % Modulus("w")) % UINT = a % low
             /\ (z % UINT) % low = a % low
             /\ Signed(z % UINT, "l") < low \div 2
             /\ Signed(z % UINT, "l") >= -(low \div 2)
<1> DEFINE low == Two[BITS["l"] \div 2]
           z == Signed(a % Modulus("w"), "w")
<1>0. "w" \in Sizes /\ "l" \in Sizes
  BY DEF Sizes
<1>1. low = Modulus("w")
  <2>1. BITS["l"] \div 2 = BITS["w"]
    BY WidthAssumption
  <2> QED
    BY <2>1 DEF Modulus
<1>2. PICK W \in Nat : W = Modulus("w") /\ W >= 4 /\ UINT = W * W
  BY <1>0, SizesAre
<1>3. PICK U \in Nat : U = UINT /\ U = W * W /\ U = Modulus("l") /\ U >= 4 * W
  <2>1. PICK k \in Nat : W = 4 + k
    <3>1. W - 4 \in Nat /\ W = 4 + (W - 4)
      BY <1>2
    <3> QED
      BY <3>1
  <2>2. W * W = 4 * W + W * k /\ W * k \in Nat
    BY <1>2, <2>1
  <2> QED
    BY <1>2, <2>1, <2>2 DEF UINT
<1>4. PICK H \in Nat :
        /\ H >= 2 /\ W = 2 * H /\ W \div 2 = H
        /\ \A v : Signed(v, "w") = IF v >= H THEN v - W ELSE v
  BY <1>0, <1>2, Halves
<1>5. PICK r \in 0 .. (W - 1) : r = a % W
  <2>1. a \in Int /\ W >= 1
    BY <1>2, <1>3
  <2> QED
    BY <2>1, RemainderRange
<1>6. z = (IF r >= H THEN r - W ELSE r) /\ z \in Int /\ z >= -H /\ z < H
  BY <1>2, <1>4, <1>5
<1> HIDE DEF low, z
<1>7. r % U = r /\ r % W = r
  <2>1. r \in 0 .. (U - 1) /\ U >= 1 /\ W >= 1
    BY <1>2, <1>3
  <2> QED
    BY <2>1, SmallRemainder
<1>8. z % W = r
  <2>1. CASE r >= H
    <3>1. PICK q \in Int : q = -1 /\ r + W * q = z
      BY <1>6, <2>1
    <3>2. (r + W * q) % W = r % W
      <4>1. r \in Int /\ W >= 1
        BY <1>2
      <4> QED
        BY <4>1, RemainderShifts, Zenon
    <3> QED
      BY <1>7, <3>1, <3>2
  <2>2. CASE ~(r >= H)
    BY <1>6, <1>7, <2>2
  <2> QED
    BY <2>1, <2>2
<1>9. (z % U) % W = r
  <2>1. PICK q \in Int, y \in 0 .. (U - 1) : z % U = y /\ z = U * q + y
    <3>1. U >= 1
      BY <1>2, <1>3
    <3> QED
      BY <1>6, <3>1, Division
  <2>2. PICK p \in Int : p = -(W * q)
    BY <1>2
  <2>3. y \in Int /\ y = z + W * p
    <3>1. (W * W) * q = W * (W * q)
      BY <1>2
    <3>2. U * q = W * (W * q)
      BY <1>3, <3>1
    <3>3. W * p = -(W * (W * q))
      BY <1>2, <2>2
    <3> QED
      BY <1>3, <1>6, <2>1, <3>2, <3>3
  <2>4. (z + W * p) % W = z % W
    <3>1. W >= 1
      BY <1>2
    <3> QED
      BY <1>6, <3>1, RemainderShifts, Zenon
  <2> QED
    BY <1>8, <2>1, <2>3, <2>4
<1>10. Signed(z % U, "l") = z
  <2>1. PICK K \in Nat : Modulus("l") = 2 * K /\ Modulus("l") \div 2 = K
    BY <1>0, Halves
  <2>2. z >= -(Modulus("l") \div 2) /\ z < Modulus("l") \div 2
    BY <1>3, <1>4, <1>6, <2>1
  <2> QED
    BY <1>0, <1>3, <1>6, <2>2, SignedBack
<1> QED
  BY <1>1, <1>2, <1>3, <1>4, <1>5, <1>6, <1>7, <1>9, <1>10 DEF low, z

\* The sizes of the two halves of a product or a dividend.
Halved(s, d) == s \in {"b", "w"} /\ d = IF s = "b" THEN "w" ELSE "l"

LEMMA HalvesMultiply ==
  ASSUME NEW s, NEW d, Halved(s, d)
  PROVE  /\ s \in Sizes /\ d \in Sizes /\ Modulus(d) = Modulus(s) * Modulus(s)
         /\ \E k \in Nat : /\ k >= 2 /\ Modulus(s) = 2 * k /\ Modulus(s) \div 2 = k
                           /\ Modulus(d) = 4 * (k * k) /\ Modulus(d) \div 2 = 2 * (k * k)
                           /\ \A v : Signed(v, s) = IF v >= k THEN v - 2 * k ELSE v
<1>1. s \in Sizes /\ d \in Sizes /\ Modulus(d) = Modulus(s) * Modulus(s)
  BY SizesAre DEF Halved, Sizes, UINT
<1>2. PICK k \in Nat : /\ k >= 2 /\ Modulus(s) = 2 * k /\ Modulus(s) \div 2 = k
                       /\ \A v : Signed(v, s) = IF v >= k THEN v - Modulus(s) ELSE v
  BY <1>1, Halves
<1>3. PICK K \in Nat : Modulus(d) = 2 * K /\ Modulus(d) \div 2 = K
  BY <1>1, Halves
<1>4. (2 * k) * (2 * k) = 4 * (k * k) /\ k * k \in Nat
  BY <1>2
<1>5. K = 2 * (k * k)
  BY <1>1, <1>2, <1>3, <1>4
<1> QED
  BY <1>1, <1>2, <1>3, <1>4, <1>5

LEMMA ProductsAre ==
  ASSUME NEW s, NEW d, Halved(s, d),
         NEW x \in 0 .. (Modulus(s) - 1), NEW y \in 0 .. (Modulus(s) - 1)
  PROVE  /\ (x * y) % Modulus(d) = x * y
         /\ Signed((Signed(x, s) * Signed(y, s)) % Modulus(d), d)
              = Signed(x, s) * Signed(y, s)
<1>1. s \in Sizes /\ d \in Sizes /\ Modulus(d) = Modulus(s) * Modulus(s)
  BY HalvesMultiply
<1>2. PICK k \in Nat : /\ k >= 2 /\ Modulus(s) = 2 * k
                       /\ Modulus(d) = 4 * (k * k) /\ Modulus(d) \div 2 = 2 * (k * k)
                       /\ \A v : Signed(v, s) = IF v >= k THEN v - 2 * k ELSE v
  BY HalvesMultiply
<1>3. PICK h \in Nat, D \in Nat : h = Modulus(s) /\ h = 2 * k /\ D = Modulus(d) /\ D = h * h /\ D >= 1
  BY <1>1, <1>2, SizesAre
<1>4. (x * y) % D = x * y
  <2>1. x \in Nat /\ y \in Nat /\ x < h /\ y < h
    BY <1>3
  <2>2. h * x + 0 < h * h /\ x * y <= x * h
    <3>1. h * x + 0 < h * h
      BY <1>2, <1>3, <2>1, FewerDivisors
    <3>2. x * h = x * y + x * (h - y) /\ h - y \in Nat
      BY <2>1
    <3>3. x * (h - y) \in Nat /\ x * y \in Nat
      BY <2>1, <3>2
    <3> QED
      BY <3>1, <3>2, <3>3
  <2>3. x * y \in Nat /\ h * x = x * h /\ x * h \in Nat
    BY <2>1
  <2>4. x * y \in 0 .. (D - 1)
    BY <1>3, <2>2, <2>3
  <2>5. PICK p \in 0 .. (D - 1) : p = x * y
    BY <2>4
  <2>6. p % D = p
    BY <1>3, SmallRemainder
  <2> QED
    BY <2>5, <2>6
<1>5. PICK u \in Int, v \in Int :
        /\ u = Signed(x, s) /\ v = Signed(y, s)
        /\ u >= -k /\ u < k /\ v >= -k /\ v < k
  <2>1. x \in 0 .. (2 * k - 1) /\ y \in 0 .. (2 * k - 1)
    BY <1>2
  <2>2. Signed(x, s) \in (-k) .. (k - 1) /\ Signed(y, s) \in (-k) .. (k - 1)
    BY <1>2, <2>1
  <2> QED
    BY <2>2
<1>6. u * v <= k * k /\ u * v >= -(k * k)
  <2>1. ASSUME NEW a \in Nat, NEW b \in Nat, a <= k, b <= k
        PROVE  a * b <= k * k /\ a * b \in Nat
    <3>1. k * k = a * b + (k - a) * k + a * (k - b)
      OBVIOUS
    <3>2. k - a \in Nat /\ k - b \in Nat
      BY <2>1
    <3>3. (k - a) * k \in Nat /\ a * (k - b) \in Nat /\ a * b \in Nat
      BY <3>2
    <3> QED
      BY <3>1, <3>3
  <2>2. k * k \in Nat
    OBVIOUS
  <2>3. CASE u >= 0 /\ v >= 0
    <3>1. u * v <= k * k /\ u * v \in Nat
      BY <1>5, <2>1, <2>3
    <3> QED
      BY <2>2, <3>1
  <2>4. CASE u >= 0 /\ v < 0
    <3>1. PICK b \in Nat : b = -v /\ b <= k
      BY <1>5, <2>4
    <3>2. u * b <= k * k /\ u * b \in Nat
      BY <1>5, <2>1, <2>4, <3>1
    <3>3. u * v = -(u * b)
      BY <3>1
    <3> QED
      BY <2>2, <3>2, <3>3
  <2>5. CASE u < 0 /\ v >= 0
    <3>1. PICK a \in Nat : a = -u /\ a <= k
      BY <1>5, <2>5
    <3>2. a * v <= k * k /\ a * v \in Nat
      BY <1>5, <2>1, <2>5, <3>1
    <3>3. u * v = -(a * v)
      BY <3>1
    <3> QED
      BY <2>2, <3>2, <3>3
  <2>6. CASE u < 0 /\ v < 0
    <3>1. PICK a \in Nat, b \in Nat : a = -u /\ b = -v /\ a <= k /\ b <= k
      BY <1>5, <2>6
    <3>2. a * b <= k * k /\ a * b \in Nat
      BY <2>1, <3>1
    <3>3. u * v = a * b
      BY <3>1
    <3> QED
      BY <2>2, <3>2, <3>3
  <2> QED
    BY <2>3, <2>4, <2>5, <2>6
<1>7. Signed((u * v) % Modulus(d), d) = u * v
  <2>1. PICK p \in Int : p = u * v
    OBVIOUS
  <2>2. k * k >= 1 /\ k * k \in Nat
    BY <1>2, ProductOfNat
  <2>3. p >= -(Modulus(d) \div 2) /\ p < Modulus(d) \div 2
    BY <1>2, <1>6, <2>1, <2>2
  <2>4. Signed(p % Modulus(d), d) = p
    BY <1>1, <2>3, SignedBack
  <2> QED
    BY <2>1, <2>4
<1> QED
  BY <1>3, <1>4, <1>5, <1>7

-----------------------------------------------------------------------------
(* What the division leaves. *)

\* A product or a dividend put together from halves comes apart again.
LEMMA PackedIs ==
  ASSUME NEW h \in Nat, h >= 1, NEW u \in 0 .. (h - 1), NEW w \in 0 .. (h - 1)
  PROVE  /\ u * h + w \in 0 .. (h * h - 1)
         /\ (u * h + w) % h = w /\ (u * h + w) \div h = u
         /\ (u * h + w) % (h * h) = u * h + w
<1>1. u * h = h * u /\ h * u \in Int /\ u \in Int /\ u < h
  OBVIOUS
<1>2. (h * u + w) \div h = u /\ (h * u + w) % h = w
  BY <1>1, QuotientIs
<1>3. h * u + w < h * h
  BY <1>1, FewerDivisors
<1>4. h * h \in Nat /\ h * h >= 1
  BY ProductOfNat
<1>5. h * u \in Nat
  OBVIOUS
<1>6. PICK p \in 0 .. (h * h - 1) : p = u * h + w
  BY <1>1, <1>3, <1>4, <1>5
<1>7. PICK H \in Nat : H = h * h /\ H >= 1
  BY <1>4
<1>8. p % H = p
  BY <1>6, <1>7, SmallRemainder
<1> QED
  BY <1>1, <1>2, <1>6, <1>7, <1>8

SizeOf(c) == IF c < 0 THEN -c ELSE c

\* C division: q and r are the quotient and the remainder of a by b, with Q and
\* R their sizes.
Truncates(a, b, q, r, Q, R) ==
  /\ SizeOf(a) = SizeOf(b) * Q + R /\ R < SizeOf(b)
  /\ q = IF (a < 0) = (b < 0) THEN Q ELSE -Q
  /\ r = IF a < 0 THEN -R ELSE R
  /\ a = q * b + r /\ r = a - b * q

LEMMA QuotientTruncates ==
  ASSUME NEW a \in Int, NEW b \in Int, b # 0
  PROVE  \E Q \in Nat, R \in Nat, q \in Int, r \in Int :
           Quotient(a, b) = q /\ Truncates(a, b, q, r, Q, R)
<1>1. PICK A \in Nat, B \in Nat : A = SizeOf(a) /\ B = SizeOf(b) /\ B >= 1
  BY DEF SizeOf
<1>2. PICK Q0 \in Int, R \in 0 .. (B - 1) : A \div B = Q0 /\ A = B * Q0 + R
  <2>1. A \in Int /\ B \in Nat /\ B >= 1
    BY <1>1
  <2> QED
    BY <2>1, Division
<1>3. Q0 \in Nat
  <2>1. CASE Q0 < 0
    <3>1. B * Q0 + R < B * 0
      BY <1>1, <1>2, <2>1, FewerDivisors
    <3>2. B * 0 = 0
      BY <1>1
    <3> QED
      BY <1>1, <1>2, <3>1, <3>2
  <2> QED
    BY <1>2, <2>1
<1>4. Quotient(a, b) = IF (a < 0) = (b < 0) THEN Q0 ELSE -Q0
  BY <1>1, <1>2 DEF Quotient, SizeOf
<1>5. CASE a >= 0 /\ b > 0
  <2>1. a = B * Q0 + R /\ b = B
    BY <1>1, <1>2, <1>5 DEF SizeOf
  <2>2. Q0 * b = B * Q0 /\ b * Q0 = B * Q0 /\ B * Q0 \in Int
    BY <1>2, <2>1
  <2>3. a = Q0 * b + R /\ R = a - b * Q0
    BY <2>1, <2>2
  <2>4. (a < 0) = (b < 0) /\ ~(a < 0)
    BY <1>5
  <2>5. Truncates(a, b, Q0, R, Q0, R)
    BY <1>1, <1>2, <2>3, <2>4 DEF Truncates
  <2> QED
    BY <1>2, <1>3, <1>4, <2>4, <2>5
<1>6. CASE a >= 0 /\ b < 0
  <2>1. a = B * Q0 + R /\ b = -B
    BY <1>1, <1>2, <1>6 DEF SizeOf
  <2>2. PICK q \in Int : q = -Q0
    BY <1>3
  <2>3. q * b = B * Q0 /\ b * q = B * Q0 /\ B * Q0 \in Int
    BY <1>2, <2>1, <2>2
  <2>4. a = q * b + R /\ R = a - b * q
    BY <2>1, <2>3
  <2>5. ~((a < 0) = (b < 0)) /\ ~(a < 0)
    BY <1>6
  <2>6. Truncates(a, b, q, R, Q0, R)
    BY <1>1, <1>2, <2>2, <2>4, <2>5 DEF Truncates
  <2> QED
    BY <1>2, <1>3, <1>4, <2>2, <2>5, <2>6
<1>7. CASE a < 0 /\ b > 0
  <2>1. a = -(B * Q0 + R) /\ b = B
    BY <1>1, <1>2, <1>7 DEF SizeOf
  <2>2. PICK q \in Int, r \in Int : q = -Q0 /\ r = -R
    BY <1>3
  <2>3. q * b = -(B * Q0) /\ b * q = -(B * Q0) /\ B * Q0 \in Int
    BY <1>2, <2>1, <2>2
  <2>4. a = q * b + r /\ r = a - b * q
    BY <2>1, <2>2, <2>3
  <2>5. ~((a < 0) = (b < 0)) /\ a < 0
    BY <1>7
  <2>6. Truncates(a, b, q, r, Q0, R)
    BY <1>1, <1>2, <2>2, <2>4, <2>5 DEF Truncates
  <2> QED
    BY <1>2, <1>3, <1>4, <2>2, <2>5, <2>6
<1>8. CASE a < 0 /\ b < 0
  <2>1. a = -(B * Q0 + R) /\ b = -B
    BY <1>1, <1>2, <1>8 DEF SizeOf
  <2>2. PICK r \in Int : r = -R
    OBVIOUS
  <2>3. Q0 * b = -(B * Q0) /\ b * Q0 = -(B * Q0) /\ B * Q0 \in Int
    BY <1>2, <2>1
  <2>4. a = Q0 * b + r /\ r = a - b * Q0
    BY <2>1, <2>2, <2>3
  <2>5. (a < 0) = (b < 0) /\ a < 0
    BY <1>8
  <2>6. Truncates(a, b, Q0, r, Q0, R)
    BY <1>1, <1>2, <2>2, <2>4, <2>5 DEF Truncates
  <2> QED
    BY <1>2, <1>3, <1>4, <2>2, <2>5, <2>6
<1> QED
  BY <1>5, <1>6, <1>7, <1>8

\* What is asked of a quotient and a remainder.
Divides(a, b, q, r) ==
  /\ a = q * b + r
  /\ r * r < b * b
  /\ r = 0 \/ (r < 0) = (a < 0)

LEMMA TruncatedDivides ==
  ASSUME NEW a \in Int, NEW b \in Int, b # 0, NEW q \in Int, NEW r \in Int,
         NEW Q \in Nat, NEW R \in Nat, Truncates(a, b, q, r, Q, R)
  PROVE  Divides(a, b, q, r)
<1>1. PICK B \in Nat : B = SizeOf(b) /\ R < B
  BY DEF SizeOf, Truncates
<1>2. b * b = B * B
  BY <1>1 DEF SizeOf
<1>3. r * r = R * R
  BY DEF Truncates
<1>4. R * R < B * B
  <2>1. PICK d \in Nat : B = R + 1 + d
    <3>1. B = R + 1 + (B - R - 1) /\ B - R - 1 \in Nat
      BY <1>1
    <3> QED
      BY <3>1
  <2>2. B * B = R * R + R * (1 + d) + (1 + d) * R + (1 + d) * (1 + d)
    BY <2>1
  <2>3. R * (1 + d) \in Nat /\ (1 + d) * R \in Nat /\ R * R \in Nat
    OBVIOUS
  <2>4. (1 + d) * (1 + d) = 1 + d + d + d * d /\ d * d \in Nat
    OBVIOUS
  <2> QED
    BY <2>2, <2>3, <2>4
<1>5. r = 0 \/ (r < 0) = (a < 0)
  BY DEF Truncates
<1> QED
  BY <1>2, <1>3, <1>4, <1>5 DEF Divides, Truncates

\* A quotient that has a place is bounded by it.
LEMMA QuotientBounded ==
  ASSUME NEW B \in Nat, B >= 1, NEW Q \in Nat, NEW R \in Nat, NEW L \in Nat,
         B * Q + R < B * L
  PROVE  Q < L
<1>1. CASE Q >= L
  <2>1. PICK d \in Nat : Q = L + d
    <3>1. Q - L \in Nat /\ Q = L + (Q - L)
      BY <1>1
    <3> QED
      BY <3>1
  <2>2. B * Q = B * L + B * d /\ B * d \in Nat /\ B * L \in Nat
    BY <2>1
  <2> QED
    BY <2>2
<1> QED
  BY <1>1

Packed(a, b, q, h) == ((a - b * q) % h) * h + (q % h)

LEMMA UnsignedDivided ==
  ASSUME NEW s \in Sizes, NEW a \in Nat, NEW b \in 1 .. (Modulus(s) - 1),
         Fits(a, b, Modulus(s), FALSE)
  PROVE  LET h == Modulus(s)
             v == Packed(a, b, Quotient(a, b), h)
         IN  /\ v % (h * h) = v /\ Divides(a, b, v % h, v \div h)
<1>1. PICK h \in Nat : h = Modulus(s) /\ h >= 1 /\ h >= 4
  BY SizesAre
<1>2. PICK Q \in Nat, R \in Nat, q \in Int, r \in Int :
        Quotient(a, b) = q /\ Truncates(a, b, q, r, Q, R)
  <2>1. a \in Int /\ b \in Int /\ b # 0
    BY <1>1
  <2> QED
    BY <2>1, QuotientTruncates
<1>3. b \in Nat /\ b >= 1 /\ b < h /\ ~(a < 0) /\ ~(b < 0) /\ SizeOf(a) = a /\ SizeOf(b) = b
  BY <1>1 DEF SizeOf
<1>4. q = Q /\ r = R /\ R < b /\ a = b * Q + R /\ r = a - b * q
  BY <1>2, <1>3 DEF Truncates
<1>5. a < b * h
  BY <1>1, <1>3 DEF Fits
<1>6. Q < h
  BY <1>1, <1>3, <1>4, <1>5, QuotientBounded
<1>7. r % h = r /\ q % h = q /\ r \in 0 .. (h - 1) /\ q \in 0 .. (h - 1)
  <2>1. r \in 0 .. (h - 1) /\ q \in 0 .. (h - 1)
    BY <1>1, <1>3, <1>4, <1>6
  <2> QED
    BY <1>1, <2>1, SmallRemainder
<1>8. Packed(a, b, q, h) = r * h + q
  BY <1>4, <1>7 DEF Packed
<1>9. Divides(a, b, q, r)
  <2>1. a \in Int /\ b \in Int /\ b # 0
    BY <1>3
  <2> QED
    BY <1>2, <2>1, TruncatedDivides
<1>10. (r * h + q) % h = q /\ (r * h + q) \div h = r /\ (r * h + q) % (h * h) = r * h + q
  BY <1>1, <1>7, PackedIs, ZenonT(60)
<1> QED
  BY <1>1, <1>2, <1>8, <1>9, <1>10

LEMMA SignedDivided ==
  ASSUME NEW s \in Sizes, NEW a \in Int, NEW b \in Int, b # 0,
         SizeOf(b) <= Modulus(s) \div 2, Fits(a, b, Modulus(s), TRUE)
  PROVE  LET h == Modulus(s)
             v == Packed(a, b, Quotient(a, b), h)
         IN  /\ v % (h * h) = v
             /\ Divides(a, b, Signed(v % h, s), Signed(v \div h, s))
<1>1. PICK K \in Nat : K >= 2 /\ Modulus(s) = 2 * K /\ Modulus(s) \div 2 = K
  BY Halves
<1>2. PICK h \in Nat : h = Modulus(s) /\ h >= 1 /\ h = 2 * K
  BY <1>1
<1>3. PICK Q \in Nat, R \in Nat, q \in Int, r \in Int :
        Quotient(a, b) = q /\ Truncates(a, b, q, r, Q, R)
  BY QuotientTruncates
<1>4. PICK B \in Nat : B = SizeOf(b) /\ B >= 1 /\ B <= K
  BY <1>1 DEF SizeOf
<1>5. q >= -K /\ q < K
  <2>1. SizeOf(a) = B * Q + R
    BY <1>3, <1>4 DEF Truncates
  <2>2. CASE (a < 0) = (b < 0)
    <3>1. B * Q + R < B * K
      BY <1>1, <1>4, <2>1, <2>2 DEF Fits, SizeOf
    <3>2. Q < K
      BY <1>4, <3>1, QuotientBounded
    <3> QED
      BY <1>3, <2>2, <3>2 DEF Truncates
  <2>3. CASE ~((a < 0) = (b < 0))
    <3>1. PICK L \in Nat : L = K + 1
      OBVIOUS
    <3>2. B * Q + R < B * L
      BY <1>1, <1>4, <2>1, <2>3, <3>1 DEF Fits, SizeOf
    <3>3. Q < L
      BY <1>4, <3>2, QuotientBounded
    <3>4. q = -Q
      BY <1>3, <2>3, Zenon DEF Truncates
    <3> QED
      BY <1>1, <3>1, <3>3, <3>4
  <2> QED
    BY <2>2, <2>3
<1>6. r >= -K /\ r < K
  <2>1. R < B /\ r = IF a < 0 THEN -R ELSE R
    BY <1>3, <1>4 DEF Truncates
  <2> QED
    BY <1>4, <2>1
<1>7. Signed(q % h, s) = q /\ Signed(r % h, s) = r
  <2>1. Modulus(s) \div 2 = K
    BY <1>1
  <2>2. Signed(q % Modulus(s), s) = q
    BY <1>5, <2>1, SignedBack
  <2>3. Signed(r % Modulus(s), s) = r
    BY <1>6, <2>1, SignedBack
  <2> QED
    BY <1>2, <2>2, <2>3
<1>8. PICK u \in 0 .. (h - 1), w \in 0 .. (h - 1) : u = r % h /\ w = q % h
  BY <1>2, RemainderRange
<1>9. Packed(a, b, q, h) = u * h + w
  <2>1. r = a - b * q
    BY <1>3 DEF Truncates
  <2> QED
    BY <1>8, <2>1 DEF Packed
<1>10. Divides(a, b, q, r)
  BY <1>3, TruncatedDivides
<1>11. (u * h + w) % h = w /\ (u * h + w) \div h = u /\ (u * h + w) % (h * h) = u * h + w
  BY <1>2, PackedIs, ZenonT(60)
<1> QED
  BY <1>2, <1>3, <1>7, <1>8, <1>9, <1>10, <1>11

-----------------------------------------------------------------------------
(* An instruction that ends in one write. *)

\* What ResultsExact says of an instruction i that made y of x.
Landed(i, p, y) == IF i.dst.kind = "r" THEN rd(y, i.dst)
                   ELSE cy_read(y, i.dst.size, ea(p, i.dst))
LanesKept(i, x, y) ==
  \A l \in Lanes \ (LanesOf(i.dst) \cup LanesOf(i.src)) : Lane(y, l) = Lane(x, l)
CellsKept(i, x, p, y) ==
  \A c \in DOMAIN y.mem \ (IF i.dst.kind \in {"r", "i"} THEN {} ELSE Spanned(ea(p, i.dst), i.dst.size)) :
    y.mem[c] = x.mem[c]
Came(i, x, p, v) ==
  Faulty(i, rd(p, i.dst)) \/ Right(i, x.f.cf, rd(p, i.dst), rd(p, i.src), v)
ExactBetween(i, x, y) ==
  LET p == Pre(x, i)
  IN  /\ Came(i, x, p, Landed(i, p, y))
      /\ LanesKept(i, x, y)
      /\ CellsKept(i, x, p, y)
      /\ i.op \in KeepFlags => y.f = x.f

LastExact == Executed(Exact \cup KeepFlags) => ExactBetween(Last, before, m)

LEMMA LastIsExact == LastExact => ResultsExact
BY Zenon DEF LastExact, ResultsExact, ExactBetween, Old, Came, Landed, LanesKept, CellsKept,
       CellsOf, Spanned

\* Nothing is pre-decremented but where a mov stores.
LEMMA PreIs ==
  ASSUME NEW x, NEW i \in Instructions, Formed(i),
         i.op \in Exact \cup KeepFlags, i.dst.kind # "pd"
  PROVE  Pre(x, i) = x
<1>1. i.src.kind # "pd"
  BY DEF Formed, Exact, KeepFlags, Shifts, Rotates, MulDiv, Stepped, Sums, Loads
<1>2. {o \in {i.dst, i.src} : o.kind = "pd"} = {}
  BY <1>1
<1> QED
  BY <1>2 DEF Pre, Moved

\* A result in a register.
LEMMA RegisterExact ==
  ASSUME NEW x \in Cy, NEW i \in Instructions, Formed(i),
         i.op \in Exact \cup KeepFlags, i.dst.kind = "r",
         NEW t \in Int, NEW g \in Flags, i.op \in KeepFlags => g = x.f,
         Came(i, x, x, t % Modulus(i.dst.size))
  PROVE  ExactBetween(i, x, [wr(x, i.dst, t) EXCEPT !.f = g])
<1> DEFINE z == reg_write(x, i.dst.size, i.dst.n, t)
           y == [wr(x, i.dst, t) EXCEPT !.f = g]
<1>1. i.dst \in Operands /\ i.dst.size \in Sizes /\ i.dst.n \in 0 .. 15
  BY OperandsAre DEF Instructions
<1>2. Pre(x, i) = x
  BY PreIs
<1>3. z \in Cy /\ wr(x, i.dst, t) = z
  BY <1>1, WritesRegister DEF wr
<1>4. y.e = z.e /\ y.mem = z.mem /\ y.f = g
  BY <1>3 DEF Cy
<1>5. rd(y, i.dst) = t % Modulus(i.dst.size)
  <2>1. rd(y, i.dst) = reg_read(z, i.dst.size, i.dst.n)
    BY <1>4 DEF rd, reg_read
  <2> QED
    BY <1>1, <2>1, WritesRegister
<1>6. LanesKept(i, x, y)
  <2> SUFFICES ASSUME NEW l \in Lanes, l \notin LanesOf(i.dst)
               PROVE  Lane(y, l) = Lane(x, l)
    BY DEF LanesKept
  <2>1. ~(/\ l[1] = i.dst.n % 8 /\ Weight(l[2]) >= Place(i.dst.size, i.dst.n)
          /\ Weight(l[2]) < Place(i.dst.size, i.dst.n) * Modulus(i.dst.size))
    BY DEF LanesOf
  <2>2. Lane(z, l) = Lane(x, l)
    BY <1>1, <2>1, WriteLeavesLanes
  <2> QED
    BY <1>4, <2>2 DEF Lane
<1>7. z.mem = x.mem
  BY <1>1, WriteLeaves
<1> QED
  BY <1>2, <1>4, <1>5, <1>6, <1>7 DEF ExactBetween, CellsKept, Landed

LEMMA AddLeaves ==
  ASSUME NEW x \in Cy, NEW k \in 0 .. 7, NEW d \in Int
  PROVE  LET y == AddTo(x, k, d)
         IN  /\ y.mem = x.mem /\ y.io = x.io /\ y.f = x.f /\ y.pc = x.pc
             /\ \A j \in 0 .. 7 : j # k => y.e[j] = x.e[j]
BY DEF AddTo, Cy, Registers32

\* The register that is pre-decremented is an operand's.
LEMMA PreMoves ==
  ASSUME NEW x \in Cy, NEW i \in Instructions, Formed(i), i.op \in Exact \cup KeepFlags,
         i.dst.kind \in Cellular
  PROVE  /\ Pre(x, i) \in Cy /\ Pre(x, i).mem = x.mem /\ Pre(x, i).f = x.f
         /\ \A l \in Lanes \ LanesOf(i.dst) : Lane(Pre(x, i), l) = Lane(x, l)
<1>1. CASE i.dst.kind # "pd"
  <2>1. Pre(x, i) = x
    BY <1>1, PreIs
  <2> QED
    BY <2>1
<1>2. CASE i.dst.kind = "pd"
  <2>1. i.src.kind # "pd" /\ i.dst \in Operands
    BY DEF Formed, Exact, KeepFlags, Shifts, Rotates, MulDiv, Stepped, Sums, Loads,
           Cellular, Instructions
  <2>2. {o \in {i.dst, i.src} : o.kind = "pd"} = {i.dst}
    BY <1>2, <2>1
  <2>3. PICK d \in Int : d = (-1) * Bytes(i.dst.size)
    BY <2>1, OperandsAre, SizesAre DEF Sizes
  <2>4. Pre(x, i) = AddTo(x, i.dst.n, d)
    <3>1. (CHOOSE o \in {i.dst} : TRUE) = i.dst
      OBVIOUS
    <3> QED
      BY <2>2, <2>3, <3>1 DEF Pre, Moved
  <2>5. i.dst.n \in 0 .. 7
    BY <1>2, <2>1, OperandsAre
  <2>6. ASSUME NEW l \in Lanes, l \notin LanesOf(i.dst)
        PROVE  Lane(Pre(x, i), l) = Lane(x, l)
    <3>1. l[1] \in 0 .. 7 /\ l[1] # i.dst.n
      BY <1>2, <2>6 DEF LanesOf, Lanes
    <3>2. AddTo(x, i.dst.n, d).e[l[1]] = x.e[l[1]]
      BY <2>3, <2>5, <3>1, AddLeaves
    <3> QED
      BY <2>4, <3>2 DEF Lane
  <2>7. /\ AddTo(x, i.dst.n, d) \in Cy /\ AddTo(x, i.dst.n, d).mem = x.mem
        /\ AddTo(x, i.dst.n, d).f = x.f
    BY <2>5, Adds, AddLeaves
  <2> QED
    BY <2>4, <2>6, <2>7
<1> QED
  BY <1>1, <1>2

\* A result in memory.
LEMMA MemoryExact ==
  ASSUME NEW x \in Cy, NEW i \in Instructions, Formed(i),
         i.op \in Exact \cup KeepFlags, i.dst.kind \in Cellular,
         NEW t \in Int, NEW g \in Flags, i.op \in KeepFlags => g = x.f,
         Came(i, x, Pre(x, i), t % Modulus(i.dst.size))
  PROVE  ExactBetween(i, x, [wr(Pre(x, i), i.dst, t) EXCEPT !.f = g])
<1>1. PICK p \in Cy : /\ p = Pre(x, i) /\ p.mem = x.mem
                      /\ \A l \in Lanes \ LanesOf(i.dst) : Lane(p, l) = Lane(x, l)
  BY PreMoves
<1>2. i.dst \in Operands /\ i.dst.size \in Sizes /\ i.dst.kind \notin {"r", "i"}
  BY OperandsAre DEF Instructions, Cellular
<1>3. PICK a \in Int : a = ea(p, i.dst)
  BY <1>2, Addresses
<1>4. PICK z \in Cy : z = cy_write(p, i.dst.size, a, t) /\ z.e = p.e
  BY <1>2, <1>3, WritesMemory
<1>5. PICK y \in Cy : y = [wr(p, i.dst, t) EXCEPT !.f = g]
  BY <1>2, <1>3, <1>4, Flagged DEF wr
<1>6. y.e = p.e /\ y.mem = z.mem /\ y.io = z.io /\ y.f = g
  BY <1>2, <1>3, <1>4, <1>5 DEF wr, Cy
<1>7. Landed(i, p, y) = t % Modulus(i.dst.size)
  <2>1. cy_read(z, i.dst.size, a) = t % Modulus(i.dst.size)
    BY <1>2, <1>3, <1>4, ReadsBack
  <2>2. cy_read(y, i.dst.size, a) = cy_read(z, i.dst.size, a)
    BY <1>6 DEF cy_read
  <2> QED
    BY <1>2, <1>3, <2>1, <2>2 DEF Landed
<1>8. LanesKept(i, x, y)
  BY <1>1, <1>6 DEF LanesKept, Lane
<1>9. CellsKept(i, x, p, y)
  <2>1. \A c \in (0 .. (MEM - 1)) \ Spanned(a, i.dst.size) : z.mem[c] = p.mem[c]
    BY <1>2, <1>3, <1>4, WritesCells
  <2>2. DOMAIN y.mem = 0 .. (MEM - 1)
    BY DEF Cy
  <2> QED
    BY <1>1, <1>2, <1>3, <1>6, <2>1, <2>2 DEF CellsKept
<1> QED
  BY <1>1, <1>5, <1>6, <1>7, <1>8, <1>9 DEF ExactBetween

\* From what an instruction does to what the last one did.
LEMMA ExactFrom ==
  ASSUME DataTypeOK, n < Len(code), NEW y, Becomes(y), ExactBetween(Now, m, y)
  PROVE  LastExact'
<1>1. Last' = Now /\ before' = m /\ m' = y
  BY DEF Becomes, Last, Now
<1> QED
  BY <1>1 DEF LastExact

\* Results of one register operation with N and Z set, and without.
LEMMA ResultExact ==
  ASSUME DataTypeOK, n < Len(code), Now.op \in Exact, Now.op \notin KeepFlags,
         Now.dst.kind = "r", NEW t \in Int, Becomes(Result(t)),
         Came(Now, m, m, t % Modulus(Now.dst.size))
  PROVE  LastExact'
<1>1. m \in Cy /\ Now \in Instructions /\ Formed(Now) /\ Size \in Sizes /\ Now.dst \in Operands
  BY NowIs DEF DataTypeOK, Size
<1>2. PICK g \in Flags : g = SETNZ(m.f, t, Size)
  BY <1>1, NZKeepsFlags, Fields
<1>3. wr(m, Now.dst, t).f = m.f
  BY <1>1, Writes
<1>4. Result(t) = [wr(m, Now.dst, t) EXCEPT !.f = g]
  BY <1>2, <1>3 DEF Result
<1>5. ExactBetween(Now, m, Result(t))
  BY <1>1, <1>4, RegisterExact
<1> QED
  BY <1>5, ExactFrom

LEMMA WriteExact ==
  ASSUME DataTypeOK, n < Len(code), Now.op \in KeepFlags,
         Now.dst.kind = "r", NEW t \in Int, Becomes(wr(m, Now.dst, t)),
         Came(Now, m, m, t % Modulus(Now.dst.size))
  PROVE  LastExact'
<1>1. m \in Cy /\ Now \in Instructions /\ Formed(Now) /\ Now.dst \in Operands
  BY NowIs DEF DataTypeOK
<1>2. PICK g \in Flags : g = m.f
  BY <1>1, Fields
<1>3. wr(m, Now.dst, t) \in Cy /\ wr(m, Now.dst, t).f = m.f
  BY <1>1, Writes
<1>4. wr(m, Now.dst, t) = [wr(m, Now.dst, t) EXCEPT !.f = g]
  BY <1>2, <1>3 DEF Cy
<1>5. ExactBetween(Now, m, wr(m, Now.dst, t))
  BY <1>1, <1>2, <1>4, RegisterExact
<1> QED
  BY <1>5, ExactFrom

-----------------------------------------------------------------------------
(* Each instruction comes out right. *)

LEMMA UnaryExact == ASSUME DataTypeOK, Unary PROVE LastExact'
<1>1. n < Len(code) /\ Now.op \in {"inc", "dec", "not", "neg"}
  BY DEF Unary, At
<1>2. /\ Now.dst \in Operands /\ Now.src \in Operands /\ Now.dst.kind = "r"
      /\ Size \in Sizes /\ Now.dst.size = Size
  BY <1>1, NowIs DEF Formed, Stepped, Size
<1>3. PICK M \in Nat : M = Modulus(Size) /\ M >= 1
  BY <1>2, SizesAre
<1>4. PICK a \in 0 .. (M - 1), b \in Int : a = Dst /\ b = Src
  BY <1>1, <1>2, <1>3, NowIs, Reads DEF DataTypeOK, Dst
<1>5. Now.op \in Exact /\ Now.op \notin KeepFlags
  BY <1>1 DEF Exact, KeepFlags, MulDiv
<1> DEFINE Ok(t) == Becomes(Result(t)) /\ Right(Now, m.f.cf, a, b, t % M)
<1>6. ASSUME NEW t \in Int, Ok(t) PROVE LastExact'
  BY <1>1, <1>2, <1>3, <1>4, <1>5, <1>6, ResultExact DEF Came, Dst, Src
<1>7. CASE Now.op = "inc"
  BY <1>2, <1>3, <1>4, <1>6, <1>7 DEF Unary, Right
<1>8. CASE Now.op = "dec"
  BY <1>2, <1>3, <1>4, <1>6, <1>8 DEF Unary, Right
<1>9. CASE Now.op = "not"
  <2>1. UINT - 1 - a \in Int /\ UINT \in Nat
    BY <1>3, SizesAre
  <2>2. Ones((UINT - 1 - a) % M, Size) = (0 .. (BITS[Size] - 1)) \ Ones(a, Size)
    BY <1>2, <1>3, ComplementIs
  <2>3. Right(Now, m.f.cf, a, b, (UINT - 1 - a) % M)
    BY <1>2, <1>9, <2>2 DEF Right
  <2>4. Becomes(Result(UINT - 1 - a))
    BY <1>4, <1>9 DEF Unary
  <2> QED
    BY <1>6, <2>1, <2>3, <2>4
<1>10. CASE Now.op = "neg"
  <2>1. 0 - a \in Int
    BY <1>3
  <2>2. (((0 - a) % M) + a) % M = 0
    BY <1>3, NegatedIs
  <2>3. Right(Now, m.f.cf, a, b, (0 - a) % M)
    BY <1>2, <1>3, <1>10, <2>2 DEF Right
  <2>4. Becomes(Result(0 - a))
    BY <1>4, <1>10 DEF Unary
  <2> QED
    BY <1>6, <2>1, <2>3, <2>4
<1> QED
  BY <1>1, <1>7, <1>8, <1>9, <1>10

LEMMA SumExact == ASSUME DataTypeOK, Sum PROVE LastExact'
<1> DEFINE t == IF Now.op = "add" THEN Dst + Src ELSE Dst - Src
           f == IF Now.op = "add" THEN SETFLAGS_ADD(m.f, Dst, Src, t, Size)
                ELSE SETFLAGS_SUB(m.f, Dst, Src, t, Size)
<1>1. /\ n < Len(code) /\ Now.op \in Sums
      /\ Becomes(IF Now.op = "cmp" THEN [m EXCEPT !.f = f]
                 ELSE [wr(m, Now.dst, t) EXCEPT !.f = f])
  BY DEF Sum, At
<1>2. /\ Now \in Instructions /\ Formed(Now)
      /\ Now.dst \in Operands /\ Now.src \in Operands /\ Now.dst.kind = "r"
      /\ Size \in Sizes /\ Now.dst.size = Size /\ m \in Cy
  BY <1>1, NowIs DEF Formed, Size, DataTypeOK
<1>3. Dst \in Int /\ Src \in Int /\ m.f \in Flags
  BY <1>1, <1>2, NowIs, Fields
<1>4. t \in Int
  BY <1>3
<1>5. f \in Flags
  <2> HIDE DEF t
  <2> QED
    BY <1>2, <1>3, <1>4, MacrosKeepFlags
<1>6. CASE Now.op = "cmp"
  <2>1. Last' = Now /\ Now.op \notin Exact \cup KeepFlags
    BY <1>1, <1>6 DEF Becomes, Last, Now, Exact, KeepFlags, Shifts, Rotates, MulDiv
  <2> QED
    BY <2>1 DEF LastExact, Executed
<1>7. CASE Now.op # "cmp"
  <2>1. Now.op \in Exact /\ Now.op \notin KeepFlags
    BY <1>1, <1>7 DEF Sums, Exact, KeepFlags, MulDiv
  <2>2. Came(Now, m, m, t % Modulus(Now.dst.size))
    <3>1. CASE Now.op = "add"
      BY <3>1 DEF Came, Right, Dst, Src
    <3>2. CASE Now.op = "sub"
      BY <3>2 DEF Came, Right, Dst, Src
    <3> QED
      BY <1>1, <1>7, <3>1, <3>2 DEF Sums
  <2> HIDE DEF t, f
  <2>3. ExactBetween(Now, m, [wr(m, Now.dst, t) EXCEPT !.f = f])
    BY <1>2, <1>4, <1>5, <2>1, <2>2, RegisterExact
  <2>4. Becomes([wr(m, Now.dst, t) EXCEPT !.f = f])
    BY <1>1, <1>7
  <2> QED
    BY <1>1, <2>3, <2>4, ExactFrom
<1> QED
  BY <1>6, <1>7

\* Moving an address register is a long written to it.
LEMMA AddIsWrite ==
  ASSUME NEW x \in Cy, NEW k \in 0 .. 7, NEW d \in Int
  PROVE  /\ AddTo(x, k, d) = reg_write(x, "l", k, x.e[k] + d)
         /\ reg_read(x, "l", k) = x.e[k]
<1>1. PICK U \in Nat : U = UINT /\ U >= 1
  BY SizesAre
<1>2. x.e[k] \in 0 .. (U - 1) /\ k % 8 = k
  BY <1>1, Fields
<1>3. Place("l", k) = 1 /\ Modulus("l") = U
  BY <1>1 DEF Place, UINT
<1>4. x.e[k] % U = x.e[k]
  BY <1>1, <1>2, SmallRemainder
<1>5. reg_read(x, "l", k) = x.e[k]
  BY <1>2, <1>3, <1>4 DEF reg_read
<1>6. PICK r \in 0 .. (U - 1) : r = (x.e[k] + d) % U
  <2>1. x.e[k] + d \in Int
    BY <1>2
  <2> QED
    BY <1>1, <2>1, RemainderRange
<1>7. reg_write(x, "l", k, x.e[k] + d) = [x EXCEPT !.e[k] = @ + (r - x.e[k]) * 1]
  BY <1>2, <1>3, <1>5, <1>6 DEF reg_write
<1>8. AddTo(x, k, d) = [x EXCEPT !.e[k] = r]
  BY <1>1, <1>6 DEF AddTo
<1>9. x.e[k] + (r - x.e[k]) * 1 = r
  BY <1>2
<1> QED
  BY <1>5, <1>7, <1>8, <1>9

LEMMA AdjustExact == ASSUME DataTypeOK, Adjust PROVE LastExact'
<1>1. /\ n < Len(code) /\ Now.op \in {"adds", "subs"}
      /\ Becomes(AddTo(m, Now.dst.n, IF Now.op = "adds" THEN Src ELSE -Src))
  BY DEF Adjust, At
<1>2. /\ Now.dst \in Operands /\ Now.dst.kind = "r" /\ Now.dst.size = "l"
      /\ Now.dst.n \in 0 .. 7 /\ m \in Cy /\ Src \in Int
  <2>1. /\ Now.dst \in Operands /\ Now.dst.kind = "r" /\ Now.dst.size = "l"
        /\ Now.dst.n < 8 /\ m \in Cy /\ Src \in Int
    BY <1>1, NowIs DEF Formed, Stepped, DataTypeOK
  <2>2. Now.dst.n \in 0 .. 15
    BY <2>1, OperandsAre
  <2> QED
    BY <2>1, <2>2
<1>3. PICK d \in Int : d = IF Now.op = "adds" THEN Src ELSE -Src
  BY <1>2
<1>4. PICK a \in Int : a = m.e[Now.dst.n] /\ a = Dst /\ a + d \in Int
  BY <1>2, AddIsWrite, Fields DEF Dst, rd
<1>5. AddTo(m, Now.dst.n, d) = wr(m, Now.dst, a + d)
  <2>1. AddTo(m, Now.dst.n, d) = reg_write(m, "l", Now.dst.n, m.e[Now.dst.n] + d)
    BY <1>2, AddIsWrite
  <2>2. wr(m, Now.dst, a + d) = reg_write(m, "l", Now.dst.n, a + d)
    BY <1>2, Zenon DEF wr
  <2> QED
    BY <1>4, <2>1, <2>2
<1>6. Came(Now, m, m, (a + d) % Modulus(Now.dst.size))
  <2>1. CASE Now.op = "adds"
    BY <1>3, <1>4, <2>1 DEF Came, Right, Dst, Src
  <2>2. CASE Now.op = "subs"
    <3>1. a + d = a - Src
      BY <1>2, <1>3, <1>4, <2>2
    <3> QED
      BY <1>4, <2>2, <3>1 DEF Came, Right, Dst, Src
  <2> QED
    BY <1>1, <2>1, <2>2
<1>7. Now.op \in KeepFlags
  BY <1>1 DEF KeepFlags
<1>8. Becomes(wr(m, Now.dst, a + d))
  BY <1>1, <1>3, <1>5
<1> QED
  BY <1>1, <1>2, <1>4, <1>6, <1>7, <1>8, WriteExact

LEMMA ExtendExact == ASSUME DataTypeOK, Extend PROVE LastExact'
<1> DEFINE half == IF Size = "w" THEN "b" ELSE "w"
           v == reg_read(m, half, Now.dst.n)
           t == IF Now.op = "extu" THEN v ELSE Signed(v, half)
<1>1. n < Len(code) /\ Now.op \in {"extu", "exts"} /\ Becomes(Result(t))
  BY DEF Extend, At
<1>2. /\ Now.dst \in Operands /\ Now.dst.kind = "r" /\ Size \in Sizes \ {"b"}
      /\ Now.dst.size = Size /\ Now.dst.n \in 0 .. 15 /\ m \in Cy
  BY <1>1, NowIs, OperandsAre DEF Formed, Size, DataTypeOK
<1>3. t \in Int
  <2>1. half \in Sizes
    BY DEF Sizes
  <2>2. v \in 0 .. (Modulus(half) - 1) /\ Modulus(half) \in Nat
    <3> HIDE DEF half
    <3> QED
      BY <1>2, <2>1, ReadsRegister, SizesAre DEF Cy
  <2> HIDE DEF v, half
  <2> QED
    BY <2>1, <2>2, SignedIsInt
<1>4. Came(Now, m, m, t % Modulus(Now.dst.size))
  <2>1. CASE Size = "w" \/ Now.dst.n >= 8
    BY <1>1, <2>1 DEF Came, Faulty, Size
  <2>2. CASE Size = "l" /\ Now.dst.n < 8
    <3>1. Now.dst.n \in 0 .. 7 /\ Now.dst.n % 8 = Now.dst.n
      BY <1>2, <2>2
    <3>2. PICK a \in 0 .. (UINT - 1) : a = m.e[Now.dst.n] /\ a = Dst
      BY <1>2, <2>2, <3>1, Fields, AddIsWrite DEF Dst, rd
    <3>3. v = a % Modulus("w")
      <4>1. Place("w", Now.dst.n) = 1 /\ a \div 1 = a
        BY <3>1, <3>2 DEF Place
      <4> QED
        BY <2>2, <3>1, <3>2, <4>1 DEF reg_read
    <3>4. LET low == Two[BITS["l"] \div 2]
              z == Signed(a % Modulus("w"), "w")
          IN  /\ (a % Modulus("w")) % UINT = a % low
              /\ (z % UINT) % low = a % low
              /\ Signed(z % UINT, "l") < low \div 2
              /\ Signed(z % UINT, "l") >= -(low \div 2)
      BY ExtendedIs
    <3>5. half = "w" /\ Modulus(Now.dst.size) = UINT /\ Now.dst.size = "l"
      BY <1>2, <2>2 DEF UINT
    <3>6. CASE Now.op = "extu"
      <4>1. t = a % Modulus("w")
        BY <3>3, <3>6
      <4> HIDE DEF t
      <4> QED
        BY <3>2, <3>4, <3>5, <3>6, <4>1 DEF Came, Right, Dst
    <3>7. CASE Now.op = "exts"
      <4>1. t = Signed(a % Modulus("w"), "w")
        BY <3>3, <3>5, <3>7
      <4> HIDE DEF t
      <4> QED
        BY <3>2, <3>4, <3>5, <3>7, <4>1 DEF Came, Right, Dst
    <3> QED
      BY <1>1, <3>6, <3>7
  <2> QED
    BY <1>2, <2>1, <2>2 DEF Sizes
<1>5. Now.op \in Exact /\ Now.op \notin KeepFlags
  BY <1>1 DEF Exact, KeepFlags, MulDiv
<1> HIDE DEF t
<1> QED
  BY <1>1, <1>2, <1>3, <1>4, <1>5, ResultExact

\* A register operand's number, and an immediate one's.
LEMMA ImmediateIs ==
  ASSUME NEW o \in Operands, o.kind = "i", o.n < BITS["b"], NEW x
  PROVE  rd(x, o) = o.n /\ o.n \in 0 .. (BITS["b"] - 1)
<1>1. o.n \in Nat /\ o.size \in Sizes
  BY OperandsAre
<1>2. PICK M \in Nat : M = Modulus(o.size) /\ M >= 1
  BY <1>1, SizesAre
<1>3. o.n < M
  <2>1. BITS[o.size] \in 0 .. Widest /\ BITS["b"] \in Nat /\ BITS[o.size] >= BITS["b"]
    BY <1>1, WidthsAre DEF Sizes
  <2>2. \A k \in 0 .. Widest : Two[k] > k
    <3> DEFINE S == {k \in 0 .. Widest : Two[k] > k}
    <3>0. Widest \in Nat
      BY WidthsAre
    <3>1. 0 \in S
      BY <3>0, TwoIs
    <3>2. ASSUME NEW k \in 1 .. Widest, k - 1 \in S PROVE k \in S
      <4>1. Two[k] = 2 * Two[k - 1] /\ Two[k - 1] \in Nat
        BY <3>0, <3>2, TwoIs
      <4> QED
        BY <3>0, <3>2, <4>1
    <3> HIDE DEF S
    <3>3. \A k \in 0 .. Widest : k \in S
      BY <3>0, <3>1, <3>2, Induct
    <3> QED
      BY <3>3 DEF S
  <2>3. M > BITS[o.size]
    BY <1>2, <2>1, <2>2 DEF Modulus
  <2> QED
    BY <1>1, <1>2, <2>1, <2>3, WidthsAre
<1>4. rd(x, o) = o.n % M
  BY <1>2 DEF rd
<1>5. o.n % M = o.n
  <2>1. o.n \in 0 .. (M - 1)
    BY <1>1, <1>2, <1>3
  <2> QED
    BY <1>2, <2>1, SmallRemainder
<1> QED
  BY <1>1, <1>4, <1>5, WidthsAre

LEMMA ShiftExact == ASSUME DataTypeOK, Shift PROVE LastExact'
<1> DEFINE t == CASE Now.op \in {"shll", "shal"} -> Dst * Two[Src]
                  [] Now.op = "shlr" -> Dst \div Two[Src]
                  [] Now.op = "shar" -> Signed(Dst, Size) \div Two[Src]
<1>1. n < Len(code) /\ Now.op \in Shifts /\ Becomes(Result(t))
  BY DEF Shift, At
<1>2. /\ Now.dst \in Operands /\ Now.src \in Operands /\ Now.dst.kind = "r"
      /\ Now.src.kind = "i" /\ Now.src.n < BITS["b"]
      /\ Size \in Sizes /\ Now.dst.size = Size /\ m \in Cy
  BY <1>1, NowIs DEF Formed, Size, DataTypeOK
<1>3. PICK M \in Nat : M = Modulus(Size) /\ M >= 1
  BY <1>2, SizesAre
<1>4. PICK a \in 0 .. (M - 1) : a = Dst
  BY <1>2, <1>3, Reads DEF Dst
<1>5. PICK b \in 0 .. (BITS[Size] - 1) : b = Src /\ b \in 0 .. Widest
  <2>1. Src \in 0 .. (BITS["b"] - 1)
    BY <1>2, ImmediateIs DEF Src
  <2>2. BITS[Size] >= BITS["b"] /\ BITS[Size] \in 0 .. Widest /\ BITS["b"] \in Nat
        /\ Widest \in Nat
    BY <1>2, WidthsAre DEF Sizes
  <2> QED
    BY <2>1, <2>2
<1>6. PICK d \in Nat : d = Two[b] /\ d >= 1
  BY <1>5, TwoIs
<1>7. Now.op \in Exact /\ Now.op \notin KeepFlags
  BY <1>1 DEF Shifts, Exact, KeepFlags, MulDiv
<1> DEFINE Ok(v) == Becomes(Result(v)) /\ Right(Now, m.f.cf, a, b, v % M)
<1>8. ASSUME NEW v \in Int, Ok(v) PROVE LastExact'
  BY <1>1, <1>2, <1>3, <1>4, <1>5, <1>7, <1>8, ResultExact DEF Came, Dst, Src
<1>9. a * d \in Int /\ a \div d \in Int /\ Signed(a, Size) \div d \in Int
  <2>1. a \in Int /\ Signed(a, Size) \in Int
    BY <1>2, SignedIsInt
  <2> QED
    BY <1>6, <2>1, IntDivides
<1>10. CASE Now.op \in {"shll", "shal"}
  <2>1. Becomes(Result(a * d))
    BY <1>1, <1>4, <1>5, <1>6, <1>10
  <2>2. PICK v \in Int : v = a * d /\ v = a * Two[b]
    BY <1>6, <1>9
  <2>3. Ones(v % M, Size) = MovedUp(Ones(a, Size), b, BITS[Size])
    <3>1. a \in Int
      OBVIOUS
    <3> QED
      BY <1>2, <1>3, <1>5, <2>2, <3>1, LeftIs
  <2>4. Right(Now, m.f.cf, a, b, v % M)
    BY <1>2, <1>10, <2>3 DEF Right, MovedUp
  <2> QED
    BY <1>8, <2>1, <2>2, <2>4
<1>11. CASE Now.op = "shlr"
  <2>1. Becomes(Result(a \div d))
    BY <1>1, <1>4, <1>5, <1>6, <1>11
  <2>2. Ones((a \div d) % M, Size) = {k - b : k \in Ones(a, Size)} \cap (0 .. (BITS[Size] - 1))
    BY <1>2, <1>3, <1>5, <1>6, RightIs
  <2>3. Right(Now, m.f.cf, a, b, (a \div d) % M)
    BY <1>2, <1>11, <2>2 DEF Right
  <2> QED
    BY <1>8, <1>9, <2>1, <2>3
<1>12. CASE Now.op = "shar"
  <2>1. Becomes(Result(Signed(a, Size) \div d))
    BY <1>1, <1>4, <1>5, <1>6, <1>12
  <2>2. Ones((Signed(a, Size) \div d) % M, Size)
          = {k \in 0 .. (BITS[Size] - 1) :
               (IF k + b < BITS[Size] THEN k + b ELSE BITS[Size] - 1) \in Ones(a, Size)}
    BY <1>2, <1>3, <1>5, <1>6, RightIs
  <2>3. Right(Now, m.f.cf, a, b, (Signed(a, Size) \div d) % M)
    BY <1>2, <1>12, <2>2 DEF Right
  <2> QED
    BY <1>8, <1>9, <2>1, <2>3
<1> QED
  BY <1>1, <1>10, <1>11, <1>12 DEF Shifts

LEMMA RotateExact == ASSUME DataTypeOK, Rotate PROVE LastExact'
<1> DEFINE top == BITS[Size] - 1
           left == Now.op \in {"rotl", "rotxl"}
           out == BitAt(Dst, IF left THEN top ELSE 0)
           in == IF Now.op \in {"rotxl", "rotxr"} THEN m.f.cf ELSE out
           t == IF left THEN 2 * Dst + in ELSE Dst \div 2 + in * Two[top]
           c == m.f.cf
           bits == Ones(Dst, Size)
           ring == bits \cup (IF c = 1 THEN {BITS[Size]} ELSE {})
           w == BITS[Size]
<1>1. n < Len(code) /\ Now.op \in Rotates /\ Becomes([Result(t) EXCEPT !.f.cf = out])
  BY DEF Rotate, At
<1>2. /\ Now \in Instructions /\ Formed(Now) /\ Now.dst \in Operands /\ Now.src \in Operands
      /\ Now.dst.kind = "r" /\ Now.src.kind = "i" /\ Now.src.n < BITS["b"]
      /\ Size \in Sizes /\ Now.dst.size = Size /\ m \in Cy /\ m.f \in Flags
  BY <1>1, NowIs, Fields DEF Formed, Size, DataTypeOK
<1>3. PICK M \in Nat : M = Modulus(Size) /\ M >= 1
  BY <1>2, SizesAre
<1>4. Dst \in 0 .. (Modulus(Size) - 1) /\ Dst \in Int
  <2>1. Dst \in 0 .. (Modulus(Size) - 1)
    BY <1>2, Reads DEF Dst
  <2> QED
    BY <1>3, <2>1
<1>5. c \in {0, 1} /\ top \in 0 .. Widest /\ 0 \in 0 .. Widest /\ w \in Nat
  BY <1>2, WidthsAre DEF Flags, Flag
<1>6. out \in {0, 1} /\ in \in {0, 1}
  BY <1>4, <1>5, BitIsBit
<1>7. t \in Int
  <2>1. PICK d \in Int : d = Two[top]
    BY <1>5, TwoIs
  <2>2. Dst \div 2 \in Int
    BY <1>4, IntDivides
  <2> QED
    BY <1>4, <1>6, <2>1, <2>2
<1>8. Now.op \in Exact /\ Now.op \notin KeepFlags
  BY <1>1 DEF Rotates, Shifts, Exact, KeepFlags, MulDiv
<1>9. PICK g \in Flags : g = [SETNZ(m.f, t, Size) EXCEPT !.cf = out]
  <2> HIDE DEF t, out
  <2>1. SETNZ(m.f, t, Size) \in Flags
    BY <1>2, <1>7, NZKeepsFlags
  <2> QED
    BY <1>6, <2>1 DEF Flags, Flag
<1>10. [Result(t) EXCEPT !.f.cf = out] = [wr(m, Now.dst, t) EXCEPT !.f = g]
  <2> HIDE DEF t, out
  <2>1. wr(m, Now.dst, t).f = m.f /\ wr(m, Now.dst, t) \in Cy
    BY <1>2, <1>7, Writes
  <2> QED
    BY <1>9, <2>1 DEF Result, Cy
<1>11. Came(Now, m, m, t % Modulus(Now.dst.size))
  <2>1. CASE Now.src.n # 1
    BY <1>1, <2>1 DEF Came, Faulty
  <2>2. CASE Now.src.n = 1
    <3>1. Src = 1
      BY <1>2, <2>2, ImmediateIs DEF Src
    <3>2. /\ Ones((2 * Dst + BitAt(Dst, top)) % Modulus(Size), Size) = Around(bits, 1, w)
          /\ Ones((Dst \div 2 + BitAt(Dst, 0) * Two[top]) % Modulus(Size), Size)
               = Around(bits, w - 1, w)
          /\ Ones((2 * Dst + c) % Modulus(Size), Size) = Around(ring, 1, w + 1) \ {w}
          /\ Ones((Dst \div 2 + c * Two[top]) % Modulus(Size), Size)
               = Around(ring, w + 1 - 1, w + 1) \ {w}
      <4>1. RotatesTo(Size, Dst, c)
        BY <1>2, <1>4, <1>5, RotatesAre
      <4> QED
        BY <4>1, Zenon DEF RotatesTo
    <3>3. SUFFICES Right(Now, c, Dst, 1, t % Modulus(Size))
      BY <1>2, <3>1, <3>3 DEF Came, Dst, Src
    <3>4. CASE Now.op = "rotl"
      <4>1. t = 2 * Dst + BitAt(Dst, top)
        BY <3>4
      <4> HIDE DEF t
      <4> QED
        BY <1>2, <3>2, <3>4, <4>1 DEF Right
    <3>5. CASE Now.op = "rotr"
      <4>1. t = Dst \div 2 + BitAt(Dst, 0) * Two[top]
        BY <3>5
      <4> HIDE DEF t
      <4> QED
        BY <1>2, <3>2, <3>5, <4>1 DEF Right
    <3>6. CASE Now.op = "rotxl"
      <4>1. t = 2 * Dst + c
        BY <3>6
      <4> HIDE DEF t
      <4> QED
        BY <1>2, <3>2, <3>6, <4>1 DEF Right
    <3>7. CASE Now.op = "rotxr"
      <4>1. t = Dst \div 2 + c * Two[top]
        BY <3>7
      <4> HIDE DEF t
      <4> QED
        BY <1>2, <3>2, <3>7, <4>1 DEF Right
    <3> QED
      BY <1>1, <3>4, <3>5, <3>6, <3>7 DEF Rotates
  <2> QED
    BY <2>1, <2>2
<1> HIDE DEF t, out
<1>12. ExactBetween(Now, m, [wr(m, Now.dst, t) EXCEPT !.f = g])
  BY <1>2, <1>7, <1>8, <1>9, <1>11, RegisterExact
<1> QED
  BY <1>1, <1>10, <1>12, ExactFrom

\* The operands of a multiplication or a division.
LEMMA WideOperands ==
  ASSUME DataTypeOK, n < Len(code), Now.op \in MulDiv
  PROVE  /\ Now \in Instructions /\ Formed(Now) /\ m \in Cy
         /\ Now.dst \in Operands /\ Now.src \in Operands /\ Now.dst.kind = "r"
         /\ Halved(Size, Now.dst.size) /\ Size = Now.size
         /\ Dst \in 0 .. (Modulus(Now.dst.size) - 1)
         /\ Src \in 0 .. (Modulus(Size) - 1)
         /\ Now.op \in KeepFlags
<1>1. /\ Now \in Instructions /\ Formed(Now) /\ m \in Cy
      /\ Now.dst \in Operands /\ Now.src \in Operands /\ Size \in Sizes
  BY NowIs DEF DataTypeOK, Size
<1>2. /\ Size # "l" /\ Now.dst.kind = "r" /\ Now.src.kind = "r" /\ Now.src.size = Size
      /\ Now.dst.size = IF Size = "b" THEN "w" ELSE "l"
  BY <1>1 DEF Formed, Size
<1>3. Halved(Size, Now.dst.size)
  BY <1>1, <1>2 DEF Halved, Sizes
<1>4. Dst \in 0 .. (Modulus(Now.dst.size) - 1) /\ Src \in 0 .. (Modulus(Size) - 1)
  BY <1>1, <1>2, Reads DEF Dst, Src
<1> QED
  BY <1>1, <1>2, <1>3, <1>4 DEF Size, KeepFlags

LEMMA MultiplyExact == ASSUME DataTypeOK, Multiply PROVE LastExact'
<1> DEFINE v == Dst % Modulus(Size)
           t == IF Now.op = "mulxu" THEN v * Src ELSE Signed(v, Size) * Signed(Src, Size)
<1>1. n < Len(code) /\ Now.op \in {"mulxu", "mulxs"} /\ Becomes(wr(m, Now.dst, t))
  BY DEF Multiply, At
<1>2. Now.op \in MulDiv
  BY <1>1 DEF MulDiv
<1>3. /\ Now.dst.kind = "r" /\ Halved(Size, Now.dst.size) /\ Size = Now.size
      /\ Dst \in 0 .. (Modulus(Now.dst.size) - 1) /\ Src \in 0 .. (Modulus(Size) - 1)
      /\ Now.op \in KeepFlags
  BY <1>1, <1>2, WideOperands
<1>4. Size \in Sizes /\ Modulus(Size) \in Nat /\ Modulus(Size) >= 1
      /\ Now.dst.size \in Sizes /\ Modulus(Now.dst.size) \in Nat
  BY <1>3, SizesAre DEF Halved, Sizes
<1>5. PICK x \in 0 .. (Modulus(Size) - 1), y \in 0 .. (Modulus(Size) - 1) : x = v /\ y = Src
  <2>1. Dst \in Int
    BY <1>3, <1>4
  <2> QED
    BY <1>3, <1>4, <2>1, RemainderRange
<1>6. /\ (x * y) % Modulus(Now.dst.size) = x * y
      /\ Signed((Signed(x, Size) * Signed(y, Size)) % Modulus(Now.dst.size), Now.dst.size)
           = Signed(x, Size) * Signed(y, Size)
  BY <1>3, ProductsAre
<1>7. x \in Int /\ y \in Int /\ Signed(x, Size) \in Int /\ Signed(y, Size) \in Int
  BY <1>4, SignedIsInt
<1>8. t \in Int /\ t = IF Now.op = "mulxu" THEN x * y ELSE Signed(x, Size) * Signed(y, Size)
  BY <1>5, <1>7
<1> HIDE DEF t
<1>9. Right(Now, m.f.cf, Dst, Src, t % Modulus(Now.dst.size))
  <2>1. CASE Now.op = "mulxu"
    BY <1>3, <1>5, <1>6, <1>8, <2>1 DEF Right
  <2>2. CASE Now.op = "mulxs"
    BY <1>3, <1>5, <1>6, <1>8, <2>2 DEF Right
  <2> QED
    BY <1>1, <2>1, <2>2
<1>10. Came(Now, m, m, t % Modulus(Now.dst.size))
  BY <1>9 DEF Came, Dst, Src
<1> QED
  BY <1>1, <1>3, <1>8, <1>10, WriteExact

\* The dividend and the divisor as the code takes them are those meant.
LEMMA DividendIs ==
  ASSUME NEW s, NEW d, Halved(s, d), NEW a \in 0 .. (Modulus(d) - 1)
  PROVE  /\ s = "b" => Signed(a, "l") = a
         /\ ~Negative(a, "l") => Signed(a, "l") = a
         /\ s = "w" => Signed(a, "l") = Signed(a, d)
         /\ ~Negative(a, "w") /\ s = "b" => Signed(a, d) = a
<1>1. CASE s = "b"
  <2>1. d = "w"
    BY <1>1 DEF Halved
  <2>2. PICK W \in Nat : W = Modulus("w") /\ W >= 4 /\ UINT = W * W
    BY SizesAre DEF Sizes
  <2>3. PICK K \in Nat : Modulus("l") = 2 * K /\ Modulus("l") \div 2 = K
    BY Halves DEF Sizes
  <2>4. W * W >= 2 * W /\ W * W \in Nat
    <3>1. PICK k \in Nat : W = 2 + k
      <4>1. W - 2 \in Nat /\ W = 2 + (W - 2)
        BY <2>2
      <4> QED
        BY <4>1
    <3>2. W * W = 2 * W + W * k /\ W * k \in Nat
      BY <3>1
    <3> QED
      BY <2>2, <3>2
  <2>5. K >= W
    BY <2>2, <2>3, <2>4 DEF UINT
  <2>6. a \in 0 .. (W - 1)
    BY <2>1, <2>2
  <2>7. ~Negative(a, "l")
    BY <2>2, <2>3, <2>5, <2>6 DEF Negative
  <2> QED
    BY <1>1, <2>1, <2>7 DEF Signed
<1>2. CASE s = "w"
  BY <1>2 DEF Halved, Signed
<1> QED
  BY <1>1, <1>2 DEF Halved

LEMMA DivxuRight ==
  ASSUME NEW i, i.op = "divxu", NEW c, NEW a, NEW b, NEW v,
         b = 0 => v = a,
         b # 0 /\ Fits(a, b, Modulus(i.size), FALSE) =>
           Divides(a, b, v % Modulus(i.size), v \div Modulus(i.size))
  PROVE  Right(i, c, a, b, v)
BY DEF Right, Fits, Divides

LEMMA DivxsRight ==
  ASSUME NEW i, i.op = "divxs", NEW c, NEW a, NEW b, NEW v,
         b = 0 => v = a,
         b # 0 /\ Fits(Signed(a, i.dst.size), Signed(b, i.size), Modulus(i.size), TRUE) =>
           Divides(Signed(a, i.dst.size), Signed(b, i.size),
                   Signed(v % Modulus(i.size), i.size),
                   Signed(v \div Modulus(i.size), i.size))
  PROVE  Right(i, c, a, b, v)
BY DEF Right, Fits, Divides

LEMMA DivideExact == ASSUME DataTypeOK, Divide PROVE LastExact'
<1> DEFINE a == Signed(Dst, "l")
           b == IF Now.op = "divxs" THEN Signed(Src, Size) ELSE Src
           t == Packed(a, b, Quotient(a, b), Modulus(Size))
           x == IF b = 0 THEN m ELSE wr(m, Now.dst, t)
           d == Now.dst.size
<1>1. n < Len(code) /\ Now.op \in {"divxu", "divxs"} /\ Becomes(x)
  BY DEF Divide, At, Packed
<1>2. Now.op \in MulDiv
  BY <1>1 DEF MulDiv
<1>3. /\ Now \in Instructions /\ Formed(Now) /\ m \in Cy /\ Now.dst \in Operands
      /\ Now.dst.kind = "r" /\ Halved(Size, d) /\ Size = Now.size
      /\ Dst \in 0 .. (Modulus(d) - 1) /\ Src \in 0 .. (Modulus(Size) - 1)
      /\ Now.op \in KeepFlags
  BY <1>1, <1>2, WideOperands
<1>4. Size \in Sizes /\ d \in Sizes /\ Modulus(d) = Modulus(Size) * Modulus(Size)
  BY <1>3, HalvesMultiply
<1>5. PICK H \in Nat :
        /\ H >= 2 /\ Modulus(Size) = 2 * H /\ Modulus(Size) \div 2 = H
        /\ \A v : Signed(v, Size) = IF v >= H THEN v - Modulus(Size) ELSE v
  BY <1>4, Halves
<1>6. /\ Signed(Src, Size) \in Int /\ (Signed(Src, Size) = 0 <=> Src = 0)
      /\ SizeOf(Signed(Src, Size)) <= Modulus(Size) \div 2
  BY <1>3, <1>5 DEF SizeOf
<1>7. b = 0 <=> Src = 0
  BY <1>6
<1>8. CASE b = 0
  <2>1. Landed(Now, m, m) = Dst
    BY <1>3 DEF Landed, Dst
  <2>2. Right(Now, m.f.cf, Dst, Src, Dst)
    <3>1. CASE Now.op = "divxu"
      BY <1>7, <1>8, <3>1, DivxuRight
    <3>2. CASE Now.op = "divxs"
      BY <1>7, <1>8, <3>2, DivxsRight
    <3> QED
      BY <1>1, <3>1, <3>2
  <2>3. Pre(m, Now) = m
    BY <1>3, PreIs
  <2>4. ExactBetween(Now, m, m)
    BY <2>1, <2>2, <2>3 DEF ExactBetween, Came, LanesKept, CellsKept, Dst, Src
  <2>5. Becomes(m)
    BY <1>1, <1>8
  <2> QED
    BY <1>1, <2>4, <2>5, ExactFrom
<1>9. CASE b # 0
  <2>0. a \in Int /\ b \in Int /\ Dst \in Int /\ Dst \in Nat /\ Src \in Int
    <3>1. Modulus(d) \in Nat /\ Modulus(Size) \in Nat
      BY <1>4, SizesAre
    <3>2. Dst \in Nat /\ Src \in Nat
      BY <1>3, <3>1
    <3> QED
      BY <1>6, <3>2, SignedIsInt DEF Sizes
  <2>1. t \in Int
    <3>1. PICK q \in Int : q = Quotient(a, b)
      <4> HIDE DEF a, b
      <4> QED
        BY <1>9, <2>0, QuotientTruncates
    <3>2. a - b * q \in Int /\ Modulus(Size) \in Nat /\ Modulus(Size) >= 1
      <4> HIDE DEF a, b
      <4> QED
        BY <1>4, <2>0, SizesAre
    <3>3. (a - b * q) % Modulus(Size) \in Int /\ q % Modulus(Size) \in Int
      BY <3>2, IntDivides
    <3>4. Packed(a, b, q, Modulus(Size)) \in Int
      <4> HIDE DEF a, b
      <4> QED
        BY <3>2, <3>3 DEF Packed
    <3> QED
      BY <3>1, <3>4
  <2>2. Came(Now, m, m, t % Modulus(d))
    <3>1. CASE Now.op = "divxu"
      <4>1. CASE Size = "w" /\ Negative(Dst, "l")
        BY <1>3, <3>1, <4>1 DEF Came, Faulty, Dst
      <4>2. CASE ~(Size = "w" /\ Negative(Dst, "l"))
        <5>1. a = Dst /\ b = Src
          BY <1>3, <3>1, <4>2, DividendIs DEF Halved
        <5> HIDE DEF a, b
        <5>2. Fits(Dst, Src, Modulus(Size), FALSE) =>
                /\ t % Modulus(d) = t
                /\ Divides(Dst, Src, t % Modulus(Size), t \div Modulus(Size))
          <6>1. Src \in 1 .. (Modulus(Size) - 1)
            BY <1>3, <1>5, <1>7, <1>9, <2>0
          <6> QED
            BY <1>4, <2>0, <5>1, <6>1, UnsignedDivided
        <5> HIDE DEF t
        <5>3. Right(Now, m.f.cf, Dst, Src, t % Modulus(d))
          BY <1>3, <1>7, <1>9, <3>1, <5>2, DivxuRight
        <5> QED
          BY <5>3 DEF Came, Dst, Src
      <4> QED
        BY <4>1, <4>2
    <3>2. CASE Now.op = "divxs"
      <4>1. CASE Size = "b" /\ Negative(Dst, "w")
        BY <1>3, <3>2, <4>1 DEF Came, Faulty, Dst
      <4>2. CASE ~(Size = "b" /\ Negative(Dst, "w"))
        <5>1. a = Signed(Dst, d) /\ b = Signed(Src, Size)
          BY <1>3, <3>2, <4>2, DividendIs DEF Halved
        <5> HIDE DEF a, b
        <5>2. Fits(a, b, Modulus(Size), TRUE) =>
                /\ t % Modulus(d) = t
                /\ Divides(a, b, Signed(t % Modulus(Size), Size),
                           Signed(t \div Modulus(Size), Size))
          <6> SUFFICES ASSUME Fits(a, b, Modulus(Size), TRUE)
                       PROVE  /\ t % Modulus(d) = t
                              /\ Divides(a, b, Signed(t % Modulus(Size), Size),
                                         Signed(t \div Modulus(Size), Size))
            OBVIOUS
          <6>1. SizeOf(b) <= Modulus(Size) \div 2
            BY <1>6, <5>1
          <6>2. /\ t % (Modulus(Size) * Modulus(Size)) = t
                /\ Divides(a, b, Signed(t % Modulus(Size), Size),
                           Signed(t \div Modulus(Size), Size))
            BY <1>4, <1>9, <2>0, <6>1, SignedDivided
          <6> QED
            BY <1>4, <6>2
        <5> HIDE DEF t
        <5>3. Right(Now, m.f.cf, Dst, Src, t % Modulus(d))
          BY <1>3, <1>7, <1>9, <3>2, <5>1, <5>2, DivxsRight
        <5> QED
          BY <5>3 DEF Came, Dst, Src
      <4> QED
        BY <4>1, <4>2
    <3> QED
      BY <1>1, <3>1, <3>2
  <2> HIDE DEF t
  <2>3. Becomes(wr(m, Now.dst, t))
    BY <1>1, <1>9
  <2> QED
    BY <1>1, <1>3, <2>1, <2>2, <2>3, WriteExact
<1> QED
  BY <1>8, <1>9

LEMMA BitsRight ==
  ASSUME NEW i, i.op \in {"bset", "bclr", "bnot", "bst", "bist"},
         NEW c, NEW a, NEW b, NEW v
  PROVE  Right(i, c, a, b, v)
BY DEF Right

LEMMA BitsExact ==
  ASSUME DataTypeOK, n < Len(code), Now.op \in {"bset", "bclr", "bnot", "bst", "bist"},
         NEW t \in Int, Becomes(wr(m, Now.dst, t))
  PROVE  LastExact'
<1>1. /\ m \in Cy /\ Now \in Instructions /\ Formed(Now) /\ Now.dst \in Operands
      /\ Now.dst.kind \in {"r", "ind", "abs"} /\ Now.op \in KeepFlags
  BY NowIs DEF DataTypeOK, Formed, KeepFlags
<1>2. \A p, v : Came(Now, m, p, v)
  BY BitsRight DEF Came
<1>3. CASE Now.dst.kind = "r"
  BY <1>1, <1>2, <1>3, WriteExact
<1>4. CASE Now.dst.kind \in {"ind", "abs"}
  <2>1. PICK g \in Flags : g = m.f
    BY <1>1, Fields
  <2>2. wr(m, Now.dst, t) \in Cy /\ wr(m, Now.dst, t).f = m.f
    BY <1>1, <1>4, Writes
  <2>3. wr(m, Now.dst, t) = [wr(m, Now.dst, t) EXCEPT !.f = g]
    BY <2>1, <2>2 DEF Cy
  <2>4. Pre(m, Now) = m
    BY <1>1, <1>4, PreIs
  <2>5. Now.dst.kind \in Cellular
    BY <1>4 DEF Cellular
  <2>6. ExactBetween(Now, m, [wr(Pre(m, Now), Now.dst, t) EXCEPT !.f = g])
    BY <1>1, <1>2, <2>1, <2>5, MemoryExact
  <2> QED
    BY <2>3, <2>4, <2>6, ExactFrom
<1> QED
  BY <1>1, <1>3, <1>4

LEMMA BitModifyExact == ASSUME DataTypeOK, BitModify PROVE LastExact'
<1> DEFINE a == Ones(Dst, "b")
           t == CASE Now.op = "bset" -> a \cup {BitNumber}
                  [] Now.op = "bclr" -> a \ {BitNumber}
                  [] Now.op = "bnot" -> (a \ {BitNumber}) \cup ({BitNumber} \ a)
<1>1. /\ n < Len(code) /\ Now.op \in {"bset", "bclr", "bnot"}
      /\ Becomes(wr(m, Now.dst, FromOnes(t)))
  BY DEF BitModify, At
<1> HIDE DEF t
<1>2. FromOnes(t) \in Int
  BY BitsAndNumber
<1> QED
  BY <1>1, <1>2, BitsExact

LEMMA BitStoreExact == ASSUME DataTypeOK, BitStore PROVE LastExact'
<1> DEFINE v == IF Now.op = "bst" THEN m.f.cf ELSE 1 - m.f.cf
           t == Dst + (v - BitAt(Dst, Src)) * Two[Src]
<1>1. n < Len(code) /\ Now.op \in {"bst", "bist"} /\ Becomes(wr(m, Now.dst, t))
  BY DEF BitStore, At
<1>2. Dst \in Int /\ m.f \in Flags
  BY <1>1, NowIs, Fields DEF DataTypeOK
<1>3. Src \in 0 .. Widest
  BY <1>1, CountsAre
<1>4. v \in Int /\ Two[Src] \in Int /\ BitAt(Dst, Src) \in Int
  <2>1. m.f.cf \in {0, 1}
    BY <1>2 DEF Flags, Flag
  <2>2. v \in Int
    BY <2>1
  <2>3. BitAt(Dst, Src) \in {0, 1}
    BY <1>2, <1>3, BitIsBit
  <2>4. Two[Src] \in Nat
    BY <1>3, TwoIs
  <2> QED
    BY <2>2, <2>3, <2>4
<1> HIDE DEF v
<1>5. t \in Int
  BY <1>2, <1>4
<1> HIDE DEF t
<1> QED
  BY <1>1, <1>5, BitsExact

\* What is read is of its size.
LEMMA ReadsFit ==
  ASSUME NEW x \in Cy, NEW o \in Operands, o.kind \in Cellular \cup {"r", "i"}
  PROVE  rd(x, o) \in 0 .. (Modulus(o.size) - 1) /\ rd(x, o) % Modulus(o.size) = rd(x, o)
<1>1. o.size \in Sizes /\ Modulus(o.size) \in Nat /\ Modulus(o.size) >= 1
  BY OperandsAre, SizesAre
<1>2. rd(x, o) \in 0 .. (Modulus(o.size) - 1)
  <2>1. CASE o.kind \in {"r", "i"}
    BY <2>1, Reads
  <2>2. CASE o.kind \in Cellular
    <3>1. ea(x, o) \in Int
      BY <2>2, Addresses
    <3>2. rd(x, o) = cy_read(x, o.size, ea(x, o))
      BY <2>2 DEF rd, Cellular
    <3> QED
      BY <1>1, <3>1, <3>2, ReadFits
  <2> QED
    BY <2>1, <2>2
<1> QED
  BY <1>1, <1>2, SmallRemainder

LEMMA PostIs ==
  ASSUME NEW y, NEW i, i.src.kind # "pi", i.dst.kind # "pi"
  PROVE  Post(y, i) = y
<1>1. {o \in {i.dst, i.src} : o.kind = "pi"} = {}
  OBVIOUS
<1> QED
  BY <1>1 DEF Post, Moved

\* A post-increment disturbs no lane but those of its operand, and not the
\* destination unless that is its own address register.
LEMMA PostKeeps ==
  ASSUME NEW x \in Cy, NEW y \in Cy, NEW i \in Instructions, i.op = "mov", Formed(i),
         i.src.kind = "pi", ExactBetween(i, x, y)
  PROVE  ExactBetween(i, x, Post(y, i))
<1>1. i.dst \in Operands /\ i.src \in Operands /\ i.src.n \in 0 .. 7
  BY OperandsAre DEF Instructions
<1>2. i.dst.kind = "r"
  BY DEF Formed
<1>3. {o \in {i.dst, i.src} : o.kind = "pi"} = {i.src}
  BY <1>2
<1>4. PICK d \in Int : d = 1 * Bytes(i.src.size)
  BY <1>1, OperandsAre, SizesAre DEF Sizes
<1>5. PICK z \in Cy : z = AddTo(y, i.src.n, d)
  BY <1>1, Adds
<1>6. Post(y, i) = z
  <2>1. (CHOOSE o \in {i.src} : TRUE) = i.src
    OBVIOUS
  <2> QED
    BY <1>3, <1>4, <1>5, <2>1 DEF Post, Moved
<1>7. z.mem = y.mem /\ \A j \in 0 .. 7 : j # i.src.n => z.e[j] = y.e[j]
  BY <1>1, <1>5, AddLeaves, ZenonT(60)
<1>8. i.op \in Exact \cup KeepFlags /\ i.op \notin KeepFlags
  BY DEF Exact, KeepFlags, MulDiv
<1>9. Pre(x, i) = x
  BY <1>2, <1>8, PreIs
<1>10. Came(i, x, x, Landed(i, x, z))
  <2>1. CASE i.dst.n % 8 = i.src.n
    BY <1>2, <2>1 DEF Came, Faulty
  <2>2. CASE i.dst.n % 8 # i.src.n
    <3>1. i.dst.n % 8 \in 0 .. 7
      BY <1>1, <1>2, OperandsAre
    <3>2. rd(z, i.dst) = rd(y, i.dst)
      BY <1>2, <1>7, <2>2, <3>1 DEF rd, reg_read
    <3> QED
      BY <1>2, <1>9, <3>2 DEF ExactBetween, Landed
  <2> QED
    BY <2>1, <2>2
<1>11. LanesKept(i, x, z)
  <2> SUFFICES ASSUME NEW l \in Lanes \ (LanesOf(i.dst) \cup LanesOf(i.src))
               PROVE  Lane(z, l) = Lane(x, l)
    BY DEF LanesKept
  <2>1. l[1] \in 0 .. 7 /\ l[1] # i.src.n
    BY DEF LanesOf, Lanes
  <2>2. Lane(z, l) = Lane(y, l)
    BY <1>7, <2>1 DEF Lane
  <2> QED
    BY <2>2 DEF ExactBetween, LanesKept
<1>12. CellsKept(i, x, x, z)
  BY <1>7, <1>9 DEF ExactBetween, CellsKept
<1> QED
  BY <1>6, <1>8, <1>9, <1>10, <1>11, <1>12 DEF ExactBetween

LEMMA MovExact == ASSUME DataTypeOK, Mov PROVE LastExact'
<1> DEFINE x == Pre(m, Now)
           t == rd(x, Now.src)
           y == [wr(x, Now.dst, t) EXCEPT !.f = SETNZ(@, t, Size)]
<1>1. n < Len(code) /\ Now.op = "mov" /\ Becomes(Post(y, Now))
  BY DEF Mov, At
<1>2. /\ m \in Cy /\ Now \in Instructions /\ Now.dst \in Operands /\ Now.src \in Operands
      /\ Size \in Sizes /\ Formed(Now)
  BY <1>1, NowIs DEF Size, DataTypeOK
<1>3. x \in Cy
  BY <1>2, MovesCy DEF Pre
<1>4. /\ Now.dst.kind \notin {"i", "cc", "pc", "pi"} /\ Now.src.kind \notin {"pd", "cc", "pc"}
      /\ Now.dst.size = Now.src.size /\ (Now.dst.kind = "r" \/ Now.src.kind \in {"r", "i"})
  BY <1>1, <1>2 DEF Formed, DstKept, Loads
<1>5. Now.dst.kind \in Cellular \cup {"r"} /\ Now.src.kind \in Cellular \cup {"r", "i"}
  BY <1>2, <1>4, OperandsAre
<1>6. Now.op \in Exact /\ Now.op \notin KeepFlags
  BY <1>1 DEF Exact, KeepFlags, MulDiv
<1>7. t \in Int /\ t % Modulus(Now.src.size) = t
  <2> HIDE DEF x
  <2> QED
    BY <1>2, <1>3, <1>5, Reads, ReadsFit
<1>8. Came(Now, m, x, t % Modulus(Now.dst.size))
  BY <1>1, <1>4, <1>7 DEF Came, Right
<1>9. PICK g \in Flags : g = SETNZ(wr(x, Now.dst, t).f, t, Size)
  <2> HIDE DEF x, t
  <2>1. wr(x, Now.dst, t) \in Cy
    BY <1>2, <1>3, <1>4, <1>7, Writes
  <2> QED
    BY <1>2, <1>7, <2>1, Fields, NZKeepsFlags
<1>10. y = [wr(x, Now.dst, t) EXCEPT !.f = g]
  BY <1>9
<1>11. y \in Cy
  <2> HIDE DEF x, t, y
  <2>1. wr(x, Now.dst, t) \in Cy
    BY <1>2, <1>3, <1>4, <1>7, Writes
  <2> QED
    BY <1>10, <2>1, Flagged
<1>12. ExactBetween(Now, m, y)
  <2>1. CASE Now.dst.kind = "r"
    <3>1. x = m
      BY <1>2, <1>6, <2>1, PreIs
    <3> HIDE DEF x, t, y
    <3> QED
      BY <1>2, <1>6, <1>7, <1>8, <1>10, <2>1, <3>1, RegisterExact
  <2>2. CASE Now.dst.kind \in Cellular
    <3> HIDE DEF t, y
    <3> QED
      BY <1>2, <1>6, <1>7, <1>8, <1>10, <2>2, MemoryExact
  <2> QED
    BY <1>5, <2>1, <2>2
<1> HIDE DEF y
<1>13. ExactBetween(Now, m, Post(y, Now))
  <2>1. CASE Now.src.kind = "pi"
    BY <1>1, <1>2, <1>11, <1>12, <2>1, PostKeeps
  <2>2. CASE Now.src.kind # "pi"
    <3>1. Post(y, Now) = y
      BY <1>4, <2>2, PostIs
    <3> QED
      BY <1>12, <3>1
  <2> QED
    BY <2>1, <2>2
<1> QED
  BY <1>1, <1>13, ExactFrom

LEMMA ExactNext == DataInv /\ LastExact /\ [Next]_vars => LastExact'
<1> SUFFICES ASSUME DataInv, LastExact, [Next]_vars PROVE LastExact'
  OBVIOUS
<1>0. DataTypeOK
  BY DEF DataInv
<1>1. ASSUME Now.op \notin Exact \cup KeepFlags, n' = n + 1, code' = code
      PROVE  LastExact'
  BY <1>1 DEF LastExact, Executed, Last, Now
<1> DEFINE ops == Exact \cup KeepFlags
<1>2. ops = {"mov", "add", "sub", "inc", "dec", "adds", "subs", "not", "neg", "extu", "exts",
             "bset", "bclr", "bnot", "bst", "bist"} \cup Shifts \cup Rotates \cup MulDiv
  BY DEF Exact, KeepFlags
<1> HIDE DEF ops
<1>3. CASE Sum
  BY <1>0, <1>3, SumExact
<1>4. CASE SumExtended
  BY <1>1, <1>2, <1>4 DEF SumExtended, At, Becomes, Shifts, Rotates, MulDiv, ops
<1>5. CASE Logic
  BY <1>1, <1>2, <1>5 DEF Logic, At, Becomes, Shifts, Rotates, MulDiv, ops
<1>6. CASE Mov
  BY <1>0, <1>6, MovExact
<1>7. CASE Adjust
  BY <1>0, <1>7, AdjustExact
<1>8. CASE Unary
  BY <1>0, <1>8, UnaryExact
<1>9. CASE Extend
  BY <1>0, <1>9, ExtendExact
<1>10. CASE Shift
  BY <1>0, <1>10, ShiftExact
<1>11. CASE Rotate
  BY <1>0, <1>11, RotateExact
<1>12. CASE BitModify
  BY <1>0, <1>12, BitModifyExact
<1>13. CASE BitTest
  BY <1>1, <1>2, <1>13 DEF BitTest, At, Becomes, Shifts, Rotates, MulDiv, ops
<1>14. CASE BitLoad
  BY <1>1, <1>2, <1>14 DEF BitLoad, Loads, At, Becomes, Shifts, Rotates, MulDiv, ops
<1>15. CASE BitStore
  BY <1>0, <1>15, BitStoreExact
<1>16. CASE Multiply
  BY <1>0, <1>16, MultiplyExact
<1>17. CASE Divide
  BY <1>0, <1>17, DivideExact
<1>18. CASE Tas
  BY <1>1, <1>2, <1>18 DEF Tas, At, Becomes, Shifts, Rotates, MulDiv, ops
<1>19. CASE Eepmov
  BY <1>1, <1>2, <1>19 DEF Eepmov, At, Becomes, Shifts, Rotates, MulDiv, ops
<1>20. CASE CcrOp
  BY <1>1, <1>2, <1>20 DEF CcrOp, At, Becomes, Shifts, Rotates, MulDiv, ops
<1>21. CASE Push
  BY <1>1, <1>2, <1>21 DEF Push, At, Becomes, Shifts, Rotates, MulDiv, ops
<1>22. CASE Pop
  BY <1>1, <1>2, <1>22 DEF Pop, At, Becomes, Shifts, Rotates, MulDiv, ops
<1>23. CASE Interrupt
  BY <1>1, <1>2, <1>23 DEF Interrupt, At, Becomes, Shifts, Rotates, MulDiv, ops
<1>24. CASE Rte
  BY <1>1, <1>2, <1>24 DEF Rte, At, Becomes, Shifts, Rotates, MulDiv, ops
<1>25. CASE UNCHANGED vars
  BY <1>25 DEF vars, LastExact, Executed, Last
<1> QED
  BY <1>3, <1>4, <1>5, <1>6, <1>7, <1>8, <1>9, <1>10, <1>11, <1>12, <1>13, <1>14, <1>15,
     <1>16, <1>17, <1>18, <1>19, <1>20, <1>21, <1>22, <1>23, <1>24, <1>25 DEF Next

\* Every instruction, of every program and from every start, leaves what it
\* should in its destination and all else as it was -- "an 8-bit write has to
\* leave the other 24 bits alone" (h8s.h:8-11) -- but for the cases Faulty
\* names, and quotients that have no place.
THEOREM ResultsExactHolds == Spec => []ResultsExact
<1>1. Init => LastExact
  BY DEF Init, LastExact, Executed
<1>2. DataInv /\ LastExact /\ [Next]_vars => LastExact'
  BY ExactNext
<1>3. LastExact => ResultsExact
  BY LastIsExact
<1> QED
  BY <1>1, <1>2, <1>3, DataInvHolds, PTL DEF Spec

-----------------------------------------------------------------------------
(* Numbers in limbs. *)

\* What Number says, of any code c.
Digit(c, x, side, j) == rd(x, c[j][side]) * Weight(j - 1)
NumberOf(c, x, side, k) ==
  LET upto[j \in 0 .. k] ==
        IF j = 0 THEN 0 ELSE upto[j - 1] + rd(x, c[j][side]) * Weight(j - 1)
  IN  upto[k]

LEMMA NumberIsOf ==
  ASSUME NEW x, NEW side, NEW k
  PROVE  Number(x, side, k) = NumberOf(code, x, side, k)
BY DEF Number, NumberOf

\* The first k of them are bytes.
AreDigits(c, x, side, k) ==
  \A j \in 1 .. k : rd(x, c[j][side]) \in 0 .. (Modulus("b") - 1)

LEMMA DigitsAre ==
  ASSUME NEW c, NEW x, NEW side, NEW k \in 0 .. 4, AreDigits(c, x, side, k)
  PROVE  \A j \in 1 .. k : Digit(c, x, side, j) \in Nat
<1> SUFFICES ASSUME NEW j \in 1 .. k PROVE Digit(c, x, side, j) \in Nat
  OBVIOUS
<1>1. j - 1 \in 0 .. 4
  OBVIOUS
<1>2. Weight(j - 1) \in Nat
  BY <1>1, WeightIs
<1>3. rd(x, c[j][side]) \in Nat
  <2>1. rd(x, c[j][side]) \in 0 .. (Modulus("b") - 1) /\ Modulus("b") \in Nat
    BY SizesAre DEF AreDigits, Sizes
  <2> QED
    BY <2>1
<1> QED
  BY <1>2, <1>3 DEF Digit

Adding(c, x, side, k, g) ==
  /\ g \in [0 .. k -> Nat] /\ g[0] = 0
  /\ \A j \in 1 .. k : g[j] = g[j - 1] + Digit(c, x, side, j)

LEMMA NumberIsSum ==
  ASSUME NEW c, NEW x, NEW side, NEW k \in 0 .. 4, AreDigits(c, x, side, k)
  PROVE  \E g : Adding(c, x, side, k, g) /\ NumberOf(c, x, side, k) = g[k]
<1> DEFINE V == Nat
           zero == 0
           step == [j \in 1 .. k |-> [v \in V |-> v + Digit(c, x, side, j)]]
           body(g) == [j \in 0 .. k |->
                         IF j = 0 THEN 0
                         ELSE g[j - 1] + rd(x, c[j][side]) * Weight(j - 1)]
<1>1. \A j \in 1 .. k : Digit(c, x, side, j) \in Nat
  BY DigitsAre
<1>2. Steps(k, V, step)
  BY <1>1 DEF Steps
<1>3. PICK g : Goes(k, V, zero, step, g)
  <2>1. k \in Nat /\ zero \in V
    OBVIOUS
  <2> HIDE DEF step, V, zero
  <2> QED
    BY <1>2, <2>1, Recursion
<1>4. Adding(c, x, side, k, g)
  <2>1. g \in [0 .. k -> Nat] /\ g[0] = 0
    BY <1>3 DEF Goes
  <2>2. ASSUME NEW j \in 1 .. k PROVE g[j] = g[j - 1] + Digit(c, x, side, j)
    <3>1. g[j] = step[j][g[j - 1]] /\ j - 1 \in 0 .. k
      BY <1>3 DEF Goes
    <3>2. g[j - 1] \in V
      BY <2>1, <3>1
    <3> QED
      BY <3>1, <3>2
  <2> QED
    BY <2>1, <2>2 DEF Adding
<1>5. ASSUME NEW h, Adding(c, x, side, k, h) PROVE h = body(h)
  <2>1. \A j \in 0 .. k : j # 0 => j \in 1 .. k
    OBVIOUS
  <2> QED
    BY <1>5, <2>1 DEF Adding, Digit
<1>6. ASSUME NEW h, h = body(h) PROVE Adding(c, x, side, k, h)
  <2>1. h = [j \in 0 .. k |-> h[j]] /\ h[0] = 0
        /\ \A j \in 1 .. k : h[j] = h[j - 1] + Digit(c, x, side, j)
    <3>1. \A j \in 0 .. k :
            h[j] = IF j = 0 THEN 0 ELSE h[j - 1] + Digit(c, x, side, j)
      BY <1>6 DEF Digit
    <3>2. h = [j \in 0 .. k |-> h[j]]
      BY <1>6
    <3>3. 0 \in 0 .. k /\ \A j \in 1 .. k : j \in 0 .. k /\ j # 0
      OBVIOUS
    <3> HIDE DEF body
    <3> QED
      BY <3>1, <3>2, <3>3
  <2> DEFINE T == {j \in 0 .. k : h[j] \in Nat}
  <2>2. 0 \in T
    BY <2>1
  <2>3. ASSUME NEW j \in 1 .. k, j - 1 \in T PROVE j \in T
    <3>1. h[j] = h[j - 1] + Digit(c, x, side, j) /\ h[j - 1] \in Nat
      BY <2>1, <2>3
    <3> QED
      BY <1>1, <3>1
  <2> HIDE DEF T
  <2>4. \A j \in 0 .. k : j \in T
    BY <2>2, <2>3, Induct
  <2> QED
    BY <2>1, <2>4 DEF Adding, T
<1> DEFINE u == CHOOSE h : h = body(h)
<1>7. NumberOf(c, x, side, k) = u[k]
  BY DEF NumberOf
<1>8. u = body(u)
  <2> HIDE DEF body
  <2> QED
    BY <1>4, <1>5
<1> HIDE DEF u, body
<1>9. Adding(c, x, side, k, u)
  BY <1>6, <1>8
<1> QED
  BY <1>7, <1>9

\* One more limb counts by its place.
LEMMA NumberGrows ==
  ASSUME NEW c, NEW x, NEW side, NEW k \in 1 .. 4, AreDigits(c, x, side, k)
  PROVE  /\ NumberOf(c, x, side, k)
              = NumberOf(c, x, side, k - 1) + Digit(c, x, side, k)
         /\ NumberOf(c, x, side, k - 1) \in Nat
<1>1. k \in 0 .. 4 /\ k - 1 \in 0 .. 4 /\ AreDigits(c, x, side, k - 1)
  BY DEF AreDigits
<1>2. PICK g : Adding(c, x, side, k, g) /\ NumberOf(c, x, side, k) = g[k]
  BY <1>1, NumberIsSum
<1>3. PICK h : Adding(c, x, side, k - 1, h) /\ NumberOf(c, x, side, k - 1) = h[k - 1]
  BY <1>1, NumberIsSum
<1> DEFINE S == {j \in 0 .. (k - 1) : g[j] = h[j]}
<1>4. 0 \in S
  BY <1>2, <1>3 DEF Adding
<1>5. ASSUME NEW j \in 1 .. (k - 1), j - 1 \in S PROVE j \in S
  <2>1. j \in 1 .. k /\ j \in 0 .. (k - 1)
    OBVIOUS
  <2> QED
    BY <1>2, <1>3, <1>5, <2>1 DEF Adding
<1> HIDE DEF S
<1>6. \A j \in 0 .. (k - 1) : j \in S
  <2>1. k - 1 \in Nat
    OBVIOUS
  <2> QED
    BY <1>4, <1>5, <2>1, Induct
<1>7. g[k - 1] = h[k - 1] /\ h[k - 1] \in Nat
  <2>1. k - 1 \in 0 .. (k - 1)
    OBVIOUS
  <2> QED
    BY <1>3, <1>6, <2>1 DEF S, Adding
<1> QED
  BY <1>2, <1>3, <1>7 DEF Adding

LEMMA NumberOfNone ==
  ASSUME NEW c, NEW x, NEW side
  PROVE  NumberOf(c, x, side, 0) = 0
<1>1. AreDigits(c, x, side, 0)
  BY DEF AreDigits
<1> QED
  BY <1>1, NumberIsSum DEF Adding

\* Numbers of the same limbs are the same, and have their width.
Agree(c, x, y, side, k) == \A j \in 1 .. k : rd(y, c[j][side]) = rd(x, c[j][side])

LEMMA NumbersAgree ==
  ASSUME NEW c, NEW x, NEW y, NEW side, NEW k \in 0 .. 4,
         AreDigits(c, x, side, k), Agree(c, x, y, side, k)
  PROVE  NumberOf(c, y, side, k) = NumberOf(c, x, side, k)
<1> DEFINE S == {j \in 0 .. k : NumberOf(c, y, side, j) = NumberOf(c, x, side, j)}
<1>1. 0 \in S
  BY NumberOfNone
<1>2. ASSUME NEW j \in 1 .. k, j - 1 \in S PROVE j \in S
  <2>1. j \in 1 .. 4 /\ AreDigits(c, x, side, j) /\ AreDigits(c, y, side, j)
    BY DEF AreDigits, Agree
  <2>2. Digit(c, x, side, j) = Digit(c, y, side, j)
    BY DEF Digit, Agree
  <2> QED
    BY <1>2, <2>1, <2>2, NumberGrows
<1> HIDE DEF S
<1>3. \A j \in 0 .. k : j \in S
  BY <1>1, <1>2, Induct
<1> QED
  BY <1>3 DEF S

LEMMA NumberFits ==
  ASSUME NEW c, NEW x, NEW side, NEW k \in 0 .. 4, AreDigits(c, x, side, k)
  PROVE  NumberOf(c, x, side, k) \in 0 .. (Weight(k) - 1)
<1> DEFINE S == {j \in 0 .. k : NumberOf(c, x, side, j) \in 0 .. (Weight(j) - 1)}
<1>1. 0 \in S
  BY NumberOfNone, SizesAre
<1>2. ASSUME NEW j \in 1 .. k, j - 1 \in S PROVE j \in S
  <2>1. j \in 1 .. 4 /\ AreDigits(c, x, side, j) /\ j - 1 \in 0 .. 4 /\ j \in 0 .. 4
    BY DEF AreDigits
  <2>2. PICK W \in Nat, M \in Nat : /\ W = Weight(j - 1) /\ M = Modulus("b")
                                    /\ Weight(j) = W * M
    <3>1. j = (j - 1) + 1 /\ 1 \in 0 .. 4 /\ Modulus("b") = Weight(1)
      BY SizesAre
    <3>2. Weight(j) = Weight(j - 1) * Weight(1)
      BY <2>1, <3>1, WeightsMultiply
    <3> QED
      BY <2>1, <3>1, <3>2, WeightIs
  <2>3. PICK r \in 0 .. (M - 1) : r = rd(x, c[j][side])
    BY <2>1, <2>2 DEF AreDigits
  <2>4. PICK v \in 0 .. (W - 1) : v = NumberOf(c, x, side, j - 1)
    BY <1>2, <2>2
  <2>5. NumberOf(c, x, side, j) = v + r * W
    BY <2>1, <2>2, <2>3, <2>4, NumberGrows DEF Digit
  <2>6. W * r + v < W * M
    <3>1. r \in Int /\ M \in Int /\ r < M
      OBVIOUS
    <3> QED
      BY <3>1, FewerDivisors
  <2>7. W * r = r * W /\ r * W \in Nat
    OBVIOUS
  <2> QED
    BY <2>2, <2>5, <2>6, <2>7
<1> HIDE DEF S
<1>3. \A j \in 0 .. k : j \in S
  BY <1>1, <1>2, Induct
<1> QED
  BY <1>3 DEF S

\* Writing a byte register leaves the other byte registers.
LEMMA ByteViewsApart ==
  ASSUME NEW x \in Cy, NEW k \in 0 .. 15, NEW j \in 0 .. 15, j # k, NEW v \in Int
  PROVE  reg_read(reg_write(x, "b", k, v), "b", j) = reg_read(x, "b", j)
<1>0. "b" \in Sizes
  BY DEF Sizes
<1>1. PICK p \in {0, 1} : Place("b", j) = Weight(p) /\ (p = 1 <=> j < 8)
  BY SizesAre DEF Place
<1>2. PICK q \in {0, 1} : Place("b", k) = Weight(q) /\ (q = 1 <=> k < 8)
  BY SizesAre DEF Place
<1>3. PICK l \in Lanes : l = <<j % 8, p>>
  <2>1. j % 8 \in 0 .. 7 /\ p \in 0 .. 3
    OBVIOUS
  <2>2. <<j % 8, p>> \in Lanes
    BY <2>1 DEF Lanes
  <2> QED
    BY <2>2
<1>4. ~(/\ l[1] = k % 8 /\ Weight(l[2]) >= Place("b", k)
        /\ Weight(l[2]) < Place("b", k) * Modulus("b"))
  <2> SUFFICES ASSUME j % 8 = k % 8, Weight(p) >= Weight(q),
                      Weight(p) < Weight(q) * Modulus("b")
               PROVE  FALSE
    BY <1>2, <1>3
  <2>1. p # q
    BY <1>1, <1>2
  <2>2. PICK M \in Nat : M = Modulus("b") /\ M >= 2 /\ Weight(0) = 1 /\ Weight(1) = M
    BY <1>0, SizesAre
  <2>3. CASE p = 0
    BY <2>1, <2>2, <2>3
  <2>4. CASE p = 1
    BY <2>1, <2>2, <2>4
  <2> QED
    BY <2>3, <2>4
<1>5. Lane(reg_write(x, "b", k, v), l) = Lane(x, l)
  BY <1>0, <1>4, WriteLeavesLanes
<1>6. \A y : Lane(y, l) = reg_read(y, "b", j)
  BY <1>1, <1>3 DEF Lane, reg_read
<1> QED
  BY <1>5, <1>6

\* What an addition and a subtraction of bytes leave in C.
LEMMA CarriesAre ==
  ASSUME NEW f \in Flags, NEW x \in 0 .. (Modulus("b") - 1), NEW t \in Int,
         NEW y \in 0 .. (Modulus("b") - 1)
  PROVE  /\ SETFLAGS_ADD(f, x, y, t, "b").cf = Bit(x + y >= Modulus("b"))
         /\ SETFLAGS_SUB(f, x, y, t, "b").cf = Bit(x < y)
<1>1. PICK M \in Nat : M = Modulus("b") /\ M >= 4 /\ x \in 0 .. (M - 1) /\ y \in 0 .. (M - 1)
  BY SizesAre DEF Sizes
<1>2. x % M = x /\ y % M = y
  BY <1>1, SmallRemainder
<1>3. (x + y) % UINT = x + y
  <2>1. PICK W \in Nat : UINT = W * W /\ W = M * M
    BY <1>1, SizesAre
  <2>2. PICK k \in Nat : M = 2 + k
    <3>1. M - 2 \in Nat /\ M = 2 + (M - 2)
      BY <1>1
    <3> QED
      BY <3>1
  <2>3. M * M = 2 * M + M * k /\ M * k \in Nat
    BY <2>2
  <2>4. W >= 2 * M /\ W >= 1
    BY <1>1, <2>1, <2>3
  <2>5. W * W >= W
    BY <2>4, ProductOfNat
  <2>6. PICK U \in Nat : U = UINT /\ U >= 1 /\ U >= 2 * M
    BY <1>1, <2>1, <2>4, <2>5
  <2>7. PICK z \in 0 .. (U - 1) : z = x + y
    BY <1>1, <2>6
  <2>8. z % U = z
    BY <2>6, SmallRemainder
  <2> QED
    BY <2>6, <2>7, <2>8
<1>4. Bit(x + y > M - 1) = Bit(x + y >= M)
  BY <1>1 DEF Bit
<1> DEFINE nz == SETNZ(f, t % M, "b")
<1>5. nz \in Flags
  <2>1. t % M \in Int /\ "b" \in Sizes
    BY <1>1, IntDivides DEF Sizes
  <2> HIDE DEF nz
  <2> QED
    BY <2>1, NZKeepsFlags DEF nz
<1> DEFINE with(c, v, h) == [nz EXCEPT !.cf = c, !.vf = v, !.hf = h]
<1>6. \A c, v, h : with(c, v, h).cf = c
  <2> HIDE DEF nz
  <2> QED
    BY <1>5 DEF Flags, Flag
<1>7. \E c, v, h : SETFLAGS_ADD(f, x, y, t, "b") = with(c, v, h) /\ c = Bit((x + y) % UINT > M - 1)
  BY <1>1, <1>2, Zenon DEF SETFLAGS_ADD
<1>8. \E c, v, h : SETFLAGS_SUB(f, x, y, t, "b") = with(c, v, h) /\ c = Bit(x < y)
  BY <1>1, <1>2, Zenon DEF SETFLAGS_SUB
<1> HIDE DEF with
<1> QED
  BY <1>1, <1>3, <1>4, <1>6, <1>7, <1>8

\* One limb more: what was exact but for a carry e remains so for a carry q.
CarriedIn(W, M, D, p, e, d, q, v) == D = p + (e * W) /\ d + e = (M * q) + v
CarriedOut(W, M, D, p, d, q, v) == D + (d * W) = (p + (v * W)) + ((W * M) * q)

LEMMA LimbCarries ==
  ASSUME NEW W \in Nat, NEW M \in Nat, NEW D \in Int, NEW p \in Int, NEW e \in Int,
         NEW d \in Int, NEW q \in Int, NEW v \in Int, CarriedIn(W, M, D, p, e, d, q, v)
  PROVE  CarriedOut(W, M, D, p, d, q, v)
<1>0. D = p + (e * W) /\ d + e = (M * q) + v
  BY DEF CarriedIn
<1>1. (d + e) * W = (M * q + v) * W
  BY <1>0
<1>2. (d + e) * W = d * W + e * W
  OBVIOUS
<1>3. (M * q + v) * W = (M * q) * W + v * W
  OBVIOUS
<1>4. (M * q) * W = (W * M) * q
  OBVIOUS
<1>5. d * W \in Int /\ e * W \in Int /\ v * W \in Int /\ (W * M) * q \in Int
  OBVIOUS
<1> QED
  BY <1>0, <1>1, <1>2, <1>3, <1>4, <1>5 DEF CarriedOut

\* A source of all ones takes no carry: it is lost.
Lost(k) == \E j \in 2 .. k : rd(start, code[j].src) = Modulus("b") - 1
IsAddition == code[1].op = "add"

\* What n limbs make: the sum or difference so far, but for the carry out.
MadeDst(x, k) == NumberOf(code, x, "dst", k)
Exactly(k) ==
  IF IsAddition THEN NumberOf(code, start, "dst", k) + NumberOf(code, start, "src", k)
  ELSE NumberOf(code, start, "dst", k) - NumberOf(code, start, "src", k)

LimbsAt(x, k) ==
  /\ \A j \in 1 .. Len(code) : j > k =>
       /\ rd(x, code[j].dst) = rd(start, code[j].dst)
       /\ rd(x, code[j].src) = rd(start, code[j].src)
  /\ k > 0 /\ IsAddition /\ ~Lost(k) =>
       Exactly(k) = MadeDst(x, k) + x.f.cf * Weight(k)
  /\ k = 1 /\ ~IsAddition => Exactly(k) = MadeDst(x, k) + (-x.f.cf) * Weight(k)
  /\ k > 0 /\ (k <= 2 \/ (IsAddition /\ ~Lost(k - 1))) =>
       MadeDst(x, k) = Exactly(k) % Weight(k)

LimbsInv == Limbs => LimbsAt(m, n)

LEMMA LimbsInvRight == LimbsInv => LimbsRight
BY NumberIsOf DEF LimbsInv, LimbsAt, LimbsRight, Lost, Exactly, MadeDst, IsAddition

\* The operands of limbs are bytes, the destinations registers apart.
LEMMA LimbsAre ==
  ASSUME DataTypeOK, Limbs
  PROVE  /\ Len(code) \in 1 .. 4
         /\ \A j \in 1 .. Len(code) :
              /\ code[j].dst \in Operands /\ code[j].src \in Operands
              /\ code[j].dst.kind = "r" /\ code[j].dst.size = "b" /\ code[j].dst.n \in 0 .. 15
              /\ code[j].src.kind \in {"r", "i"} /\ code[j].src.size = "b"
              /\ code[j].size = "b"
              /\ code[j].op = IF j = 1 THEN (IF IsAddition THEN "add" ELSE "sub")
                              ELSE (IF IsAddition THEN "addx" ELSE "subx")
         /\ \A x \in Cy : \A j \in 1 .. Len(code) :
              /\ rd(x, code[j].dst) \in 0 .. (Modulus("b") - 1)
              /\ rd(x, code[j].src) \in 0 .. (Modulus("b") - 1)
<1>1. Len(code) \in 1 .. 4
  BY DEF Limbs
<1>2. ASSUME NEW j \in 1 .. Len(code)
      PROVE  /\ code[j].dst \in Operands /\ code[j].src \in Operands
             /\ code[j].dst.kind = "r" /\ code[j].dst.size = "b" /\ code[j].dst.n \in 0 .. 15
             /\ code[j].src.kind \in {"r", "i"} /\ code[j].src.size = "b"
             /\ code[j].size = "b"
  <2>1. code[j] \in Instructions
    BY ElementOfSeq DEF DataTypeOK
  <2>2. code[j].dst \in Operands /\ code[j].src \in Operands
    BY <2>1 DEF Instructions
  <2>3. /\ code[j].dst.kind = "r" /\ code[j].dst.size = "b"
        /\ code[j].src.kind \in {"r", "i"} /\ code[j].src.size = "b" /\ code[j].size = "b"
    BY DEF Limbs
  <2> QED
    BY <2>2, <2>3, OperandsAre
<1>3. ASSUME NEW j \in 1 .. Len(code)
      PROVE  code[j].op = IF j = 1 THEN (IF IsAddition THEN "add" ELSE "sub")
                          ELSE (IF IsAddition THEN "addx" ELSE "subx")
  BY <1>1 DEF Limbs, IsAddition
<1>4. ASSUME NEW x \in Cy, NEW j \in 1 .. Len(code)
      PROVE  /\ rd(x, code[j].dst) \in 0 .. (Modulus("b") - 1)
             /\ rd(x, code[j].src) \in 0 .. (Modulus("b") - 1)
  BY <1>2, Reads
<1> QED
  BY <1>1, <1>2, <1>3, <1>4

\* The step of one limb disturbs no operand of a later one, and no earlier
\* destination.
LEMMA LimbLeaves ==
  ASSUME DataTypeOK, Limbs, n < Len(code), NEW t \in Int, NEW g \in Flags,
         NEW y, y = [wr(m, Now.dst, t) EXCEPT !.f = g]
  PROVE  /\ n \in 0 .. 3 /\ n + 1 \in 1 .. Len(code) /\ y \in Cy /\ y.f = g
         /\ rd(y, code[n + 1].dst) = t % Modulus("b")
         /\ \A j \in 1 .. Len(code) : j # n + 1 => rd(y, code[j].dst) = rd(m, code[j].dst)
         /\ \A j \in 1 .. Len(code) : j > n + 1 => rd(y, code[j].src) = rd(m, code[j].src)
<1>1. n \in 0 .. 3 /\ n + 1 \in 1 .. Len(code) /\ m \in Cy /\ Now = code[n + 1]
  <2>1. Len(code) \in 1 .. 4
    BY LimbsAre
  <2>2. n \in 0 .. Len(code) /\ m \in Cy
    BY DEF DataTypeOK
  <2> QED
    BY <2>1, <2>2 DEF Now
<1>2. PICK k \in 0 .. 15 : k = Now.dst.n /\ Now.dst.kind = "r" /\ Now.dst.size = "b"
                           /\ Now.dst \in Operands
  BY <1>1, LimbsAre
<1>3. PICK z \in Cy : z = wr(m, Now.dst, t) /\ z = reg_write(m, "b", k, t)
  BY <1>1, <1>2, Writes DEF wr
<1>4. y \in Cy /\ y.f = g /\ y.e = z.e
  BY <1>3, Flagged DEF Cy
<1>5. rd(y, Now.dst) = t % Modulus("b")
  <2>1. rd(y, Now.dst) = reg_read(z, "b", k)
    BY <1>2, <1>4 DEF rd, reg_read
  <2>2. "b" \in Sizes
    BY DEF Sizes
  <2>3. reg_read(reg_write(m, "b", k, t), "b", k) = t % Modulus("b")
    BY <1>1, <2>2, WritesRegister
  <2> QED
    BY <1>3, <2>1, <2>3
<1>6. ASSUME NEW o \in Operands, o.kind = "r", o.size = "b", o # Now.dst
      PROVE  rd(y, o) = rd(m, o)
  <2>1. o.n \in 0 .. 15 /\ o.n # k
    <3>1. \A p \in Operands : p.kind = "r" => p = [kind |-> "r", size |-> p.size, n |-> p.n]
      BY DEF Operands
    <3> QED
      BY <1>2, <1>6, <3>1, OperandsAre
  <2>2. reg_read(reg_write(m, "b", k, t), "b", o.n) = reg_read(m, "b", o.n)
    BY <1>1, <2>1, ByteViewsApart
  <2> QED
    BY <1>3, <1>4, <1>6, <2>2 DEF rd, reg_read
<1>7. ASSUME NEW o \in Operands, o.kind = "i"
      PROVE  rd(y, o) = rd(m, o)
  BY <1>7 DEF rd
<1>8. ASSUME NEW j \in 1 .. Len(code), j # n + 1
      PROVE  rd(y, code[j].dst) = rd(m, code[j].dst)
  <2>1. code[j].dst # Now.dst
    BY <1>1, <1>8 DEF Limbs
  <2> QED
    BY <1>6, <2>1, LimbsAre
<1>9. ASSUME NEW j \in 1 .. Len(code), j > n + 1
      PROVE  rd(y, code[j].src) = rd(m, code[j].src)
  <2>1. code[j].src # Now.dst
    BY <1>1, <1>9 DEF Limbs
  <2> QED
    BY <1>6, <1>7, <2>1, LimbsAre
<1> QED
  BY <1>1, <1>4, <1>5, <1>8, <1>9

\* The numbers before and after one limb more.
LEMMA LimbMade ==
  ASSUME DataTypeOK, Limbs, LimbsAt(m, n), n < Len(code), NEW t \in Int, NEW g \in Flags,
         NEW y, y = [wr(m, Now.dst, t) EXCEPT !.f = g], NEW e \in Int,
         t = (IF IsAddition THEN Dst + Src ELSE Dst - Src) + e,
         Exactly(n) = MadeDst(m, n) + (e * Weight(n))
  PROVE  /\ MadeDst(y, n + 1) = Exactly(n + 1) % Weight(n + 1)
         /\ Exactly(n + 1)
              = MadeDst(y, n + 1) + (Weight(n + 1) * (t \div Modulus("b")))
<1>1. /\ n \in 0 .. 3 /\ n + 1 \in 1 .. Len(code) /\ y \in Cy
      /\ rd(y, code[n + 1].dst) = t % Modulus("b")
      /\ \A j \in 1 .. Len(code) : j # n + 1 => rd(y, code[j].dst) = rd(m, code[j].dst)
  BY LimbLeaves
<1>2. n + 1 \in 1 .. 4 /\ n \in 0 .. 4 /\ (n + 1) - 1 = n /\ Len(code) \in 1 .. 4
  BY <1>1, LimbsAre
<1>3. PICK W \in Nat, M \in Nat :
        /\ W = Weight(n) /\ M = Modulus("b") /\ Weight(n + 1) = W * M
        /\ W >= 1 /\ M >= 1 /\ W * M \in Nat /\ W * M >= 1
  <2>1. 1 \in 0 .. 4 /\ n + 1 \in 0 .. 4 /\ Modulus("b") = Weight(1)
    BY <1>2, SizesAre
  <2>2. Weight(n + 1) = Weight(n) * Weight(1)
    BY <1>2, <2>1, WeightsMultiply
  <2>3. PICK W \in Nat, M \in Nat : W = Weight(n) /\ W >= 1 /\ M = Weight(1) /\ M >= 1
    BY <1>2, <2>1, WeightIs
  <2>4. W * M \in Nat /\ W * M >= 1
    BY <2>3, ProductOfNat
  <2> QED
    BY <2>1, <2>2, <2>3, <2>4
<1>4. PICK q \in Int, v \in 0 .. (M - 1) : t \div M = q /\ t % M = v /\ t = (M * q) + v
  BY <1>3, Division
<1>5. m \in Cy /\ start \in Cy
  BY DEF DataTypeOK
<1>6. ASSUME NEW x \in Cy, NEW side \in {"dst", "src"} PROVE AreDigits(code, x, side, n + 1)
  <2> SUFFICES ASSUME NEW j \in 1 .. (n + 1)
               PROVE  rd(x, code[j][side]) \in 0 .. (Modulus("b") - 1)
    BY DEF AreDigits
  <2>1. j \in 1 .. Len(code)
    BY <1>1, <1>2
  <2> QED
    BY <2>1, LimbsAre
<1>7. PICK x0 \in Int, y0 \in Int :
        /\ x0 = Dst /\ x0 = rd(start, code[n + 1].dst)
        /\ y0 = Src /\ y0 = rd(start, code[n + 1].src)
  <2>1. /\ rd(m, code[n + 1].dst) = rd(start, code[n + 1].dst)
        /\ rd(m, code[n + 1].src) = rd(start, code[n + 1].src)
    BY <1>1, <1>2, SMTT(30) DEF LimbsAt
  <2> QED
    BY <2>1, NowIs DEF Dst, Src, Now
<1> DEFINE of(x, side, j) == NumberOf(code, x, side, j)
<1>16. ASSUME NEW x \in Cy, NEW side \in {"dst", "src"}
       PROVE  /\ of(x, side, n + 1) = of(x, side, n) + rd(x, code[n + 1][side]) * W
              /\ of(x, side, n) \in Int
  <2>1. AreDigits(code, x, side, n + 1)
    BY <1>6, <1>16
  <2>2. /\ of(x, side, n + 1) = of(x, side, (n + 1) - 1) + Digit(code, x, side, n + 1)
        /\ of(x, side, (n + 1) - 1) \in Nat
    BY <1>2, <2>1, NumberGrows
  <2>3. Digit(code, x, side, n + 1) = rd(x, code[n + 1][side]) * W
    BY <1>2, <1>3 DEF Digit
  <2> HIDE DEF of
  <2> QED
    BY <1>2, <2>2, <2>3
<1>8. PICK a \in Int, b \in Int :
        /\ a = of(start, "dst", n) /\ b = of(start, "src", n)
        /\ of(start, "dst", n + 1) = a + (x0 * W)
        /\ of(start, "src", n + 1) = b + (y0 * W)
  <2> HIDE DEF of
  <2>1. of(start, "dst", n + 1) = of(start, "dst", n) + x0 * W /\ of(start, "dst", n) \in Int
    BY <1>5, <1>7, <1>16
  <2>2. of(start, "src", n + 1) = of(start, "src", n) + y0 * W /\ of(start, "src", n) \in Int
    BY <1>5, <1>7, <1>16
  <2> QED
    BY <2>1, <2>2
<1>9. PICK p \in Int : p = MadeDst(m, n) /\ MadeDst(y, n + 1) = p + (v * W)
  <2>1. AreDigits(code, m, "dst", n)
    <3>1. AreDigits(code, m, "dst", n + 1)
      BY <1>5, <1>6
    <3>2. \A j \in 1 .. n : j \in 1 .. (n + 1)
      BY <1>2, SMTT(30)
    <3> QED
      BY <3>1, <3>2 DEF AreDigits
  <2>2. of(y, "dst", n) = of(m, "dst", n)
    <3>1. ASSUME NEW j \in 1 .. n PROVE rd(y, code[j]["dst"]) = rd(m, code[j]["dst"])
      <4>1. PICK L \in 1 .. 4 : L = Len(code) /\ n + 1 \in 1 .. L
        BY <1>1, <1>2
      <4>2. j \in 1 .. L /\ j # n + 1
        BY <1>1, <4>1, SMTT(30)
      <4> QED
        BY <1>1, <4>1, <4>2
    <3>2. n \in 0 .. 4
      BY <1>2
    <3>3. Agree(code, m, y, "dst", n)
      BY <3>1 DEF Agree
    <3> QED
      BY <2>1, <3>2, <3>3, NumbersAgree, SMTT(30)
  <2> HIDE DEF of
  <2>3. of(y, "dst", n + 1) = of(y, "dst", n) + v * W /\ of(y, "dst", n) \in Int
    BY <1>1, <1>3, <1>4, <1>16
  <2> QED
    BY <2>2, <2>3 DEF MadeDst, of
<1>10. PICK D \in Int, d \in Int :
         /\ d + e = (M * q) + v
         /\ Exactly(n + 1) = D + (d * W) /\ D = p + (e * W)
  <2>0. Exactly(n) = p + (e * W)
    BY <1>3, <1>9
  <2>1. CASE IsAddition
    <3>1. PICK D \in Int, d \in Int : D = a + b /\ d = x0 + y0
      OBVIOUS
    <3>2. (a + (x0 * W)) + (b + (y0 * W)) = D + (d * W)
      BY <3>1, SMTT(30)
    <3>3. t = d + e
      BY <1>7, <2>1, <3>1
    <3>4. Exactly(n) = D /\ Exactly(n + 1) = D + (d * W)
      BY <1>8, <2>1, <3>1, <3>2 DEF Exactly
    <3> QED
      BY <1>4, <2>0, <3>1, <3>3, <3>4
  <2>2. CASE ~IsAddition
    <3>1. PICK D \in Int, d \in Int : D = a - b /\ d = x0 - y0
      OBVIOUS
    <3>2. (a + (x0 * W)) - (b + (y0 * W)) = D + (d * W)
      BY <3>1, SMTT(30)
    <3>3. t = d + e
      BY <1>7, <2>2, <3>1
    <3>4. Exactly(n) = D /\ Exactly(n + 1) = D + (d * W)
      BY <1>8, <2>2, <3>1, <3>2 DEF Exactly
    <3> QED
      BY <1>4, <2>0, <3>1, <3>3, <3>4
  <2> QED
    BY <2>1, <2>2
<1>11. D + (d * W) = (p + (v * W)) + ((W * M) * q)
  <2>1. v \in Int /\ W \in Nat /\ M \in Nat
    BY <1>3
  <2>2. CarriedIn(W, M, D, p, e, d, q, v)
    BY <1>10 DEF CarriedIn
  <2>3. CarriedOut(W, M, D, p, d, q, v)
    BY <2>1, <2>2, LimbCarries, Zenon
  <2> QED
    BY <2>3 DEF CarriedOut
<1>12. PICK V \in Nat : V = W * M /\ V >= 1
  BY <1>3
<1>13. PICK r \in 0 .. (V - 1) : r = p + v * W
  <2>1. MadeDst(y, n + 1) \in 0 .. (Weight(n + 1) - 1)
    <3>1. n + 1 \in 0 .. 4 /\ AreDigits(code, y, "dst", n + 1)
      BY <1>1, <1>2, <1>6
    <3> QED
      BY <3>1, NumberFits DEF MadeDst
  <2> QED
    BY <1>3, <1>9, <1>12, <2>1
<1>14. Exactly(n + 1) = (V * q) + r
  <2>1. Exactly(n + 1) = r + (V * q)
    BY <1>10, <1>11, <1>12, <1>13
  <2>2. V * q \in Int
    BY SMTT(30)
  <2> QED
    BY <2>1, <2>2
<1>15. ((V * q) + r) % V = r
  BY <1>12, QuotientIs
<1> QED
  BY <1>3, <1>4, <1>9, <1>12, <1>13, <1>14, <1>15

LEMMA LimbsAfter ==
  ASSUME NEW y, Becomes(y), LimbsAt(y, n + 1)
  PROVE  LimbsInv'
<1>1. m' = y /\ n' = n + 1 /\ code' = code /\ start' = start
  BY DEF Becomes
<1> QED
  BY <1>1 DEF LimbsInv, LimbsAt, Exactly, MadeDst, Lost, IsAddition

\* What the operands after this limb hold.
LEMMA LimbsUntouched ==
  ASSUME DataTypeOK, Limbs, LimbsAt(m, n), n < Len(code), NEW t \in Int, NEW g \in Flags,
         NEW y, y = [wr(m, Now.dst, t) EXCEPT !.f = g]
  PROVE  \A j \in 1 .. Len(code) : j > n + 1 =>
           /\ rd(y, code[j].dst) = rd(start, code[j].dst)
           /\ rd(y, code[j].src) = rd(start, code[j].src)
<1> SUFFICES ASSUME NEW j \in 1 .. Len(code), j > n + 1
             PROVE  /\ rd(y, code[j].dst) = rd(start, code[j].dst)
                    /\ rd(y, code[j].src) = rd(start, code[j].src)
  OBVIOUS
<1>1. n \in 0 .. 3
  BY LimbLeaves
<1>2. j > n /\ j # n + 1 /\ j \in Int
  BY <1>1
<1>3. rd(y, code[j].dst) = rd(m, code[j].dst) /\ rd(y, code[j].src) = rd(m, code[j].src)
  BY <1>2, LimbLeaves
<1> QED
  BY <1>2, <1>3 DEF LimbsAt

\* Operands of this limb: bytes, and those it started with.
LEMMA LimbOperands ==
  ASSUME DataTypeOK, Limbs, LimbsAt(m, n), n < Len(code)
  PROVE  /\ Dst \in 0 .. (Modulus("b") - 1) /\ Src \in 0 .. (Modulus("b") - 1)
         /\ Src = rd(start, code[n + 1].src) /\ Size = "b"
         /\ Now.op = IF n = 0 THEN (IF IsAddition THEN "add" ELSE "sub")
                     ELSE (IF IsAddition THEN "addx" ELSE "subx")
         /\ n \in 0 .. 3 /\ m.f \in Flags /\ m.f.cf \in {0, 1}
<1>1. Len(code) \in 1 .. 4 /\ n \in 0 .. Len(code) /\ m \in Cy
  BY LimbsAre DEF DataTypeOK
<1>2. n + 1 \in 1 .. Len(code) /\ n \in 0 .. 3 /\ (n + 1 = 1 <=> n = 0) /\ n + 1 > n
  <2>1. PICK L \in 1 .. 4 : L = Len(code)
    BY <1>1
  <2>2. n \in 0 .. L /\ n < L
    BY <1>1, <2>1
  <2> QED
    BY <2>1, <2>2
<1>3. Now = code[n + 1]
  BY DEF Now
<1>4. m.f \in Flags /\ m.f.cf \in {0, 1}
  BY <1>1, Fields DEF Flags, Flag
<1>5. /\ code[n + 1].size = "b"
      /\ code[n + 1].op = IF n + 1 = 1 THEN (IF IsAddition THEN "add" ELSE "sub")
                          ELSE (IF IsAddition THEN "addx" ELSE "subx")
      /\ rd(m, code[n + 1].dst) \in 0 .. (Modulus("b") - 1)
      /\ rd(m, code[n + 1].src) \in 0 .. (Modulus("b") - 1)
  BY <1>1, <1>2, LimbsAre
<1>6. rd(m, code[n + 1].src) = rd(start, code[n + 1].src)
  BY <1>2 DEF LimbsAt
<1> QED
  BY <1>2, <1>3, <1>4, <1>5, <1>6 DEF Dst, Src, Size

\* The carry out of two bytes is the quotient.
LEMMA CarryIsQuotient ==
  ASSUME NEW x \in 0 .. (Modulus("b") - 1), NEW y \in 0 .. (Modulus("b") - 1)
  PROVE  /\ (x + y) \div Modulus("b") = Bit(x + y >= Modulus("b"))
         /\ (x - y) \div Modulus("b") = -Bit(x < y)
<1>1. PICK M \in Nat : M = Modulus("b") /\ M >= 4
  BY SizesAre DEF Sizes
<1>2. ASSUME NEW z \in Int, NEW q \in {-1, 0, 1}, z - (M * q) \in 0 .. (M - 1)
      PROVE  z \div M = q
  <2>1. PICK r \in 0 .. (M - 1) : r = z - (M * q)
    BY <1>2
  <2>2. (M * q) + r = z
    <3>1. M * q \in Int
      BY <1>1
    <3> QED
      BY <2>1, <3>1
  <2>3. ((M * q) + r) \div M = q
    <3>1. M >= 1 /\ q \in Int
      BY <1>1
    <3> QED
      BY <3>1, QuotientIs
  <2> QED
    BY <2>2, <2>3
<1>3. x + y \in Int /\ x - y \in Int /\ x \in 0 .. (M - 1) /\ y \in 0 .. (M - 1)
  BY <1>1
<1>4. (x + y) \div M = Bit(x + y >= M)
  <2>1. CASE x + y >= M
    <3>1. (x + y) - (M * 1) \in 0 .. (M - 1)
      BY <1>1, <1>3, <2>1
    <3> QED
      BY <1>2, <1>3, <2>1, <3>1 DEF Bit
  <2>2. CASE ~(x + y >= M)
    <3>1. (x + y) - (M * 0) \in 0 .. (M - 1)
      BY <1>1, <1>3, <2>2
    <3> QED
      BY <1>2, <1>3, <2>2, <3>1 DEF Bit
  <2> QED
    BY <2>1, <2>2
<1>5. (x - y) \div M = -Bit(x < y)
  <2>1. CASE x < y
    <3>1. (x - y) - (M * (-1)) \in 0 .. (M - 1)
      BY <1>1, <1>3, <2>1
    <3> QED
      BY <1>2, <1>3, <2>1, <3>1 DEF Bit
  <2>2. CASE ~(x < y)
    <3>1. (x - y) - (M * 0) \in 0 .. (M - 1)
      BY <1>1, <1>3, <2>2
    <3> QED
      BY <1>2, <1>3, <2>2, <3>1 DEF Bit
  <2> QED
    BY <2>1, <2>2
<1> QED
  BY <1>1, <1>4, <1>5

LEMMA FirstLimb == ASSUME DataTypeOK, LimbsInv, Limbs, Sum PROVE LimbsInv'
<1> DEFINE t == IF Now.op = "add" THEN Dst + Src ELSE Dst - Src
           f == IF Now.op = "add" THEN SETFLAGS_ADD(m.f, Dst, Src, t, Size)
                ELSE SETFLAGS_SUB(m.f, Dst, Src, t, Size)
           y == [wr(m, Now.dst, t) EXCEPT !.f = f]
<1>1. n < Len(code) /\ Now.op \in Sums /\ LimbsAt(m, n)
      /\ Becomes(IF Now.op = "cmp" THEN [m EXCEPT !.f = f] ELSE y)
  BY DEF Sum, At, LimbsInv
<1>2. /\ Dst \in 0 .. (Modulus("b") - 1) /\ Src \in 0 .. (Modulus("b") - 1)
      /\ Size = "b" /\ n \in 0 .. 3 /\ m.f \in Flags
      /\ Now.op = IF n = 0 THEN (IF IsAddition THEN "add" ELSE "sub")
                  ELSE (IF IsAddition THEN "addx" ELSE "subx")
  BY <1>1, LimbOperands
<1>3. n = 0 /\ Now.op # "cmp" /\ (Now.op = "add" <=> IsAddition)
  BY <1>1, <1>2 DEF Sums
<1>4. Becomes(y)
  BY <1>1, <1>3
<1>5. PICK M \in Nat : M = Modulus("b") /\ Weight(1) = M
  BY SizesAre DEF Sizes
<1>6. Dst \in Int /\ Src \in Int /\ t \in Int
  BY <1>2, <1>5
<1>7. f \in Flags /\ f.cf = Bit(IF IsAddition THEN Dst + Src >= M ELSE Dst < Src)
  <2> HIDE DEF t
  <2>1. f \in Flags
    BY <1>2, <1>6, MacrosKeepFlags DEF Sizes
  <2>2. /\ SETFLAGS_ADD(m.f, Dst, Src, t, "b").cf = Bit(Dst + Src >= Modulus("b"))
        /\ SETFLAGS_SUB(m.f, Dst, Src, t, "b").cf = Bit(Dst < Src)
    BY <1>2, <1>6, CarriesAre
  <2> QED
    BY <1>2, <1>3, <1>5, <2>1, <2>2
<1>8. t \div M = IF IsAddition THEN f.cf ELSE -f.cf
  <2>1. /\ (Dst + Src) \div M = Bit(Dst + Src >= M)
        /\ (Dst - Src) \div M = -Bit(Dst < Src)
    BY <1>2, <1>5, CarryIsQuotient
  <2> HIDE DEF f
  <2> QED
    BY <1>3, <1>7, <2>1
<1> DEFINE z == y
<1>9. z = [wr(m, Now.dst, t) EXCEPT !.f = f] /\ Becomes(z)
  BY <1>4
<1>10. t = (IF IsAddition THEN Dst + Src ELSE Dst - Src) + 0
  BY <1>3, <1>6
<1> HIDE DEF t, f, y, z
<1>11. Exactly(n) = MadeDst(m, n) + (0 * Weight(n))
  <2>1. Exactly(0) = 0 /\ MadeDst(m, 0) = 0
    BY NumberOfNone DEF Exactly, MadeDst
  <2>2. Weight(0) = 1
    BY SizesAre
  <2> QED
    BY <1>3, <2>1, <2>2
<1>12. /\ MadeDst(z, n + 1) = Exactly(n + 1) % Weight(n + 1)
       /\ Exactly(n + 1) = MadeDst(z, n + 1) + (Weight(n + 1) * (t \div Modulus("b")))
  <2>1. 0 \in Int
    OBVIOUS
  <2> QED
    BY <1>1, <1>6, <1>7, <1>9, <1>10, <1>11, <2>1, LimbMade
<1>13. z.f = f
  BY <1>1, <1>6, <1>7, <1>9, LimbLeaves
<1>14. n + 1 = 1
  BY <1>3
<1>15. f.cf \in Int /\ M * f.cf = f.cf * M /\ M * (-f.cf) = (-f.cf) * M
  <2>1. f.cf \in Int
    BY <1>7 DEF Flags, Flag
  <2> QED
    BY <2>1
<1>16. LimbsAt(z, n + 1)
  <2>1. \A j \in 1 .. Len(code) : j > n + 1 =>
           /\ rd(z, code[j].dst) = rd(start, code[j].dst)
           /\ rd(z, code[j].src) = rd(start, code[j].src)
    BY <1>1, <1>6, <1>7, <1>9, LimbsUntouched
  <2>2. IsAddition => Exactly(n + 1) = MadeDst(z, n + 1) + z.f.cf * Weight(n + 1)
    BY <1>5, <1>8, <1>12, <1>13, <1>14, <1>15
  <2>3. ~IsAddition => Exactly(n + 1) = MadeDst(z, n + 1) + (-z.f.cf) * Weight(n + 1)
    BY <1>5, <1>8, <1>12, <1>13, <1>14, <1>15
  <2> QED
    BY <1>12, <2>1, <2>2, <2>3 DEF LimbsAt
<1> QED
  BY <1>9, <1>16, LimbsAfter

\* A carry lost stays lost.
LEMMA LostGrows ==
  ASSUME n \in 1 .. 3
  PROVE  /\ Lost(n) => Lost(n + 1)
         /\ ~Lost(1)
         /\ ~Lost(n + 1) => rd(start, code[n + 1].src) # Modulus("b") - 1
<1>1. \A k \in 2 .. n : k \in 2 .. (n + 1)
  OBVIOUS
<1>2. n + 1 \in 2 .. (n + 1)
  OBVIOUS
<1>3. 2 .. 1 = {}
  OBVIOUS
<1> QED
  BY <1>1, <1>2, <1>3 DEF Lost

LEMMA NextLimb == ASSUME DataTypeOK, LimbsInv, Limbs, SumExtended PROVE LimbsInv'
<1> DEFINE c == m.f.cf
           t == IF Now.op = "addx" THEN Dst + Src + c ELSE Dst - Src - c
           f == IF Now.op = "addx" THEN SETFLAGS_ADD(m.f, Dst, Src + c, t, Size)
                ELSE SETFLAGS_SUB(m.f, Dst, Src - c, t, Size)
           z == [wr(m, Now.dst, t) EXCEPT !.f = f]
           e == IF IsAddition THEN c ELSE -c
<1>1. n < Len(code) /\ Now.op \in {"addx", "subx"} /\ LimbsAt(m, n) /\ Becomes(z)
  BY DEF SumExtended, At, LimbsInv
<1>2. /\ Dst \in 0 .. (Modulus("b") - 1) /\ Src \in 0 .. (Modulus("b") - 1)
      /\ Size = "b" /\ n \in 0 .. 3 /\ m.f \in Flags /\ c \in {0, 1}
      /\ Src = rd(start, code[n + 1].src)
      /\ Now.op = IF n = 0 THEN (IF IsAddition THEN "add" ELSE "sub")
                  ELSE (IF IsAddition THEN "addx" ELSE "subx")
  BY <1>1, LimbOperands
<1>3. n \in 1 .. 3 /\ (Now.op = "addx" <=> IsAddition)
  BY <1>1, <1>2
<1>4. PICK M \in Nat : M = Modulus("b")
  BY SizesAre DEF Sizes
<1>5. Dst \in Int /\ Src \in Int /\ c \in Int /\ t \in Int /\ e \in Int
      /\ t = (IF IsAddition THEN Dst + Src ELSE Dst - Src) + e
  BY <1>2, <1>3, <1>4
<1> HIDE DEF c
<1>6. f \in Flags
  <2> HIDE DEF t
  <2> QED
    BY <1>2, <1>5, MacrosKeepFlags DEF Sizes
<1>7. z = [wr(m, Now.dst, t) EXCEPT !.f = f]
  OBVIOUS
<1>8. ASSUME IsAddition, Src # M - 1 PROVE t \div M = f.cf
  <2>1. Src + c \in 0 .. (M - 1) /\ Dst + (Src + c) = t
    BY <1>2, <1>3, <1>4, <1>5, <1>8
  <2>2. (Dst + (Src + c)) \div M = Bit(Dst + (Src + c) >= M)
    BY <1>2, <1>4, <2>1, CarryIsQuotient
  <2>3. f = SETFLAGS_ADD(m.f, Dst, Src + c, t, "b")
    BY <1>2, <1>3, <1>8
  <2> HIDE DEF t, f
  <2>4. SETFLAGS_ADD(m.f, Dst, Src + c, t, "b").cf = Bit(Dst + (Src + c) >= M)
    BY <1>2, <1>4, <1>5, <2>1, CarriesAre
  <2> QED
    BY <2>1, <2>2, <2>3, <2>4
<1> HIDE DEF t, f, z
<1>9. z.f = f
  BY <1>1, <1>5, <1>6, <1>7, LimbLeaves
<1>10. ASSUME (IsAddition /\ ~Lost(n)) \/ (~IsAddition /\ n = 1)
       PROVE  /\ MadeDst(z, n + 1) = Exactly(n + 1) % Weight(n + 1)
              /\ Exactly(n + 1) = MadeDst(z, n + 1) + (Weight(n + 1) * (t \div Modulus("b")))
  <2>1. Exactly(n) = MadeDst(m, n) + (e * Weight(n))
    BY <1>1, <1>3, <1>10 DEF LimbsAt, c
  <2> HIDE DEF e
  <2> QED
    BY <1>1, <1>5, <1>6, <1>7, <2>1, LimbMade
<1>11. ASSUME IsAddition, ~Lost(n + 1)
       PROVE  Exactly(n + 1) = MadeDst(z, n + 1) + (z.f.cf * Weight(n + 1))
  <2>1. ~Lost(n) /\ Src # M - 1
    BY <1>2, <1>3, <1>4, <1>11, LostGrows
  <2>2. PICK q \in Int, W \in Nat : q = f.cf /\ W = Weight(n + 1)
    <3>1. f.cf \in Int
      BY <1>6 DEF Flags, Flag
    <3>2. n + 1 \in 0 .. 4
      BY <1>3
    <3> QED
      BY <3>1, <3>2, WeightIs
  <2>3. W * q = q * W
    OBVIOUS
  <2>4. t \div Modulus("b") = q
    BY <1>4, <1>8, <1>11, <2>1, <2>2
  <2>5. Exactly(n + 1) = MadeDst(z, n + 1) + (W * q)
    <3>1. Exactly(n + 1) = MadeDst(z, n + 1) + (Weight(n + 1) * (t \div Modulus("b")))
      BY <1>10, <1>11, <2>1, Zenon
    <3>2. Exactly(n + 1) = MadeDst(z, n + 1) + (W * (t \div Modulus("b")))
      BY <2>2, <3>1
    <3> QED
      BY <2>4, <3>2
  <2> QED
    BY <1>9, <2>2, <2>3, <2>5
<1>12. ASSUME n + 1 <= 2 \/ (IsAddition /\ ~Lost((n + 1) - 1))
       PROVE  MadeDst(z, n + 1) = Exactly(n + 1) % Weight(n + 1)
  <2>1. (n + 1) - 1 = n /\ (n + 1 <= 2 => n = 1)
    BY <1>3
  <2>2. (IsAddition /\ ~Lost(n)) \/ (~IsAddition /\ n = 1)
    <3>1. n = 1 => ~Lost(n)
      BY <1>3, LostGrows
    <3>2. (IsAddition /\ ~Lost((n + 1) - 1)) => (IsAddition /\ ~Lost(n))
      BY <2>1
    <3> QED
      BY <1>12, <2>1, <3>1, <3>2, Zenon
  <2> QED
    BY <1>10, <2>2
<1>13. LimbsAt(z, n + 1)
  <2>1. \A j \in 1 .. Len(code) : j > n + 1 =>
           /\ rd(z, code[j].dst) = rd(start, code[j].dst)
           /\ rd(z, code[j].src) = rd(start, code[j].src)
    BY <1>1, <1>5, <1>6, <1>7, LimbsUntouched, SMTT(30)
  <2>2. n + 1 # 1
    BY <1>3
  <2> QED
    BY <1>11, <1>12, <2>1, <2>2 DEF LimbsAt
<1> QED
  BY <1>1, <1>13, LimbsAfter

-----------------------------------------------------------------------------
(* Arithmetic in bytes. *)

LEMMA LimbsFromStart == Init => LimbsInv
<1> SUFFICES ASSUME Init, Limbs PROVE LimbsAt(m, n)
  BY DEF LimbsInv
<1>1. n = 0 /\ m = start
  BY DEF Init
<1>2. ~(n > 0) /\ n # 1
  BY <1>1
<1> QED
  BY <1>1, <1>2 DEF LimbsAt

LEMMA LimbsNext == DataInv /\ LimbsInv /\ [Next]_vars => LimbsInv'
<1> SUFFICES ASSUME DataInv, LimbsInv, [Next]_vars PROVE LimbsInv'
  OBVIOUS
<1>1. DataTypeOK
  BY DEF DataInv
<1>2. CASE UNCHANGED vars
  <2>1. m' = m /\ n' = n /\ code' = code /\ start' = start
    BY <1>2 DEF vars
  <2> QED
    BY <2>1 DEF LimbsInv, LimbsAt, Limbs, Exactly, MadeDst, Lost, IsAddition
<1>3. CASE Next
  <2>1. code' = code /\ n < Len(code)
    BY <1>3 DEF Next, Mov, Sum, SumExtended, Logic, Adjust, Unary, Extend, Shift, Rotate,
       BitModify, BitTest, BitLoad, BitStore, Multiply, Divide, Tas, Eepmov, CcrOp, Push,
       Pop, Interrupt, Rte, At, Becomes
  <2>2. CASE ~Limbs
    <3>1. ~Limbs'
      BY <2>1, <2>2 DEF Limbs
    <3> QED
      BY <3>1 DEF LimbsInv
  <2>3. CASE Limbs
    <3>1. Now.op \in {"add", "sub", "addx", "subx"}
      <4>1. LimbsAt(m, n)
        BY <2>3 DEF LimbsInv
      <4> QED
        BY <1>1, <2>1, <2>3, <4>1, LimbOperands
    <3>2. Sum \/ SumExtended
      BY <1>3, <3>1 DEF Next, Mov, Logic, Adjust, Unary, Extend, Shift, Rotate,
         BitModify, BitTest, BitLoad, BitStore, Multiply, Divide, Tas, Eepmov, CcrOp, Push,
         Pop, Interrupt, Rte, At, Loads, Rotates, Stepped, MulDiv, Shifts
    <3> QED
      BY <1>1, <2>3, <3>2, FirstLimb, NextLimb
  <2> QED
    BY <2>2, <2>3
<1> QED
  BY <1>2, <1>3

\* Numbers longer than a register, added or subtracted byte by byte, come out
\* right as far as the carry is kept: two bytes always, and up to four of an
\* addition in which no source byte past the first is all ones
\* (emit.py:242-250).
THEOREM LimbsHold == Spec => []LimbsRight
<1>1. LimbsInv => LimbsRight
  BY LimbsInvRight
<1>2. Init => LimbsInv
  BY LimbsFromStart
<1>3. DataInv /\ LimbsInv /\ [Next]_vars => LimbsInv'
  BY LimbsNext
<1>4. Spec => []DataInv
  BY DataInvHolds
<1> QED
  BY <1>1, <1>2, <1>3, <1>4, PTL DEF Spec
-----------------------------------------------------------------------------
(* The frame of an interrupt. *)

\* What is on top of the stack after an interrupt, unpacked as rte unpacks
\* it, is the flags and the PC of the computation interrupted; the stack
\* pointer rte leaves is the old one, and the other registers were not touched.
FrameHeld(x, y) ==
  LET t == cy_read(y, "l", y.e[7])
  IN  /\ CY_CCR_SET(y.f, t \div Weight(3)) = x.f
      /\ Cell(t) = x.pc
      /\ (y.e[7] + 4) % UINT = x.e[7]
      /\ \A k \in 0 .. 6 : y.e[k] = x.e[k]

InterruptSaves == Executed({"interrupt"}) => FrameHeld(before, m)

\* A stack pointer moved down and up again is where it was, across 0 too.
LEMMA MovedBack ==
  ASSUME NEW v \in 0 .. (UINT - 1), NEW d \in Int
  PROVE  (((v - d) % UINT) + d) % UINT = v
<1>0. UINT \in Nat /\ UINT >= 1
  BY SizesAre
<1>1. PICK q \in Int, r \in 0 .. (UINT - 1) : (v - d) % UINT = r /\ v - d = UINT * q + r
  <2>1. v - d \in Int
    BY <1>0
  <2> QED
    BY <1>0, <2>1, Division
<1>2. r + d = v + UINT * (-q) /\ v \in Int /\ -q \in Int
  BY <1>0, <1>1
<1>3. (v + UINT * (-q)) % UINT = v % UINT
  BY <1>0, <1>2, RemainderShifts
<1>4. v % UINT = v
  BY <1>0, SmallRemainder
<1> QED
  BY <1>1, <1>2, <1>3, <1>4

\* A byte above an address, wrapped to a long, comes apart again: the address
\* whole, where the cells divide the space, and of the byte what fits it.
LEMMA FrameApart ==
  ASSUME NEW k \in Nat, Weight(3) = MEM * k,
         NEW c \in Nat, NEW a \in 0 .. (MEM - 1)
  PROVE  LET t == (c * Weight(3) + a) % UINT
         IN  t \div Weight(3) = c % Modulus("b") /\ Cell(t) = a
<1> DEFINE t == (c * Weight(3) + a) % UINT
<1>0. /\ MEM \in Nat /\ MEM >= 4 /\ MEM <= Weight(3)
      /\ Weight(3) \in Nat /\ Weight(3) >= 1
      /\ Modulus("b") \in Nat /\ Modulus("b") >= 1
      /\ UINT \in Nat /\ UINT >= 1
  BY MemoryAssumption, WeightsAre, SizesAre DEF Sizes
<1>1. PICK W \in Nat : W = Weight(3)
  BY <1>0
<1>2. PICK M \in Nat : M = Modulus("b")
  BY <1>0
<1>3. UINT = W * M
  <2>1. Weight(4) = Weight(3) * Weight(1)
    BY WeightsMultiply
  <2> QED
    BY <1>1, <1>2, <2>1, WeightIs, SizesAre
<1>4. PICK q \in Int, u \in 0 .. (M - 1) : c % M = u /\ c = M * q + u
  <2>1. M >= 1 /\ c \in Int
    BY <1>0, <1>2
  <2>2. PICK q \in Int, r \in 0 .. (M - 1) : c \div M = q /\ c % M = r /\ c = M * q + r
    BY <2>1, Division, ZenonT(30)
  <2> QED
    BY <2>2
<1>5. W * u + a \in 0 .. (W * M - 1)
  <2>1. u < M /\ a \in 0 .. (W - 1) /\ u \in Int
    BY <1>0, <1>1, <1>4
  <2>2. W * u + a < W * M
    BY <2>1, FewerDivisors
  <2>3. W * u \in Nat
    BY <2>1
  <2> QED
    BY <2>1, <2>2, <2>3
<1>6. c * W + a = (W * M) * q + (W * u + a)
  <2>1. c * W = (M * q + u) * W
    BY <1>4
  <2>2. (M * q + u) * W = (W * M) * q + W * u
    BY <1>4
  <2> QED
    BY <2>1, <2>2
<1>7. t = W * u + a
  <2>1. W * M \in Nat /\ W * M >= 1
    BY <1>0, <1>3
  <2>2. ((W * M) * q + (W * u + a)) % (W * M) = W * u + a
    BY <1>5, <2>1, QuotientIs
  <2> QED
    BY <1>1, <1>3, <1>6, <2>2
<1> HIDE DEF t
<1>8. t \div W = u
  <2>1. a \in 0 .. (W - 1) /\ W >= 1 /\ u \in Int
    BY <1>0, <1>1, <1>4
  <2> QED
    BY <1>7, <2>1, QuotientIs
<1>9. Cell(t) = a
  <2>1. PICK p \in Int : p = k * u
    BY <1>4
  <2>2. W * u = MEM * p
    BY <1>0, <1>1, <1>4, <2>1
  <2>3. (MEM * p + a) % MEM = a
    <3>1. MEM \in Nat /\ MEM >= 1
      BY <1>0
    <3> QED
      BY <3>1, QuotientIs
  <2> QED
    BY <1>7, <2>2, <2>3 DEF Cell
<1> QED
  BY <1>1, <1>2, <1>4, <1>8, <1>9 DEF t

\* Bits of the CCR lie in its byte.
LEMMA CcrInAByte ==
  ASSUME NEW f \in Flags, NEW g \in Flags
  PROVE  CY_CCR_SET(g, CY_CCR_GET(f) % Modulus("b")) = f
<1> DEFINE v == CY_CCR_GET(f)
<1>1. v \in Nat
  BY BitsAndNumber DEF CY_CCR_GET
<1> HIDE DEF v
<1>2. ASSUME NEW q \in Flag PROVE BitAt(v % Modulus("b"), CCRBIT[q]) = BitAt(v, CCRBIT[q])
  <2>1. BITS["b"] \in 0 .. Widest /\ CCRBIT[q] \in Nat /\ CCRBIT[q] < BITS["b"] /\ v \in Int
    BY <1>1, CcrAssumption, WidthsAre DEF Widest
  <2> QED
    BY <2>1, BitsOfRemainder DEF Modulus
<1>3. CY_CCR_SET(g, v % Modulus("b")) = CY_CCR_SET(g, v)
  BY <1>2 DEF CY_CCR_SET
<1>4. CY_CCR_SET(g, v) = f
  BY CcrComesBack DEF v
<1> QED
  BY <1>3, <1>4 DEF v

LEMMA FrameWritten ==
  ASSUME NEW k \in Nat, Weight(3) = MEM * k, DataTypeOK, Interrupt
  PROVE  FrameHeld(m, m')
<1> DEFINE x == AddTo(m, 7, -4)
           c == CY_CCR_GET(m.f)
           frame == c * Weight(3) + Cell(m.pc)
           y == cy_write(x, "l", x.e[7], frame)
           target == Cell(cy_read(y, "l", Src))
           z == [y EXCEPT !.f.iff = 1, !.pc = target]
<1>1. m' = z
  BY DEF Interrupt, Becomes
<1>2. m \in Cy /\ x \in Cy /\ "l" \in Sizes /\ m.f \in Flags
      /\ m.e[7] \in 0 .. (UINT - 1) /\ x.e[7] \in Int
  <2>1. m \in Cy /\ x \in Cy
    BY Adds DEF DataTypeOK
  <2> QED
    BY <2>1, Fields DEF Sizes
<1>3. c \in Nat /\ Weight(3) \in Nat
  BY BitsAndNumber, WeightsAre DEF CY_CCR_GET
<1>4. m.pc \in 0 .. (MEM - 1) /\ Cell(m.pc) = m.pc
  <2>1. m.pc \in 0 .. (MEM - 1) /\ MEM \in Nat /\ MEM >= 1
    BY <1>2, MemoryAssumption DEF Cy
  <2> QED
    BY <2>1, SmallRemainder DEF Cell
<1>5. x.e[7] = (m.e[7] - 4) % UINT /\ \A r \in 0 .. 6 : x.e[r] = m.e[r]
  <2>1. m.e \in [0 .. 7 -> 0 .. (UINT - 1)]
    BY <1>2 DEF Cy, Registers32
  <2>2. x.e = [m.e EXCEPT ![7] = (m.e[7] + (-4)) % UINT]
    BY <1>2 DEF AddTo, Cy
  <2>3. m.e[7] + (-4) = m.e[7] - 4
    BY <1>2, SizesAre
  <2> QED
    BY <2>1, <2>2, <2>3
<1> HIDE DEF x, c
<1>6. frame \in Int
  BY <1>3, <1>4
<1>7. y \in Cy /\ y.e = x.e /\ cy_read(y, "l", x.e[7]) = frame % UINT
  <2>1. Modulus("l") = UINT
    BY DEF UINT
  <2> HIDE DEF frame
  <2> QED
    BY <1>2, <1>6, <2>1, WritesMemory, ReadsBack
<1> HIDE DEF y, target
<1>8. z.e = x.e /\ z.mem = y.mem /\ z.f \in Flags
  BY <1>7 DEF Cy, Flags, Flag
<1>9. cy_read(z, "l", x.e[7]) = frame % UINT
  <2>1. cy_read(z, "l", x.e[7]) = cy_read(y, "l", x.e[7])
    BY <1>8 DEF cy_read
  <2> QED
    BY <1>7, <2>1
<1> DEFINE t == frame % UINT
<1>10. t \div Weight(3) = c % Modulus("b") /\ Cell(t) = m.pc
  BY <1>3, <1>4, FrameApart
<1> HIDE DEF z, t
<1>11. CY_CCR_SET(z.f, t \div Weight(3)) = m.f
  BY <1>2, <1>8, <1>10, CcrInAByte DEF c
<1>12. (z.e[7] + 4) % UINT = m.e[7]
  BY <1>2, <1>5, <1>8, MovedBack
<1> QED
  BY <1>1, <1>5, <1>8, <1>9, <1>10, <1>11, <1>12 DEF FrameHeld, t

LEMMA SavedNext ==
  ASSUME NEW k \in Nat, Weight(3) = MEM * k
  PROVE  DataInv /\ InterruptSaves /\ [Next]_vars => InterruptSaves'
<1> SUFFICES ASSUME DataInv, InterruptSaves, [Next]_vars PROVE InterruptSaves'
  OBVIOUS
<1>1. CASE Interrupt
  <2>1. FrameHeld(m, m')
    BY <1>1, FrameWritten DEF DataInv
  <2>2. before' = m
    BY <1>1 DEF Interrupt, Becomes
  <2> QED
    BY <2>1, <2>2 DEF InterruptSaves
<1>2. CASE UNCHANGED vars
  BY <1>2 DEF vars, InterruptSaves, Executed, Last
<1>3. ASSUME Now.op # "interrupt", n' = n + 1, code' = code PROVE InterruptSaves'
  BY <1>3 DEF InterruptSaves, Executed, Last, Now
<1>4. CASE Sum
  BY <1>3, <1>4 DEF Sum, Sums, At, Becomes
<1>5. CASE SumExtended
  BY <1>3, <1>5 DEF SumExtended, At, Becomes
<1>6. CASE Logic
  BY <1>3, <1>6 DEF Logic, At, Becomes
<1>7. CASE Mov
  BY <1>3, <1>7 DEF Mov, At, Becomes
<1>8. CASE Adjust
  BY <1>3, <1>8 DEF Adjust, At, Becomes
<1>9. CASE Unary
  BY <1>3, <1>9 DEF Unary, At, Becomes
<1>10. CASE Extend
  BY <1>3, <1>10 DEF Extend, At, Becomes
<1>11. CASE Shift
  BY <1>3, <1>11 DEF Shift, Shifts, At, Becomes
<1>12. CASE Rotate
  BY <1>3, <1>12 DEF Rotate, Rotates, At, Becomes
<1>13. CASE BitModify
  BY <1>3, <1>13 DEF BitModify, At, Becomes
<1>14. CASE BitTest
  BY <1>3, <1>14 DEF BitTest, At, Becomes
<1>15. CASE BitLoad
  BY <1>3, <1>15 DEF BitLoad, Loads, At, Becomes
<1>16. CASE BitStore
  BY <1>3, <1>16 DEF BitStore, At, Becomes
<1>17. CASE Multiply
  BY <1>3, <1>17 DEF Multiply, At, Becomes
<1>18. CASE Divide
  BY <1>3, <1>18 DEF Divide, At, Becomes
<1>19. CASE Tas
  BY <1>3, <1>19 DEF Tas, At, Becomes
<1>20. CASE Eepmov
  BY <1>3, <1>20 DEF Eepmov, At, Becomes
<1>21. CASE CcrOp
  BY <1>3, <1>21 DEF CcrOp, At, Becomes
<1>22. CASE Push
  BY <1>3, <1>22 DEF Push, At, Becomes
<1>23. CASE Pop
  BY <1>3, <1>23 DEF Pop, At, Becomes
<1>24. CASE Rte
  BY <1>3, <1>24 DEF Rte, At, Becomes
<1> QED
  BY <1>1, <1>2, <1>4, <1>5, <1>6, <1>7, <1>8, <1>9, <1>10, <1>11, <1>12, <1>13, <1>14,
     <1>15, <1>16, <1>17, <1>18, <1>19, <1>20, <1>21, <1>22, <1>23, <1>24 DEF Next

\* An interrupt taken at any point of any code leaves in its frame all that
\* rte needs to go on as if nothing had happened (io.c:81-91, emit.py:484-487):
\* every flag and the mask, the PC, the stack pointer.  The cells are to divide
\* the 24 bits of an address, as the 16 MB of the source do.
THEOREM FrameComesBack ==
  ASSUME NEW k \in Nat, Weight(3) = MEM * k
  PROVE  Spec => []InterruptSaves
<1>1. Init => InterruptSaves
  BY DEF Init, InterruptSaves, Executed
<1>2. DataInv /\ InterruptSaves /\ [Next]_vars => InterruptSaves'
  BY SavedNext
<1>3. Spec => []DataInv
  BY DataInvHolds
<1> QED
  BY <1>1, <1>2, <1>3, PTL DEF Spec
=============================================================================
