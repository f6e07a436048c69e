------------------------------ MODULE LcdProofs ------------------------------
(***************************************************************************)
(* Proofs about Lcd.tla: for every panel, every number of grey levels and  *)
(* runs of any length.                                                     *)
(***************************************************************************)
EXTENDS Lcd, SequenceTheorems, TLAPS

-----------------------------------------------------------------------------
(* The addresses of the frame. *)

Rows == 0 .. (LCD_H - 1)
Columns == 0 .. (STRIDE - 1)
At(x, y) == y * STRIDE + x

\* A row below another ends below it.
LEMMA RowsApart ==
  ASSUME NEW y \in Nat, NEW z \in Nat, y < z, NEW s \in Nat, NEW x \in 0 .. (s - 1)
  PROVE  y * s + x < z * s
<1>1. PICK d \in Nat : z = y + 1 + d
  <2>1. z - y - 1 \in Nat /\ z = y + 1 + (z - y - 1)
    OBVIOUS
  <2> QED
    BY <2>1
<1>2. z * s = y * s + s + d * s /\ y * s \in Nat /\ d * s \in Nat
  BY <1>1
<1> HIDE DEF Columns
<1>3. x < s /\ x \in Nat
  OBVIOUS
<1> QED
  BY <1>2, <1>3

\* A byte of the frame is in one row and one column of it.
LEMMA PlaceIsUnique ==
  ASSUME STRIDE \in Nat, NEW x \in Columns, NEW u \in Columns, NEW y \in Nat, NEW z \in Nat,
         At(x, y) = At(u, z)
  PROVE  x = u /\ y = z
<1>1. y * STRIDE \in Nat /\ z * STRIDE \in Nat /\ x \in Nat /\ u \in Nat
  BY DEF Columns
<1>2. ~(y < z)
  <2>1. y < z => y * STRIDE + x < z * STRIDE
    BY RowsApart DEF Columns
  <2> QED
    BY <1>1, <2>1 DEF At
<1>3. ~(z < y)
  <2>1. z < y => z * STRIDE + u < y * STRIDE
    BY RowsApart DEF Columns
  <2> QED
    BY <1>1, <2>1 DEF At
<1>4. y = z
  BY <1>2, <1>3
<1> QED
  BY <1>1, <1>4 DEF At

Frame == 0 .. (STRIDE * LCD_H - 1)

LEMMA PlaceInFrame ==
  ASSUME STRIDE \in Nat, LCD_H \in Nat, NEW x \in Columns, NEW y \in Rows
  PROVE  At(x, y) \in Frame
<1>1. y * STRIDE + x < LCD_H * STRIDE
  BY RowsApart DEF Rows, Columns
<1>2. y * STRIDE \in Nat /\ x \in Nat /\ LCD_H * STRIDE = STRIDE * LCD_H
      /\ STRIDE * LCD_H \in Nat
  BY DEF Rows, Columns
<1> QED
  BY <1>1, <1>2 DEF At, Frame

-----------------------------------------------------------------------------
(* The dots of a byte. *)

LEMMA Division ==
  ASSUME NEW v \in Nat, NEW d \in Nat, d >= 1
  PROVE  \E q \in Nat, r \in 0 .. (d - 1) :
           v \div d = q /\ v % d = r /\ v = d * q + r
<1> DEFINE q == v \div d
           r == v % d
<1>1. q \in Int /\ r \in Int /\ v = d * q + r /\ r >= 0 /\ r < d
  OBVIOUS
<1> HIDE DEF q, r
<1>2. q \in Nat
  <2> SUFFICES ASSUME q < 0 PROVE FALSE
    BY <1>1
  <2>1. PICK k \in Nat : q = -1 - k
    <3>1. -1 - q \in Nat /\ q = -1 - (-1 - q)
      BY <1>1
    <3> QED
      BY <3>1
  <2>2. d * q = -d - d * k /\ d * k \in Nat
    BY <2>1
  <2> QED
    BY <1>1, <2>2
<1>3. \E p \in Nat, s \in 0 .. (d - 1) : q = p /\ r = s /\ v = d * p + s
  BY <1>1, <1>2
<1> QED
  BY <1>3 DEF q, r

\* It is the only number of times the divisor goes in.
LEMMA QuotientIs ==
  ASSUME NEW v \in Nat, NEW d \in Nat, d >= 1,
         NEW q \in Nat, NEW r \in 0 .. (d - 1), v = d * q + r
  PROVE  v \div d = q /\ v % d = r
<1>1. PICK p \in Nat, s \in 0 .. (d - 1) :
        v \div d = p /\ v % d = s /\ v = d * p + s
  BY Division
<1>2. v = p * d + s /\ v = q * d + r
  BY <1>1
<1>3. ~(p < q)
  <2>1. p < q => p * d + s < q * d
    BY RowsApart
  <2>2. q * d \in Nat
    OBVIOUS
  <2> QED
    BY <1>2, <2>1, <2>2
<1>4. ~(q < p)
  <2>1. q < p => q * d + r < p * d
    BY RowsApart
  <2>2. p * d \in Nat
    OBVIOUS
  <2> QED
    BY <1>2, <2>1, <2>2
<1>5. p = q
  BY <1>3, <1>4
<1>6. s = r
  BY <1>2, <1>5
<1> QED
  BY <1>1, <1>5, <1>6

LEMMA DivideTwice ==
  ASSUME NEW v \in Nat, NEW c \in Nat, c >= 1, NEW d \in Nat, d >= 1
  PROVE  v \div (c * d) = (v \div c) \div d
<1>1. PICK p \in Nat, s \in 0 .. (c - 1) : v \div c = p /\ v = c * p + s
  BY Division
<1>2. PICK q \in Nat, t \in 0 .. (d - 1) : p \div d = q /\ p = d * q + t
  BY Division
<1>3. c * d \in Nat /\ c * d >= 1
  <2>1. PICK e \in Nat : d = 1 + e
    <3>1. d - 1 \in Nat /\ d = 1 + (d - 1)
      OBVIOUS
    <3> QED
      BY <3>1
  <2>2. c * d = c + c * e /\ c * e \in Nat
    BY <2>1
  <2> QED
    BY <2>2
<1>4. v = (c * d) * q + (t * c + s)
  <2>1. c * p = c * (d * q) + c * t
    <3>1. \A x, y \in Nat : c * (x + y) = c * x + c * y
      OBVIOUS
    <3>2. d * q \in Nat
      OBVIOUS
    <3> QED
      BY <1>2, <3>1, <3>2
  <2>2. c * (d * q) = (c * d) * q /\ c * t = t * c
    OBVIOUS
  <2>3. (c * d) * q \in Nat /\ t * c \in Nat
    OBVIOUS
  <2> QED
    BY <1>1, <2>1, <2>2, <2>3
<1>5. t * c + s \in 0 .. (c * d - 1)
  <2>1. t * c + s < d * c
    BY RowsApart
  <2>2. t * c \in Nat /\ d * c = c * d
    OBVIOUS
  <2> QED
    BY <1>3, <2>1, <2>2
<1>6. v \div (c * d) = q
  BY <1>3, <1>4, <1>5, QuotientIs
<1> QED
  BY <1>1, <1>2, <1>6

\* What goes in at least t times is at least t of the divisor.
LEMMA AtLeast ==
  ASSUME NEW c \in Nat, NEW q \in Nat, NEW t \in Nat, NEW r \in Nat, t <= q
  PROVE  c * t <= c * q + r
<1>1. PICK d \in Nat : q = t + d
  <2>1. q - t \in Nat /\ q = t + (q - t)
    OBVIOUS
  <2> QED
    BY <2>1
<1>2. c * q = c * t + c * d /\ c * d \in Nat /\ c * t \in Nat
  BY <1>1
<1> QED
  BY <1>2

\* A byte is its four dots, leftmost first.
LEMMA DotsMakeTheByte ==
  ASSUME NEW v \in Byte
  PROVE  LET dot(j) == (v \div Weight[j + 1]) % LEVELS
         IN  v = ((dot(0) * LEVELS + dot(1)) * LEVELS + dot(2)) * LEVELS + dot(3)
<1> DEFINE L == LEVELS
<1>1. L \in Nat /\ L >= 1 /\ v \in Nat /\ v < L * (L * L * L)
  BY PanelAssumption DEF Byte, BASE, Weight
<1> HIDE DEF L
<1>2. PICK q1 \in Nat, r0 \in 0 .. (L - 1) :
        v \div L = q1 /\ v % L = r0 /\ v = L * q1 + r0
  BY <1>1, Division
<1>3. PICK q2 \in Nat, r1 \in 0 .. (L - 1) :
        q1 \div L = q2 /\ q1 % L = r1 /\ q1 = L * q2 + r1
  BY <1>1, Division
<1>4. PICK q3 \in Nat, r2 \in 0 .. (L - 1) :
        q2 \div L = q3 /\ q2 % L = r2 /\ q2 = L * q3 + r2
  BY <1>1, Division
<1>5. v \div (L * L) = q2 /\ v \div (L * L * L) = q3 /\ v \div 1 = v
  <2>1. v \div (L * L) = q2
    <3>1. v \div (L * L) = (v \div L) \div L
      BY <1>1, DivideTwice, ZenonT(30)
    <3> QED
      BY <1>2, <1>3, <3>1
  <2>2. L * L \in Nat /\ L * L >= 1
    BY <1>1, AtLeast
  <2>3. v \div ((L * L) * L) = (v \div (L * L)) \div L
    BY <1>1, <2>2, DivideTwice, ZenonT(30)
  <2>4. v \div 1 = v
    BY <1>1
  <2> QED
    BY <1>4, <2>1, <2>3, <2>4
<1>6. q3 < L
  <2> SUFFICES ASSUME L <= q3 PROVE FALSE
    BY <1>1
  <2>1. L * L <= q2
    BY <1>1, <1>4, AtLeast
  <2>2. L * L \in Nat
    BY <1>1
  <2>3. L * (L * L) <= q1
    BY <1>1, <1>3, <2>1, <2>2, AtLeast
  <2>4. L * (L * L) \in Nat
    BY <1>1, <2>2
  <2>5. L * (L * (L * L)) <= v
    BY <1>1, <1>2, <2>3, <2>4, AtLeast
  <2>6. L * (L * (L * L)) = L * (L * L * L) /\ L * (L * L * L) \in Nat
    BY <1>1
  <2> QED
    BY <1>1, <2>5, <2>6
<1>7. q3 % L = q3
  <2>1. q3 = L * 0 + q3 /\ q3 \in 0 .. (L - 1)
    BY <1>1, <1>6
  <2> QED
    BY <1>1, <2>1, QuotientIs
<1> DEFINE dot(j) == (v \div Weight[j + 1]) % L
<1>8. dot(0) = q3 /\ dot(1) = r2 /\ dot(2) = r1 /\ dot(3) = r0
  BY <1>2, <1>3, <1>4, <1>5, <1>7 DEF Weight, L
<1> HIDE DEF dot
<1>9. v = ((dot(0) * L + dot(1)) * L + dot(2)) * L + dot(3)
  <2>1. q2 = q3 * L + r2 /\ q1 = q2 * L + r1 /\ v = q1 * L + r0
    BY <1>1, <1>2, <1>3, <1>4
  <2> QED
    BY <1>8, <2>1
<1> QED
  BY <1>9 DEF L, dot

-----------------------------------------------------------------------------
(* The invariant. *)

\* The cursor is behind the run, and each byte of the run that has not been
\* written over is where it was put.
Drawn ==
  /\ reg[R_X] = Column(Len(run) + 1)
  /\ reg[R_Y] < LCD_H =>
       \A k \in 1 .. Len(run) :
         Column(k) < STRIDE /\ LastAt(k) => vram[At(Column(k), reg[R_Y])] = run[k]

LcdInv == TypeOK /\ Drawn

LEMMA PanelSizes ==
  /\ STRIDE \in Nat /\ STRIDE >= 1 /\ LCD_H \in Nat
  /\ INDEXES \in Nat /\ R_X \in 0 .. (INDEXES - 1) /\ R_Y \in 0 .. (INDEXES - 1)
  /\ R_DATA \in 0 .. (INDEXES - 1) /\ INDEXES >= 1
  /\ R_X # R_Y /\ R_X # R_DATA /\ R_Y # R_DATA
  /\ BASE \in Nat /\ BASE >= 1 /\ STRIDE <= BASE /\ 0 \in Byte /\ Byte \subseteq Nat
<1>1. LEVELS \in Nat
  BY PanelAssumption
<1>2. BASE \in Nat
  BY <1>1 DEF BASE, Weight
<1>3. STRIDE \in 1 .. BASE /\ LCD_H \in 1 .. BASE /\ INDEXES \in Nat
  BY PanelAssumption
<1>4. R_X \in 0 .. (INDEXES - 1) /\ R_Y \in 0 .. (INDEXES - 1)
      /\ R_DATA \in 0 .. (INDEXES - 1)
      /\ R_X # R_Y /\ R_X # R_DATA /\ R_Y # R_DATA
  BY PanelAssumption
<1> QED
  BY <1>2, <1>3, <1>4 DEF Byte

\* The column counts round the row, wherever it was started.
LEMMA ColumnCounts ==
  ASSUME TypeOK, NEW k \in Nat, k >= 1
  PROVE  Column(k + 1) = NextColumn(Column(k)) /\ Column(k) \in Nat
<1>1. from \in Nat /\ STRIDE \in Nat /\ STRIDE >= 1
  BY PanelSizes DEF TypeOK
<1>2. CASE k = 1
  BY <1>1, <1>2 DEF Column, NextColumn
<1>3. CASE k # 1
  <2> DEFINE a == from + k - 1
  <2>1. a \in Nat /\ a + 1 = from + (k + 1) - 1
    BY <1>1
  <2>2. Column(k) = a % STRIDE /\ Column(k + 1) = (a + 1) % STRIDE
    BY <1>3, <2>1 DEF Column
  <2> HIDE DEF a
  <2>3. PICK q \in Nat, r \in 0 .. (STRIDE - 1) :
          a % STRIDE = r /\ a = STRIDE * q + r
    BY <1>1, <2>1, Division
  <2>4. (a + 1) % STRIDE = (r + 1) % STRIDE
    <3>1. CASE r + 1 < STRIDE
      <4>1. a + 1 = STRIDE * q + (r + 1) /\ r + 1 = STRIDE * 0 + (r + 1)
        BY <1>1, <2>1, <2>3
      <4>2. r + 1 \in 0 .. (STRIDE - 1) /\ a + 1 \in Nat
        BY <1>1, <2>1, <3>1
      <4>3. (a + 1) % STRIDE = r + 1
        BY <1>1, <4>1, <4>2, QuotientIs
      <4>4. (r + 1) % STRIDE = r + 1
        BY <1>1, <4>1, <4>2, QuotientIs
      <4> QED
        BY <4>3, <4>4
    <3>2. CASE r + 1 = STRIDE
      <4>1. a + 1 = STRIDE * (q + 1) + 0 /\ r + 1 = STRIDE * 1 + 0
        BY <1>1, <2>1, <2>3, <3>2
      <4>2. 0 \in 0 .. (STRIDE - 1) /\ a + 1 \in Nat /\ r + 1 \in Nat /\ q + 1 \in Nat
        BY <1>1, <2>1
      <4>3. (a + 1) % STRIDE = 0
        BY <1>1, <4>1, <4>2, QuotientIs
      <4>4. (r + 1) % STRIDE = 0
        BY <1>1, <4>1, <4>2, QuotientIs
      <4> QED
        BY <4>3, <4>4
    <3> QED
      BY <1>1, <3>1, <3>2
  <2> QED
    BY <2>2, <2>3, <2>4 DEF NextColumn
<1> QED
  BY <1>2, <1>3

LEMMA LcdInitInv == Init => LcdInv
<1> SUFFICES ASSUME Init PROVE LcdInv
  OBVIOUS
<1>1. TypeOK
  BY PanelSizes DEF Init, TypeOK
<1>2. Drawn
  BY PanelSizes DEF Init, Drawn, Column
<1> QED
  BY <1>1, <1>2 DEF LcdInv

LEMMA PortKeeps ==
  ASSUME LcdInv, WritePort
  PROVE  LcdInv'
<1>1. PICK v \in Values : index' = v % INDEXES
  BY DEF WritePort
<1>2. UNCHANGED <<reg, vram, from, run>>
  BY DEF WritePort
<1>3. v \in Nat
  BY PanelAssumption, PanelSizes
<1>4. index' \in 0 .. (INDEXES - 1)
  <2>1. PICK q \in Nat, r \in 0 .. (INDEXES - 1) : v % INDEXES = r
    BY <1>3, PanelSizes, Division
  <2> QED
    BY <1>1, <2>1
<1>5. TypeOK'
  BY <1>2, <1>4 DEF LcdInv, TypeOK, Byte
<1>6. Drawn'
  BY <1>2 DEF LcdInv, Drawn, Column, LastAt
<1> QED
  BY <1>5, <1>6 DEF LcdInv

LEMMA RegisterKeeps ==
  ASSUME LcdInv, WriteRegister
  PROVE  LcdInv'
<1>1. PICK v \in Values : reg' = [reg EXCEPT ![index] = v]
  BY DEF WriteRegister
<1>2. UNCHANGED <<index, vram>>
  BY DEF WriteRegister
<1>3. v \in Byte
  BY PanelAssumption
<1>4. reg' \in [0 .. (INDEXES - 1) -> Byte]
  BY <1>1, <1>3 DEF LcdInv, TypeOK
<1>5. CASE index \in {R_X, R_Y}
  <2>1. run' = << >> /\ from' = reg'[R_X]
    BY <1>5 DEF WriteRegister
  <2>2. from' \in Byte
    BY <1>4, <2>1, PanelSizes
  <2>3. TypeOK'
    BY <1>2, <1>4, <2>1, <2>2 DEF LcdInv, TypeOK, Byte
  <2>4. Drawn'
    BY <2>1 DEF Drawn, Column
  <2> QED
    BY <2>3, <2>4 DEF LcdInv
<1>6. CASE index \notin {R_X, R_Y}
  <2>1. UNCHANGED <<run, from>>
    BY <1>6 DEF WriteRegister
  <2>2. reg'[R_X] = reg[R_X] /\ reg'[R_Y] = reg[R_Y]
    BY <1>1, <1>6, PanelSizes DEF LcdInv, TypeOK
  <2>3. TypeOK'
    BY <1>2, <1>4, <2>1 DEF LcdInv, TypeOK, Byte
  <2>4. Drawn'
    BY <1>2, <2>1, <2>2 DEF LcdInv, Drawn, Column, LastAt
  <2> QED
    BY <2>3, <2>4 DEF LcdInv
<1> QED
  BY <1>5, <1>6

\* A byte drawn hides the one before it in its column, and no other.
LEMMA FrameKeeps ==
  ASSUME LcdInv, WriteFrame
  PROVE  LcdInv'
<1>1. PICK v \in Values : /\ vram' = Plot(reg[R_X], reg[R_Y], v)
                          /\ run' = Append(run, v)
  BY DEF WriteFrame
<1>2. /\ reg' = [reg EXCEPT ![R_X] = NextColumn(@)]
      /\ UNCHANGED <<index, from>>
  BY DEF WriteFrame
<1>3. v \in Byte /\ run \in Seq(Byte)
  BY PanelAssumption DEF LcdInv, TypeOK
<1> DEFINE n == Len(run)
           x == reg[R_X]
           y == reg[R_Y]
<1>4. /\ n \in Nat /\ x \in Nat /\ y \in Nat /\ x = Column(n + 1)
  BY <1>3, PanelSizes, LenProperties DEF LcdInv, TypeOK, Drawn
<1>5. /\ run' \in Seq(Byte) /\ Len(run') = n + 1 /\ run'[n + 1] = v
      /\ \A k \in 1 .. n : run'[k] = run[k]
  BY <1>1, <1>3, AppendProperties
<1>6. reg'[R_X] = NextColumn(x) /\ reg'[R_Y] = y
  BY <1>2, PanelSizes DEF LcdInv, TypeOK
<1>7. TypeOK'
  <2>1. NextColumn(x) \in Byte
    <3>1. x + 1 \in Nat
      BY <1>4
    <3>2. PICK q \in Nat, r \in 0 .. (STRIDE - 1) : (x + 1) % STRIDE = r
      BY <3>1, PanelSizes, Division
    <3> QED
      BY <3>2, PanelSizes DEF NextColumn, Byte
  <2>2. reg' \in [0 .. (INDEXES - 1) -> Byte]
    BY <1>2, <2>1 DEF LcdInv, TypeOK
  <2>3. vram' \in [Frame -> Byte]
    <3>1. vram \in [Frame -> Byte]
      BY DEF LcdInv, TypeOK, Frame
    <3> QED
      BY <1>1, <1>3, <3>1 DEF Plot
  <2> QED
    BY <1>2, <1>5, <2>2, <2>3 DEF LcdInv, TypeOK, Byte, Frame
<1>8. Drawn'
  <2>1. \A k : Column(k)' = Column(k)
    BY <1>2 DEF Column
  <2>2. reg'[R_X] = Column(n + 1 + 1)
    BY <1>4, <1>6, ColumnCounts DEF LcdInv
  <2>3. ASSUME y < LCD_H, NEW k \in 1 .. (n + 1), Column(k) < STRIDE, LastAt(k)'
        PROVE  vram'[At(Column(k), y)] = run'[k]
    <3>1. Column(k) \in Columns /\ y \in Rows
      <4>1. Column(k) \in Nat
        BY <1>4, ColumnCounts DEF LcdInv
      <4> QED
        BY <1>4, <2>3, <4>1, PanelSizes DEF Columns, Rows
    <3>2. vram \in [Frame -> Byte] /\ At(Column(k), y) \in Frame
      BY <3>1, PlaceInFrame, PanelSizes DEF LcdInv, TypeOK, Frame
    <3>3. CASE k = n + 1
      <4>1. vram' = [vram EXCEPT ![At(x, y)] = v]
        BY <1>1, <1>4, <2>3, <3>3 DEF Plot, At
      <4> QED
        BY <1>4, <1>5, <3>2, <3>3, <4>1
    <3>4. CASE k # n + 1
      <4>1. k \in 1 .. n
        BY <1>4, <3>4
      <4>2. Column(n + 1) # Column(k)
        BY <1>4, <1>5, <2>1, <2>3, <4>1 DEF LastAt
      <4>3. LastAt(k)
        BY <1>4, <1>5, <2>1, <2>3, <4>1 DEF LastAt
      <4>4. vram[At(Column(k), y)] = run[k]
        BY <2>3, <4>1, <4>3 DEF LcdInv, Drawn
      <4>5. vram'[At(Column(k), y)] = vram[At(Column(k), y)]
        <5>1. CASE x < STRIDE
          <6>1. x \in Columns
            BY <1>4, <5>1, PanelSizes DEF Columns
          <6>2. At(x, y) # At(Column(k), y)
            BY <1>4, <3>1, <4>2, <6>1, PlaceIsUnique, PanelSizes
          <6>3. vram' = [vram EXCEPT ![At(x, y)] = v]
            BY <1>1, <2>3, <5>1 DEF Plot, At
          <6> QED
            BY <3>2, <6>2, <6>3
        <5>2. CASE ~(x < STRIDE)
          BY <1>1, <5>2 DEF Plot
        <5> QED
          BY <5>1, <5>2
      <4> QED
        BY <1>5, <4>1, <4>4, <4>5
    <3> QED
      BY <3>3, <3>4
  <2> QED
    BY <1>4, <1>5, <1>6, <2>1, <2>2, <2>3 DEF Drawn
<1> QED
  BY <1>7, <1>8 DEF LcdInv

LEMMA LcdStepInv == LcdInv /\ [Next]_vars => LcdInv'
<1> SUFFICES ASSUME LcdInv, [Next]_vars PROVE LcdInv'
  OBVIOUS
<1>1. CASE WritePort
  BY <1>1, PortKeeps
<1>2. CASE WriteFrame
  BY <1>2, FrameKeeps
<1>3. CASE WriteRegister
  BY <1>3, RegisterKeeps
<1>4. CASE UNCHANGED vars
  BY <1>4 DEF LcdInv, TypeOK, Byte, Drawn, Column, LastAt, vars
<1> QED
  BY <1>1, <1>2, <1>3, <1>4 DEF Next

\* Index, registers and frame keep their types, and the bytes of the run
\* being streamed are in the frame where the column counter put them
\* (lcd.c:12-33).
THEOREM LcdInvHolds == Spec => []LcdInv
BY LcdInitInv, LcdStepInv, PTL DEF Spec

-----------------------------------------------------------------------------
(* What follows from it. *)

\* Registers and frame keep their shape and their bytes, whatever is written
\* to the two ports (lcd.c:12-33).
THEOREM LcdTypes == Spec => []TypeOK
BY LcdInvHolds, PTL DEF LcdInv

\* A blit of any length, from any column and on a panel of any size, shows
\* the dots that were sent (lcd.c:19-28, 34-43).
THEOREM BlitsShow == Spec => []RunIsShown
<1>1. LcdInv => RunIsShown
  <2> SUFFICES ASSUME LcdInv, reg[R_Y] < LCD_H, NEW k \in 1 .. Len(run),
                      Column(k) < STRIDE, LastAt(k)
               PROVE  LET dot(j) == cy_lcd_dot(4 * Column(k) + j, reg[R_Y])
                      IN  run[k] = ((dot(0) * LEVELS + dot(1)) * LEVELS + dot(2))
                                     * LEVELS + dot(3)
    BY DEF RunIsShown
  <2> DEFINE c == Column(k)
             y == reg[R_Y]
             v == vram[At(c, y)]
  <2>1. run \in Seq(Byte) /\ Len(run) \in Nat /\ k \in Nat /\ k >= 1
    BY LenProperties DEF LcdInv, TypeOK
  <2>2. run[k] = v /\ run[k] \in Byte
    BY <2>1, ElementOfSeq DEF LcdInv, Drawn
  <2>3. c \in Nat /\ y \in Nat /\ c < STRIDE
    BY <2>1, ColumnCounts, PanelSizes DEF LcdInv, TypeOK
  <2> HIDE DEF c, y, v
  <2>4. ASSUME NEW j \in 0 .. 3
        PROVE  cy_lcd_dot(4 * c + j, y) = (v \div Weight[j + 1]) % LEVELS
    <3>1. ~(4 * c + j < 0 \/ 4 * c + j >= 4 * STRIDE \/ y < 0 \/ y >= LCD_H)
      BY <2>3, PanelSizes DEF y
    <3>2. (4 * c + j) \div 4 = c /\ (4 * c + j) % 4 = j
      BY <2>3
    <3> QED
      BY <3>1, <3>2 DEF cy_lcd_dot, v, At
  <2> DEFINE dot(j) == (v \div Weight[j + 1]) % LEVELS
  <2>5. v = ((dot(0) * LEVELS + dot(1)) * LEVELS + dot(2)) * LEVELS + dot(3)
    <3>1. v \in Byte
      BY <2>2
    <3> QED
      BY <3>1, DotsMakeTheByte
  <2>6. \A j \in 0 .. 3 : cy_lcd_dot(4 * c + j, y) = dot(j)
    BY <2>4
  <2> HIDE DEF dot
  <2> QED
    BY <2>2, <2>5, <2>6 DEF c, y
<1> QED
  BY <1>1, LcdInvHolds, PTL

\* No write to the panel touches a row its cursor does not name, for any
\* stride: the end of a row never runs into the next (lcd.c:24-27).
THEOREM RowsStayApart == Spec => OneRowAtATime
<1> DEFINE Change == \A y \in 0 .. (LCD_H - 1), x \in 0 .. (STRIDE - 1) :
             vram'[y * STRIDE + x] # vram[y * STRIDE + x]
               => y = reg[R_Y] /\ reg'[R_Y] = y
<1>1. LcdInv /\ [Next]_vars => [Change]_vars
  <2> SUFFICES ASSUME LcdInv, Next PROVE Change
    OBVIOUS
  <2>1. CASE WritePort
    BY <2>1 DEF WritePort
  <2>2. CASE WriteRegister
    BY <2>2 DEF WriteRegister
  <2>3. CASE WriteFrame
    <3>1. PICK v \in Values : vram' = Plot(reg[R_X], reg[R_Y], v)
      BY <2>3 DEF WriteFrame
    <3>2. reg' = [reg EXCEPT ![R_X] = NextColumn(@)]
      BY <2>3 DEF WriteFrame
    <3>3. reg'[R_Y] = reg[R_Y] /\ reg[R_X] \in Nat /\ reg[R_Y] \in Nat
      BY <3>2, PanelSizes DEF LcdInv, TypeOK
    <3> SUFFICES ASSUME NEW y \in 0 .. (LCD_H - 1), NEW x \in 0 .. (STRIDE - 1),
                        vram'[At(x, y)] # vram[At(x, y)]
                 PROVE  y = reg[R_Y]
      BY <3>3 DEF At
    <3>4. reg[R_X] < STRIDE /\ reg[R_Y] < LCD_H
          /\ vram' = [vram EXCEPT ![At(reg[R_X], reg[R_Y])] = v]
      BY <3>1 DEF Plot, At
    <3>5. At(x, y) = At(reg[R_X], reg[R_Y])
      BY <3>4
    <3> QED
      BY <3>3, <3>4, <3>5, PlaceIsUnique, PanelSizes DEF Columns
  <2> QED
    BY <2>1, <2>2, <2>3 DEF Next
<1> QED
  BY <1>1, LcdInvHolds, PTL DEF Spec, OneRowAtATime
=============================================================================
