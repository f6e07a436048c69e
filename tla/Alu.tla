--------------------------------- MODULE Alu ---------------------------------
(***************************************************************************)
(* The condition codes of h8s.h as values: the macros generated code sets  *)
(* them with, the byte they are packed into, and the branch conditions     *)
(* cy_cond reads off them.  Widths are parameters; the uint32 the macros   *)
(* compute in is as wide as a long.  The flags of a cy_t are a record.     *)
(***************************************************************************)
EXTENDS Integers

CONSTANTS
  BITS,    \* bits of a byte, a word and a long: 8, 16, 32
  NIB,     \* bits below the half carry: 4
  CCRBIT   \* the place of each flag in the CCR byte

Sizes == {"b", "w", "l"}
Flag == {"iff", "hf", "nf", "zf", "vf", "cf"}

ASSUME WidthAssumption ==
  /\ DOMAIN BITS = Sizes
  /\ BITS["b"] \in Nat \ {0, 1}
  /\ BITS["w"] = 2 * BITS["b"] /\ BITS["l"] = 4 * BITS["b"]
  /\ NIB \in 1 .. BITS["b"]
ASSUME CcrAssumption ==
  /\ CCRBIT \in [Flag -> 0 .. (BITS["b"] - 1)]
  /\ \A p, q \in Flag : CCRBIT[p] = CCRBIT[q] => p = q

-----------------------------------------------------------------------------
(* Numbers of a size, and their bits. *)

\* Powers of two, as far as a long goes.
Two[k \in 0 .. BITS["l"]] == IF k = 0 THEN 1 ELSE 2 * Two[k - 1]

Modulus(s) == Two[BITS[s]]     \* CY_MASK_s + 1
UINT == Modulus("l")
Weight(j) == Two[BITS["b"] * j]   \* what byte j counts, the lowest being 0
Negative(v, s) == v >= Modulus(s) \div 2   \* v & CY_SIGN_s
Signed(v, s) == IF Negative(v, s) THEN v - Modulus(s) ELSE v   \* SEXT_s
Nibble(v) == v % Two[NIB]
Bit(p) == IF p THEN 1 ELSE 0
BitAt(v, k) == (v \div Two[k]) % 2
Ones(v, s) == {k \in 0 .. (BITS[s] - 1) : BitAt(v, k) = 1}
FromOnes(S) ==
  LET upto[k \in 0 .. BITS["l"]] ==
        IF k = 0 THEN 0
        ELSE upto[k - 1] + (IF k - 1 \in S THEN Two[k - 1] ELSE 0)
  IN  upto[BITS["l"]]

-----------------------------------------------------------------------------
(* The macros. *)

SETNZ(f, r, s) ==
  [f EXCEPT !.nf = Bit(Negative(r % Modulus(s), s)),
            !.zf = Bit(r % Modulus(s) = 0), !.vf = 0]

\* Variant: the overflow of an addition taken for a subtraction's.
AddOverflowSwapped(f, x, y, t, s) ==
  LET a == x % Modulus(s)
      b == y % Modulus(s)
      r == t % Modulus(s)
  IN  [SETNZ(f, r, s) EXCEPT
         !.cf = Bit((a + b) % UINT > Modulus(s) - 1),
         !.vf = Bit(Negative(a, s) # Negative(b, s)
                      /\ Negative(a, s) # Negative(r, s)),
         !.hf = Bit(Nibble(a) + Nibble(b) >= Two[NIB])]

\* The sum is a uint32's, so a long's never exceeds CY_MASK_l.
SETFLAGS_ADD(f, x, y, t, s) ==
  LET a == x % Modulus(s)
      b == y % Modulus(s)
      r == t % Modulus(s)
  IN  [SETNZ(f, r, s) EXCEPT
         !.cf = Bit((a + b) % UINT > Modulus(s) - 1),
         !.vf = Bit(Negative(a, s) # Negative(r, s)
                      /\ Negative(b, s) # Negative(r, s)),
         !.hf = Bit(Nibble(a) + Nibble(b) >= Two[NIB])]

SETFLAGS_SUB(f, x, y, t, s) ==
  LET a == x % Modulus(s)
      b == y % Modulus(s)
      r == t % Modulus(s)
  IN  [SETNZ(f, r, s) EXCEPT
         !.cf = Bit(a < b),
         !.vf = Bit(Negative(a, s) # Negative(b, s)
                      /\ Negative(a, s) # Negative(r, s)),
         !.hf = Bit(Nibble(a) < Nibble(b))]

CY_CCR_GET(f) == FromOnes({CCRBIT[p] : p \in {q \in Flag : f[q] = 1}})

\* Variant: the mask left as it is, only the condition flags unpacked.
CcrSetUnmasked(f, v) ==
  [q \in Flag |-> IF q = "iff" THEN f[q] ELSE BitAt(v, CCRBIT[q])]

\* The two user bits of the byte have no flag and are lost.
CY_CCR_SET(f, v) == [q \in Flag |-> BitAt(v, CCRBIT[q])]

\* Variant: signed conditions read off N alone.
CondIgnoresV(f, cc) ==
  CASE cc = "bhi" -> f.cf = 0 /\ f.zf = 0 [] cc = "bls" -> f.cf = 1 \/ f.zf = 1
    [] cc = "bcc" -> f.cf = 0             [] cc = "bcs" -> f.cf = 1
    [] cc = "bne" -> f.zf = 0             [] cc = "beq" -> f.zf = 1
    [] cc = "bge" -> f.nf = 0             [] cc = "blt" -> f.nf = 1
    [] cc = "bgt" -> f.nf = 0 /\ f.zf = 0 [] cc = "ble" -> f.nf = 1 \/ f.zf = 1

cy_cond(f, cc) ==
  CASE cc = "bhi" -> f.cf = 0 /\ f.zf = 0 [] cc = "bls" -> f.cf = 1 \/ f.zf = 1
    [] cc = "bcc" -> f.cf = 0             [] cc = "bcs" -> f.cf = 1
    [] cc = "bne" -> f.zf = 0             [] cc = "beq" -> f.zf = 1
    [] cc = "bvc" -> f.vf = 0             [] cc = "bvs" -> f.vf = 1
    [] cc = "bpl" -> f.nf = 0             [] cc = "bmi" -> f.nf = 1
    [] cc = "bge" -> f.nf = f.vf          [] cc = "blt" -> f.nf # f.vf
    [] cc = "bgt" -> f.nf = f.vf /\ f.zf = 0
    [] cc = "ble" -> f.nf # f.vf \/ f.zf = 1
    [] cc = "bra" -> TRUE                 [] cc = "brn" -> FALSE
=============================================================================
