--------------------------------- MODULE Alu ---------------------------------
(***************************************************************************)
(* The arithmetic instructions of executor.cpp on bytes and register       *)
(* pairs, with the flags they leave in SREG.  An operator takes the values *)
(* of its registers and, where it reads or keeps flags, SREG, and returns  *)
(* the value it stores and the new SREG.  T and I, which none of them      *)
(* touches, are left out.  Immediate forms (SUBI, SBCI, CPI) are the       *)
(* register forms with a constant, LSL is ADD and ROL is ADC of a register *)
(* with itself, as executeInstruction dispatches them.                     *)
(***************************************************************************)
EXTENDS Integers

CONSTANT Half   \* 16: half a byte has this many values

ASSUME AluAssumption == Half \in Nat \ {0} /\ Half % 2 = 0

Base == Half * Half
Byte == 0..(Base - 1)
Flags == [c : BOOLEAN, z : BOOLEAN, n : BOOLEAN, v : BOOLEAN, s : BOOLEAN, h : BOOLEAN]

Negative(b) == b >= Base \div 2          \* bit 7
Carry(f) == IF f.c THEN 1 ELSE 0

(* n as a two's complement number of size m. *)
Signed(n, m) == IF n >= m \div 2 THEN n - m ELSE n

-----------------------------------------------------------------------------
(* ADD, ADC, SUB, SBC, CP and CPC.  zero is what the result's being zero is   *)
(* combined with: with carry, the previous Z.                                 *)

Sum(a, b, ci, zero) ==
  LET w == (a + b + ci) % (Base * Base)   \* result16
      r == w % Base
      v == Negative(a) # Negative(r) /\ Negative(b) # Negative(r)
  IN  [r |-> r,
       f |-> [c |-> w >= Base, z |-> zero /\ r = 0, n |-> Negative(r), v |-> v,
              s |-> Negative(r) # v, h |-> (a % Half) + (b % Half) + ci >= Half]]

Difference(a, b, ci, zero) ==
  LET w == (a - b - ci) % (Base * Base)
      r == w % Base
      v == Negative(a) # Negative(b) /\ Negative(a) # Negative(r)
  IN  [r |-> r,
       f |-> [c |-> w >= Base, z |-> zero /\ r = 0, n |-> Negative(r), v |-> v,
              s |-> Negative(r) # v, h |-> a % Half < (b % Half) + ci]]

ADD(a, b) == Sum(a, b, 0, TRUE)
ADC(a, b, f) == Sum(a, b, Carry(f), f.z)
SUB(a, b) == Difference(a, b, 0, TRUE)
SBC(a, b, f) == Difference(a, b, Carry(f), f.z)
CP(a, b) == SUB(a, b).f

(* Operators with a suffix are wrong on purpose (README, "Mutants"). *)
CPCFreshZero(a, b, f) == Difference(a, b, Carry(f), TRUE).f
CPC(a, b, f) == SBC(a, b, f).f

-----------------------------------------------------------------------------
(* One operand. *)

(* INC and DEC keep C and H. *)
Stepped(r, v, f) ==
  [r |-> r, f |-> [f EXCEPT !.z = (r = 0), !.n = Negative(r), !.v = v,
                            !.s = (Negative(r) # v)]]
INC(a, f) == Stepped((a + 1) % Base, a = (Base \div 2) - 1, f)

DECWithCarry(a, f) == SUB(a, 1)
DEC(a, f) == Stepped((a - 1) % Base, a = Base \div 2, f)

COM(a, f) ==
  LET r == Base - 1 - a
  IN  [r |-> r, f |-> [f EXCEPT !.c = TRUE, !.z = (r = 0), !.n = Negative(r),
                                !.v = FALSE, !.s = Negative(r)]]

Bit3(b) == b % Half >= Half \div 2
NEG(a) ==
  LET r == (- a) % Base
      v == a = Base \div 2
  IN  [r |-> r, f |-> [c |-> r # 0, z |-> r = 0, n |-> Negative(r), v |-> v,
                       s |-> Negative(r) # v, h |-> Bit3(r) \/ Bit3(a)]]

(* LSR, ASR and ROR differ in the bit that comes in at the top. *)
ShiftedRight(a, top, f) ==
  LET r == (a \div 2) + (IF top THEN Base \div 2 ELSE 0)
      c == a % 2 = 1
      n == Negative(r)
  IN  [r |-> r, f |-> [f EXCEPT !.c = c, !.z = (r = 0), !.n = n, !.v = (n # c),
                                !.s = (n # (n # c))]]
LSR(a, f) == ShiftedRight(a, FALSE, f)
ASR(a, f) == ShiftedRight(a, Negative(a), f)
ROR(a, f) == ShiftedRight(a, f.c, f)

-----------------------------------------------------------------------------
(* Register pairs. *)

WordBase == Base * Base
NegativeWord(w) == w >= WordBase \div 2

(* ADIW and SBIW keep H. *)
WordResult(r, v, c, f) ==
  [r |-> r, f |-> [f EXCEPT !.c = c, !.z = (r = 0), !.n = NegativeWord(r), !.v = v,
                            !.s = (NegativeWord(r) # v)]]
ADIWCarryAsOverflow(w, k, f) ==
  LET r == (w + k) % WordBase
      c == NegativeWord(w) /\ ~ NegativeWord(r)
  IN  WordResult(r, c, c, f)
ADIW(w, k, f) ==
  LET r == (w + k) % WordBase
  IN  WordResult(r, ~ NegativeWord(w) /\ NegativeWord(r), NegativeWord(w) /\ ~ NegativeWord(r), f)
SBIW(w, k, f) ==
  LET r == (w - k) % WordBase
  IN  WordResult(r, NegativeWord(w) /\ ~ NegativeWord(r), ~ NegativeWord(w) /\ NegativeWord(r), f)

(* MUL, MULS and MULSU put the product in R1:R0 and its bit 15 in C. *)
Product(p, f) ==
  LET w == p % WordBase
  IN  [r |-> w, f |-> [f EXCEPT !.c = NegativeWord(w), !.z = (w = 0)]]
MUL(a, b, f) == Product(a * b, f)
MULS(a, b, f) == Product(Signed(a, Base) * Signed(b, Base), f)
MULSU(a, b, f) == Product(Signed(a, Base) * b, f)
=============================================================================
