------------------------------ MODULE AluChains ------------------------------
(***************************************************************************)
(* Arithmetic on numbers of several bytes, as compilers make it of the     *)
(* instructions of Alu: one instruction per byte, joined by C and Z, from  *)
(* the low byte up or, for shifts to the right, from the high byte down.   *)
(* The routine is firmware, the environment in which each instruction must *)
(* leave the flags the next one needs; a loop counter may be decremented   *)
(* or incremented between two bytes.                                       *)
(***************************************************************************)
EXTENDS Alu

CONSTANTS
  Operands,    \* bound: the bytes that numbers are made of
  Immediates,  \* bound: constants of ADIW and SBIW, which have six bits
  MaxWide      \* bound: no chain goes on when its numbers have this many values

ASSUME ChainAssumption ==
  /\ Operands \subseteq Byte /\ Immediates \subseteq Byte
  /\ MaxWide \in Nat

VARIABLES
  kind,     \* the routine under way
  sreg,
  x, y,     \* the numbers made of the bytes taken so far
  wide,     \* how many values numbers of that length have
  res,      \* the number made of the bytes stored so far
  counted   \* whether a counter was stepped since the first byte

vars == <<kind, sreg, x, y, wide, res, counted>>

Kinds == {"none", "add", "sub", "compare", "negate", "lsr", "asr", "multiply", "umultiply"}

-----------------------------------------------------------------------------
(* The next instruction of a chain from the low byte up. *)
Step(k, o, a, b) ==
  /\ kind' = k /\ sreg' = o.f
  /\ x' = x + wide * a /\ y' = y + wide * b
  /\ res' = res + wide * o.r
  /\ wide' = wide * Base
  /\ counted' = IF counted = "never" THEN "never" ELSE "earlier"

FlagsOnly(f) == [r |-> 0, f |-> f]
GoesOn(k) == kind = k /\ wide < MaxWide

Add(a, b) ==
  \/ kind = "none" /\ Step("add", ADD(a, b), a, b)
  \/ GoesOn("add") /\ Step("add", ADC(a, b, sreg), a, b)

Subtract(a, b) ==
  \/ kind = "none" /\ Step("sub", SUB(a, b), a, b)
  \/ GoesOn("sub") /\ Step("sub", SBC(a, b, sreg), a, b)

Compare(a, b) ==
  \/ kind = "none" /\ Step("compare", FlagsOnly(CP(a, b)), a, b)
  \/ GoesOn("compare") /\ Step("compare", FlagsOnly(CPC(a, b, sreg)), a, b)

(* NEG of the low byte; each higher one was complemented before, SBCI 0xFF. *)
Negate(a) ==
  \/ kind = "none" /\ Step("negate", NEG(a), a, 0)
  \/ GoesOn("negate") /\ Step("negate", SBC(COM(a, sreg).r, Base - 1, sreg), a, 0)

(* ADIW or SBIW on the two low bytes; ADC or SBC may follow. *)
Word(k, o, a1, a0, imm) ==
  /\ kind = "none"
  /\ kind' = k /\ sreg' = o.f
  /\ x' = Base * a1 + a0 /\ y' = imm /\ res' = o.r /\ wide' = WordBase
  /\ UNCHANGED counted

AddImmediate(a1, a0, imm) == Word("add", ADIW(Base * a1 + a0, imm, sreg), a1, a0, imm)
SubtractImmediate(a1, a0, imm) == Word("sub", SBIW(Base * a1 + a0, imm, sreg), a1, a0, imm)

(* LSR or ASR of the high byte, then ROR. *)
StepDown(k, o, a) ==
  /\ kind' = k /\ sreg' = o.f
  /\ x' = Base * x + a /\ res' = Base * res + o.r /\ wide' = wide * Base
  /\ UNCHANGED <<y, counted>>

ShiftRight(a) ==
  \/ kind = "none" /\ StepDown("lsr", LSR(a, sreg), a)
  \/ kind = "none" /\ StepDown("asr", ASR(a, sreg), a)
  \/ \E k \in {"lsr", "asr"} : GoesOn(k) /\ StepDown(k, ROR(a, sreg), a)

(* A byte times a word: the products p with the high byte and q with the low *)
(* one overlap by a byte, which ADD and ADC put together.                     *)
Product24(k, a, b1, b0, top, p, q) ==
  LET mid == ADD(p.r % Base, q.r \div Base)
      high == ADC(top, 0, mid.f)
  IN  /\ kind = "none"
      /\ kind' = k /\ sreg' = high.f
      /\ x' = a /\ y' = Base * b1 + b0
      /\ res' = WordBase * high.r + Base * mid.r + (q.r % Base)
      /\ wide' = WordBase * Base
      /\ UNCHANGED counted

MultiplyUnsigned(a, b1, b0) ==
  LET p == MUL(a, b1, sreg)
  IN  Product24("umultiply", a, b1, b0, p.r \div Base, p, MUL(a, b0, p.f))

(* MULS and MULSU, whose C is the sign to extend q with, by SBC. *)
Multiply(a, b1, b0) ==
  LET p == MULS(a, b1, sreg)
      q == MULSU(a, b0, p.f)
  IN  Product24("multiply", a, b1, b0, SBC(p.r \div Base, 0, q.f).r, p, q)

(* A loop counter between two bytes. *)
StepCounter(a) ==
  /\ kind # "none" /\ wide < MaxWide
  /\ sreg' \in {DEC(a, sreg).f, INC(a, sreg).f}
  /\ counted' = "last"
  /\ UNCHANGED <<kind, x, y, wide, res>>

Idle == x' = 0 /\ y' = 0 /\ wide' = 1 /\ res' = 0 /\ counted' = "never"
Finish == kind # "none" /\ kind' = "none" /\ Idle /\ UNCHANGED sreg

-----------------------------------------------------------------------------
Init ==
  /\ kind = "none"
  /\ sreg = [c |-> FALSE, z |-> FALSE, n |-> FALSE, v |-> FALSE, s |-> FALSE, h |-> FALSE]
  /\ x = 0 /\ y = 0 /\ wide = 1 /\ res = 0 /\ counted = "never"

Next ==
  \/ \E a \in Operands :
       \/ Negate(a) \/ ShiftRight(a) \/ StepCounter(a)
       \/ \E b \in Operands :
            \/ Add(a, b) \/ Subtract(a, b) \/ Compare(a, b)
            \/ \E i \in Immediates : AddImmediate(a, b, i) \/ SubtractImmediate(a, b, i)
            \/ \E d \in Operands : Multiply(a, b, d) \/ MultiplyUnsigned(a, b, d)
  \/ Finish

Spec == Init /\ [][Next]_vars

-----------------------------------------------------------------------------
(* Types: each number has as many bytes as were taken, so that no instruction *)
(* stores more than a byte and none is left out.                              *)
Below(n) == 0..(n - 1)
TypeOK ==
  /\ kind \in Kinds /\ sreg \in Flags
  /\ wide \in Nat \ {0} /\ x \in Below(wide) /\ y \in Below(wide) /\ res \in Below(wide)
  /\ counted \in {"never", "earlier", "last"}

CarryOut == IF sreg.c THEN wide ELSE 0

(* Whatever the length, the bytes stored and C are the sum, the difference,   *)
(* the negative and the half of the numbers taken, and the product: no carry, *)
(* borrow, sign or shifted bit is lost between two instructions, a loop       *)
(* counter notwithstanding.                                                   *)
AddsUp == kind = "add" => res + CarryOut = x + y
Subtracts == kind = "sub" => res = x - y + CarryOut
Negates == kind = "negate" => res = CarryOut - x
Halves ==
  /\ kind = "lsr" => res = x \div 2
  /\ kind = "asr" => Signed(res, wide) = Signed(x, wide) \div 2
  /\ kind \in {"lsr", "asr"} => sreg.c = (x % 2 = 1)
Multiplies ==
  /\ kind = "multiply" => Signed(res, wide) = Signed(x, Base) * Signed(y, WordBase)
  /\ kind = "umultiply" => res = x * y
ChainsCompute == AddsUp /\ Subtracts /\ Negates /\ Halves /\ Multiplies

(* After a subtraction or comparison of any length BRLO, BREQ and BRLT, that  *)
(* is C, Z and S, decide the unsigned order, equality and the signed order of *)
(* the whole numbers, and after an addition Z says that the whole sum is zero *)
(* (test_instructions.cpp:71).  A counter in between spoils Z only.           *)
BranchesDecide ==
  /\ kind \in {"sub", "compare"} =>
       /\ sreg.c = (x < y)
       /\ counted = "never" => sreg.z = (x = y)
       /\ counted # "last" => sreg.s = (Signed(x, wide) < Signed(y, wide))
  /\ kind = "add" /\ counted = "never" => sreg.z = (res = 0)

(* After an addition of any length V says whether the signed sum fits the     *)
(* numbers' width, and S is its true sign even when it does not.              *)
OverflowTruthful ==
  kind = "add" /\ counted # "last" =>
    LET sum == Signed(x, wide) + Signed(y, wide)
    IN  /\ sreg.v = (sum # Signed(res, wide))
        /\ sreg.s = (sum < 0)
=============================================================================
