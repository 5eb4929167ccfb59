------------------------------ MODULE Registers ------------------------------
(***************************************************************************)
(* The instructions of executor.cpp that work on registers, SREG, pc and   *)
(* program memory, executed from their machine words: Decoder finds the    *)
(* function and its operands, Alu what the arithmetic ones compute.  Those *)
(* that go through the data space or the stack are in DataSpace.tla and    *)
(* Executor.tla.                                                           *)
(*                                                                         *)
(* A machine is [pc, r, f, t, i, flash, fault]: f the six flags of Alu, t  *)
(* and i the bits T and I of SREG.                                         *)
(***************************************************************************)
EXTENDS Alu, Decoder

CONSTANT FlashSize  \* AVR_FLASH_SIZE

ASSUME FlashSizeAssumption == FlashSize \in Nat \ {0}

-----------------------------------------------------------------------------
(* Registers and flags. *)

PcBase == 65536

Machine ==
  [pc : 0..(PcBase - 1), r : [0..31 -> Byte], f : Flags, t : BOOLEAN, i : BOOLEAN,
   flash : [0..(FlashSize - 1) -> Byte], fault : BOOLEAN]

Put(m, d, b) == [m EXCEPT !.r[d] = b]
PutResult(m, d, o) == [m EXCEPT !.r[d] = o.r, !.f = o.f]

readRegWord(m, d) == (Base * m.r[d + 1]) + m.r[d]
writeRegWord(m, d, w) == [m EXCEPT !.r[d] = w % Base, !.r[d + 1] = w \div Base]
PutWordResult(m, d, o) == [writeRegWord(m, d, o.r) EXCEPT !.f = o.f]

sregFlags == <<"c", "z", "n", "v", "s", "h">>
getFlag(m, b) == IF b = 7 THEN m.i ELSE IF b = 6 THEN m.t ELSE m.f[sregFlags[b + 1]]
putFlag(m, b, set) ==
  IF b = 7 THEN [m EXCEPT !.i = set]
  ELSE IF b = 6 THEN [m EXCEPT !.t = set] ELSE [m EXCEPT !.f[sregFlags[b + 1]] = set]

(* The byte whose bits are S. *)
ByteOf(S) ==
  LET weight(b) == IF b \in S THEN 2^b ELSE 0
  IN  weight(0) + weight(1) + weight(2) + weight(3) + weight(4) + weight(5) + weight(6) + weight(7)

-----------------------------------------------------------------------------
(* Logic and bits. *)

(* The mask 0xE4 keeps H and N of the flags: a set N stays, and C is cleared. *)
Logical(m, d, S) ==
  LET r == ByteOf(S)
  IN  PutResult(m, d, [r |-> r, f |-> [m.f EXCEPT !.c = FALSE, !.z = (r = 0), !.v = FALSE,
                                                  !.n = m.f.n \/ Negative(r), !.s = Negative(r)]])
AND(m, d, b) == Logical(m, d, Bits(m.r[d]) \cap Bits(b))
OR(m, d, b) == Logical(m, d, Bits(m.r[d]) \cup Bits(b))
EOR(m, d, b) ==
  Logical(m, d, (Bits(m.r[d]) \cup Bits(b)) \ (Bits(m.r[d]) \cap Bits(b)))

SWAP(m, d) == Put(m, d, (Half * (m.r[d] % Half)) + (m.r[d] \div Half))

(* Operators with a suffix are wrong on purpose (README, "Mutants"). *)
BLDSetsOnly(m, d, b) == Put(m, d, ByteOf(IF m.t THEN Bits(m.r[d]) \cup {b} ELSE Bits(m.r[d])))

BST(m, d, b) == putFlag(m, 6, b \in Bits(m.r[d]))
BLD(m, d, b) ==
  Put(m, d, ByteOf(IF m.t THEN Bits(m.r[d]) \cup {b} ELSE Bits(m.r[d]) \ {b}))

(* Fractional products are shifted left by one; C is bit 15 after the shift. *)
FMUL(a, b, f) == Product(2 * a * b, f)
FMULS(a, b, f) == Product(2 * Signed(a, Base) * Signed(b, Base), f)
FMULSU(a, b, f) == Product(2 * Signed(a, Base) * b, f)

-----------------------------------------------------------------------------
(* Program memory, branches and skips. *)

FlashWord(m, a) == m.flash[a] + (256 * m.flash[a + 1])

Jump(m, target) == [m EXCEPT !.pc = target % PcBase]
Branch(m, taken, k) == IF taken THEN Jump(m, m.pc + (2 * k)) ELSE m
Faulted(m) == [m EXCEPT !.fault = TRUE]

skipNextInstruction(m) ==
  IF m.pc + 1 >= FlashSize \/ ~ Decodes(FlashWord(m, m.pc)) THEN Faulted(m)
  ELSE Jump(m, m.pc + (2 * Words(decodeInstruction(FlashWord(m, m.pc)))))
SkipIf(m, holds) == IF holds THEN skipNextInstruction(m) ELSE m

LPM(m, d, mode) ==
  LET z == readRegWord(m, 30)
      loaded == Put(m, d, m.flash[z])
  IN  IF z >= FlashSize THEN Faulted(m)
      ELSE IF mode = 1 THEN writeRegWord(loaded, 30, (z + 1) % WordBase) ELSE loaded

SPM(m) ==
  LET z == readRegWord(m, 30)
  IN  IF z + 1 >= FlashSize THEN m
      ELSE [m EXCEPT !.flash[z] = m.r[0], !.flash[z + 1] = m.r[1]]

-----------------------------------------------------------------------------
(* A call of executeInstruction on a machine whose pc is past the instruction. *)
Perform(call, m) ==
  LET fn == call.fn
      x == call.args
      d == x[1]
      rd == m.r[x[1]]
      rr == m.r[x[2]]
      product(o) == PutWordResult(m, 0, o)
  IN CASE fn = "ADD" -> PutResult(m, d, ADD(rd, rr))
       [] fn = "ADC" -> PutResult(m, d, ADC(rd, rr, m.f))
       [] fn = "SUB" -> PutResult(m, d, SUB(rd, rr))
       [] fn = "SUBI" -> PutResult(m, d, SUB(rd, x[2]))
       [] fn = "SBC" -> PutResult(m, d, SBC(rd, rr, m.f))
       [] fn = "SBCI" -> PutResult(m, d, SBC(rd, x[2], m.f))
       [] fn = "CP" -> [m EXCEPT !.f = CP(rd, rr)]
       [] fn = "CPI" -> [m EXCEPT !.f = CP(rd, x[2])]
       [] fn = "CPC" -> [m EXCEPT !.f = CPC(rd, rr, m.f)]
       [] fn = "INC" -> PutResult(m, d, INC(rd, m.f))
       [] fn = "DEC" -> PutResult(m, d, DEC(rd, m.f))
       [] fn = "COM" -> PutResult(m, d, COM(rd, m.f))
       [] fn = "NEG" -> PutResult(m, d, NEG(rd))
       [] fn = "LSR" -> PutResult(m, d, LSR(rd, m.f))
       [] fn = "ASR" -> PutResult(m, d, ASR(rd, m.f))
       [] fn = "ROR" -> PutResult(m, d, ROR(rd, m.f))
       [] fn = "ADIW" -> PutWordResult(m, d, ADIW(readRegWord(m, d), x[2], m.f))
       [] fn = "SBIW" -> PutWordResult(m, d, SBIW(readRegWord(m, d), x[2], m.f))
       [] fn = "MUL" -> product(MUL(rd, rr, m.f))
       [] fn = "MULS" -> product(MULS(m.r[d + 16], m.r[x[2] + 16], m.f))
       [] fn = "MULSU" -> product(MULSU(rd, rr, m.f))
       [] fn = "FMUL" -> product(FMUL(rd, rr, m.f))
       [] fn = "FMULS" -> product(FMULS(rd, rr, m.f))
       [] fn = "FMULSU" -> product(FMULSU(rd, rr, m.f))
       [] fn = "AND" -> AND(m, d, rr)
       [] fn = "ANDI" -> AND(m, d, x[2])
       [] fn = "OR" -> OR(m, d, rr)
       [] fn = "ORI" -> OR(m, d, x[2])
       [] fn = "EOR" -> EOR(m, d, rr)
       [] fn = "SER" -> Put(m, d, Base - 1)
       [] fn = "SWAP" -> SWAP(m, d)
       [] fn = "MOV" -> Put(m, d, rr)
       [] fn = "MOVW" -> writeRegWord(m, 2 * d, readRegWord(m, 2 * x[2]))
       [] fn = "LDI" -> Put(m, d, x[2])
       [] fn \in {"BSET", "BCLR"} -> putFlag(m, d, fn = "BSET")
       [] fn = "BST" -> BST(m, d, x[2])
       [] fn = "BLD" -> BLD(m, d, x[2])
       [] fn = "LPM" -> LPM(m, d, x[2])
       [] fn = "SPM_E" -> SPM(m)
       [] fn = "BRBS" -> Branch(m, getFlag(m, x[2]), d)
       [] fn = "BRBC" -> Branch(m, ~ getFlag(m, x[2]), d)
       [] fn = "RJMP" -> Jump(m, m.pc + (2 * d))
       [] fn = "JMP" -> Jump(m, 2 * d)
       [] fn = "IJMP" -> Jump(m, 2 * readRegWord(m, 30))
       [] fn = "CPSE" -> SkipIf(m, rd = rr)
       [] fn = "SBRC" -> SkipIf(m, x[2] \notin Bits(rd))
       [] fn = "SBRS" -> SkipIf(m, x[2] \in Bits(rd))
       [] fn \in {"NOP", "SLEEP", "WDR", "BREAK"} -> m
       [] OTHER -> Faulted(m)  \* not of this module

(* One turn of the loop; a machine that cannot go on stays as it is. *)
Turn(m) ==
  IF m.fault \/ m.pc + 1 >= FlashSize \/ ~ Decodes(FlashWord(m, m.pc)) THEN m
  ELSE LET w == FlashWord(m, m.pc)
           i == decodeInstruction(w)
           next == (m.pc + (2 * Words(i))) % PcBase
           extra == IF Words(i) = 2 /\ m.pc + 3 < FlashSize THEN FlashWord(m, m.pc + 2) ELSE 0
       IN  IF Words(i) = 2 /\ m.pc + 3 >= FlashSize THEN m
           ELSE Perform(executeInstruction(i, w, extra), [m EXCEPT !.pc = next])

(* The machine after n turns. *)
After(m, n) ==
  LET turn[k \in 0..n] == IF k = 0 THEN m ELSE Turn(turn[k - 1])
  IN  turn[n]
=============================================================================
