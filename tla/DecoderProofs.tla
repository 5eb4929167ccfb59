---------------------------- MODULE DecoderProofs ----------------------------
(***************************************************************************)
(* Proofs about Decoder.tla: what the rows of its table have in common,    *)
(* and with which operands executeInstruction calls which function,        *)
(* whatever word it is given.                                              *)
(***************************************************************************)
EXTENDS Decoder, WellFoundedInduction, TLAPS

-----------------------------------------------------------------------------
(* The operations that rows of each format have. *)

TwoRegisters ==
  {"ADC", "ADD", "MUL", "SBC", "SUB", "AND", "CLR", "EOR", "OR", "LSL", "ROL", "CP", "CPC",
   "CPSE", "TST", "MOV"}
WithConstant == {"SBCI", "SUBI", "ANDI", "CBR", "ORI", "SBR", "SER", "CPI", "LDI"}
OneRegister ==
  {"ASR", "DEC", "INC", "NEG", "COM", "SWAP", "LSR", "ROR", "POP", "PUSH", "LPM"}
Displaceable == {"LD_Y", "LD_Z", "ST_Y", "ST_Z"}
Through == {"LD_X", "LD_Y", "LD_Z", "ST_X", "ST_Y", "ST_Z"}
NoOperand ==
  {"LPM", "IJMP", "ICALL", "RET", "RETI", "NOP", "SLEEP", "WDR", "BREAK", "SPM_E",
   "SEC", "SEZ", "SEN", "SEV", "SES", "SEH", "SET", "SEI",
   "CLC", "CLZ", "CLN", "CLV", "CLS", "CLH", "CLT", "CLI"}
Branches ==
  {"BRBS", "BRCS", "BREQ", "BRHS", "BRIE", "BRLO", "BRLT", "BRMI", "BRTS", "BRVS",
   "BRBC", "BRCC", "BRGE", "BRHC", "BRID", "BRNE", "BRPL", "BRSH", "BRTC", "BRVC"}

Form(ops, fmt, words) == Nat \X Nat \X ops \X {fmt} \X {words}

(* The rows that a table may have: each operation in its format, and a second *)
(* word exactly where the format reads one.                                   *)
WellFormedRows ==
  Form(TwoRegisters, "Rd_Rr", 1) \cup Form(WithConstant, "Rd_K8", 1)
    \cup Form(OneRegister, "Rd_only", 1) \cup Form({"ADIW", "SBIW"}, "Rd06_K6", 1)
    \cup Form({"MULS", "MOVW"}, "Rd06_Rr06", 1)
    \cup Form({"MULSU", "FMUL", "FMULS", "FMULSU"}, "Rd_Rr_mpy", 1)
    \cup Form(Through, "LD_family", 1) \cup Form(Displaceable, "LDD_family", 1)
    \cup Form({"LDS", "STS"}, "LDS_STS", 2)
    \cup Form({"IN"}, "Rd_IO", 1) \cup Form({"OUT"}, "IO_Rr", 1)
    \cup Form(Branches, "k7", 1)
    \cup Form({"RJMP"}, "k02", 1) \cup Form({"RCALL"}, "k02_call", 1)
    \cup Form({"JMP"}, "k22", 2) \cup Form({"CALL"}, "k22_call", 2)
    \cup Form({"SBIC", "SBIS", "CBI", "SBI"}, "IO_b", 1) \cup Form({"SBRC", "SBRS"}, "Rr_b", 1)
    \cup Form({"BLD", "BST"}, "Rd_b", 1) \cup Form({"BSET", "BCLR"}, "b_only", 1)
    \cup Form(NoOperand, "NONE", 1)

LEMMA RowIn ==
  ASSUME NEW ops, NEW fmt, NEW words, NEW S, Form(ops, fmt, words) \subseteq S
  PROVE  \A m, c \in Nat : \A op \in ops : Row(m, c, op, fmt, words) \in S
BY DEF Form, Row

(* The rows, one fact for each form. *)
LEMMA RowForms ==
  \A m, c \in Nat :
    /\ \A op \in TwoRegisters : Row(m, c, op, "Rd_Rr", 1) \in WellFormedRows
    /\ \A op \in WithConstant : Row(m, c, op, "Rd_K8", 1) \in WellFormedRows
    /\ \A op \in OneRegister : Row(m, c, op, "Rd_only", 1) \in WellFormedRows
    /\ \A op \in {"ADIW", "SBIW"} : Row(m, c, op, "Rd06_K6", 1) \in WellFormedRows
    /\ \A op \in {"MULS", "MOVW"} : Row(m, c, op, "Rd06_Rr06", 1) \in WellFormedRows
    /\ \A op \in {"MULSU", "FMUL", "FMULS", "FMULSU"} :
         Row(m, c, op, "Rd_Rr_mpy", 1) \in WellFormedRows
    /\ \A op \in Through : Row(m, c, op, "LD_family", 1) \in WellFormedRows
    /\ \A op \in Displaceable : Row(m, c, op, "LDD_family", 1) \in WellFormedRows
    /\ \A op \in {"LDS", "STS"} : Row(m, c, op, "LDS_STS", 2) \in WellFormedRows
    /\ \A op \in {"IN"} : Row(m, c, op, "Rd_IO", 1) \in WellFormedRows
    /\ \A op \in {"OUT"} : Row(m, c, op, "IO_Rr", 1) \in WellFormedRows
    /\ \A op \in Branches : Row(m, c, op, "k7", 1) \in WellFormedRows
    /\ \A op \in {"RJMP"} : Row(m, c, op, "k02", 1) \in WellFormedRows
    /\ \A op \in {"RCALL"} : Row(m, c, op, "k02_call", 1) \in WellFormedRows
    /\ \A op \in {"JMP"} : Row(m, c, op, "k22", 2) \in WellFormedRows
    /\ \A op \in {"CALL"} : Row(m, c, op, "k22_call", 2) \in WellFormedRows
    /\ \A op \in {"SBIC", "SBIS", "CBI", "SBI"} : Row(m, c, op, "IO_b", 1) \in WellFormedRows
    /\ \A op \in {"SBRC", "SBRS"} : Row(m, c, op, "Rr_b", 1) \in WellFormedRows
    /\ \A op \in {"BLD", "BST"} : Row(m, c, op, "Rd_b", 1) \in WellFormedRows
    /\ \A op \in {"BSET", "BCLR"} : Row(m, c, op, "b_only", 1) \in WellFormedRows
    /\ \A op \in NoOperand : Row(m, c, op, "NONE", 1) \in WellFormedRows
<1>1. \A ops, fmt, words : Form(ops, fmt, words) \subseteq WellFormedRows =>
        \A m, c \in Nat : \A op \in ops : Row(m, c, op, fmt, words) \in WellFormedRows
  BY RowIn
<1>2. /\ Form(TwoRegisters, "Rd_Rr", 1) \subseteq WellFormedRows
      /\ Form(WithConstant, "Rd_K8", 1) \subseteq WellFormedRows
      /\ Form(OneRegister, "Rd_only", 1) \subseteq WellFormedRows
      /\ Form({"ADIW", "SBIW"}, "Rd06_K6", 1) \subseteq WellFormedRows
      /\ Form({"MULS", "MOVW"}, "Rd06_Rr06", 1) \subseteq WellFormedRows
      /\ Form({"MULSU", "FMUL", "FMULS", "FMULSU"}, "Rd_Rr_mpy", 1) \subseteq WellFormedRows
      /\ Form(Through, "LD_family", 1) \subseteq WellFormedRows
      /\ Form(Displaceable, "LDD_family", 1) \subseteq WellFormedRows
      /\ Form({"LDS", "STS"}, "LDS_STS", 2) \subseteq WellFormedRows
      /\ Form({"IN"}, "Rd_IO", 1) \subseteq WellFormedRows
      /\ Form({"OUT"}, "IO_Rr", 1) \subseteq WellFormedRows
      /\ Form(Branches, "k7", 1) \subseteq WellFormedRows
      /\ Form({"RJMP"}, "k02", 1) \subseteq WellFormedRows
      /\ Form({"RCALL"}, "k02_call", 1) \subseteq WellFormedRows
      /\ Form({"JMP"}, "k22", 2) \subseteq WellFormedRows
      /\ Form({"CALL"}, "k22_call", 2) \subseteq WellFormedRows
      /\ Form({"SBIC", "SBIS", "CBI", "SBI"}, "IO_b", 1) \subseteq WellFormedRows
      /\ Form({"SBRC", "SBRS"}, "Rr_b", 1) \subseteq WellFormedRows
      /\ Form({"BLD", "BST"}, "Rd_b", 1) \subseteq WellFormedRows
      /\ Form({"BSET", "BCLR"}, "b_only", 1) \subseteq WellFormedRows
      /\ Form(NoOperand, "NONE", 1) \subseteq WellFormedRows
  <2>1. /\ Form(TwoRegisters, "Rd_Rr", 1) \subseteq WellFormedRows
        /\ Form(WithConstant, "Rd_K8", 1) \subseteq WellFormedRows
        /\ Form(OneRegister, "Rd_only", 1) \subseteq WellFormedRows
        /\ Form({"ADIW", "SBIW"}, "Rd06_K6", 1) \subseteq WellFormedRows
    BY DEF WellFormedRows
  <2>2. /\ Form({"MULS", "MOVW"}, "Rd06_Rr06", 1) \subseteq WellFormedRows
        /\ Form({"MULSU", "FMUL", "FMULS", "FMULSU"}, "Rd_Rr_mpy", 1) \subseteq WellFormedRows
        /\ Form(Through, "LD_family", 1) \subseteq WellFormedRows
        /\ Form(Displaceable, "LDD_family", 1) \subseteq WellFormedRows
    BY DEF WellFormedRows
  <2>3. /\ Form({"LDS", "STS"}, "LDS_STS", 2) \subseteq WellFormedRows
        /\ Form({"IN"}, "Rd_IO", 1) \subseteq WellFormedRows
        /\ Form({"OUT"}, "IO_Rr", 1) \subseteq WellFormedRows
        /\ Form(Branches, "k7", 1) \subseteq WellFormedRows
    BY DEF WellFormedRows
  <2>4. /\ Form({"RJMP"}, "k02", 1) \subseteq WellFormedRows
        /\ Form({"RCALL"}, "k02_call", 1) \subseteq WellFormedRows
        /\ Form({"JMP"}, "k22", 2) \subseteq WellFormedRows
        /\ Form({"CALL"}, "k22_call", 2) \subseteq WellFormedRows
    BY DEF WellFormedRows
  <2>5. /\ Form({"SBIC", "SBIS", "CBI", "SBI"}, "IO_b", 1) \subseteq WellFormedRows
        /\ Form({"SBRC", "SBRS"}, "Rr_b", 1) \subseteq WellFormedRows
        /\ Form({"BLD", "BST"}, "Rd_b", 1) \subseteq WellFormedRows
        /\ Form({"BSET", "BCLR"}, "b_only", 1) \subseteq WellFormedRows
    BY DEF WellFormedRows
  <2>6. /\ Form(NoOperand, "NONE", 1) \subseteq WellFormedRows
    BY DEF WellFormedRows
  <2> QED BY <2>1, <2>2, <2>3, <2>4, <2>5, <2>6
<1> QED BY <1>1, <1>2

(* Each section of the table is made of them. *)
LEMMA Sections ==
  /\ Arithmetic \in Seq(WellFormedRows) /\ Logic \in Seq(WellFormedRows)
  /\ ShiftRotate \in Seq(WellFormedRows) /\ Comparisons \in Seq(WellFormedRows)
  /\ DataTransfer \in Seq(WellFormedRows) /\ BranchJumpCall \in Seq(WellFormedRows)
  /\ Skips \in Seq(WellFormedRows) /\ BitManipulation \in Seq(WellFormedRows)
  /\ McuControl \in Seq(WellFormedRows)
<1>1. Arithmetic \in Seq(WellFormedRows)
  BY RowForms DEF Arithmetic, TwoRegisters, WithConstant, OneRegister
<1>2. Logic \in Seq(WellFormedRows)
  BY RowForms DEF Logic, TwoRegisters, WithConstant, OneRegister
<1>3. ShiftRotate \in Seq(WellFormedRows)
  BY RowForms DEF ShiftRotate, TwoRegisters, OneRegister
<1>4. Comparisons \in Seq(WellFormedRows)
  BY RowForms DEF Comparisons, TwoRegisters, WithConstant
<1>5. DataTransfer \in Seq(WellFormedRows)
  BY RowForms DEF DataTransfer, TwoRegisters, WithConstant, OneRegister, Through, Displaceable, NoOperand
<1>6. BranchJumpCall \in Seq(WellFormedRows)
  BY RowForms DEF BranchJumpCall, Branches, NoOperand
<1>7. Skips \in Seq(WellFormedRows) BY RowForms DEF Skips
<1>8. BitManipulation \in Seq(WellFormedRows) BY RowForms DEF BitManipulation, NoOperand
<1>9. McuControl \in Seq(WellFormedRows) BY RowForms DEF McuControl, NoOperand
<1> QED BY <1>1, <1>2, <1>3, <1>4, <1>5, <1>6, <1>7, <1>8, <1>9

(* Every row of the table is well formed. *)
THEOREM TableRows == OPCODE_TABLE \in Seq(WellFormedRows)
BY Sections DEF OPCODE_TABLE

-----------------------------------------------------------------------------
(* Operands. *)

Reg == 0..31
WordLimit == 65536
W16 == {w \in Nat : w < WordLimit}

LEMMA FieldRange ==
  ASSUME NEW w \in Nat, NEW p \in Nat \ {0}, NEW q \in Nat \ {0}
  PROVE  (w \div p) % q \in 0..(q - 1)
OBVIOUS

LEMMA Powers ==
  /\ 2^0 = 1 /\ 2^1 = 2 /\ 2^2 = 4 /\ 2^3 = 8 /\ 2^4 = 16 /\ 2^5 = 32 /\ 2^6 = 64 /\ 2^7 = 128
  /\ 2^8 = 256 /\ 2^9 = 512 /\ 2^10 = 1024 /\ 2^11 = 2048 /\ 2^12 = 4096 /\ 2^13 = 8192
BY SMT

LEMMA Fields ==
  ASSUME NEW w \in W16
  PROVE  /\ Field(w, 4, 5) \in 0..31 /\ Field(w, 3, 5) \in 0..31
         /\ Field(w, 4, 4) \in 0..15 /\ Field(w, 8, 4) \in 0..15 /\ Field(w, 0, 4) \in 0..15
         /\ Field(w, 4, 3) \in 0..7 /\ Field(w, 0, 3) \in 0..7
         /\ Field(w, 4, 2) \in 0..3 /\ Field(w, 6, 2) \in 0..3 /\ Field(w, 9, 2) \in 0..3
         /\ Field(w, 10, 2) \in 0..3 /\ Field(w, 0, 2) \in 0..3
         /\ Field(w, 9, 1) \in 0..1 /\ Field(w, 13, 1) \in 0..1
         /\ Field(w, 3, 7) \in 0..127 /\ Field(w, 0, 12) \in 0..4095 /\ Field(w, 4, 6) \in 0..63
         /\ w % 2 \in 0..1
<1>1. w \in Nat BY DEF W16, WordLimit
<1>2. Field(w, 4, 5) \in 0..31 /\ Field(w, 3, 5) \in 0..31 BY SMT, <1>1, FieldRange, Powers DEF Field
<1>3. Field(w, 4, 4) \in 0..15 /\ Field(w, 8, 4) \in 0..15 /\ Field(w, 0, 4) \in 0..15
  BY SMT, <1>1, FieldRange, Powers DEF Field
<1>4. Field(w, 4, 3) \in 0..7 /\ Field(w, 0, 3) \in 0..7 BY SMT, <1>1, FieldRange, Powers DEF Field
<1>5. Field(w, 4, 2) \in 0..3 /\ Field(w, 6, 2) \in 0..3 /\ Field(w, 9, 2) \in 0..3
      /\ Field(w, 10, 2) \in 0..3 /\ Field(w, 0, 2) \in 0..3
  BY SMT, <1>1, FieldRange, Powers DEF Field
<1>6. Field(w, 9, 1) \in 0..1 /\ Field(w, 13, 1) \in 0..1 BY SMT, <1>1, FieldRange, Powers DEF Field
<1>7. Field(w, 3, 7) \in 0..127 BY SMT, <1>1, FieldRange, Powers DEF Field
<1>8. Field(w, 0, 12) \in 0..4095 BY SMT, <1>1, FieldRange, Powers DEF Field
<1>9. Field(w, 4, 6) \in 0..63 BY SMT, <1>1, FieldRange, Powers DEF Field
<1>10. w % 2 \in 0..1 BY SMT, <1>1
<1> QED BY SMT, <1>2, <1>3, <1>4, <1>5, <1>6, <1>7, <1>8, <1>9, <1>10

(* What decodeK22 and decodeK02 can return: 22 bits, and 12 with a sign. *)
LongAddresses == {k \in Nat : k < 64 * 65536}
Offsets == -2048..2047

LEMMA LongAddress ==
  ASSUME NEW f \in 0..63, NEW s \in W16
  PROVE  (65536 * f) + s \in LongAddresses
<1>1. s \in Int /\ 0 <= s /\ s < 65536 BY DEF W16, WordLimit
<1>2. f \in Int /\ 0 <= f /\ f <= 63 BY SMT
<1> DEFINE k == (65536 * f) + s
<1>3. k \in Int /\ 0 <= k /\ k < 64 * 65536 BY SMT, <1>1, <1>2
<1> HIDE DEF k
<1>4. k \in LongAddresses BY SMT, <1>3 DEF LongAddresses
<1> QED BY <1>4 DEF k

Pairs == {24, 26, 28, 30}
EightBits == 0..255
SixBits == 0..63

LEMMA OperandRanges ==
  ASSUME NEW w \in W16, NEW s \in W16
  PROVE  /\ decodeRdRr(w) \in Reg \X Reg
         /\ decodeRdK8(w) \in (16..31) \X EightBits
         /\ decodeRd(w) \in {<<d>> : d \in Reg}
         /\ decodeRdRrMpy(w) \in (16..23) \X (16..23)
         /\ decodeRd06K6(w) \in Pairs \X SixBits
         /\ decodeRd06Rr06(w) \in (0..15) \X (0..15)
         /\ decodeBOnly(w) \in {<<b>> : b \in 0..7}
         /\ decodeRdB(w) \in Reg \X (0..7)
         /\ decodeIOB(w) \in Reg \X (0..7)
         /\ decodeRdIO(w) \in Reg \X SixBits
         /\ decodeIORr(w) \in SixBits \X Reg
         /\ decodeK7(w) \in (-64..63) \X (0..7)
         /\ decodeK02(w) \in {<<k>> : k \in Offsets}
         /\ decodeK22(w, s) \in {<<k>> : k \in LongAddresses}
         /\ decodeLdSt(w) \in Reg \X (0..3)
         /\ decodeLdd(w) \in Reg \X SixBits
         /\ decodeLdsSts(w, s) \in Reg \X W16
         /\ <<Field(w, 4, 5), w % 2>> \in Reg \X (0..1)
<1>1. decodeRdRr(w) \in Reg \X Reg BY SMT, Fields DEF decodeRdRr, Reg
<1>2. decodeRdK8(w) \in (16..31) \X EightBits BY SMT, Fields DEF decodeRdK8, EightBits
<1>3. decodeRd(w) \in {<<d>> : d \in Reg} BY SMT, Fields DEF decodeRd, Reg
<1>4. decodeRdRrMpy(w) \in (16..23) \X (16..23) BY SMT, Fields DEF decodeRdRrMpy
<1>5. decodeRd06K6(w) \in Pairs \X SixBits
  <2>1. 24 + (2 * Field(w, 4, 2)) \in Pairs BY SMT, Fields DEF Pairs
  <2>2. (16 * Field(w, 6, 2)) + Field(w, 0, 4) \in 0..63 BY SMT, Fields
  <2> QED BY <2>1, <2>2 DEF decodeRd06K6, SixBits
<1>6. decodeRd06Rr06(w) \in (0..15) \X (0..15) BY SMT, Fields DEF decodeRd06Rr06
<1>7. decodeBOnly(w) \in {<<b>> : b \in 0..7} BY SMT, Fields DEF decodeBOnly
<1>8. decodeRdB(w) \in Reg \X (0..7) BY SMT, Fields DEF decodeRdB, Reg
<1>9. decodeIOB(w) \in Reg \X (0..7) BY SMT, Fields DEF decodeIOB, Reg
<1>10. decodeRdIO(w) \in Reg \X SixBits BY SMT, Fields DEF decodeRdIO, Reg, SixBits
<1>11. decodeIORr(w) \in SixBits \X Reg BY SMT, Fields DEF decodeIORr, Reg, SixBits
<1>12. decodeK7(w) \in (-64..63) \X (0..7)
  <2>1. SignExtended(Field(w, 3, 7), 7) \in -64..63 BY SMT, Fields DEF SignExtended
  <2> QED BY <2>1, Fields DEF decodeK7
<1>13. decodeK02(w) \in {<<k>> : k \in Offsets}
  <2> DEFINE f == Field(w, 0, 12)
  <2>f. f \in 0..4095 BY SMT, Fields
  <2> HIDE DEF f
  <2>p. 2^(12 - 1) = 2048 /\ 2^12 = 4096 BY SMT, Powers
  <2>s. (IF f >= 2048 THEN f - 4096 ELSE f) \in -2048..2047 BY SMT, <2>f
  <2>1. SignExtended(f, 12) \in -2048..2047 BY SMT, <2>p, <2>s DEF SignExtended
  <2> QED BY SMT, <2>1 DEF decodeK02, f, Offsets
<1>14. decodeK22(w, s) \in {<<k>> : k \in LongAddresses}
  <2>1. (65536 * Field(w, 4, 6)) + s \in LongAddresses BY SMT, Fields, LongAddress
  <2> QED BY SMT, <2>1 DEF decodeK22
<1>15. decodeLdSt(w) \in Reg \X (0..3) BY SMT, Fields DEF decodeLdSt, Reg
<1>16. decodeLdd(w) \in Reg \X SixBits
  <2>1. (32 * Field(w, 13, 1)) + (8 * Field(w, 10, 2)) + Field(w, 0, 3) \in 0..63 BY SMT, Fields
  <2> QED BY <2>1, Fields DEF decodeLdd, Reg, SixBits
<1>17. decodeLdsSts(w, s) \in Reg \X W16 BY SMT, Fields DEF decodeLdsSts, Reg
<1>18. <<Field(w, 4, 5), w % 2>> \in Reg \X (0..1) BY SMT, Fields DEF Reg
<1> QED BY <1>1, <1>2, <1>3, <1>4, <1>5, <1>6, <1>7, <1>8, <1>9, <1>10, <1>11, <1>12, <1>13,
           <1>14, <1>15, <1>16, <1>17, <1>18, Zenon

-----------------------------------------------------------------------------
(* The row of a word. *)

LEMMA MatchesAreRows ==
  ASSUME NEW w \in W16
  PROVE  Matches(w) \subseteq Rows /\ Rows \subseteq Nat
<1>1. w \div 256 \in 0..255 /\ w % 256 \in 0..255
  <2>1. w \in Int /\ 0 <= w /\ w < 65536 BY DEF W16, WordLimit
  <2> DEFINE q == w \div 256
  <2>2. q \in Int /\ 256 * q <= w /\ w < (256 * q) + 256 BY SMT, <2>1
  <2>3. w % 256 \in 0..255 BY SMT, <2>1
  <2> HIDE DEF q
  <2>4. q \in 0..255 BY SMT, <2>1, <2>2
  <2> QED BY SMT, <2>3, <2>4 DEF q
<1>2. ByteMatches[256][w \div 256] \subseteq Rows BY <1>1 DEF ByteMatches
<1>3. Rows \subseteq Nat BY TableRows DEF Rows
<1> QED BY <1>2, <1>3 DEF Matches, BothBytes

(* A set of numbers that is not empty has a least one. *)
LEMMA LeastNumber ==
  ASSUME NEW T, T \subseteq Nat, T # {}
  PROVE  \E i \in T : \A j \in T : i <= j
<1> DEFINE R == OpToRel(<, Nat)
<1>1. IsWellFoundedOn(R, Nat) BY NatLessThanWellFounded
<1>2. \A j, i \in Nat : j < i => <<j, i>> \in R BY DEF OpToRel
<1> HIDE DEF R
<1>3. PICK i \in T : \A j \in T : ~ (<<j, i>> \in R) BY ONLY <1>1, T \subseteq Nat, T # {}, WFMin, Zenon
<1>4. \A j \in T : ~ (j < i) BY <1>2, <1>3
<1>5. \A j \in T : i <= j BY <1>4
<1> QED BY <1>5

(* A word that decodes has a first matching row. *)
LEMMA FirstMatch ==
  ASSUME NEW w \in W16, Decodes(w)
  PROVE  /\ decodeInstruction(w) \in Matches(w)
         /\ \A j \in Matches(w) : decodeInstruction(w) <= j
<1>1. Matches(w) \subseteq Nat /\ Matches(w) # {} BY MatchesAreRows DEF Decodes
<1>2. \E i \in Matches(w) : \A j \in Matches(w) : i <= j BY <1>1, LeastNumber
<1> QED BY <1>2 DEF decodeInstruction, First

LEMMA FoundRow ==
  ASSUME NEW w \in W16, Decodes(w)
  PROVE  OPCODE_TABLE[decodeInstruction(w)] \in WellFormedRows
BY FirstMatch, MatchesAreRows, TableRows DEF Rows

LEMMA FoundWords ==
  ASSUME NEW w \in W16, Decodes(w)
  PROVE  Words(decodeInstruction(w)) \in {1, 2}
<1> DEFINE row == OPCODE_TABLE[decodeInstruction(w)]
<1>1. row \in WellFormedRows BY FoundRow
<1> HIDE DEF row
<1>2. \A ops, fmt, n : row \in Form(ops, fmt, n) => row[5] = n BY DEF Form
<1>3. row[5] \in {1, 2} BY <1>1, <1>2 DEF WellFormedRows
<1> QED BY <1>3 DEF row, Words

-----------------------------------------------------------------------------
(* The calls that executeInstruction may make. *)

OneOperand(S) == {<<x>> : x \in S}
TwoRegisterFns == {"ADC", "ADD", "MUL", "SBC", "SUB", "AND", "EOR", "OR", "CP", "CPC", "CPSE", "MOV"}
ConstantFns == {"SBCI", "SUBI", "ANDI", "ORI", "SER", "CPI", "LDI"}
OneRegisterFns == OneRegister \ {"LPM"}
NoOperandFns == {"IJMP", "ICALL", "RET", "RETI", "NOP", "SLEEP", "WDR", "BREAK", "SPM_E"}

Calls ==
  [fn : TwoRegisterFns, args : Reg \X Reg]
    \cup [fn : ConstantFns, args : (16..31) \X EightBits]
    \cup [fn : OneRegisterFns, args : OneOperand(Reg)]
    \cup [fn : {"LPM"}, args : Reg \X (0..1)]
    \cup [fn : {"ADIW", "SBIW"}, args : Pairs \X SixBits]
    \cup [fn : {"MULS", "MOVW"}, args : (0..15) \X (0..15)]
    \cup [fn : {"MULSU", "FMUL", "FMULS", "FMULSU"}, args : (16..23) \X (16..23)]
    \cup [fn : Through, args : Reg \X (0..3)]
    \cup [fn : {"LDD_Y", "LDD_Z", "STD_Y", "STD_Z"}, args : Reg \X SixBits]
    \cup [fn : {"LDS", "STS"}, args : Reg \X W16]
    \cup [fn : {"IN"}, args : Reg \X SixBits]
    \cup [fn : {"OUT"}, args : SixBits \X Reg]
    \cup [fn : {"BRBS", "BRBC"}, args : (-64..63) \X (0..7)]
    \cup [fn : {"RJMP", "RCALL"}, args : OneOperand(Offsets)]
    \cup [fn : {"JMP", "CALL"}, args : OneOperand(LongAddresses)]
    \cup [fn : {"SBIC", "SBIS", "CBI", "SBI", "SBRC", "SBRS", "BLD", "BST"}, args : Reg \X (0..7)]
    \cup [fn : {"BSET", "BCLR"}, args : OneOperand(0..7)]
    \cup [fn : NoOperandFns, args : {<<>>}]

(* What Handler and DecodedOperands make of the operations of each form. *)
CallOf(op, fmt, w, s) == [fn |-> Handler(op, fmt), args |-> DecodedOperands(op, fmt, w, s)]

LEMMA CallIn ==
  ASSUME NEW F, NEW A, NEW f \in F, NEW x \in A
  PROVE  [fn |-> f, args |-> x] \in [fn : F, args : A]
OBVIOUS

LEMMA TwoRegisterCalls ==
  ASSUME NEW w \in W16, NEW s \in W16, NEW op \in TwoRegisters
  PROVE  CallOf(op, "Rd_Rr", w, s) \in [fn : TwoRegisterFns, args : Reg \X Reg]
<1>1. Handler(op, "Rd_Rr") \in TwoRegisterFns
  BY DEF Handler, SetsBit, ClearsBit, BranchesIfSet, BranchesIfClear, SameAs, TwoRegisters, TwoRegisterFns
<1>2. DecodedOperands(op, "Rd_Rr", w, s) = decodeRdRr(w)
  BY DEF DecodedOperands, SetsBit, ClearsBit, TwoRegisters, TwoRegisterFns
<1>3. decodeRdRr(w) \in Reg \X Reg BY OperandRanges, Zenon
<1> QED BY <1>1, <1>2, <1>3, CallIn, Zenon DEF CallOf

LEMMA ConstantCalls ==
  ASSUME NEW w \in W16, NEW s \in W16, NEW op \in WithConstant
  PROVE  CallOf(op, "Rd_K8", w, s) \in [fn : ConstantFns, args : (16..31) \X EightBits]
<1>1. Handler(op, "Rd_K8") \in ConstantFns
  BY DEF Handler, SetsBit, ClearsBit, BranchesIfSet, BranchesIfClear, SameAs, WithConstant, ConstantFns
<1>2. DecodedOperands(op, "Rd_K8", w, s) = decodeRdK8(w)
  BY DEF DecodedOperands, SetsBit, ClearsBit, WithConstant, ConstantFns
<1>3. decodeRdK8(w) \in (16..31) \X EightBits BY OperandRanges, Zenon
<1> QED BY <1>1, <1>2, <1>3, CallIn, Zenon DEF CallOf

LEMMA PairCalls ==
  ASSUME NEW w \in W16, NEW s \in W16, NEW op \in {"ADIW", "SBIW"}
  PROVE  CallOf(op, "Rd06_K6", w, s) \in [fn : {"ADIW", "SBIW"}, args : Pairs \X SixBits]
<1>1. Handler(op, "Rd06_K6") \in {"ADIW", "SBIW"}
  BY DEF Handler, SetsBit, ClearsBit, BranchesIfSet, BranchesIfClear, SameAs
<1>2. DecodedOperands(op, "Rd06_K6", w, s) = decodeRd06K6(w)
  BY DEF DecodedOperands, SetsBit, ClearsBit
<1>3. decodeRd06K6(w) \in Pairs \X SixBits BY OperandRanges, Zenon
<1> QED BY <1>1, <1>2, <1>3, CallIn, Zenon DEF CallOf

LEMMA HalfCalls ==
  ASSUME NEW w \in W16, NEW s \in W16, NEW op \in {"MULS", "MOVW"}
  PROVE  CallOf(op, "Rd06_Rr06", w, s) \in [fn : {"MULS", "MOVW"}, args : (0..15) \X (0..15)]
<1>1. Handler(op, "Rd06_Rr06") \in {"MULS", "MOVW"}
  BY DEF Handler, SetsBit, ClearsBit, BranchesIfSet, BranchesIfClear, SameAs
<1>2. DecodedOperands(op, "Rd06_Rr06", w, s) = decodeRd06Rr06(w)
  BY DEF DecodedOperands, SetsBit, ClearsBit
<1>3. decodeRd06Rr06(w) \in (0..15) \X (0..15) BY OperandRanges, Zenon
<1> QED BY <1>1, <1>2, <1>3, CallIn, Zenon DEF CallOf

LEMMA FractionCalls ==
  ASSUME NEW w \in W16, NEW s \in W16, NEW op \in {"MULSU", "FMUL", "FMULS", "FMULSU"}
  PROVE  CallOf(op, "Rd_Rr_mpy", w, s) \in [fn : {"MULSU", "FMUL", "FMULS", "FMULSU"}, args : (16..23) \X (16..23)]
<1>1. Handler(op, "Rd_Rr_mpy") \in {"MULSU", "FMUL", "FMULS", "FMULSU"}
  BY DEF Handler, SetsBit, ClearsBit, BranchesIfSet, BranchesIfClear, SameAs
<1>2. DecodedOperands(op, "Rd_Rr_mpy", w, s) = decodeRdRrMpy(w)
  BY DEF DecodedOperands, SetsBit, ClearsBit
<1>3. decodeRdRrMpy(w) \in (16..23) \X (16..23) BY OperandRanges, Zenon
<1> QED BY <1>1, <1>2, <1>3, CallIn, Zenon DEF CallOf

LEMMA ThroughCalls ==
  ASSUME NEW w \in W16, NEW s \in W16, NEW op \in Through
  PROVE  CallOf(op, "LD_family", w, s) \in [fn : Through, args : Reg \X (0..3)]
<1>1. Handler(op, "LD_family") \in Through
  BY DEF Handler, SetsBit, ClearsBit, BranchesIfSet, BranchesIfClear, SameAs, Through
<1>2. DecodedOperands(op, "LD_family", w, s) = decodeLdSt(w)
  BY DEF DecodedOperands, SetsBit, ClearsBit, Through
<1>3. decodeLdSt(w) \in Reg \X (0..3) BY OperandRanges, Zenon
<1> QED BY <1>1, <1>2, <1>3, CallIn, Zenon DEF CallOf

LEMMA DisplacedCalls ==
  ASSUME NEW w \in W16, NEW s \in W16, NEW op \in Displaceable
  PROVE  CallOf(op, "LDD_family", w, s) \in [fn : {"LDD_Y", "LDD_Z", "STD_Y", "STD_Z"}, args : Reg \X SixBits]
<1>1. Handler(op, "LDD_family") \in {"LDD_Y", "LDD_Z", "STD_Y", "STD_Z"}
  BY DEF Handler, SetsBit, ClearsBit, BranchesIfSet, BranchesIfClear, SameAs, Displaceable, Displaced
<1>2. DecodedOperands(op, "LDD_family", w, s) = decodeLdd(w)
  BY DEF DecodedOperands, SetsBit, ClearsBit, Displaceable, Displaced
<1>3. decodeLdd(w) \in Reg \X SixBits BY OperandRanges, Zenon
<1> QED BY <1>1, <1>2, <1>3, CallIn, Zenon DEF CallOf

LEMMA DirectCalls ==
  ASSUME NEW w \in W16, NEW s \in W16, NEW op \in {"LDS", "STS"}
  PROVE  CallOf(op, "LDS_STS", w, s) \in [fn : {"LDS", "STS"}, args : Reg \X W16]
<1>1. Handler(op, "LDS_STS") \in {"LDS", "STS"}
  BY DEF Handler, SetsBit, ClearsBit, BranchesIfSet, BranchesIfClear, SameAs
<1>2. DecodedOperands(op, "LDS_STS", w, s) = decodeLdsSts(w, s)
  BY DEF DecodedOperands, SetsBit, ClearsBit
<1>3. decodeLdsSts(w, s) \in Reg \X W16 BY OperandRanges, Zenon
<1> QED BY <1>1, <1>2, <1>3, CallIn, Zenon DEF CallOf

LEMMA InCalls ==
  ASSUME NEW w \in W16, NEW s \in W16, NEW op \in {"IN"}
  PROVE  CallOf(op, "Rd_IO", w, s) \in [fn : {"IN"}, args : Reg \X SixBits]
<1>1. Handler(op, "Rd_IO") \in {"IN"}
  BY DEF Handler, SetsBit, ClearsBit, BranchesIfSet, BranchesIfClear, SameAs
<1>2. DecodedOperands(op, "Rd_IO", w, s) = decodeRdIO(w)
  BY DEF DecodedOperands, SetsBit, ClearsBit
<1>3. decodeRdIO(w) \in Reg \X SixBits BY OperandRanges, Zenon
<1> QED BY <1>1, <1>2, <1>3, CallIn, Zenon DEF CallOf

LEMMA OutCalls ==
  ASSUME NEW w \in W16, NEW s \in W16, NEW op \in {"OUT"}
  PROVE  CallOf(op, "IO_Rr", w, s) \in [fn : {"OUT"}, args : SixBits \X Reg]
<1>1. Handler(op, "IO_Rr") \in {"OUT"}
  BY DEF Handler, SetsBit, ClearsBit, BranchesIfSet, BranchesIfClear, SameAs
<1>2. DecodedOperands(op, "IO_Rr", w, s) = decodeIORr(w)
  BY DEF DecodedOperands, SetsBit, ClearsBit
<1>3. decodeIORr(w) \in SixBits \X Reg BY OperandRanges, Zenon
<1> QED BY <1>1, <1>2, <1>3, CallIn, Zenon DEF CallOf

LEMMA BranchCalls ==
  ASSUME NEW w \in W16, NEW s \in W16, NEW op \in Branches
  PROVE  CallOf(op, "k7", w, s) \in [fn : {"BRBS", "BRBC"}, args : (-64..63) \X (0..7)]
<1>1. Handler(op, "k7") \in {"BRBS", "BRBC"}
  BY DEF Handler, SetsBit, ClearsBit, BranchesIfSet, BranchesIfClear, SameAs, Branches
<1>2. DecodedOperands(op, "k7", w, s) = decodeK7(w)
  BY DEF DecodedOperands, SetsBit, ClearsBit, Branches
<1>3. decodeK7(w) \in (-64..63) \X (0..7) BY OperandRanges, Zenon
<1> QED BY <1>1, <1>2, <1>3, CallIn, Zenon DEF CallOf

LEMMA RelativeJumps ==
  ASSUME NEW w \in W16, NEW s \in W16, NEW op \in {"RJMP"}
  PROVE  CallOf(op, "k02", w, s) \in [fn : {"RJMP"}, args : OneOperand(Offsets)]
<1>1. Handler(op, "k02") \in {"RJMP"}
  BY DEF Handler, SetsBit, ClearsBit, BranchesIfSet, BranchesIfClear, SameAs
<1>2. DecodedOperands(op, "k02", w, s) = decodeK02(w)
  BY DEF DecodedOperands, SetsBit, ClearsBit
<1>3. decodeK02(w) \in OneOperand(Offsets) BY OperandRanges, Zenon DEF OneOperand
<1> QED BY <1>1, <1>2, <1>3, CallIn, Zenon DEF CallOf

LEMMA RelativeCalls ==
  ASSUME NEW w \in W16, NEW s \in W16, NEW op \in {"RCALL"}
  PROVE  CallOf(op, "k02_call", w, s) \in [fn : {"RCALL"}, args : OneOperand(Offsets)]
<1>1. Handler(op, "k02_call") \in {"RCALL"}
  BY DEF Handler, SetsBit, ClearsBit, BranchesIfSet, BranchesIfClear, SameAs
<1>2. DecodedOperands(op, "k02_call", w, s) = decodeK02(w)
  BY DEF DecodedOperands, SetsBit, ClearsBit
<1>3. decodeK02(w) \in OneOperand(Offsets) BY OperandRanges, Zenon DEF OneOperand
<1> QED BY <1>1, <1>2, <1>3, CallIn, Zenon DEF CallOf

LEMMA LongJumps ==
  ASSUME NEW w \in W16, NEW s \in W16, NEW op \in {"JMP"}
  PROVE  CallOf(op, "k22", w, s) \in [fn : {"JMP"}, args : OneOperand(LongAddresses)]
<1>1. Handler(op, "k22") \in {"JMP"}
  BY DEF Handler, SetsBit, ClearsBit, BranchesIfSet, BranchesIfClear, SameAs
<1>2. DecodedOperands(op, "k22", w, s) = decodeK22(w, s)
  BY DEF DecodedOperands, SetsBit, ClearsBit
<1>3. decodeK22(w, s) \in OneOperand(LongAddresses) BY OperandRanges, Zenon DEF OneOperand
<1> QED BY <1>1, <1>2, <1>3, CallIn, Zenon DEF CallOf

LEMMA LongCalls ==
  ASSUME NEW w \in W16, NEW s \in W16, NEW op \in {"CALL"}
  PROVE  CallOf(op, "k22_call", w, s) \in [fn : {"CALL"}, args : OneOperand(LongAddresses)]
<1>1. Handler(op, "k22_call") \in {"CALL"}
  BY DEF Handler, SetsBit, ClearsBit, BranchesIfSet, BranchesIfClear, SameAs
<1>2. DecodedOperands(op, "k22_call", w, s) = decodeK22(w, s)
  BY DEF DecodedOperands, SetsBit, ClearsBit
<1>3. decodeK22(w, s) \in OneOperand(LongAddresses) BY OperandRanges, Zenon DEF OneOperand
<1> QED BY <1>1, <1>2, <1>3, CallIn, Zenon DEF CallOf

LEMMA PortBitCalls ==
  ASSUME NEW w \in W16, NEW s \in W16, NEW op \in {"SBIC", "SBIS", "CBI", "SBI"}
  PROVE  CallOf(op, "IO_b", w, s) \in [fn : {"SBIC", "SBIS", "CBI", "SBI"}, args : Reg \X (0..7)]
<1>1. Handler(op, "IO_b") \in {"SBIC", "SBIS", "CBI", "SBI"}
  BY DEF Handler, SetsBit, ClearsBit, BranchesIfSet, BranchesIfClear, SameAs
<1>2. DecodedOperands(op, "IO_b", w, s) = decodeIOB(w)
  BY DEF DecodedOperands, SetsBit, ClearsBit
<1>3. decodeIOB(w) \in Reg \X (0..7) BY OperandRanges, Zenon
<1> QED BY <1>1, <1>2, <1>3, CallIn, Zenon DEF CallOf

LEMMA SkipCalls ==
  ASSUME NEW w \in W16, NEW s \in W16, NEW op \in {"SBRC", "SBRS"}
  PROVE  CallOf(op, "Rr_b", w, s) \in [fn : {"SBRC", "SBRS"}, args : Reg \X (0..7)]
<1>1. Handler(op, "Rr_b") \in {"SBRC", "SBRS"}
  BY DEF Handler, SetsBit, ClearsBit, BranchesIfSet, BranchesIfClear, SameAs
<1>2. DecodedOperands(op, "Rr_b", w, s) = decodeRdB(w)
  BY DEF DecodedOperands, SetsBit, ClearsBit
<1>3. decodeRdB(w) \in Reg \X (0..7) BY OperandRanges, Zenon
<1> QED BY <1>1, <1>2, <1>3, CallIn, Zenon DEF CallOf

LEMMA BitCalls ==
  ASSUME NEW w \in W16, NEW s \in W16, NEW op \in {"BLD", "BST"}
  PROVE  CallOf(op, "Rd_b", w, s) \in [fn : {"BLD", "BST"}, args : Reg \X (0..7)]
<1>1. Handler(op, "Rd_b") \in {"BLD", "BST"}
  BY DEF Handler, SetsBit, ClearsBit, BranchesIfSet, BranchesIfClear, SameAs
<1>2. DecodedOperands(op, "Rd_b", w, s) = decodeRdB(w)
  BY DEF DecodedOperands, SetsBit, ClearsBit
<1>3. decodeRdB(w) \in Reg \X (0..7) BY OperandRanges, Zenon
<1> QED BY <1>1, <1>2, <1>3, CallIn, Zenon DEF CallOf

LEMMA FlagCalls ==
  ASSUME NEW w \in W16, NEW s \in W16, NEW op \in {"BSET", "BCLR"}
  PROVE  CallOf(op, "b_only", w, s) \in [fn : {"BSET", "BCLR"}, args : OneOperand(0..7)]
<1>1. Handler(op, "b_only") \in {"BSET", "BCLR"}
  BY DEF Handler, SetsBit, ClearsBit, BranchesIfSet, BranchesIfClear, SameAs
<1>2. DecodedOperands(op, "b_only", w, s) = decodeBOnly(w)
  BY DEF DecodedOperands, SetsBit, ClearsBit
<1>3. decodeBOnly(w) \in OneOperand(0..7) BY OperandRanges, Zenon DEF OneOperand
<1> QED BY <1>1, <1>2, <1>3, CallIn, Zenon DEF CallOf

LEMMA OneRegisterCalls ==
  ASSUME NEW w \in W16, NEW s \in W16, NEW op \in OneRegister
  PROVE  CallOf(op, "Rd_only", w, s) \in [fn : OneRegisterFns, args : OneOperand(Reg)]
                                       \cup [fn : {"LPM"}, args : Reg \X (0..1)]
<1>1. Handler(op, "Rd_only") = op
  BY DEF Handler, SetsBit, ClearsBit, BranchesIfSet, BranchesIfClear, SameAs, OneRegister
<1>2. CASE op = "LPM"
  <2>1. DecodedOperands(op, "Rd_only", w, s) = <<Field(w, 4, 5), w % 2>>
    BY <1>2 DEF DecodedOperands, SetsBit, ClearsBit
  <2> QED BY <1>1, <1>2, <2>1, OperandRanges DEF CallOf
<1>3. CASE op # "LPM"
  <2>1. DecodedOperands(op, "Rd_only", w, s) = decodeRd(w)
    BY <1>3 DEF DecodedOperands, SetsBit, ClearsBit, OneRegister
  <2>2. decodeRd(w) \in OneOperand(Reg) BY OperandRanges, Zenon DEF OneOperand
  <2>3. op \in OneRegisterFns BY <1>3 DEF OneRegisterFns
  <2> QED BY <1>1, <2>1, <2>2, <2>3, CallIn, Zenon DEF CallOf
<1> QED BY <1>2, <1>3

LEMMA NoOperandCalls ==
  ASSUME NEW w \in W16, NEW s \in W16, NEW op \in NoOperand
  PROVE  CallOf(op, "NONE", w, s) \in [fn : {"LPM"}, args : Reg \X (0..1)]
                                    \cup [fn : {"BSET", "BCLR"}, args : OneOperand(0..7)]
                                    \cup [fn : NoOperandFns, args : {<<>>}]
<1>1. CASE op = "LPM"
  <2>1. Handler(op, "NONE") = "LPM"
    BY <1>1 DEF Handler, SetsBit, ClearsBit, BranchesIfSet, BranchesIfClear, SameAs
  <2>2. DecodedOperands(op, "NONE", w, s) = <<0, 0>>
    BY <1>1 DEF DecodedOperands, SetsBit, ClearsBit
  <2>3. <<0, 0>> \in Reg \X (0..1) BY DEF Reg
  <2> QED BY <2>1, <2>2, <2>3 DEF CallOf
<1>2. CASE op \in SetsBit \cup ClearsBit
  <2>1. Handler(op, "NONE") \in {"BSET", "BCLR"}
    <3>1. CASE op \in SetsBit BY <3>1 DEF Handler, SetsBit, ClearsBit, BranchesIfSet, BranchesIfClear, SameAs
    <3>2. CASE op \in ClearsBit BY <3>2 DEF Handler, SetsBit, ClearsBit, BranchesIfSet, BranchesIfClear, SameAs
    <3> QED BY <1>2, <3>1, <3>2
  <2>2. DecodedOperands(op, "NONE", w, s) = decodeBOnly(w)
    BY <1>2 DEF DecodedOperands, SetsBit, ClearsBit
  <2>3. decodeBOnly(w) \in OneOperand(0..7) BY OperandRanges, Zenon DEF OneOperand
  <2>4. CallOf(op, "NONE", w, s) \in [fn : {"BSET", "BCLR"}, args : OneOperand(0..7)]
    BY <2>1, <2>2, <2>3, CallIn, Zenon DEF CallOf
  <2> QED BY <2>4
<1>3. CASE op # "LPM" /\ op \notin SetsBit \cup ClearsBit
  <2>1. Handler(op, "NONE") = op /\ op \in NoOperandFns
    BY <1>3 DEF Handler, SetsBit, ClearsBit, BranchesIfSet, BranchesIfClear, SameAs, NoOperand, NoOperandFns
  <2>2. DecodedOperands(op, "NONE", w, s) = <<>>
    BY <1>3 DEF DecodedOperands
  <2> QED BY <2>1, <2>2 DEF CallOf
<1> QED BY <1>1, <1>2, <1>3

(* Every word that decodes makes executeInstruction call a function of this    *)
(* list, with operands in its range: no register beyond R31, no bit beyond 7,  *)
(* no pair that begins at R31, no flash address of more than 22 bits.          *)
THEOREM DispatchInRange ==
  ASSUME NEW w \in W16, NEW s \in W16, Decodes(w)
  PROVE  executeInstruction(decodeInstruction(w), w, s) \in Calls
<1> DEFINE row == OPCODE_TABLE[decodeInstruction(w)]
<1>1. row \in WellFormedRows BY FoundRow
<1>2. executeInstruction(decodeInstruction(w), w, s) = CallOf(row[3], row[4], w, s)
  BY DEF executeInstruction, CallOf
<1> HIDE DEF row
<1>3. SUFFICES CallOf(row[3], row[4], w, s) \in Calls BY <1>2 DEF row
<1>4. CASE row \in Form(OneRegister, "Rd_only", 1)
  <2>1. row[3] \in OneRegister /\ row[4] = "Rd_only" BY <1>4 DEF Form
  <2> QED BY <2>1, OneRegisterCalls DEF Calls
<1>5. CASE row \in Form(NoOperand, "NONE", 1)
  <2>1. row[3] \in NoOperand /\ row[4] = "NONE" BY <1>5 DEF Form
  <2> QED BY <2>1, NoOperandCalls DEF Calls
<1>6. CASE row \in Form(TwoRegisters, "Rd_Rr", 1)
  <2>1. row[3] \in TwoRegisters /\ row[4] = "Rd_Rr" BY <1>6 DEF Form
  <2>2. CallOf(row[3], row[4], w, s) \in [fn : TwoRegisterFns, args : Reg \X Reg] BY <2>1, TwoRegisterCalls, Zenon
  <2> QED BY ONLY <2>2, Zenon DEF Calls
<1>7. CASE row \in Form(WithConstant, "Rd_K8", 1)
  <2>1. row[3] \in WithConstant /\ row[4] = "Rd_K8" BY <1>7 DEF Form
  <2>2. CallOf(row[3], row[4], w, s) \in [fn : ConstantFns, args : (16..31) \X EightBits] BY <2>1, ConstantCalls, Zenon
  <2> QED BY ONLY <2>2, Zenon DEF Calls
<1>8. CASE row \in Form({"ADIW", "SBIW"}, "Rd06_K6", 1)
  <2>1. row[3] \in {"ADIW", "SBIW"} /\ row[4] = "Rd06_K6" BY <1>8 DEF Form
  <2>2. CallOf(row[3], row[4], w, s) \in [fn : {"ADIW", "SBIW"}, args : Pairs \X SixBits] BY <2>1, PairCalls, Zenon
  <2> QED BY ONLY <2>2, Zenon DEF Calls
<1>9. CASE row \in Form({"MULS", "MOVW"}, "Rd06_Rr06", 1)
  <2>1. row[3] \in {"MULS", "MOVW"} /\ row[4] = "Rd06_Rr06" BY <1>9 DEF Form
  <2>2. CallOf(row[3], row[4], w, s) \in [fn : {"MULS", "MOVW"}, args : (0..15) \X (0..15)] BY <2>1, HalfCalls, Zenon
  <2> QED BY ONLY <2>2, Zenon DEF Calls
<1>10. CASE row \in Form({"MULSU", "FMUL", "FMULS", "FMULSU"}, "Rd_Rr_mpy", 1)
  <2>1. row[3] \in {"MULSU", "FMUL", "FMULS", "FMULSU"} /\ row[4] = "Rd_Rr_mpy" BY <1>10 DEF Form
  <2>2. CallOf(row[3], row[4], w, s) \in [fn : {"MULSU", "FMUL", "FMULS", "FMULSU"}, args : (16..23) \X (16..23)] BY <2>1, FractionCalls, Zenon
  <2> QED BY ONLY <2>2, Zenon DEF Calls
<1>11. CASE row \in Form(Through, "LD_family", 1)
  <2>1. row[3] \in Through /\ row[4] = "LD_family" BY <1>11 DEF Form
  <2>2. CallOf(row[3], row[4], w, s) \in [fn : Through, args : Reg \X (0..3)] BY <2>1, ThroughCalls, Zenon
  <2> QED BY ONLY <2>2, Zenon DEF Calls
<1>12. CASE row \in Form(Displaceable, "LDD_family", 1)
  <2>1. row[3] \in Displaceable /\ row[4] = "LDD_family" BY <1>12 DEF Form
  <2>2. CallOf(row[3], row[4], w, s) \in [fn : {"LDD_Y", "LDD_Z", "STD_Y", "STD_Z"}, args : Reg \X SixBits] BY <2>1, DisplacedCalls, Zenon
  <2> QED BY ONLY <2>2, Zenon DEF Calls
<1>13. CASE row \in Form({"LDS", "STS"}, "LDS_STS", 2)
  <2>1. row[3] \in {"LDS", "STS"} /\ row[4] = "LDS_STS" BY <1>13 DEF Form
  <2>2. CallOf(row[3], row[4], w, s) \in [fn : {"LDS", "STS"}, args : Reg \X W16] BY <2>1, DirectCalls, Zenon
  <2> QED BY ONLY <2>2, Zenon DEF Calls
<1>14. CASE row \in Form({"IN"}, "Rd_IO", 1)
  <2>1. row[3] \in {"IN"} /\ row[4] = "Rd_IO" BY <1>14 DEF Form
  <2>2. CallOf(row[3], row[4], w, s) \in [fn : {"IN"}, args : Reg \X SixBits] BY <2>1, InCalls, Zenon
  <2> QED BY ONLY <2>2, Zenon DEF Calls
<1>15. CASE row \in Form({"OUT"}, "IO_Rr", 1)
  <2>1. row[3] \in {"OUT"} /\ row[4] = "IO_Rr" BY <1>15 DEF Form
  <2>2. CallOf(row[3], row[4], w, s) \in [fn : {"OUT"}, args : SixBits \X Reg] BY <2>1, OutCalls, Zenon
  <2> QED BY ONLY <2>2, Zenon DEF Calls
<1>16. CASE row \in Form(Branches, "k7", 1)
  <2>1. row[3] \in Branches /\ row[4] = "k7" BY <1>16 DEF Form
  <2>2. CallOf(row[3], row[4], w, s) \in [fn : {"BRBS", "BRBC"}, args : (-64..63) \X (0..7)] BY <2>1, BranchCalls, Zenon
  <2> QED BY ONLY <2>2, Zenon DEF Calls
<1>17. CASE row \in Form({"RJMP"}, "k02", 1)
  <2>1. row[3] \in {"RJMP"} /\ row[4] = "k02" BY <1>17 DEF Form
  <2>2. CallOf(row[3], row[4], w, s) \in [fn : {"RJMP"}, args : OneOperand(Offsets)] BY <2>1, RelativeJumps, Zenon
  <2> QED BY ONLY <2>2, Zenon DEF Calls
<1>18. CASE row \in Form({"RCALL"}, "k02_call", 1)
  <2>1. row[3] \in {"RCALL"} /\ row[4] = "k02_call" BY <1>18 DEF Form
  <2>2. CallOf(row[3], row[4], w, s) \in [fn : {"RCALL"}, args : OneOperand(Offsets)] BY <2>1, RelativeCalls, Zenon
  <2> QED BY ONLY <2>2, Zenon DEF Calls
<1>19. CASE row \in Form({"JMP"}, "k22", 2)
  <2>1. row[3] \in {"JMP"} /\ row[4] = "k22" BY <1>19 DEF Form
  <2>2. CallOf(row[3], row[4], w, s) \in [fn : {"JMP"}, args : OneOperand(LongAddresses)] BY <2>1, LongJumps, Zenon
  <2> QED BY ONLY <2>2, Zenon DEF Calls
<1>20. CASE row \in Form({"CALL"}, "k22_call", 2)
  <2>1. row[3] \in {"CALL"} /\ row[4] = "k22_call" BY <1>20 DEF Form
  <2>2. CallOf(row[3], row[4], w, s) \in [fn : {"CALL"}, args : OneOperand(LongAddresses)] BY <2>1, LongCalls, Zenon
  <2> QED BY ONLY <2>2, Zenon DEF Calls
<1>21. CASE row \in Form({"SBIC", "SBIS", "CBI", "SBI"}, "IO_b", 1)
  <2>1. row[3] \in {"SBIC", "SBIS", "CBI", "SBI"} /\ row[4] = "IO_b" BY <1>21 DEF Form
  <2>2. CallOf(row[3], row[4], w, s) \in [fn : {"SBIC", "SBIS", "CBI", "SBI"}, args : Reg \X (0..7)] BY <2>1, PortBitCalls, Zenon
  <2> QED BY ONLY <2>2, Zenon DEF Calls
<1>22. CASE row \in Form({"SBRC", "SBRS"}, "Rr_b", 1)
  <2>1. row[3] \in {"SBRC", "SBRS"} /\ row[4] = "Rr_b" BY <1>22 DEF Form
  <2>2. CallOf(row[3], row[4], w, s) \in [fn : {"SBRC", "SBRS"}, args : Reg \X (0..7)] BY <2>1, SkipCalls, Zenon
  <2> QED BY ONLY <2>2, Zenon DEF Calls
<1>23. CASE row \in Form({"BLD", "BST"}, "Rd_b", 1)
  <2>1. row[3] \in {"BLD", "BST"} /\ row[4] = "Rd_b" BY <1>23 DEF Form
  <2>2. CallOf(row[3], row[4], w, s) \in [fn : {"BLD", "BST"}, args : Reg \X (0..7)] BY <2>1, BitCalls, Zenon
  <2> QED BY ONLY <2>2, Zenon DEF Calls
<1>24. CASE row \in Form({"BSET", "BCLR"}, "b_only", 1)
  <2>1. row[3] \in {"BSET", "BCLR"} /\ row[4] = "b_only" BY <1>24 DEF Form
  <2>2. CallOf(row[3], row[4], w, s) \in [fn : {"BSET", "BCLR"}, args : OneOperand(0..7)] BY <2>1, FlagCalls, Zenon
  <2> QED BY ONLY <2>2, Zenon DEF Calls
<1> QED
  BY <1>1, <1>4, <1>5, <1>6, <1>7, <1>8, <1>9, <1>10, <1>11, <1>12, <1>13, <1>14,
     <1>15, <1>16, <1>17, <1>18, <1>19, <1>20, <1>21, <1>22, <1>23, <1>24
  DEF WellFormedRows
=============================================================================
