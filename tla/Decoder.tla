------------------------------- MODULE Decoder -------------------------------
(***************************************************************************)
(* The instruction decoder: the table of decoder.h, the first match of     *)
(* decoder.cpp, its operand decoders, and the dispatch of executor.cpp     *)
(* from a decoded row to the function that executes it.  A row is mask,    *)
(* code, operation, operand format and number of words; cycles and         *)
(* mnemonics are left out.                                                 *)
(***************************************************************************)
EXTENDS Integers, Sequences, FiniteSets

-----------------------------------------------------------------------------
(* OPCODE_TABLE, section by section. *)

Row(mask, code, op, fmt, words) == <<mask, code, op, fmt, words>>

Arithmetic == <<
  Row(\hFC00, \h1C00, "ADC", "Rd_Rr", 1), Row(\hFC00, \h0C00, "ADD", "Rd_Rr", 1),
  Row(\hFF00, \h9600, "ADIW", "Rd06_K6", 1), Row(\hFE0F, \h9405, "ASR", "Rd_only", 1),
  Row(\hFE0F, \h940A, "DEC", "Rd_only", 1), Row(\hFE0F, \h9403, "INC", "Rd_only", 1),
  Row(\hFC00, \h9C00, "MUL", "Rd_Rr", 1), Row(\hFF00, \h0200, "MULS", "Rd06_Rr06", 1),
  Row(\hFF88, \h0300, "MULSU", "Rd_Rr_mpy", 1), Row(\hFF88, \h0308, "FMUL", "Rd_Rr_mpy", 1),
  Row(\hFF88, \h0380, "FMULS", "Rd_Rr_mpy", 1), Row(\hFF88, \h0388, "FMULSU", "Rd_Rr_mpy", 1),
  Row(\hFE0F, \h9401, "NEG", "Rd_only", 1), Row(\hFF00, \h9700, "SBIW", "Rd06_K6", 1),
  Row(\hFC00, \h0800, "SBC", "Rd_Rr", 1), Row(\hF000, \h4000, "SBCI", "Rd_K8", 1),
  Row(\hFC00, \h1800, "SUB", "Rd_Rr", 1), Row(\hF000, \h5000, "SUBI", "Rd_K8", 1) >>

Logic == <<
  Row(\hFC00, \h2000, "AND", "Rd_Rr", 1), Row(\hF000, \h7000, "ANDI", "Rd_K8", 1),
  Row(\hF000, \h7000, "CBR", "Rd_K8", 1), Row(\hFC00, \h2400, "CLR", "Rd_Rr", 1),
  Row(\hFE0F, \h9400, "COM", "Rd_only", 1), Row(\hFC00, \h2400, "EOR", "Rd_Rr", 1),
  Row(\hFC00, \h2800, "OR", "Rd_Rr", 1), Row(\hF000, \h6000, "ORI", "Rd_K8", 1),
  Row(\hF000, \h6000, "SBR", "Rd_K8", 1), Row(\hFF0F, \hEF0F, "SER", "Rd_K8", 1),
  Row(\hFE0F, \h9402, "SWAP", "Rd_only", 1) >>

ShiftRotate == <<
  Row(\hFC00, \h0C00, "LSL", "Rd_Rr", 1), Row(\hFE0F, \h9406, "LSR", "Rd_only", 1),
  Row(\hFC00, \h1C00, "ROL", "Rd_Rr", 1), Row(\hFE0F, \h9407, "ROR", "Rd_only", 1) >>

Comparisons == <<
  Row(\hFC00, \h1400, "CP", "Rd_Rr", 1), Row(\hFC00, \h0400, "CPC", "Rd_Rr", 1),
  Row(\hF000, \h3000, "CPI", "Rd_K8", 1), Row(\hFC00, \h1000, "CPSE", "Rd_Rr", 1),
  Row(\hFC00, \h2000, "TST", "Rd_Rr", 1) >>

DataTransfer == <<
  Row(\hFC00, \h2C00, "MOV", "Rd_Rr", 1), Row(\hFF00, \h0100, "MOVW", "Rd06_Rr06", 1),
  Row(\hF000, \hE000, "LDI", "Rd_K8", 1), Row(\hFE0F, \h900F, "POP", "Rd_only", 1),
  Row(\hFE0C, \h900C, "LD_X", "LD_family", 1), Row(\hD208, \h8008, "LD_Y", "LDD_family", 1),
  Row(\hFE0F, \h8008, "LD_Y", "LD_family", 1), Row(\hFE0F, \h9009, "LD_Y", "LD_family", 1),
  Row(\hFE0F, \h900A, "LD_Y", "LD_family", 1), Row(\hD208, \h8000, "LD_Z", "LDD_family", 1),
  Row(\hFE0F, \h8000, "LD_Z", "LD_family", 1), Row(\hFE0F, \h9001, "LD_Z", "LD_family", 1),
  Row(\hFE0F, \h9002, "LD_Z", "LD_family", 1), Row(\hFE0F, \h9000, "LDS", "LDS_STS", 2),
  Row(\hFFFF, \h95C8, "LPM", "NONE", 1), Row(\hFE0F, \h9004, "LPM", "Rd_only", 1),
  Row(\hFE0F, \h9005, "LPM", "Rd_only", 1), Row(\hF800, \hB000, "IN", "Rd_IO", 1),
  Row(\hF800, \hB800, "OUT", "IO_Rr", 1), Row(\hFE0F, \h920F, "PUSH", "Rd_only", 1),
  Row(\hFE0C, \h920C, "ST_X", "LD_family", 1), Row(\hD208, \h8208, "ST_Y", "LDD_family", 1),
  Row(\hFE0F, \h8208, "ST_Y", "LD_family", 1), Row(\hFE0F, \h9209, "ST_Y", "LD_family", 1),
  Row(\hFE0F, \h920A, "ST_Y", "LD_family", 1), Row(\hD208, \h8200, "ST_Z", "LDD_family", 1),
  Row(\hFE0F, \h8200, "ST_Z", "LD_family", 1), Row(\hFE0F, \h9201, "ST_Z", "LD_family", 1),
  Row(\hFE0F, \h9202, "ST_Z", "LD_family", 1), Row(\hFE0F, \h9200, "STS", "LDS_STS", 2) >>

BranchJumpCall == <<
  Row(\hFC00, \hF400, "BRBC", "k7", 1), Row(\hFC00, \hF000, "BRBS", "k7", 1),
  Row(\hFC07, \hF400, "BRCC", "k7", 1), Row(\hFC07, \hF000, "BRCS", "k7", 1),
  Row(\hFC07, \hF001, "BREQ", "k7", 1), Row(\hFC07, \hF404, "BRGE", "k7", 1),
  Row(\hFC07, \hF405, "BRHC", "k7", 1), Row(\hFC07, \hF005, "BRHS", "k7", 1),
  Row(\hFC07, \hF407, "BRID", "k7", 1), Row(\hFC07, \hF007, "BRIE", "k7", 1),
  Row(\hFC07, \hF000, "BRLO", "k7", 1), Row(\hFC07, \hF004, "BRLT", "k7", 1),
  Row(\hFC07, \hF002, "BRMI", "k7", 1), Row(\hFC07, \hF401, "BRNE", "k7", 1),
  Row(\hFC07, \hF402, "BRPL", "k7", 1), Row(\hFC07, \hF400, "BRSH", "k7", 1),
  Row(\hFC07, \hF406, "BRTC", "k7", 1), Row(\hFC07, \hF006, "BRTS", "k7", 1),
  Row(\hFC07, \hF403, "BRVC", "k7", 1), Row(\hFC07, \hF003, "BRVS", "k7", 1),
  Row(\hF000, \hC000, "RJMP", "k02", 1), Row(\hFE0E, \h940C, "JMP", "k22", 2),
  Row(\hFFFF, \h9409, "IJMP", "NONE", 1), Row(\hF000, \hD000, "RCALL", "k02_call", 1),
  Row(\hFE0E, \h940E, "CALL", "k22_call", 2), Row(\hFFFF, \h9509, "ICALL", "NONE", 1),
  Row(\hFFFF, \h9508, "RET", "NONE", 1), Row(\hFFFF, \h9518, "RETI", "NONE", 1) >>

Skips == <<
  Row(\hFF00, \h9900, "SBIC", "IO_b", 1), Row(\hFF00, \h9B00, "SBIS", "IO_b", 1),
  Row(\hFE08, \hFC00, "SBRC", "Rr_b", 1), Row(\hFE08, \hFE00, "SBRS", "Rr_b", 1) >>

BitManipulation == <<
  Row(\hFFFF, \h9408, "SEC", "NONE", 1), Row(\hFFFF, \h9418, "SEZ", "NONE", 1),
  Row(\hFFFF, \h9428, "SEN", "NONE", 1), Row(\hFFFF, \h9438, "SEV", "NONE", 1),
  Row(\hFFFF, \h9448, "SES", "NONE", 1), Row(\hFFFF, \h9458, "SEH", "NONE", 1),
  Row(\hFFFF, \h9468, "SET", "NONE", 1), Row(\hFFFF, \h9478, "SEI", "NONE", 1),
  Row(\hFFFF, \h9488, "CLC", "NONE", 1), Row(\hFFFF, \h9498, "CLZ", "NONE", 1),
  Row(\hFFFF, \h94A8, "CLN", "NONE", 1), Row(\hFFFF, \h94B8, "CLV", "NONE", 1),
  Row(\hFFFF, \h94C8, "CLS", "NONE", 1), Row(\hFFFF, \h94D8, "CLH", "NONE", 1),
  Row(\hFFFF, \h94E8, "CLT", "NONE", 1), Row(\hFFFF, \h94F8, "CLI", "NONE", 1),
  Row(\hFF8F, \h9408, "BSET", "b_only", 1), Row(\hFF8F, \h9488, "BCLR", "b_only", 1),
  Row(\hFE08, \hF800, "BLD", "Rd_b", 1), Row(\hFE08, \hFA00, "BST", "Rd_b", 1),
  Row(\hFF00, \h9800, "CBI", "IO_b", 1), Row(\hFF00, \h9A00, "SBI", "IO_b", 1) >>

McuControl == <<
  Row(\hFFFF, \h0000, "NOP", "NONE", 1), Row(\hFFFF, \h9588, "SLEEP", "NONE", 1),
  Row(\hFFFF, \h95A8, "WDR", "NONE", 1), Row(\hFFFF, \h9598, "BREAK", "NONE", 1),
  Row(\hFFFF, \h95E8, "SPM_E", "NONE", 1) >>

OPCODE_TABLE ==
  Arithmetic \o Logic \o ShiftRotate \o Comparisons \o DataTransfer
    \o BranchJumpCall \o Skips \o BitManipulation \o McuControl

Rows == DOMAIN OPCODE_TABLE
Mask(i) == OPCODE_TABLE[i][1]
Words(i) == OPCODE_TABLE[i][5]

-----------------------------------------------------------------------------
(* Matching.  A number is taken as the set of its bits, so that & is \cap; a   *)
(* word has the bits a row asks for iff both its bytes have.                   *)

Bits(n) == {b \in 0..15 : (n \div 2^b) % 2 = 1}

(* Whether row matches a word with this byte at unit 256 (high) or 1 (low). *)
Asks(row, unit, byte) ==
  Bits(byte) \cap Bits((row[1] \div unit) % 256) = Bits((row[2] \div unit) % 256)
ByteMatches ==
  [unit \in {1, 256} |-> [byte \in 0..255 |-> {i \in Rows : Asks(OPCODE_TABLE[i], unit, byte)}]]
BothBytes(rowsFor, w) == rowsFor[256][w \div 256] \cap rowsFor[1][w % 256]
Matches(w) == BothBytes(ByteMatches, w)

Decodes(w) == Matches(w) # {}

(* Operators with a suffix are wrong on purpose (README, "Mutants"). *)
decodeInstructionNoBreak(w) == CHOOSE i \in Matches(w) : \A j \in Matches(w) : i >= j

First(rows) == CHOOSE i \in rows : \A j \in rows : i <= j

(* The row of a word that decodes: the first that matches. *)
decodeInstruction(w) == First(Matches(w))

-----------------------------------------------------------------------------
(* Operand decoders. *)

(* The n bits of w from bit lo up. *)
Field(w, lo, n) == (w \div 2^lo) % 2^n
SignExtended(f, n) == IF f >= 2^(n - 1) THEN f - 2^n ELSE f

decodeRdRr(w) == <<Field(w, 4, 5), (16 * Field(w, 9, 1)) + Field(w, 0, 4)>>
decodeRdK8(w) == <<16 + Field(w, 4, 4), (16 * Field(w, 8, 4)) + Field(w, 0, 4)>>
decodeRd(w) == <<Field(w, 4, 5)>>
decodeRdRrMpy(w) == <<16 + Field(w, 4, 3), 16 + Field(w, 0, 3)>>
decodeRd06K6(w) == <<24 + (2 * Field(w, 4, 2)), (16 * Field(w, 6, 2)) + Field(w, 0, 4)>>
decodeRd06Rr06(w) == <<Field(w, 4, 4), Field(w, 0, 4)>>
decodeBOnly(w) == <<Field(w, 4, 3)>>
decodeRdB(w) == <<Field(w, 4, 5), Field(w, 0, 3)>>
decodeIOB(w) == <<Field(w, 3, 5), Field(w, 0, 3)>>
decodeRdIO(w) == <<Field(w, 4, 5), (16 * Field(w, 9, 2)) + Field(w, 0, 4)>>
decodeIORr(w) == <<(16 * Field(w, 9, 2)) + Field(w, 0, 4), Field(w, 4, 5)>>
decodeK7(w) == <<SignExtended(Field(w, 3, 7), 7), Field(w, 0, 3)>>
decodeK02(w) == <<SignExtended(Field(w, 0, 12), 12)>>
decodeK22(w, second) == <<(65536 * Field(w, 4, 6)) + second>>
decodeLdSt(w) == <<Field(w, 4, 5), Field(w, 0, 2)>>
decodeLddLostBit(w) ==
  <<Field(w, 4, 5), (32 * Field(w, 13, 1)) + (8 * Field(w, 11, 2)) + Field(w, 0, 3)>>
decodeLdd(w) ==
  <<Field(w, 4, 5), (32 * Field(w, 13, 1)) + (8 * Field(w, 10, 2)) + Field(w, 0, 3)>>
decodeLdsSts(w, second) == <<Field(w, 4, 5), second>>

-----------------------------------------------------------------------------
(* Dispatch. *)

SetsBit == {"SEC", "SEZ", "SEN", "SEV", "SES", "SEH", "SET", "SEI", "BSET"}
ClearsBit == {"CLC", "CLZ", "CLN", "CLV", "CLS", "CLH", "CLT", "CLI", "BCLR"}
BranchesIfSet ==
  {"BRBS", "BRCS", "BREQ", "BRHS", "BRIE", "BRLO", "BRLT", "BRMI", "BRTS", "BRVS"}
BranchesIfClear ==
  {"BRBC", "BRCC", "BRGE", "BRHC", "BRID", "BRNE", "BRPL", "BRSH", "BRTC", "BRVC"}
SameAs == [CBR |-> "ANDI", CLR |-> "EOR", SBR |-> "ORI", LSL |-> "ADD", ROL |-> "ADC", TST |-> "AND"]
Displaced == [LD_Y |-> "LDD_Y", LD_Z |-> "LDD_Z", ST_Y |-> "STD_Y", ST_Z |-> "STD_Z"]

(* The function that executes an operation, without its prefix "execute". *)
Handler(op, fmt) ==
  CASE op \in SetsBit -> "BSET"
    [] op \in ClearsBit -> "BCLR"
    [] op \in BranchesIfSet -> "BRBS"
    [] op \in BranchesIfClear -> "BRBC"
    [] op \in DOMAIN SameAs -> SameAs[op]
    [] fmt = "LDD_family" -> Displaced[op]
    [] OTHER -> op

DecodedOperands(op, fmt, w, second) ==
  CASE op \in SetsBit \cup ClearsBit -> decodeBOnly(w)
    [] op = "LPM" -> IF fmt = "NONE" THEN <<0, 0>> ELSE <<Field(w, 4, 5), w % 2>>
    [] fmt = "Rd_Rr" -> decodeRdRr(w)
    [] fmt = "Rd_K8" -> decodeRdK8(w)
    [] fmt = "Rd_only" /\ op # "LPM" -> decodeRd(w)
    [] fmt = "Rd_Rr_mpy" -> decodeRdRrMpy(w)
    [] fmt = "Rd06_K6" -> decodeRd06K6(w)
    [] fmt = "Rd06_Rr06" -> decodeRd06Rr06(w)
    [] fmt \in {"Rd_b", "Rr_b"} -> decodeRdB(w)
    [] fmt = "IO_b" -> decodeIOB(w)
    [] fmt = "Rd_IO" -> decodeRdIO(w)
    [] fmt = "IO_Rr" -> decodeIORr(w)
    [] fmt = "k7" -> decodeK7(w)
    [] fmt \in {"k02", "k02_call"} -> decodeK02(w)
    [] fmt \in {"k22", "k22_call"} -> decodeK22(w, second)
    [] fmt = "LD_family" -> decodeLdSt(w)
    [] fmt = "LDD_family" -> decodeLdd(w)
    [] fmt = "LDS_STS" -> decodeLdsSts(w, second)
    [] OTHER -> <<>>

(* What executeInstruction calls for word w when row i is its row. *)
executeInstruction(i, w, second) ==
  LET op == OPCODE_TABLE[i][3]  fmt == OPCODE_TABLE[i][4]
  IN  [fn |-> Handler(op, fmt), args |-> DecodedOperands(op, fmt, w, second)]

-----------------------------------------------------------------------------
(* Two calls with the same effect: a load or store through Y or Z without     *)
(* update is one with displacement 0.                                         *)
Canonical(call) ==
  IF call.fn \in DOMAIN Displaced /\ call.args[2] = 0
  THEN [call EXCEPT !.fn = Displaced[call.fn]] ELSE call
Meaning(i, w) == Canonical(executeInstruction(i, w, 0))

Narrower(i, j) == Mask(i) # Mask(j) /\ Bits(Mask(j)) \subseteq Bits(Mask(i))

(* Over all words, the row found means the same as any other row that matches, *)
(* or asks for more bits than it.                                              *)
RowsAgree ==
  \A w \in 0..65535 :
    Decodes(w) =>
      LET i == decodeInstruction(w)
      IN  \A j \in Matches(w) \ {i} : Meaning(i, w) = Meaning(j, w) \/ Narrower(i, j)

(* LPM has a second encoding of R0, and bit 0 of JMP and CALL is the address    *)
(* bit 16 that a flash of 32 KB does not use and that decodeK22 leaves out.     *)
TwoEncodings == {\h95C8} \cup {w \in \h940C..\h95FF : w % 16 \in {13, 15}}
MeaningsDiffer ==
  LET words == {w \in 0..65535 : Decodes(w)} \ TwoEncodings
  IN  Cardinality({Meaning(decodeInstruction(w), w) : w \in words}) = Cardinality(words)
=============================================================================
