-------------------------------- MODULE MCAlu --------------------------------
(* Chains of arithmetic instructions for TLC, and routines in machine code:   *)
(* the ones compilers and their libraries use, and two that jump through a    *)
(* table and program flash.                                                   *)
EXTENDS AluChains, Registers, TLC

LOCAL INSTANCE SequencesExt

-----------------------------------------------------------------------------
(* Each routine ends at a word that does not decode. *)

(* BST R24,7; MOV R0,R24; EOR R0,R22; SBRC R24,7; NEG R24; SBRC R22,7; NEG R22;   *)
(* SUB R25,R25; LDI R23,9; RJMP ep; loop: ROL R25; CP R25,R22; BRCS ep;           *)
(* SUB R25,R22; ep: ROL R24; DEC R23; BRNE loop; COM R24; BRTC l; NEG R25;        *)
(* l: SBRC R0,7; NEG R24                                                          *)
DivideCode == << \hFB87, \h2E08, \h2606, \hFD87, \h9581, \hFD67, \h9561, \h1B99, \hE079, \hC004,
  \h1F99, \h1796, \hF008, \h1B96, \h1F88, \h957A, \hF7C9, \h9580, \hF40E, \h9591, \hFC07, \h9581,
  \hFFFF >>

(* SWAP R25; SWAP R24; ANDI R24,15; EOR R24,R25; ANDI R25,15; EOR R24,R25 *)
ShiftCode == << \h9592, \h9582, \h708F, \h2789, \h709F, \h2789, \hFFFF >>

(* MOV R0,R24; SWAP R0; EOR R24,R0; SUBI R24,-4; ANDI R24,-5; SUBI R24,-6;        *)
(* SBRC R24,3; INC R24; ANDI R24,1                                                *)
ParityCode == << \h2E08, \h9402, \h2580, \h5F8C, \h7F8B, \h5F8A, \hFD83, \h9583, \h7081, \hFFFF >>

(* MOV R0,R24; ANDI R24,1; LSR R0; five times LSR R0 and ADC R24,R1; LSR R0;      *)
(* ADC R24,R0                                                                     *)
CountCode == << \h2E08, \h7081, \h9406, \h9406, \h1D81, \h9406, \h1D81, \h9406, \h1D81, \h9406,
  \h1D81, \h9406, \h1D81, \h9406, \h1D80, \hFFFF >>

(* CP R24,R22; CPC R25,R23; BRGE end; MOVW R24,R22 *)
LargerCode == << \h1786, \h0797, \hF40C, \h01CB, \hFFFF >>

(* BST R24,0; ROR R24; BLD R24,7 *)
RotateCode == << \hFB80, \h9587, \hF987, \hFFFF >>

(* FMULS R22,R20; LSL R0; ADC R1,R2 *)
FractionCode == << \h03E4, \h0C00, \h1C12, \hFFFF >>

(* R30, R31: word address of the table; ADD R30,R24; ADC R31,R1; IJMP;            *)
(* table: RJMP a; RJMP b; a: ORI R24,128; CPSE R24,R22; b: COM R24                *)
ChooseCode == << \hE4EA, \hE0F0, \h0FE8, \h1DF1, \h9409, \hC001, \hC002, \h6880, \h1386, \h9580,
  \hFFFF >>

(* R30, R31: address of slot; SPM; LPM R18,Z+; LPM R19,Z; slot: NOP *)
ProgramCode == << \hEAEA, \hE0F0, \h95E8, \h9125, \h9134, \h0000, \hFFFF >>

(* TST R24; BREQ end; BRLT neg; LDI R24,1; RJMP end; neg: SER R24 *)
SignCode == << \h2388, \hF021, \hF014, \hE081, \hC001, \hEF8F, \hFFFF >>

Codes == << DivideCode, ShiftCode, ParityCode, CountCode, LargerCode, RotateCode, FractionCode,
            ChooseCode, ProgramCode, SignCode >>
Divide == 1  Shift == 2  Parity == 3  Count == 4  Larger == 5
Rotate == 6  Fraction == 7  Choose == 8  Program == 9  Sign == 10

StartOf(k) == 2 * Len(FlattenSeq(SubSeq(Codes, 1, k - 1)))

Image ==
  LET words == FlattenSeq(Codes)
  IN  [a \in 0..(FlashSize - 1) |->
         LET w == IF (a \div 2) < Len(words) THEN words[(a \div 2) + 1] ELSE 0
         IN  IF a % 2 = 0 THEN w % 256 ELSE w \div 256]

-----------------------------------------------------------------------------
(* The machine before routine k, with these registers, all others 0, the flags  *)
(* a chain left, T and I as given.                                              *)
Before(k, regs, flag) ==
  [pc |-> StartOf(k), r |-> regs @@ [d \in 0..31 |-> 0], f |-> sreg, t |-> flag, i |-> flag,
   flash |-> Image, fault |-> FALSE]

(* Routine k, started with regs, ends within n instructions and leaves want. *)
Trial(k, n, regs, want) == [k |-> k, n |-> n, regs |-> regs, want |-> want]
Succeeds(t, flag) ==
  LET m == After(Before(t.k, t.regs, flag), t.n)
  IN  /\ ~ m.fault /\ m.pc = StartOf(t.k + 1) - 2
      /\ \A d \in DOMAIN t.want : m.r[d] = t.want[d]

Numbers == {0, 1, 2, 3, 7, 10, 100, 127, 128, 129, 200, 255}
Wide == {0, 1, 255, 256, 4660, 32767, 32768, 65535}
Pair(d, w) == d :> w % 256 @@ (d + 1) :> w \div 256

Quotient(a, b) == IF a < 0 THEN - ((- a) \div b) ELSE a \div b
TowardsZero(a, b) == IF b < 0 THEN - Quotient(a, - b) ELSE Quotient(a, b)
Divided(a, b) ==
  LET q == TowardsZero(a, b) IN 24 :> q % 256 @@ 25 :> (a - (q * b)) % 256
Divisions ==
  {Trial(Divide, 90, 24 :> a @@ 22 :> b,
         IF b = 0 THEN <<>> ELSE Divided(Signed(a, 256), Signed(b, 256))) : a, b \in Numbers}

Shifts == {Trial(Shift, 6, Pair(24, w), Pair(24, w \div 16)) : w \in Wide}

Ones(a) == Cardinality(Bits(a))
BitCounts ==
  {Trial(Parity, 9, 24 :> a, 24 :> Ones(a) % 2) : a \in Numbers}
    \cup {Trial(Count, 15, 24 :> a, 24 :> Ones(a)) : a \in Numbers}

Maxima ==
  {Trial(Larger, 4, Pair(24, a) @@ Pair(22, b),
         Pair(24, IF Signed(a, 65536) >= Signed(b, 65536) THEN a ELSE b)) : a, b \in Wide}

Signs ==
  {Trial(Sign, 5, 24 :> a, 24 :> IF a = 0 THEN 0 ELSE IF Negative(a) THEN 255 ELSE 1) : a \in Numbers}

Rotations == {Trial(Rotate, 3, 24 :> a, 24 :> (a \div 2) + (128 * (a % 2))) : a \in Numbers}

(* Rounded to the nearest multiple of 1/128. *)
Fractions ==
  {Trial(Fraction, 3, 22 :> a @@ 20 :> b,
         1 :> (((2 * Signed(a, 256) * Signed(b, 256)) + 128) \div 256) % 256) : a, b \in Numbers}

TableJumps ==
  {Trial(Choose, 9, 22 :> b, 24 :> IF b = 128 THEN 128 ELSE 127) : b \in Numbers}
    \cup {Trial(Choose, 9, 24 :> 1 @@ 22 :> b, 24 :> 254) : b \in Numbers}

(* The instruction programmed, INC R24 or DEC R24, is read back and executed. *)
Programmings ==
  {Trial(Program, 6, 0 :> low @@ 1 :> \h95 @@ 24 :> a,
         18 :> low @@ 19 :> \h95 @@ 24 :> (IF low = \h83 THEN a + 1 ELSE a - 1) % 256)
     : low \in {\h83, \h8A}, a \in Numbers}

Trials == Divisions \cup Shifts \cup BitCounts \cup Maxima \cup Signs \cup Rotations
            \cup Fractions \cup TableJumps \cup Programmings

(* Machine code computes what it was compiled from, whatever flags it meets:    *)
(* libgcc's signed division, bit counts and parity, a 16-bit shift by nibbles,  *)
(* a signed maximum, a sign, a rotation through T, a rounded product of         *)
(* fractions, a jump table and an instruction written to flash.  Each needs the *)
(* right words, operands, branch targets and skips, and T, C, Z and S as their  *)
(* maker left them.  None has an AND, OR or EOR between the maker of C and its  *)
(* reader, or reads N after one.                                                *)
RoutinesCompute ==
  kind = "none" => \A flag \in BOOLEAN : \A t \in Trials : Succeeds(t, flag)

-----------------------------------------------------------------------------
(* Logic instructions on R24, with R22 or the constant b. *)
LogicCalls(b) ==
  {[fn |-> fn, args |-> <<24, 22>>] : fn \in {"AND", "OR", "EOR"}}
    \cup {[fn |-> fn, args |-> <<24, b>>] : fn \in {"ANDI", "ORI"}}

(* What executor.cpp:847-848 and the comments of the other four promise: N is  *)
(* bit 7 of the result, V cleared, S = N, Z a zero result, and "C, H, T, I are *)
(* preserved", so that one may stand between two bytes of a chain, as CLR R1   *)
(* does after every MUL of a compiler.                                         *)
LogicFlagsAsDocumented ==
  \A a, b \in Operands, flag \in BOOLEAN : \A call \in LogicCalls(b) :
    LET m == Before(Sign, 24 :> a @@ 22 :> b, flag)
        after == Perform(call, m)
        r == after.r[24]
    IN  /\ after.f = [m.f EXCEPT !.n = Negative(r), !.v = FALSE, !.s = Negative(r), !.z = (r = 0)]
        /\ after.t = m.t /\ after.i = m.i
=============================================================================
