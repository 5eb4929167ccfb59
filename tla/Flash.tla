-------------------------------- MODULE Flash --------------------------------
(***************************************************************************)
(* Executor running machine words: the firmware of Executor.tla is what    *)
(* Decoder.tla makes of an image in flash.  The image is given as an       *)
(* assembler lists it, each instruction at its address with its words, so  *)
(* that what the loop takes for an instruction can be compared with what   *)
(* was one.                                                                *)
(*                                                                         *)
(* Values of registers are choices: a branch or a skip may or may not be   *)
(* taken, and a store has any of RegValues.  The image writes neither the  *)
(* stack area, other than through SP, nor flash (SPM).                     *)
(***************************************************************************)
EXTENDS Executor, Decoder

CONSTANTS
  Listing,    \* address -> the words of the instruction assembled there
  RegValues,  \* bound: bytes that a register may hold
  Pointers    \* bound: words that X, Y and Z may hold

ASSUME FlashAssumption ==
  /\ \A a \in DOMAIN Listing :
       a \in Nat /\ a % 2 = 0 /\ Listing[a] \in Seq(Word) /\ Len(Listing[a]) \in {1, 2}
  /\ TimerVec \subseteq 15..17
  /\ RegValues \subseteq Byte /\ Pointers \subseteq Word
  /\ RegValues # {} /\ Pointers # {}

-----------------------------------------------------------------------------
(* Flash. *)

SecondWords == {a + 2 : a \in {b \in DOMAIN Listing : Len(Listing[b]) = 2}}

(* Flash that nothing was loaded into is 0. *)
LoadedWord(a) ==
  IF a \in DOMAIN Listing THEN Listing[a][1]
  ELSE IF a \in SecondWords THEN Listing[a - 2][2] ELSE 0
FlashByte(a) ==
  IF a >= FlashSize THEN 0
  ELSE IF a % 2 = 0 THEN LoadedWord(a) % 256 ELSE LoadedWord(a - 1) \div 256

(* Little-endian, from any byte address. *)
WordAt(a) == FlashByte(a) + (256 * FlashByte(a + 1))

-----------------------------------------------------------------------------
(* What an instruction does to the state of Executor. *)

Does(op, num, vecs) == [op |-> op, num |-> num, vecs |-> vecs]
NoControl == Does("plain", 0, {})

(* Bit 0 of TIMSK0 and TIFR0 is the overflow, bits 1 and 2 the compare matches. *)
TimerBit(v) == IF v = 17 THEN 0 ELSE v - 14
TimerVecs(bits) == {v \in TimerVec : TimerBit(v) \in bits}

TimerRegs == {\h35, \h6E} \cup \h44..\h48

(* writeDataByte, in the order of its address checks. *)
Stores(a, b) ==
  IF a < 32 THEN {NoControl}
  ELSE IF a \in {\h5D, \h5E} THEN {Does(IF a = \h5D THEN "spl" ELSE "sph", b, {})}
  ELSE IF a = \h5F THEN {Does(IF b >= 128 THEN "sei" ELSE "cli", 0, {})}
  ELSE IF a % 256 = \h6E THEN {Does("timsk", 0, TimerVecs(Bits(b)))}
  ELSE IF a % 256 = \h35 THEN {Does("tifr", 0, TimerVecs(Bits(b)))}
  ELSE IF a % 256 \in TimerRegs THEN {NoControl}
  ELSE IF a \in {\hC1, \h2A} THEN {Does("uart", 0, IF 5 \in Bits(b) THEN {20} \cap Vectors ELSE {})}
  ELSE IF a \in {\hC6, \h2C} THEN {Does("uart", 0, S) : S \in SUBSET ({20, 21} \cap Vectors)}
  ELSE IF a > RamEnd THEN {Does("bad", 0, {})}
  ELSE {NoControl}
StoresAny(a) == UNION {Stores(a, b) : b \in RegValues}

Loads(a) ==
  IF a > RamEnd /\ a % 256 \notin TimerRegs THEN {Does("bad", 0, {})} ELSE {NoControl}

(* SBI and CBI write back what they read: on TIFR0, ones for the flags set. *)
WritesBit(fn, io, b) ==
  IF io = \h15 THEN {Does("tifr", 0, {v \in TimerVec : fn = "SBI" \/ TimerBit(v) # b})}
  ELSE StoresAny(32 + io)

SkipFns == {"CPSE", "SBIC", "SBIS", "SBRC", "SBRS"}
DisplacedFns == {"LDD_Y", "LDD_Z", "STD_Y", "STD_Z"}
LoadFns == {"LD_X", "LD_Y", "LD_Z", "LDD_Y", "LDD_Z"}
StoreFns == {"ST_X", "ST_Y", "ST_Z", "STD_Y", "STD_Z"}

(* The addresses such a load or store may form; mode 2 decrements first. *)
FormedAddresses(fn, x) ==
  LET offset == IF fn \in DisplacedFns THEN x[2] ELSE IF x[2] = 2 THEN -1 ELSE 0
  IN  {(p + offset) % (MaxWord + 1) : p \in Pointers}

(* A call of executeInstruction, the next instruction being at next. *)
Effects(call, next) ==
  LET fn == call.fn  x == call.args
      To(op, target) == Does(op, target % (MaxWord + 1), {})
  IN  CASE fn = "RJMP" -> {To("jump", next + (2 * x[1]))}
        [] fn = "RCALL" -> {To("call", next + (2 * x[1]))}
        [] fn = "JMP" -> {To("jump", 2 * x[1])}
        [] fn = "CALL" -> {To("call", 2 * x[1])}
        [] fn = "IJMP" -> {To("jump", 2 * z) : z \in Pointers}
        [] fn = "ICALL" -> {To("call", 2 * z) : z \in Pointers}
        [] fn \in {"BRBS", "BRBC"} -> {NoControl, To("jump", next + (2 * x[1]))}
        [] fn \in SkipFns -> {NoControl, Does("skip", 0, {})}
        [] fn = "RET" -> {Does("ret", 0, {})}
        [] fn = "RETI" -> {Does("reti", 0, {})}
        [] fn = "PUSH" -> {Does("push", b, {}) : b \in RegValues}
        [] fn = "POP" -> {Does("pop", 0, {})}
        [] fn = "BSET" /\ x[1] = 7 -> {Does("sei", 0, {})}
        [] fn = "BCLR" /\ x[1] = 7 -> {Does("cli", 0, {})}
        [] fn = "OUT" -> StoresAny(32 + x[1])
        [] fn = "STS" -> StoresAny(x[2])
        [] fn = "LDS" -> Loads(x[2])
        [] fn = "LPM" -> {IF z >= FlashSize THEN Does("bad", 0, {}) ELSE NoControl : z \in Pointers}
        [] fn \in {"SBI", "CBI"} -> WritesBit(fn, x[1], x[2])
        [] fn \in LoadFns -> UNION {Loads(a) : a \in FormedAddresses(fn, x)}
        [] fn \in StoreFns -> UNION {StoresAny(a) : a \in FormedAddresses(fn, x)}
        [] OTHER -> {NoControl}

WithWords(d, n) == [op |-> d.op, words |-> n, num |-> d.num, vecs |-> d.vecs]

(* The instructions that the word at a may be, for Executor's Code. *)
InstructionsAt(a) ==
  LET w == WordAt(a)
  IN  IF ~ Decodes(w) THEN {WithWords(Does("undefined", 0, {}), 1)}
      ELSE LET i == decodeInstruction(w)
               call == executeInstruction(i, w, WordAt(a + 2))
               next == (a + (2 * Words(i))) % (MaxWord + 1)
           IN  {WithWords(d, Words(i)) : d \in Effects(call, next)}

FlashCode == [a \in 0..(FlashSize - 2) |-> InstructionsAt(a)]

-----------------------------------------------------------------------------
VARIABLE lost  \* history: a dispatch could not push the whole return address

flashVars == <<vars, lost>>

FlashInit == Init /\ lost = FALSE
FlashNext == Next /\ lost' = (lost \/ (phase = "top" /\ mem'.fault))
FlashSpec == FlashInit /\ [][FlashNext]_flashVars

-----------------------------------------------------------------------------
(* The loop executes only what was assembled as an instruction: whichever way *)
(* branches, skips over one or two words, calls, returns, interrupts and their *)
(* nesting go, pc is never at the second word of an instruction or between two *)
(* words.  It is lost only after a dispatch found no room for the return       *)
(* address, whose fault the loop forgets (executor.cpp:137, 165).              *)
OnlyInstructionsExecute ==
  phase # "halted" /\ ~ lost /\ pc + 1 < FlashSize => pc % 2 = 0 /\ pc \notin SecondWords

(* Rows of the opcode table overlap and its order decides: wherever the loop   *)
(* may get to and whatever word it meets there, the row found means the same   *)
(* as every other row that matches, or asks for more bits than it.             *)
MostSpecificWins == phase # "halted" => RowsAgree

(* Decoding loses nothing: no two words that the loop may meet mean the same,  *)
(* but for the words that are two encodings of one instruction (LPM R0, and    *)
(* JMP and CALL beyond 128 KB).                                                *)
WordsDistinct == phase # "halted" => MeaningsDiffer
=============================================================================
