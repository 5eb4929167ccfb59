-------------------------------- MODULE Disasm --------------------------------
(***************************************************************************)
(* The disassembly tab: the text of disasm.cpp, as the sequence of what it *)
(* shows (a name, registers, numbers), and the lines around pc that        *)
(* main.cpp lists.  Signs, hexadecimal and spacing are left out.           *)
(***************************************************************************)
EXTENDS Flash

-----------------------------------------------------------------------------
(* disassemble. *)

brbsNames == <<"BRCS", "BREQ", "BRMI", "BRVS", "BRLT", "BRHS", "BRTS", "BRIE">>
brbcNames == <<"BRCC", "BRNE", "BRPL", "BRVC", "BRGE", "BRHC", "BRTC", "BRID">>
setNames == <<"SEC", "SEZ", "SEN", "SEV", "SES", "SEH", "SET", "SEI">>
clrNames == <<"CLC", "CLZ", "CLN", "CLV", "CLS", "CLH", "CLT", "CLI">>

fmtBranchTarget(at, k) == (at + 2 + (2 * k)) % (MaxWord + 1)

(* The mode of a load or store through a pointer: 3 is shown as 0 is. *)
ldstMode(mode) == IF mode = 3 THEN 0 ELSE mode

disassemble(w, extra, at) ==
  LET i == decodeInstruction(w)
      op == OPCODE_TABLE[i][3]
      fmt == OPCODE_TABLE[i][4]
      x == DecodedOperands(op, fmt, w, extra)
  IN  CASE ~ Decodes(w) -> <<"???", w>>
        [] Decodes(w) /\ fmt = "NONE" -> <<op>>
        [] Decodes(w) /\ op \in {"CLR", "TST", "LSL", "ROL", "SER"} -> <<op, x[1]>>
        [] Decodes(w) /\ op = "CBR" -> <<op, x[1], 255 - x[2]>>
        [] Decodes(w) /\ op = "LPM" /\ fmt = "Rd_only" -> <<op, x[2]>>
        [] Decodes(w) /\ op = "MOVW" -> <<op, 2 * x[1], 2 * x[2]>>
        [] Decodes(w) /\ op = "MULS" -> <<op, 16 + x[1], 16 + x[2]>>
        [] Decodes(w) /\ fmt = "b_only" ->
             <<(IF op = "BSET" THEN setNames ELSE clrNames)[x[1] + 1]>>
        [] Decodes(w) /\ fmt = "k7" ->
             <<(IF op = "BRBS" THEN brbsNames ELSE brbcNames)[x[2] + 1], x[1],
               fmtBranchTarget(at, x[1])>>
        [] Decodes(w) /\ fmt \in {"k02", "k02_call"} -> <<op, x[1], fmtBranchTarget(at, x[1])>>
        [] Decodes(w) /\ fmt \in {"k22", "k22_call"} -> <<op, (2 * x[1]) % (MaxWord + 1)>>
        [] Decodes(w) /\ fmt = "LD_family" -> <<op, x[1], ldstMode(x[2])>>
        [] Decodes(w) /\ fmt = "LDD_family" -> <<Displaced[op], x[1], x[2]>>
        [] OTHER -> <<op>> \o x

-----------------------------------------------------------------------------
(* disasmTab: the addresses listed, from 30 bytes before pc, one instruction  *)
(* after another, to 30 bytes behind it.                                      *)

WordsAt(a) == IF Decodes(WordAt(a)) THEN Words(decodeInstruction(WordAt(a))) ELSE 1

(* Operators with a suffix are wrong on purpose (README, "Mutants"). *)
FirstLineWraps(p) == ((p - 30) % (MaxWord + 1)) - (p % 2)

FirstLine(p) == IF p > 30 THEN p - 30 - (p % 2) ELSE 0

Lines(p) ==
  LET from[a \in Word] ==
        IF a < p + 30 /\ a + 1 < FlashSize THEN {a} \cup from[a + (2 * WordsAt(a))] ELSE {}
  IN  from[FirstLine(p)]

Listed == [p \in 0..(FlashSize - 1) |-> Lines(p)]

-----------------------------------------------------------------------------
(* The line of pc is among them, to be highlighted (README.md:80), although    *)
(* the sweep starts anywhere, also in the middle of an instruction: a second   *)
(* word, an address below 0x4000 in words, does not look like an instruction   *)
(* of two words.  Of data in front of pc this would not be true.               *)
CurrentLineListed ==
  phase # "halted" /\ ~ lost /\ pc + 1 < FlashSize => pc \in Listed[pc]

(* The target shown for a branch, jump or call is where the executor goes.     *)
TargetsShown ==
  \A a \in DOMAIN Listing :
    a + 1 < FlashSize /\ Decodes(WordAt(a)) =>
      LET text == disassemble(WordAt(a), WordAt(a + 2), a)
          fmt == OPCODE_TABLE[decodeInstruction(WordAt(a))][4]
      IN  fmt \in {"k7", "k02", "k02_call", "k22", "k22_call"} =>
            \A i \in FlashCode[a] : i.op \in {"jump", "call"} => i.num = text[Len(text)]

(* No two instructions have the same text, but for EOR, every form of which    *)
(* the table takes for CLR and which shows one register of two, LPM with a     *)
(* register, which is not shown, and jumps beyond 64 KB, where pc does not go. *)
Unshown ==
  \h2400..\h27FF \cup {w \in \h9000..\h91FF : w % 16 \in {4, 5}}
    \cup {w \in \h9410..\h95FF : w % 16 \in 12..15} \cup {\h940D, \h940F}
TextsDiffer ==
  LET words == {w \in 0..MaxWord : Decodes(w)} \ Unshown
  IN  Cardinality({disassemble(w, 0, 0) : w \in words}) = Cardinality(words)

(* What the disassembly tab shows is what the emulator executes: the listing   *)
(* has the current instruction, on a line of its own, tells instructions       *)
(* apart, and names the targets that the executor computes separately.         *)
ListingTruthful == CurrentLineListed /\ TargetsShown /\ TextsDiffer
=============================================================================
