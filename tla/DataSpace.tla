------------------------------ MODULE DataSpace ------------------------------
(***************************************************************************)
(* The unified data space of memory.cpp and the instructions of            *)
(* executor.cpp that go through it: direct and indirect loads and stores   *)
(* with their pointer updates, IN and OUT, the I/O bit instructions, PUSH  *)
(* and POP.  Route is the order of address checks in readDataByte and      *)
(* writeDataByte.  What a UART register does is in Uart.tla and what the   *)
(* timer does with its own in Timer0.tla: here a UART read returns any of  *)
(* DeviceBytes, and the timer may change TCNT0 and TIFR0 at any time.      *)
(***************************************************************************)
EXTENDS Integers

CONSTANTS
  Used,         \* bound: the addresses this firmware forms
  Immediates,   \* bound: the bytes it loads into registers by LDI
  Sources,      \* bound: the registers it sets by LDI and stores from
  Targets,      \* bound: the registers it loads into
  Indirect,     \* bound: the pointers it uses, X = 26, Y = 28, Z = 30
  Displacements, \* bound: the displacements of LDD and STD, 0..63
  BitNumbers,   \* bound: the bits, from 1, of SBI and CBI
  DeviceBytes   \* the bytes a device may answer

RamEnd == 2303        \* DATA_SPACE_END, 0x08FF
StackBottom == 256    \* 0x0100
Byte == 0..255
MaxWord == 65535
Word == 0..MaxWord

ASSUME DataSpaceAssumption ==
  /\ Used \subseteq Word
  /\ Immediates \subseteq Byte /\ DeviceBytes \subseteq Byte
  /\ Sources \cup Targets \subseteq 0..31 /\ Indirect \subseteq {26, 28, 30} /\ BitNumbers \subseteq 1..8
  /\ Displacements \subseteq 0..63

VARIABLES
  m,     \* [r, sp, sreg, timer, sram, fault]: AvrState, Timer0's registers, the fault flag
  last   \* history: the byte last stored at each address

vars == <<m, last>>

-----------------------------------------------------------------------------
(* Where an address leads. *)

TIFR0 == 21
TCNT0 == 38
TimerIo == {TIFR0, TCNT0, 36, 37, 39, 40, 78}

(* timer0Read and timer0Write take the address as a uint8_t. *)
TimerReg(a) == (a - 32) % 256

Route(a) ==
  IF a < 32 THEN "register"
  ELSE IF a \in 93..95 THEN "cpu"                   \* SPL, SPH, SREG
  ELSE IF TimerReg(a) \in TimerIo THEN "timer"
  ELSE IF a \in 192..198 \/ a \in 41..45 THEN "uart"
  ELSE IF a > RamEnd THEN "fault" ELSE "sram"

(* Bytes as sets of bits, for the operations that work on bits. *)
Weight == <<1, 2, 4, 8, 16, 32, 64, 128>>
Bits(v) == {k \in 1..8 : (v \div Weight[k]) % 2 = 1}
FromBits(S) ==
  LET w(k) == IF k \in S THEN Weight[k] ELSE 0
  IN  w(1) + w(2) + w(3) + w(4) + w(5) + w(6) + w(7) + w(8)

(* writeDataByte *)
WriteByte(s, a, v) ==
  CASE Route(a) = "register" -> [s EXCEPT !.r = [s.r EXCEPT ![a] = v]]
    [] Route(a) = "cpu" ->
         IF a = 93 THEN [s EXCEPT !.sp = (256 * (s.sp \div 256)) + v]
         ELSE IF a = 94 THEN [s EXCEPT !.sp = (256 * v) + (s.sp % 256)]
         ELSE [s EXCEPT !.sreg = v]
    [] Route(a) = "timer" ->
         [s EXCEPT !.timer = [s.timer EXCEPT ![TimerReg(a)] =
            IF TimerReg(a) = TIFR0 THEN FromBits(Bits(s.timer[TIFR0]) \ Bits(v)) ELSE v]]
    [] Route(a) = "uart" -> s
    [] Route(a) = "fault" -> [s EXCEPT !.fault = TRUE]
    [] Route(a) = "sram" -> [s EXCEPT !.sram = [s.sram EXCEPT ![a] = v]]

(* readDataByte: the bytes it may return, and the state it leaves. *)
ReadValues(s, a) ==
  CASE Route(a) = "register" -> {s.r[a]}
    [] Route(a) = "cpu" ->
         IF a = 93 THEN {s.sp % 256} ELSE IF a = 94 THEN {s.sp \div 256} ELSE {s.sreg}
    [] Route(a) = "timer" -> {s.timer[TimerReg(a)]}
    [] Route(a) = "uart" -> DeviceBytes
    [] Route(a) = "fault" -> {0}
    [] Route(a) = "sram" -> {s.sram[a]}

AfterRead(s, a) == IF Route(a) = "fault" THEN [s EXCEPT !.fault = TRUE] ELSE s

-----------------------------------------------------------------------------
(* Instructions.  Each stops at the bound Used and runs with no fault pending; *)
(* a fault it raises itself shows only after it, pointer update included.      *)

SetReg(s, d, v) == [s EXCEPT !.r = [s.r EXCEPT ![d] = v]]
Pair(s, p) == s.r[p] + 256 * s.r[p + 1]

SetPair(s, p, w) == SetReg(SetReg(s, p, w % 256), p + 1, w \div 256)

Runs(a) == ~ m.fault /\ a \in Used
Stored(a, v) == last' = IF a \in DOMAIN last THEN [last EXCEPT ![a] = v] ELSE last

LDI(d, k) == d >= 16 /\ ~ m.fault /\ m' = SetReg(m, d, k) /\ UNCHANGED last

(* LDS and IN, STS and OUT. *)
Load(d, a) ==
  /\ Runs(a)
  /\ \E v \in ReadValues(m, a) : m' = SetReg(AfterRead(m, a), d, v)
  /\ UNCHANGED last

Store(a, d) ==
  /\ Runs(a)
  /\ m' = WriteByte(m, a, m.r[d])
  /\ Stored(a, m.r[d])

(* LD and ST through X, Y or Z, with the pointer as it is, decremented before *)
(* or incremented after the access.                                           *)
Modes == {"base", "dec", "inc"}
Effective(p, mode) == IF mode = "dec" THEN (Pair(m, p) - 1) % 65536 ELSE Pair(m, p)
Before(p, mode) == IF mode = "dec" THEN SetPair(m, p, Effective(p, mode)) ELSE m
AfterAccess(s, p, mode, w) == IF mode = "inc" THEN SetPair(s, p, (w + 1) % 65536) ELSE s

LoadIndirect(d, p, mode) ==
  LET w == Effective(p, mode)
      s == Before(p, mode)
  IN  /\ Runs(w)
      /\ \E v \in ReadValues(s, w) :
           m' = AfterAccess(SetReg(AfterRead(s, w), d, v), p, mode, w)
      /\ UNCHANGED last

StoreIndirectIncFirst(p, mode, d) ==
  LET w == Effective(p, mode)
      t == IF mode = "inc" THEN (w + 1) % 65536 ELSE w
      s == Before(p, mode)
  IN  /\ Runs(w)
      /\ m' = AfterAccess(WriteByte(s, t, s.r[d]), p, mode, w)
      /\ Stored(w, s.r[d])

StoreIndirect(p, mode, d) ==
  LET w == Effective(p, mode)
      s == Before(p, mode)
  IN  /\ Runs(w)
      /\ m' = AfterAccess(WriteByte(s, w, s.r[d]), p, mode, w)
      /\ Stored(w, s.r[d])

(* LDD and STD. *)
Displaced(p, q) == (Pair(m, p) + q) % 65536
LoadDisplaced(d, p, q) == Load(d, Displaced(p, q))
StoreDisplaced(p, q, d) == Store(Displaced(p, q), d)

(* SBI and CBI read the register and write it back. *)
BitOp(io, b, on) ==
  LET a == 32 + io
  IN  /\ Runs(a)
      /\ \E v \in ReadValues(m, a) :
           LET w == FromBits(IF on THEN Bits(v) \cup {b} ELSE Bits(v) \ {b})
           IN  m' = WriteByte(m, a, w) /\ Stored(a, w)

Push(d) ==
  /\ ~ m.fault
  /\ IF m.sp \in StackBottom..RamEnd
     THEN /\ m.sp \in Used
          /\ LET s == WriteByte(m, m.sp, m.r[d]) IN m' = [s EXCEPT !.sp = s.sp - 1]
          /\ Stored(m.sp, m.r[d])
     ELSE m' = [m EXCEPT !.fault = TRUE] /\ UNCHANGED last

Pop(d) ==
  /\ ~ m.fault
  /\ IF m.sp >= RamEnd
     THEN m' = SetReg([m EXCEPT !.fault = TRUE], d, 0)
     ELSE /\ m.sp + 1 \in Used
          /\ \E v \in ReadValues([m EXCEPT !.sp = m.sp + 1], m.sp + 1) :
               m' = SetReg([m EXCEPT !.sp = m.sp + 1], d, v)
  /\ UNCHANGED last

(* Timer0 counts and sets flags between instructions. *)
TimerRuns ==
  /\ ~ m.fault
  /\ \E c, f \in DeviceBytes :
       m' = [m EXCEPT !.timer = [m.timer EXCEPT ![TCNT0] = c, ![TIFR0] = f]]
  /\ UNCHANGED last

-----------------------------------------------------------------------------
Sram == {a \in Used : a \in 32..RamEnd}

Init ==   \* clearState; what the loader left in memory is 0 here
  /\ m = [r |-> [i \in 0..31 |-> 0], sp |-> RamEnd, sreg |-> 0,
          timer |-> [i \in TimerIo |-> 0], sram |-> [a \in Sram |-> 0], fault |-> FALSE]
  /\ last = [a \in Sram |-> 0]

Next ==
  \/ \E d \in Sources :
       \/ \E k \in Immediates : LDI(d, k)
       \/ \E a \in Used : Store(a, d)
       \/ \E p \in Indirect, mode \in Modes : StoreIndirect(p, mode, d)
       \/ \E p \in Indirect \ {26}, q \in Displacements : StoreDisplaced(p, q, d)
       \/ Push(d)
  \/ \E d \in Targets :
       \/ \E a \in Used : Load(d, a)
       \/ \E p \in Indirect, mode \in Modes : LoadIndirect(d, p, mode)
       \/ \E p \in Indirect \ {26}, q \in Displacements : LoadDisplaced(d, p, q)
       \/ Pop(d)
  \/ \E io \in 0..31, b \in BitNumbers, on \in BOOLEAN : BitOp(io, b, on)
  \/ TimerRuns

Spec == Init /\ [][Next]_vars

-----------------------------------------------------------------------------
(* Types: registers, SP and memory stay within their widths through pointer   *)
(* arithmetic, byte-wise writes of SP and stack operations.                   *)
Machine ==
  [r : [0..31 -> Byte], sp : Word, sreg : Byte, timer : [TimerIo -> Byte],
   sram : [Sram -> Byte], fault : BOOLEAN]
TypeOK == m \in Machine /\ last \in [Sram -> Byte]

(* The map of memory.cpp:150-156 and README.md:162-168: what is not a register *)
(* named there is memory.                                                      *)
Documented == (93..95) \cup {53, 110} \cup (68..72) \cup (192..198) \cup (41..45)
Memory == Sram \ Documented

(* Every byte of memory holds what was last stored there.                      *)
MemoryHolds == \A a \in Memory : ReadValues(m, a) = {last[a]}

(* The same, of all memory but the addresses equal to a Timer0 register modulo *)
(* 256: whatever mixes pointers, displacements, bit instructions and the stack *)
(* a program uses, no other byte is lost, moved or shared.                     *)
Overlaid(a) == TimerReg(a) \in TimerIo
PlainMemoryHolds == \A a \in Memory : ~ Overlaid(a) => ReadValues(m, a) = {last[a]}
=============================================================================
