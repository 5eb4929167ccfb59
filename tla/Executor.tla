------------------------------ MODULE Executor ------------------------------
(***************************************************************************)
(* The fetch-decode-execute loop of executor.cpp with the interrupt        *)
(* controller of interrupt.cpp, the hardware stack of memory.cpp and the   *)
(* interrupt side of Timer0 and of the UART.                               *)
(*                                                                         *)
(* One turn of the loop is up to three steps: "top" (poll, raise, service),*)
(* "fetch" (fetch, decode, execute) and "tick" (timer0Tick).  Firmware is  *)
(* the constant Code: each flash address holds a set of instructions, one  *)
(* of which executes when the loop gets there, so that data-dependent      *)
(* behaviour is a choice.  Instructions are told apart by what they do to  *)
(* the control state; arithmetic on registers is "plain".                  *)
(*                                                                         *)
(* Timer0 appears through its flags only: a tick may set any of them (what *)
(* timer0Tick computes is in Timer0.tla), and a set of flags stands for    *)
(* the byte holding them.  The stack lies in addresses that timer0Write    *)
(* does not claim, and firmware writes there through SP only.              *)
(***************************************************************************)
EXTENDS Integers, Sequences

CONSTANTS
  Vectors,      \* the interrupt vector numbers of this instance
  TimerVec,     \* the vectors raised from TIMSK0 /\ TIFR0
  PollVec,      \* the vectors uartPoll may raise: USART_RX
  Programmed,   \* vectors whose first word in flash is not 0xFFFF
  FlashSize,    \* AVR_FLASH_SIZE
  StackBottom,  \* STACK_BOTTOM
  RamEnd,       \* DATA_SPACE_END
  IoBytes,      \* bytes a read below StackBottom may return
  MaxFrames,    \* bound: the history keeps the innermost MaxFrames frames
  Code          \* flash address -> the instructions it may hold

MaxWord == 65535
Byte == 0..255
Word == 0..MaxWord

Ops == {"plain", "skip", "sei", "cli", "jump", "push", "pop", "call", "ret", "reti",
        "timsk", "tifr", "spl", "sph", "uart", "bad", "undefined"}

(* num: a jump target, a pushed byte or an SP byte; vecs: the flags written, *)
(* or the vectors a UART register write raises.                              *)
Instr == [op : Ops, words : {1, 2}, num : Word, vecs : SUBSET Vectors]

ASSUME ConstAssumption ==
  /\ Vectors \subseteq 1..21
  /\ TimerVec \subseteq Vectors /\ PollVec \subseteq Vectors
  /\ Programmed \subseteq Vectors
  /\ PollVec \cap TimerVec = {}
  /\ FlashSize \in 1..(MaxWord + 1)
  /\ StackBottom \in 1..MaxWord /\ RamEnd \in StackBottom..MaxWord
  /\ IoBytes \subseteq Byte /\ IoBytes # {}
  /\ MaxFrames \in Nat

ASSUME CodeAssumption ==
  /\ DOMAIN Code \subseteq Word
  /\ \A a \in DOMAIN Code : Code[a] \subseteq Instr /\ Code[a] # {}
  /\ \A a \in DOMAIN Code : \A i \in Code[a] :
       /\ i.op \in {"timsk", "tifr"} => i.vecs \subseteq TimerVec
       /\ i.op = "uart" => i.vecs \cap TimerVec = {}

VARIABLES
  phase,        \* where the emulator thread is in the loop, or "halted"
  pc,           \* AvrState.pc, a byte address
  ibit,         \* the I flag of SREG
  mem,          \* [sp, sram, fault]: SP, the stack area, g_memoryFault
  pending,      \* the controller's mask, as a set of vectors
  timsk, tifr,  \* TIMSK0 and TIFR0, as sets of vectors
  outstanding,  \* history: vectors with an event not yet used by a dispatch
  frames        \* history: pc and SP of what was called from or interrupted, innermost first

vars == <<phase, pc, ibit, mem, pending, timsk, tifr, outstanding, frames>>

-----------------------------------------------------------------------------
(* The stack of memory.cpp: operators from one memory to the next. *)

(* Operators named after a definition with a suffix, such as PushByteUnchecked, *)
(* are wrong on purpose: put in the place of the definition each breaks a      *)
(* property (README, "Mutants").  Nothing uses them.                           *)
PushByteUnchecked(m, b) == [m EXCEPT !.sp = m.sp - 1, !.sram = [m.sram EXCEPT ![m.sp] = b]]

PushByte(m, b) ==
  IF m.sp \in StackBottom..RamEnd
  THEN [m EXCEPT !.sp = m.sp - 1, !.sram = [m.sram EXCEPT ![m.sp] = b]]
  ELSE [m EXCEPT !.fault = TRUE]

PushWordSwapped(m, w) == PushByte(PushByte(m, w \div 256), w % 256)

(* Low byte first, at the higher address. *)
PushWord(m, w) == PushByte(PushByte(m, w % 256), w \div 256)

PopByte(m) ==
  IF m.sp < RamEnd THEN [m EXCEPT !.sp = m.sp + 1] ELSE [m EXCEPT !.fault = TRUE]

(* The bytes that PopByte(m) may return. *)
PopValues(m) ==
  IF m.sp >= RamEnd THEN {0}
  ELSE IF m.sp + 1 >= StackBottom THEN {m.sram[m.sp + 1]} ELSE IoBytes

(* High byte first. *)
PopWord(m) == PopByte(PopByte(m))
PopWordValues(m) ==
  {(256 * h) + l : h \in PopValues(m), l \in PopValues(PopByte(m))}

-----------------------------------------------------------------------------
(* Raising and servicing interrupts: the "top" of an iteration. *)

vectorAddr(v) == (v - 1) * 4

(* Vectors that interruptService jumps to rather than discards. *)
Deliverable(v) == v \in Programmed /\ vectorAddr(v) + 1 < FlashSize

RequestsNoTimer(rx) == pending \cup rx

(* pending, after uartPoll raised rx and the loop looked at the Timer0 flags. *)
Requests(rx) == pending \cup rx \cup (timsk \cap tifr)

HighestNumber(v, S) == v \in S /\ \A u \in S : u <= v

(* highestPending: the lowest vector number wins. *)
Highest(v, S) == v \in S /\ \A u \in S : v <= u

(* The history after a call or an interruption that pushed w on m, if w got there. *)
Entered(m, w) ==
  LET now == <<[pc |-> w, sp |-> m.sp]>> \o frames
  IN  IF PushWord(m, w).fault THEN frames
      ELSE IF Len(frames) < MaxFrames THEN now ELSE SubSeq(now, 1, MaxFrames)

(* The history after firmware moved SP to s: from a routine that takes more off *)
(* the stack than it put there nothing is expected.                             *)
Kept(s) == IF frames # <<>> /\ s > Head(frames).sp - 2 THEN <<>> ELSE frames

(* The innermost routine has SP where it found it. *)
Balanced == frames # <<>> /\ mem.sp = Head(frames).sp - 2

DispatchNoAck(rx, v) ==
  /\ phase = "top" /\ ibit
  /\ Highest(v, Requests(rx)) /\ Deliverable(v)
  /\ pending' = Requests(rx) \ {v}
  /\ mem' = PushWord(mem, pc) /\ ibit' = FALSE /\ pc' = vectorAddr(v)
  /\ outstanding' = (outstanding \cup rx) \ {v}
  /\ frames' = Entered(mem, pc)
  /\ UNCHANGED <<phase, timsk, tifr>>
DispatchKeepsI(rx, v) ==
  /\ phase = "top" /\ ibit
  /\ Highest(v, Requests(rx)) /\ Deliverable(v)
  /\ pending' = Requests(rx) \ {v}
  /\ mem' = PushWord(mem, pc) /\ pc' = vectorAddr(v) /\ tifr' = tifr \ {v}
  /\ outstanding' = (outstanding \cup rx) \ {v}
  /\ frames' = Entered(mem, pc)
  /\ UNCHANGED <<phase, ibit, timsk>>

(* The controller accepts v: clear its bit, save pc, clear I, jump; the loop *)
(* then acknowledges the Timer0 flag and starts over.                        *)
Dispatch(rx, v) ==
  /\ phase = "top" /\ ibit
  /\ Highest(v, Requests(rx))
  /\ Deliverable(v)
  /\ pending' = Requests(rx) \ {v}
  /\ mem' = PushWord(mem, pc)
  /\ ibit' = FALSE
  /\ pc' = vectorAddr(v)
  /\ tifr' = tifr \ {v}
  /\ outstanding' = (outstanding \cup rx) \ {v}
  /\ frames' = Entered(mem, pc)
  /\ UNCHANGED <<phase, timsk>>

(* An unprogrammed vector: its pending bit is dropped, its Timer0 flag is not, *)
(* and no other vector is considered in this iteration.                        *)
Discard(rx, v) ==
  /\ phase = "top" /\ ibit
  /\ Highest(v, Requests(rx))
  /\ ~ Deliverable(v)
  /\ pending' = Requests(rx) \ {v}
  /\ phase' = "fetch"
  /\ outstanding' = outstanding \cup rx
  /\ UNCHANGED <<pc, ibit, mem, timsk, tifr, frames>>

NothingToService(rx) ==
  /\ phase = "top"
  /\ ~ ibit \/ Requests(rx) = {}
  /\ pending' = Requests(rx)
  /\ phase' = "fetch"
  /\ outstanding' = outstanding \cup rx
  /\ UNCHANGED <<pc, ibit, mem, timsk, tifr, frames>>

Service ==
  \E rx \in SUBSET PollVec :
    \/ NothingToService(rx)
    \/ \E v \in Vectors : Dispatch(rx, v) \/ Discard(rx, v)

-----------------------------------------------------------------------------
(* Fetch, decode and execute. *)

NOP == [op |-> "plain", words |-> 1, num |-> 0, vecs |-> {}]

(* Flash that no segment was loaded into holds 0x0000, a NOP. *)
InstrAt(a) == IF a \in DOMAIN Code THEN Code[a] ELSE {NOP}

NextPc(i) == (pc + 2 * i.words) % (MaxWord + 1)

Fetched(i) ==
  /\ phase = "fetch"
  /\ pc + 1 < FlashSize
  /\ i \in InstrAt(pc)
  /\ i.words = 2 => pc + 3 < FlashSize

(* pc ran off the flash, or a second word would. *)
FetchError ==
  /\ phase = "fetch"
  /\ \/ pc + 1 >= FlashSize /\ pc' = pc
     \/ /\ pc + 1 < FlashSize /\ pc + 3 >= FlashSize
        /\ \E i \in InstrAt(pc) : i.words = 2
        /\ pc' = (pc + 2) % (MaxWord + 1)
  /\ phase' = "halted"
  /\ UNCHANGED <<ibit, mem, pending, timsk, tifr, outstanding, frames>>

UnknownOpcode ==
  /\ \E i \in InstrAt(pc) : Fetched(i) /\ i.op = "undefined" /\ pc' = NextPc(i)
  /\ phase' = "halted"
  /\ UNCHANGED <<ibit, mem, pending, timsk, tifr, outstanding, frames>>

(* memoryClearFault runs before each instruction, memoryFaultPending after. *)
Cleared == [mem EXCEPT !.fault = FALSE]
Retire(m) == mem' = m /\ phase' = IF m.fault THEN "halted" ELSE "tick"

Plain(i) ==
  /\ i.op \in {"plain", "jump"}
  /\ pc' = IF i.op = "jump" THEN i.num ELSE NextPc(i)
  /\ Retire(Cleared)
  /\ UNCHANGED <<ibit, pending, timsk, tifr, outstanding, frames>>

SkipOneWord(i) ==
  /\ i.op = "skip" /\ NextPc(i) + 1 < FlashSize
  /\ pc' = (NextPc(i) + 2) % (MaxWord + 1) /\ Retire(Cleared)
  /\ UNCHANGED <<ibit, pending, timsk, tifr, outstanding, frames>>

(* A skip whose condition holds passes over the next instruction, of one or two *)
(* words, which must be in flash and decode.                                    *)
Skip(i) ==
  /\ i.op = "skip"
  /\ \/ /\ NextPc(i) + 1 >= FlashSize
        /\ pc' = NextPc(i)
        /\ Retire([mem EXCEPT !.fault = TRUE])
     \/ /\ NextPc(i) + 1 < FlashSize
        /\ \E n \in InstrAt(NextPc(i)) :
             IF n.op = "undefined"
             THEN pc' = NextPc(i) /\ Retire([mem EXCEPT !.fault = TRUE])
             ELSE pc' = (NextPc(i) + 2 * n.words) % (MaxWord + 1) /\ Retire(Cleared)
  /\ UNCHANGED <<ibit, pending, timsk, tifr, outstanding, frames>>

WriteI(i) ==
  /\ i.op \in {"sei", "cli"}
  /\ ibit' = (i.op = "sei")
  /\ pc' = NextPc(i)
  /\ Retire(Cleared)
  /\ UNCHANGED <<pending, timsk, tifr, outstanding, frames>>

Push(i) ==
  /\ i.op = "push"
  /\ pc' = NextPc(i)
  /\ Retire(PushByte(Cleared, i.num % 256))
  /\ UNCHANGED <<ibit, pending, timsk, tifr, outstanding, frames>>

Pop(i) ==
  /\ i.op = "pop"
  /\ pc' = NextPc(i)
  /\ Retire(PopByte(Cleared))
  /\ frames' = Kept(PopByte(Cleared).sp)
  /\ UNCHANGED <<ibit, pending, timsk, tifr, outstanding>>

Call(i) ==
  /\ i.op = "call"
  /\ pc' = i.num
  /\ Retire(PushWord(Cleared, NextPc(i)))
  /\ frames' = Entered(Cleared, NextPc(i))
  /\ UNCHANGED <<ibit, pending, timsk, tifr, outstanding>>

(* The history after a return. *)
Left == IF Balanced THEN Tail(frames) ELSE Kept(PopWord(Cleared).sp)

Ret(i) ==
  /\ i.op = "ret"
  /\ pc' \in PopWordValues(Cleared)
  /\ Retire(PopWord(Cleared))
  /\ frames' = Left
  /\ UNCHANGED <<ibit, pending, timsk, tifr, outstanding>>

Reti(i) ==
  /\ i.op = "reti"
  /\ pc' \in PopWordValues(Cleared)
  /\ Retire(PopWord(Cleared))
  /\ ibit' = TRUE
  /\ frames' = Left
  /\ UNCHANGED <<pending, timsk, tifr, outstanding>>

WriteTimer(i) ==
  /\ i.op \in {"timsk", "tifr"}
  /\ timsk' = IF i.op = "timsk" THEN i.vecs ELSE timsk
  /\ tifr' = IF i.op = "tifr" THEN tifr \ i.vecs ELSE tifr  \* write one to clear
  /\ pc' = NextPc(i)
  /\ Retire(Cleared)
  /\ UNCHANGED <<ibit, pending, outstanding, frames>>

(* SP is written one byte at a time. *)
WrittenSp(i) ==
  IF i.op = "spl" THEN (256 * (mem.sp \div 256)) + (i.num % 256)
  ELSE (256 * (i.num % 256)) + (mem.sp % 256)

WriteSp(i) ==
  /\ i.op \in {"spl", "sph"}
  /\ pc' = NextPc(i)
  /\ Retire([Cleared EXCEPT !.sp = WrittenSp(i)])
  /\ frames' = Kept(WrittenSp(i))
  /\ UNCHANGED <<ibit, pending, timsk, tifr, outstanding>>

(* A UCSR0B or UDR0 write raises USART_UDRE and USART_TX as they are enabled. *)
WriteUart(i) ==
  /\ i.op = "uart"
  /\ pending' = pending \cup i.vecs
  /\ outstanding' = outstanding \cup i.vecs
  /\ pc' = NextPc(i)
  /\ Retire(Cleared)
  /\ UNCHANGED <<ibit, timsk, tifr, frames>>

(* A load or store outside the data space. *)
BadAccess(i) ==
  /\ i.op = "bad"
  /\ pc' = NextPc(i)
  /\ Retire([mem EXCEPT !.fault = TRUE])
  /\ UNCHANGED <<ibit, pending, timsk, tifr, outstanding, frames>>

Effect(i) ==
  \/ Plain(i) \/ Skip(i) \/ WriteI(i) \/ Push(i) \/ Pop(i) \/ Call(i) \/ Ret(i) \/ Reti(i)
  \/ WriteTimer(i) \/ WriteSp(i) \/ WriteUart(i) \/ BadAccess(i)

Execute == \E i \in InstrAt(pc) : Fetched(i) /\ Effect(i)

(* timer0Tick sets flags, whether or not they are set or enabled already. *)
Tick ==
  /\ phase = "tick"
  /\ \E S \in SUBSET TimerVec :
       /\ tifr' = tifr \cup S
       /\ outstanding' = outstanding \cup S
  /\ phase' = "top"
  /\ UNCHANGED <<pc, ibit, mem, pending, timsk, frames>>

-----------------------------------------------------------------------------
Init ==
  /\ phase = "top"
  /\ pc = 0
  /\ ibit = FALSE
  /\ mem = [sp |-> RamEnd, sram |-> [a \in StackBottom..RamEnd |-> 0], fault |-> FALSE]
  /\ pending = {} /\ timsk = {} /\ tifr = {}
  /\ outstanding = {}
  /\ frames = <<>>

Next == Service \/ FetchError \/ UnknownOpcode \/ Execute \/ Tick

Spec == Init /\ [][Next]_vars

(* The loop runs on a thread of its own and nothing in it blocks for ever. *)
FairSpec == Spec /\ WF_vars(Next)

-----------------------------------------------------------------------------
(* Types of the loop's variables; the stack pointer is any 16-bit value. *)
Frame == [pc : Word, sp : Word]
Mem == [sp : Word, sram : [StackBottom..RamEnd -> Byte], fault : BOOLEAN]

TypeOK ==
  /\ phase \in {"top", "fetch", "tick", "halted"}
  /\ pc \in Word
  /\ ibit \in BOOLEAN
  /\ mem \in Mem
  /\ pending \subseteq Vectors
  /\ timsk \subseteq TimerVec /\ tifr \subseteq TimerVec
  /\ outstanding \subseteq Vectors
  /\ frames \in Seq(Frame)

(* Every request the controller still holds and every Timer0 flag still set   *)
(* stems from an event that no interrupt was taken for: with the flag and the *)
(* pending bit cleared together at dispatch, no event is served twice.        *)
EachEventServedOnce == pending \cup tifr \subseteq outstanding

(* Interrupt latency is zero: when the vectors without a handler are numbered  *)
(* above those with one, no instruction is fetched with I set while a request  *)
(* waits that has a handler, whatever raised it, however many arrived at once  *)
(* and although an unprogrammed one is raised again in every iteration.        *)
NoInstructionWhileRequested ==
  (\A u, v \in Vectors : Deliverable(v) /\ ~ Deliverable(u) => v < u) =>
    (phase = "fetch" /\ ibit => \A v \in pending \cup (timsk \cap tifr) : ~ Deliverable(v))

(* PUSH, CALL and interrupts never move SP below the byte under the stack     *)
(* area and pops never above RAMEND, also when a push of two bytes fails half *)
(* way: firmware that does not write SP itself keeps it in the stack area.    *)
LeavesSpAlone == \A a \in DOMAIN Code : \A i \in Code[a] : i.op \notin {"spl", "sph"}
SpStaysInStack == LeavesSpAlone => mem.sp \in (StackBottom - 1)..RamEnd

(* RET and RETI of a routine that leaves SP as it found it resume what called  *)
(* or interrupted it, at its pc and with its SP: the two bytes pushed come back *)
(* in the right order from where they were put, whatever was called, pushed,   *)
(* popped and interrupted in between, and although a push may fail.            *)
Return == \E i \in InstrAt(pc) : Fetched(i) /\ (Ret(i) \/ Reti(i))
ReturnsResume ==
  [][Balanced /\ Return => pc' = Head(frames).pc /\ mem'.sp = Head(frames).sp]_vars

(* A dispatch uses up an event, happens only with I set and clears it; nothing *)
(* else uses events up.                                                        *)
Line == INSTANCE InterruptLine WITH enabled <- ibit
ImplementsInterruptLine == Line!LineSpec

(* Requests share one way in, lowest number first, and each has its turn: a    *)
(* vector with a handler does not wait for ever when I is set again and again,  *)
(* for however short, and those that go before it ask no more.                  *)
Waiting(v) == v \in pending \cup (timsk \cap tifr)
Preceded(v) == \E u \in Vectors : u < v /\ Waiting(u)
GetsItsTurn(v) ==
  []<>(ibit /\ phase # "halted") /\ <>[] ~ Preceded(v) => []<> ~ Waiting(v)
EachGetsItsTurn == \A v \in Programmed : GetsItsTurn(v)
=============================================================================
