------------------------------- MODULE Timer0 -------------------------------
(***************************************************************************)
(* Timer/Counter 0 of timer0.cpp: its registers, the prescaler and the     *)
(* loop of timer0Tick.  TickBegin is the part of timer0Tick up to the      *)
(* loop, Count one turn of it; firmware reads and writes registers, and    *)
(* the executor acknowledges flags, between ticks only, since all of it    *)
(* runs on the emulator thread.                                            *)
(***************************************************************************)
EXTENDS Naturals, FiniteSets

CONSTANTS
  CountMax,   \* 0xFF, the largest value of an 8-bit register
  Divider,    \* clock select CS02:00 -> CPU cycles per timer clock, 0 = stopped
  MaxDivider, \* 1024, the largest of them
  AccMod,     \* 2^16: prescaler_acc is a uint16_t
  Cycles,     \* the cycle counts of instructions
  Selects,    \* the clock selects firmware writes
  Modes,      \* the values of WGM01:00 firmware writes
  Masks       \* the masks firmware writes to TIMSK0

Flags == {"TOV0", "OCF0A", "OCF0B"}
Reg == 0..CountMax

ASSUME TimerAssumption ==
  /\ CountMax \in Nat /\ MaxDivider \in Nat \ {0} /\ AccMod \in Nat
  /\ Divider \in [0..7 -> 0..MaxDivider]
  /\ Cycles \subseteq 1..AccMod
  /\ \A c \in Cycles : MaxDivider + c <= AccMod
  /\ Selects \subseteq 0..7 /\ Modes \subseteq 0..3
  /\ Masks \subseteq SUBSET Flags

VARIABLES
  tccr0a,         \* WGM01:00 of TCCR0A
  tccr0b,         \* [cs, wgm02] of TCCR0B
  tcnt0, ocr0a, ocr0b, timsk0, tifr0,
  prescaler_acc,  \* CPU cycles not yet turned into timer clocks
  ticking,        \* timer0Tick is in its loop
  since           \* history: the timer when timer0Tick was last called or a
                  \* register last written, and the timer clocks from there

regs == <<tccr0a, tccr0b, ocr0a, ocr0b, timsk0>>
vars == <<regs, tcnt0, tifr0, prescaler_acc, ticking, since>>

CTC == 2
prescalerDivider == Divider[tccr0b.cs]
wgm == 4 * tccr0b.wgm02 + tccr0a
top == IF wgm = CTC THEN ocr0a ELSE CountMax

-----------------------------------------------------------------------------
Init ==   \* timer0Reset
  /\ tccr0a = 0 /\ tccr0b = [cs |-> 0, wgm02 |-> 0]
  /\ tcnt0 = 0 /\ ocr0a = 0 /\ ocr0b = 0
  /\ timsk0 = {} /\ tifr0 = {}
  /\ prescaler_acc = 0
  /\ ticking = FALSE
  /\ since = [tcnt |-> 0, flags |-> {}, acc |-> 0, cycles |-> 0, clocks |-> 0]

(* timer0Tick(c) of a running timer; a stopped one ignores the call. *)
TickBegin(c) ==
  /\ ~ ticking
  /\ prescalerDivider # 0
  /\ prescaler_acc' = (prescaler_acc + c) % AccMod
  /\ ticking' = (prescaler_acc' >= prescalerDivider)
  /\ since' = [tcnt |-> tcnt0, flags |-> tifr0, acc |-> prescaler_acc,
               cycles |-> c, clocks |-> 0]
  /\ UNCHANGED <<regs, tcnt0, tifr0>>

(* The operators with a suffix, here and before Count, are wrong on purpose    *)
(* (README, "Mutants").                                                        *)
ClockFlagsAfter(n) ==
  (IF n + 1 > top /\ wgm # CTC THEN {"TOV0"} ELSE {})
    \cup (IF n + 1 = ocr0a THEN {"OCF0A"} ELSE {})
    \cup (IF n + 1 = ocr0b THEN {"OCF0B"} ELSE {})

(* The flags that one timer clock sets when it finds TCNT0 at n: overflow on   *)
(* wrapping, except in CTC mode, and a match on the value being left.          *)
ClockFlags(n) ==
  (IF n + 1 > top /\ wgm # CTC THEN {"TOV0"} ELSE {})
    \cup (IF n = ocr0a THEN {"OCF0A"} ELSE {})
    \cup (IF n = ocr0b THEN {"OCF0B"} ELSE {})

CountStep ==
  /\ tcnt0' = IF tcnt0 + 1 > top THEN 0 ELSE tcnt0 + 1
  /\ tifr0' = tifr0 \cup ClockFlags(tcnt0)
  /\ since' = [since EXCEPT !.clocks = @ + 1]
  /\ UNCHANGED regs
CountOnce ==
  ticking /\ prescaler_acc' = prescaler_acc - prescalerDivider /\ ticking' = FALSE /\ CountStep
CountDropsRest == ticking /\ prescaler_acc' = 0 /\ ticking' = FALSE /\ CountStep
CountStuck ==
  /\ ticking /\ prescaler_acc > prescalerDivider
  /\ prescaler_acc' = prescaler_acc - prescalerDivider
  /\ ticking' = (prescaler_acc' >= prescalerDivider)
  /\ CountStep

(* One turn of the loop: one prescaler period becomes one timer clock. *)
Count ==
  /\ ticking
  /\ prescaler_acc' = prescaler_acc - prescalerDivider
  /\ tcnt0' = IF tcnt0 + 1 > top THEN 0 ELSE tcnt0 + 1
  /\ tifr0' = tifr0 \cup ClockFlags(tcnt0)
  /\ ticking' = (prescaler_acc' >= prescalerDivider)
  /\ since' = [since EXCEPT !.clocks = @ + 1]
  /\ UNCHANGED regs

(* Firmware, or the executor, touches a register between ticks. *)
BetweenTicks ==
  /\ ~ ticking /\ UNCHANGED ticking
  /\ since' = [tcnt |-> tcnt0', flags |-> tifr0', acc |-> prescaler_acc',
               cycles |-> 0, clocks |-> 0]

WriteTCCR0A ==
  /\ \E m \in Modes : tccr0a' = m
  /\ UNCHANGED <<tccr0b, tcnt0, ocr0a, ocr0b, timsk0, tifr0, prescaler_acc>>
  /\ BetweenTicks

WriteTCCR0B ==
  /\ \E s \in Selects, w \in {0, 1} : tccr0b' = [cs |-> s, wgm02 |-> w]
  /\ UNCHANGED <<tccr0a, tcnt0, ocr0a, ocr0b, timsk0, tifr0, prescaler_acc>>
  /\ BetweenTicks

(* Writing the counter also drops the cycles the prescaler has collected. *)
WriteTCNT0 ==
  /\ tcnt0' \in Reg
  /\ prescaler_acc' = 0
  /\ UNCHANGED <<regs, tifr0>>
  /\ BetweenTicks

WriteOCR0A ==
  /\ ocr0a' \in Reg
  /\ UNCHANGED <<tccr0a, tccr0b, tcnt0, ocr0b, timsk0, tifr0, prescaler_acc>>
  /\ BetweenTicks

WriteOCR0B ==
  /\ ocr0b' \in Reg
  /\ UNCHANGED <<tccr0a, tccr0b, tcnt0, ocr0a, timsk0, tifr0, prescaler_acc>>
  /\ BetweenTicks

WriteTIMSK0 ==
  /\ timsk0' \in Masks
  /\ UNCHANGED <<tccr0a, tccr0b, tcnt0, ocr0a, ocr0b, tifr0, prescaler_acc>>
  /\ BetweenTicks

(* Write one to clear. *)
WriteTIFR0 ==
  /\ \E S \in SUBSET Flags : tifr0' = tifr0 \ S
  /\ UNCHANGED <<regs, tcnt0, prescaler_acc>>
  /\ BetweenTicks

(* timer0AckOverflow, timer0AckCompA, timer0AckCompB, after a dispatch. *)
Ack ==
  /\ \E f \in Flags : tifr0' = tifr0 \ {f}
  /\ UNCHANGED <<regs, tcnt0, prescaler_acc>>
  /\ BetweenTicks

Next ==
  \/ \E c \in Cycles : TickBegin(c)
  \/ Count
  \/ WriteTCCR0A \/ WriteTCCR0B \/ WriteTCNT0 \/ WriteOCR0A \/ WriteOCR0B
  \/ WriteTIMSK0 \/ WriteTIFR0 \/ Ack

Spec == Init /\ [][Next]_vars

(* Once in the loop, the emulator thread runs it. *)
FairSpec == Spec /\ WF_vars(Count)

-----------------------------------------------------------------------------
(* Types: the counter and the compare registers stay 8-bit, the accumulator    *)
(* never holds as much as a divider and an instruction together.               *)
TypeOK ==
  /\ tccr0a \in 0..3 /\ tccr0b \in [cs : 0..7, wgm02 : {0, 1}]
  /\ tcnt0 \in Reg /\ ocr0a \in Reg /\ ocr0b \in Reg
  /\ timsk0 \subseteq Flags /\ tifr0 \subseteq Flags
  /\ prescaler_acc \in Nat
  /\ ticking \in BOOLEAN
  /\ since \in [tcnt : Reg, flags : SUBSET Flags, acc : Nat, cycles : Nat, clocks : Nat]

(* Between ticks less than the largest divider is left in the accumulator,     *)
(* whatever clock selects firmware switched between, so that the 16-bit        *)
(* addition at timer0.cpp:99 never wraps and no cycle is lost there.           *)
AccumulatorBounded ==
  /\ ~ ticking => prescaler_acc < MaxDivider
  /\ ticking => prescalerDivider # 0 /\ prescaler_acc < AccMod

(* Every cycle handed to timer0Tick is either in a timer clock or still in the *)
(* accumulator; the loop stops as soon as less than a period is left.          *)
CyclesConserved ==
  /\ prescaler_acc + since.clocks * prescalerDivider = since.acc + since.cycles
  /\ since.cycles > 0 /\ ~ ticking => prescaler_acc < prescalerDivider

(* The value of TCNT0 k timer clocks after n when it counts to t, by arithmetic *)
(* instead of a loop, and the values it passed.                                *)
After(t, n, k) ==
  IF n <= t THEN (n + k) % (t + 1)
  ELSE IF k = 0 THEN n ELSE (k - 1) % (t + 1)
Visited == {After(top, since.tcnt, k) : k \in 0..(since.clocks - 1)}

(* However many timer clocks one instruction is worth, the loop leaves TCNT0   *)
(* where arithmetic puts it and TIFR0 with exactly the flags of the values it  *)
(* passed: none missed when several clocks fall into one call, none of a       *)
(* value only reached.                                                         *)
FollowsReference ==
  /\ tcnt0 = After(top, since.tcnt, since.clocks)
  /\ tifr0 = since.flags
       \cup (IF wgm # CTC /\ CountMax \in Visited THEN {"TOV0"} ELSE {})
       \cup (IF ocr0a \in Visited THEN {"OCF0A"} ELSE {})
       \cup (IF ocr0b \in Visited THEN {"OCF0B"} ELSE {})

(* The loop of timer0Tick ends. *)
TickEnds == ticking ~> ~ ticking
=============================================================================
