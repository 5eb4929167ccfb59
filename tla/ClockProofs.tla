----------------------------- MODULE ClockProofs -----------------------------
(***************************************************************************)
(* Proofs about the two clocks of the emulator: Timer0, for every counter  *)
(* width, every set of dividers and every choice of instruction lengths,   *)
(* and the pacing of the loop, for every clock rate, interval, slack and   *)
(* modulus.                                                                *)
(***************************************************************************)
EXTENDS Timer0, Pacing, TLAPS

-----------------------------------------------------------------------------
(* Arithmetic: what adding one does to a remainder. *)

LEMMA DivMod ==
  ASSUME NEW T \in Nat \ {0}, NEW m \in Nat
  PROVE  /\ m \div T \in Nat /\ m % T \in 0..(T - 1)
         /\ m = T * (m \div T) + (m % T)
OBVIOUS

LEMMA AtLeastOnePeriod ==
  ASSUME NEW T \in Nat \ {0}, NEW d \in Int, d >= 1
  PROVE  T * d >= T
OBVIOUS

LEMMA UniqueDivision ==
  ASSUME NEW T \in Nat \ {0}, NEW q \in Int, NEW r \in 0..(T - 1),
         NEW p \in Int, NEW s \in 0..(T - 1), T * q + r = T * p + s
  PROVE  q = p /\ r = s
<1>1. T * (q - p) = s - r OBVIOUS
<1>2. T * (p - q) = r - s OBVIOUS
<1>3. ~ (q - p >= 1) BY <1>1, AtLeastOnePeriod
<1>4. ~ (p - q >= 1) BY <1>2, AtLeastOnePeriod
<1> QED BY <1>3, <1>4

LEMMA Remainder ==
  ASSUME NEW T \in Nat \ {0}, NEW m \in Nat, NEW q \in Int, NEW r \in 0..(T - 1),
         m = T * q + r
  PROVE  m % T = r
BY DivMod, UniqueDivision

LEMMA RemainderStep ==
  ASSUME NEW T \in Nat \ {0}, NEW m \in Nat
  PROVE  (m + 1) % T = IF m % T = T - 1 THEN 0 ELSE (m % T) + 1
<1> DEFINE q == m \div T
           r == m % T
<1>1. q \in Nat /\ r \in 0..(T - 1) /\ m = T * q + r BY DivMod
<1> HIDE DEF q, r
<1>2. CASE r = T - 1
  <2>1. m + 1 = T * (q + 1) + 0 BY <1>1, <1>2
  <2>2. m + 1 \in Nat /\ q + 1 \in Int /\ 0 \in 0..(T - 1) BY <1>1
  <2>3. (m + 1) % T = 0 BY <2>1, <2>2, Remainder
  <2> QED BY <1>2, <2>3 DEF r
<1>3. CASE r # T - 1
  <2>1. m + 1 = T * q + (r + 1) /\ r + 1 \in 0..(T - 1) BY <1>1, <1>3
  <2> QED BY <1>1, <1>3, <2>1, Remainder DEF r
<1> QED BY <1>2, <1>3

-----------------------------------------------------------------------------
LEMMA DividerType ==
  ASSUME TypeOK
  PROVE  /\ prescalerDivider \in Nat /\ prescalerDivider <= MaxDivider
         /\ MaxDivider \in Nat \ {0} /\ CountMax \in Nat /\ AccMod \in Nat
         /\ top \in Reg
BY TimerAssumption DEF TimerAssumption, TypeOK, prescalerDivider, top, Reg

(* The loop of timer0Tick is entered, and re-entered, only with a whole period *)
(* to consume; the history is at rest between ticks.                           *)
LoopInv ==
  /\ ticking => prescaler_acc >= prescalerDivider
  /\ since.cycles = 0 => ~ ticking /\ since.clocks = 0

TimerInv == TypeOK /\ AccumulatorBounded /\ CyclesConserved /\ LoopInv

Writes ==
  \/ WriteTCCR0A \/ WriteTCCR0B \/ WriteTCNT0 \/ WriteOCR0A \/ WriteOCR0B
  \/ WriteTIMSK0 \/ WriteTIFR0 \/ Ack

(* A register write, whichever it is, leaves the timer at rest: nothing is     *)
(* counted since, and the accumulator is untouched or empty.                   *)
LEMMA WritesAtRest ==
  ASSUME TimerInv, Writes
  PROVE  /\ TypeOK' /\ ~ ticking' /\ ~ ticking
         /\ prescaler_acc' \in {0, prescaler_acc}
         /\ since' = [tcnt |-> tcnt0', flags |-> tifr0', acc |-> prescaler_acc',
                      cycles |-> 0, clocks |-> 0]
<1>1. /\ ~ ticking /\ ~ ticking'
      /\ prescaler_acc' \in {0, prescaler_acc}
      /\ since' = [tcnt |-> tcnt0', flags |-> tifr0', acc |-> prescaler_acc',
                   cycles |-> 0, clocks |-> 0]
  BY DEF Writes, WriteTCCR0A, WriteTCCR0B, WriteTCNT0, WriteOCR0A, WriteOCR0B,
         WriteTIMSK0, WriteTIFR0, Ack, BetweenTicks
<1>2. tccr0a' \in 0..3 /\ tccr0b' \in [cs : 0..7, wgm02 : {0, 1}]
  BY TimerAssumption DEF TimerAssumption, TimerInv, TypeOK, Writes, WriteTCCR0A,
     WriteTCCR0B, WriteTCNT0, WriteOCR0A, WriteOCR0B, WriteTIMSK0, WriteTIFR0, Ack, regs
<1>3. tcnt0' \in Reg /\ ocr0a' \in Reg /\ ocr0b' \in Reg
  BY DEF TimerInv, TypeOK, Writes, WriteTCCR0A, WriteTCCR0B, WriteTCNT0, WriteOCR0A,
         WriteOCR0B, WriteTIMSK0, WriteTIFR0, Ack, regs
<1>4. timsk0' \subseteq Flags /\ tifr0' \subseteq Flags
  BY TimerAssumption DEF TimerAssumption, TimerInv, TypeOK, Writes, WriteTCCR0A,
     WriteTCCR0B, WriteTCNT0, WriteOCR0A, WriteOCR0B, WriteTIMSK0, WriteTIFR0, Ack, regs
<1>5. prescaler_acc' \in Nat /\ ticking' \in BOOLEAN
  BY <1>1 DEF TimerInv, TypeOK, Writes, WriteTCCR0A, WriteTCCR0B, WriteTCNT0, WriteOCR0A,
     WriteOCR0B, WriteTIMSK0, WriteTIFR0, Ack, BetweenTicks
<1>6. since' \in [tcnt : Reg, flags : SUBSET Flags, acc : Nat, cycles : Nat, clocks : Nat]
  BY <1>1, <1>3, <1>4, <1>5
<1> QED BY <1>1, <1>2, <1>3, <1>4, <1>5, <1>6 DEF TypeOK

(* The inductive invariant: no cycle is lost or invented, and the accumulator  *)
(* never reaches the 16-bit limit.                                             *)
THEOREM Conservation == Spec => []TimerInv
<1>1. Init => TimerInv
  <2> SUFFICES ASSUME Init PROVE TimerInv OBVIOUS
  <2>1. TypeOK
    <3>1. 0 \in Reg BY TimerAssumption DEF TimerAssumption, Reg
    <3>2. tccr0b \in [cs : 0..7, wgm02 : {0, 1}] BY DEF Init
    <3>3. since \in [tcnt : Reg, flags : SUBSET Flags, acc : Nat, cycles : Nat, clocks : Nat]
      BY <3>1 DEF Init
    <3>4. timsk0 \subseteq Flags /\ tifr0 \subseteq Flags BY DEF Init
    <3>5. tccr0a \in 0..3 /\ prescaler_acc \in Nat BY DEF Init
    <3>6. ticking \in BOOLEAN BY Zenon DEF Init
    <3> QED BY <3>1, <3>2, <3>3, <3>4, <3>5, <3>6, Zenon DEF Init, TypeOK
  <2>2. AccumulatorBounded
    BY TimerAssumption DEF TimerAssumption, Init, AccumulatorBounded
  <2>3. CyclesConserved
    <3>1. prescalerDivider \in Nat BY <2>1, DividerType
    <3> QED BY <3>1 DEF Init, CyclesConserved
  <2>4. LoopInv BY DEF Init, LoopInv
  <2> QED BY <2>1, <2>2, <2>3, <2>4 DEF TimerInv
<1>2. TimerInv /\ [Next]_vars => TimerInv'
  <2> SUFFICES ASSUME TimerInv, [Next]_vars PROVE TimerInv'
    OBVIOUS
  <2>d. /\ prescalerDivider \in Nat /\ prescalerDivider <= MaxDivider
        /\ MaxDivider \in Nat \ {0} /\ CountMax \in Nat /\ AccMod \in Nat
        /\ prescaler_acc \in Nat /\ since.clocks \in Nat /\ since.acc \in Nat
        /\ since.cycles \in Nat /\ tcnt0 \in Reg
    <3>1. TypeOK BY DEF TimerInv
    <3>2. /\ prescaler_acc \in Nat /\ tcnt0 \in Reg
          /\ since \in [tcnt : Reg, flags : SUBSET Flags, acc : Nat, cycles : Nat, clocks : Nat]
      BY <3>1 DEF TypeOK
    <3> QED BY ONLY <3>1, <3>2, DividerType
  <2>1. ASSUME NEW c \in Cycles, TickBegin(c) PROVE TimerInv'
    <3>1. c \in Nat /\ c > 0 /\ MaxDivider + c <= AccMod
      BY TimerAssumption DEF TimerAssumption
    <3>2. prescaler_acc < MaxDivider /\ prescaler_acc + c < AccMod
      BY <2>1, <2>d, <3>1 DEF TimerInv, AccumulatorBounded, TickBegin
    <3>3. prescaler_acc' = prescaler_acc + c
      BY <2>1, <2>d, <3>1, <3>2 DEF TickBegin
    <3>4. /\ prescalerDivider' = prescalerDivider /\ prescalerDivider # 0
          /\ ticking' <=> prescaler_acc' >= prescalerDivider
          /\ since'.acc = prescaler_acc /\ since'.cycles = c /\ since'.clocks = 0
      BY <2>1 DEF TickBegin, regs, prescalerDivider
    <3>5. TypeOK'
      BY <2>1, <2>d, <3>1, <3>3 DEF TickBegin, TimerInv, TypeOK, regs
    <3>6. AccumulatorBounded'
      BY <2>d, <3>1, <3>2, <3>3, <3>4 DEF AccumulatorBounded
    <3>7. CyclesConserved'
      <4>1. 0 * prescalerDivider = 0 BY <2>d
      <4> QED BY <2>d, <3>1, <3>3, <3>4, <4>1 DEF CyclesConserved
    <3>8. LoopInv' BY <3>1, <3>4 DEF LoopInv
    <3> QED BY <3>5, <3>6, <3>7, <3>8 DEF TimerInv
  <2>2. CASE Count
    <3>1. /\ ticking /\ prescaler_acc >= prescalerDivider /\ prescalerDivider # 0
          /\ prescaler_acc < AccMod
          /\ prescaler_acc + since.clocks * prescalerDivider = since.acc + since.cycles
          /\ since.cycles # 0
      BY <2>2 DEF Count, TimerInv, LoopInv, AccumulatorBounded, CyclesConserved
    <3>2. /\ prescaler_acc' = prescaler_acc - prescalerDivider
          /\ ticking' <=> prescaler_acc' >= prescalerDivider
          /\ since' = [since EXCEPT !.clocks = @ + 1]
          /\ prescalerDivider' = prescalerDivider
      BY <2>2 DEF Count, regs, prescalerDivider
    <3>3. prescaler_acc' \in Nat BY <2>d, <3>1, <3>2
    <3>4. /\ since'.clocks = since.clocks + 1 /\ since'.acc = since.acc
          /\ since'.cycles = since.cycles
          /\ since' \in [tcnt : Reg, flags : SUBSET Flags, acc : Nat, cycles : Nat, clocks : Nat]
      BY <2>d, <3>2 DEF TimerInv, TypeOK
    <3>5. TypeOK'
      <4>1. tcnt0' \in Reg BY <2>2, <2>d, DividerType DEF Count, Reg, TimerInv
      <4>2. tifr0' \subseteq Flags
        BY <2>2 DEF Count, ClockFlags, Flags, TimerInv, TypeOK
      <4> QED BY <2>2, <3>3, <3>4, <4>1, <4>2 DEF Count, TimerInv, TypeOK, regs
    <3>6. AccumulatorBounded' BY <2>d, <3>1, <3>2, <3>3 DEF AccumulatorBounded
    <3>7. CyclesConserved'
      <4>1. (since.clocks + 1) * prescalerDivider
               = since.clocks * prescalerDivider + prescalerDivider
        BY <2>d
      <4>2. since.clocks * prescalerDivider \in Nat BY <2>d
      <4>3. prescaler_acc' + (since.clocks + 1) * prescalerDivider
              = since.acc + since.cycles
        BY <2>d, <3>1, <3>2, <4>1, <4>2
      <4> QED BY <2>d, <3>2, <3>3, <3>4, <4>3 DEF CyclesConserved
    <3>8. LoopInv' BY <3>1, <3>2, <3>4 DEF LoopInv
    <3> QED BY <3>5, <3>6, <3>7, <3>8 DEF TimerInv
  <2>3. CASE Writes
    <3>1. /\ TypeOK' /\ ~ ticking' /\ ~ ticking
          /\ prescaler_acc' \in {0, prescaler_acc}
          /\ since' = [tcnt |-> tcnt0', flags |-> tifr0', acc |-> prescaler_acc',
                       cycles |-> 0, clocks |-> 0]
      BY <2>3, WritesAtRest
    <3>2. prescalerDivider' \in Nat BY <3>1, TimerAssumption
      DEF TimerAssumption, TypeOK, prescalerDivider
    <3>3. AccumulatorBounded'
      BY <2>d, <3>1 DEF TimerInv, AccumulatorBounded
    <3>4. CyclesConserved'
      <4>1. \A n \in Nat : 0 * n = 0 OBVIOUS
      <4>2. 0 * prescalerDivider' = 0 BY <3>2, <4>1
      <4> QED BY <2>d, <3>1, <4>2 DEF CyclesConserved
    <3>5. LoopInv' BY <3>1 DEF LoopInv
    <3> QED BY <3>1, <3>3, <3>4, <3>5 DEF TimerInv
  <2>4. CASE UNCHANGED vars
    BY <2>4 DEF vars, regs, TimerInv, TypeOK, AccumulatorBounded, CyclesConserved, LoopInv,
                prescalerDivider
  <2> QED BY <2>1, <2>2, <2>3, <2>4 DEF Next, Writes
<1> QED BY <1>1, <1>2, PTL DEF Spec

(* The accumulator of a tick never wraps at 16 bits and holds less than the    *)
(* largest divider between ticks.                                              *)
THEOREM AccumulatorIsBounded == Spec => [](TypeOK /\ AccumulatorBounded)
BY Conservation, PTL DEF TimerInv

(* Cycles in, cycles out. *)
THEOREM CyclesAreConserved == Spec => []CyclesConserved
BY Conservation, PTL DEF TimerInv

-----------------------------------------------------------------------------
(* After computes what the loop computes: one more timer clock is one more     *)
(* step of the counter.                                                        *)
LEMMA AfterStep ==
  ASSUME NEW t \in Nat, NEW n \in Nat, NEW k \in Nat
  PROVE  /\ After(t, n, 0) = n
         /\ After(t, n, k + 1) = IF After(t, n, k) + 1 > t THEN 0 ELSE After(t, n, k) + 1
<1> DEFINE T == t + 1
<1>1. T \in Nat \ {0} /\ T - 1 = t OBVIOUS
<1> HIDE DEF T
<1>2. CASE n <= t
  <2>1. After(t, n, k) = (n + k) % T /\ After(t, n, k + 1) = (n + (k + 1)) % T
        /\ After(t, n, 0) = (n + 0) % T
    BY <1>2 DEF After, T
  <2>2. n = T * 0 + n /\ n \in 0..(T - 1) BY <1>1, <1>2
  <2>3. n % T = n BY <1>1, <2>2, Remainder
  <2>4. n + 0 = n /\ n + (k + 1) = (n + k) + 1 /\ n + k \in Nat OBVIOUS
  <2>5. ((n + k) + 1) % T = IF (n + k) % T = T - 1 THEN 0 ELSE ((n + k) % T) + 1
    BY <1>1, <2>4, RemainderStep
  <2>6. (n + k) % T \in 0..(T - 1) BY <1>1, <2>4, DivMod
  <2> QED BY <1>1, <2>1, <2>3, <2>4, <2>5, <2>6
<1>3. CASE ~ (n <= t)
  <2>1. After(t, n, 0) = n BY <1>3 DEF After
  <2>2. After(t, n, k + 1) = k % T BY <1>3 DEF After, T
  <2>3. CASE k = 0
    <3>1. 0 = T * 0 + 0 /\ 0 \in 0..(T - 1) /\ 0 \in Nat BY <1>1
    <3>2. 0 % T = 0 BY <1>1, <3>1, Remainder
    <3> QED BY <1>1, <1>3, <2>1, <2>2, <2>3, <3>2
  <2>4. CASE k # 0
    <3>1. After(t, n, k) = (k - 1) % T BY <1>3, <2>4 DEF After, T
    <3>2. k - 1 \in Nat /\ (k - 1) + 1 = k BY <2>4
    <3>3. k % T = IF (k - 1) % T = T - 1 THEN 0 ELSE ((k - 1) % T) + 1
      BY <1>1, <3>2, RemainderStep
    <3>4. (k - 1) % T \in 0..(T - 1) BY <1>1, <3>2, DivMod
    <3> QED BY <1>1, <2>1, <2>2, <3>1, <3>3, <3>4
  <2> QED BY <2>3, <2>4
<1> QED BY <1>2, <1>3

(* The variant of the loop of timer0Tick: while a call is in it nothing else   *)
(* moves, and each turn takes a whole period, at least 1, from an accumulator  *)
(* that stays at 0 or above.  So a turn is always possible and there are       *)
(* finitely many, which is TickEnds but for the fairness of Count.             *)
THEOREM LoopDescends ==
  Spec => [][ticking => /\ Count
                        /\ prescaler_acc' \in 0..(prescaler_acc - 1)
                        /\ ticking' <=> prescaler_acc' >= prescalerDivider]_vars
<1>1. TimerInv /\ [Next]_vars
        => [ticking => /\ Count
                       /\ prescaler_acc' \in 0..(prescaler_acc - 1)
                       /\ ticking' <=> prescaler_acc' >= prescalerDivider]_vars
  <2> SUFFICES ASSUME TimerInv, Next, ticking
               PROVE  /\ Count
                      /\ prescaler_acc' \in 0..(prescaler_acc - 1)
                      /\ ticking' <=> prescaler_acc' >= prescalerDivider
    OBVIOUS
  <2>1. ~ (\E c \in Cycles : TickBegin(c)) BY DEF TickBegin
  <2>2. ~ Writes BY WritesAtRest
  <2>3. Count BY <2>1, <2>2 DEF Next, Writes
  <2>4. /\ prescalerDivider \in Nat /\ prescalerDivider # 0 /\ prescaler_acc \in Nat
        /\ prescaler_acc >= prescalerDivider
    BY DividerType DEF TimerInv, LoopInv, AccumulatorBounded, TypeOK
  <2>5. /\ prescaler_acc' = prescaler_acc - prescalerDivider
        /\ ticking' <=> prescaler_acc' >= prescalerDivider
        /\ prescalerDivider' = prescalerDivider
    BY <2>3 DEF Count, regs, prescalerDivider
  <2> QED BY <2>3, <2>4, <2>5
<1> QED BY <1>1, Conservation, PTL DEF Spec

(* One more clock visits one more value. *)
LEMMA VisitedStep ==
  ASSUME NEW k \in Nat, NEW t, NEW n
  PROVE  {After(t, n, j) : j \in 0..((k + 1) - 1)}
           = {After(t, n, j) : j \in 0..(k - 1)} \cup {After(t, n, k)}
<1>1. 0..((k + 1) - 1) = 0..(k - 1) \cup {k} OBVIOUS
<1> QED BY <1>1, Zenon

(* The counter and the flags after any number of timer clocks in one call are  *)
(* those of the arithmetic definition.                                         *)
THEOREM MatchesReference == Spec => []FollowsReference
<1>1. Init => FollowsReference
  <2> SUFFICES ASSUME Init PROVE FollowsReference OBVIOUS
  <2>1. /\ since.tcnt = 0 /\ since.clocks = 0 /\ since.flags = {}
        /\ tcnt0 = 0 /\ tifr0 = {} /\ top \in Nat
    BY TimerAssumption DEF TimerAssumption, Init, top
  <2>2. After(top, 0, 0) = 0 BY <2>1, AfterStep
  <2>3. Visited = {} BY <2>1 DEF Visited
  <2> QED BY <2>1, <2>2, <2>3 DEF FollowsReference
<1>2. TimerInv /\ FollowsReference /\ [Next]_vars => FollowsReference'
  <2> SUFFICES ASSUME TimerInv, FollowsReference, [Next]_vars PROVE FollowsReference'
    OBVIOUS
  <2>t. /\ top \in Nat /\ top <= CountMax /\ CountMax \in Nat
        /\ tcnt0 \in Nat /\ tcnt0 <= CountMax
        /\ since.tcnt \in Nat /\ since.clocks \in Nat
    BY DividerType DEF TimerInv, TypeOK, Reg
  <2>1. CASE Count
    <3>1. /\ UNCHANGED <<top, wgm, ocr0a, ocr0b>>
          /\ since'.tcnt = since.tcnt /\ since'.flags = since.flags
          /\ since'.clocks = since.clocks + 1
          /\ tcnt0' = IF tcnt0 + 1 > top THEN 0 ELSE tcnt0 + 1
          /\ tifr0' = tifr0 \cup ClockFlags(tcnt0)
      BY <2>1 DEF Count, regs, top, wgm, TimerInv, TypeOK
    <3>2. tcnt0 = After(top, since.tcnt, since.clocks) BY DEF FollowsReference
    <3>3. tcnt0' = After(top, since.tcnt, since.clocks + 1)
      BY <2>t, <3>1, <3>2, AfterStep, SMTT(30)
    <3>5. Visited' = Visited \cup {tcnt0}
      <4>1. Visited' = {After(top, since.tcnt, j) : j \in 0..((since.clocks + 1) - 1)}
        BY <3>1 DEF Visited
      <4> QED BY <2>t, <3>2, <4>1, VisitedStep DEF Visited
    <3>6. ClockFlags(tcnt0)
            = (IF wgm # CTC /\ tcnt0 = CountMax THEN {"TOV0"} ELSE {})
              \cup (IF tcnt0 = ocr0a THEN {"OCF0A"} ELSE {})
              \cup (IF tcnt0 = ocr0b THEN {"OCF0B"} ELSE {})
      <4>1. wgm # CTC => (tcnt0 + 1 > top <=> tcnt0 = CountMax)
        BY <2>t DEF top
      <4> QED BY <4>1 DEF ClockFlags
    <3>7. tcnt0' = After(top, since.tcnt, since.clocks)' BY <3>1, <3>3
    <3> QED BY <3>1, <3>5, <3>6, <3>7 DEF FollowsReference
  <2>2. ASSUME /\ since'.tcnt = tcnt0' /\ since'.flags = tifr0' /\ since'.clocks = 0
               /\ top' \in Nat /\ tcnt0' \in Nat
        PROVE  FollowsReference'
    <3>1. After(top', tcnt0', 0) = tcnt0' BY <2>2, AfterStep
    <3>2. Visited' = {} BY <2>2 DEF Visited
    <3> QED BY <2>2, <3>1, <3>2 DEF FollowsReference
  <2>3. ASSUME NEW c \in Cycles, TickBegin(c) PROVE FollowsReference'
    <3>1. /\ since'.tcnt = tcnt0 /\ since'.flags = tifr0 /\ since'.clocks = 0
          /\ tcnt0' = tcnt0 /\ tifr0' = tifr0 /\ top' = top
      BY <2>3 DEF TickBegin, regs, top, wgm
    <3> QED BY <2>2, <2>t, <3>1
  <2>4. CASE Writes
    <3>1. /\ TypeOK' /\ since'.tcnt = tcnt0' /\ since'.flags = tifr0'
          /\ since'.clocks = 0
      BY <2>4, WritesAtRest
    <3>2. top' \in Nat /\ tcnt0' \in Nat
      BY <3>1, TimerAssumption DEF TimerAssumption, TypeOK, top, Reg
    <3> QED BY <2>2, <3>1, <3>2
  <2>5. CASE UNCHANGED vars
    BY <2>5 DEF vars, regs, FollowsReference, Visited, top, wgm
  <2> QED BY <2>1, <2>3, <2>4, <2>5 DEF Next, Writes
<1> QED BY <1>1, <1>2, Conservation, PTL DEF Spec

-----------------------------------------------------------------------------
(* The pacing of the loop: arithmetic. *)

LEMMA TimesMonotone ==
  ASSUME NEW a \in Nat, NEW b \in Nat, NEW k \in Nat, a <= b
  PROVE  a * k <= b * k
<1>1. PICK d \in Nat : b = a + d
  <2>1. b - a \in Nat /\ b = a + (b - a) OBVIOUS
  <2> QED BY <2>1
<1>2. d * k \in Nat OBVIOUS
<1>3. b * k = (a * k) + (d * k) BY <1>1
<1> QED BY <1>2, <1>3

LEMMA TimesNat ==
  ASSUME NEW a \in Nat, NEW k \in Nat
  PROVE  a * k \in Nat
OBVIOUS

(* What rounding down to a multiple of h does. *)
LEMMA Division ==
  ASSUME NEW x \in Nat, NEW h \in Nat \ {0}
  PROVE  /\ x \div h \in Nat
         /\ h * (x \div h) <= x
         /\ x < (h * (x \div h)) + h
OBVIOUS

LEMMA PacingRemainder ==
  ASSUME NEW x \in Nat, NEW n \in Nat \ {0}
  PROVE  /\ x % n \in Nat /\ x % n < n /\ x % n <= x
         /\ x < n => x % n = x
OBVIOUS

-----------------------------------------------------------------------------
(* The inductive invariant. *)

Typed ==
  /\ phase \in {"top", "execute", "sync", "asleep"}
  /\ cycle_count \in Nat /\ wall \in Nat /\ target_wall \in Nat
  /\ next_uart_poll_cycle \in Nat /\ lastPoll \in Nat
  /\ next_snapshot_cycle \in Nat /\ lastSnapshot \in Nat
  /\ next_wall_sync_cycle \in Nat

(* The cycle count at the last comparison with the wall clock. *)
SyncedAt == next_wall_sync_cycle - SyncInterval

(* No threshold is passed by more than an instruction, and none at the top. *)
OnTime ==
  /\ 0 <= SyncedAt /\ SyncedAt <= cycle_count
  /\ cycle_count < next_wall_sync_cycle + MaxInstr
  /\ phase \in {"top", "execute"} => cycle_count < next_wall_sync_cycle
  /\ cycle_count < next_uart_poll_cycle + MaxInstr
  /\ phase = "execute" => cycle_count < next_uart_poll_cycle
  /\ next_uart_poll_cycle <= lastPoll + PollInterval
  /\ cycle_count < next_snapshot_cycle
  /\ next_snapshot_cycle <= lastSnapshot + SnapshotInterval

(* How far emulated time may be, at a comparison and at any moment. *)
Close == HZ * (wall + Slack + 1)
Far == Close + (US * (SyncInterval + MaxInstr))

(* The product was not ahead at the last comparison, or has overflowed, and    *)
(* then the wall clock has come as far as the modulus, nearly.                 *)
Paced ==
  /\ SyncedAt * US < Modulus => SyncedAt * US < Close
  /\ cycle_count * US >= Modulus => Modulus < Far
  /\ phase = "asleep" => target_wall = Target /\ HZ * target_wall < Far

PacingInv == Typed /\ OnTime /\ Paced

LEMMA ConstantsNat ==
  /\ HZ \in Nat \ {0} /\ US \in Nat \ {0} /\ Modulus \in Nat \ {0}
  /\ SyncInterval \in Nat \ {0} /\ PollInterval \in Nat \ {0}
  /\ SnapshotInterval \in Nat \ {0} /\ Slack \in Nat /\ MaxInstr \in Nat \ {0}
BY PacingAssumption DEF PacingAssumption

LEMMA StaysTyped ==
  ASSUME Typed, OnTime, [PacingNext]_pacingVars
  PROVE  Typed'
<1>1. CASE Begin BY <1>1, ConstantsNat DEF Begin, Typed, pollVars, snapshotVars, syncVars
<1>2. CASE Execute BY <1>2, ConstantsNat DEF Execute, Typed, pollVars, snapshotVars, syncVars
<1>3. CASE NoSync BY <1>3 DEF NoSync, Typed, pollVars, snapshotVars, syncVars
<1>4. CASE Sync
  <2>1. Target \in Nat
    <3>1. cycle_count * US \in Nat BY ConstantsNat, TimesNat DEF Typed
    <3>2. (cycle_count * US) % Modulus \in Nat BY <3>1, ConstantsNat, PacingRemainder
    <3> QED BY <3>2, ConstantsNat, Division DEF Target
  <2> QED BY <1>4, <2>1, ConstantsNat DEF Sync, Synced, Typed, pollVars, snapshotVars
<1>5. CASE Wake BY <1>5, ConstantsNat DEF Wake, Synced, Typed, pollVars, snapshotVars
<1>6. CASE Elapse BY <1>6 DEF Elapse, Typed, pollVars, snapshotVars, syncVars
<1>7. CASE UNCHANGED pacingVars BY <1>7 DEF pacingVars, Typed, pollVars, snapshotVars, syncVars
<1> QED BY <1>1, <1>2, <1>3, <1>4, <1>5, <1>6, <1>7 DEF PacingNext

LEMMA StaysOnTime ==
  ASSUME Typed, OnTime, [PacingNext]_pacingVars
  PROVE  OnTime'
<1> USE ConstantsNat DEF Typed, OnTime, SyncedAt, pollVars, snapshotVars, syncVars
<1>1. CASE Begin BY <1>1 DEF Begin
<1>2. CASE Execute BY <1>2 DEF Execute
<1>3. CASE NoSync BY <1>3 DEF NoSync
<1>4. CASE Sync BY <1>4 DEF Sync, Synced
<1>5. CASE Wake BY <1>5 DEF Wake, Synced
<1>6. CASE Elapse BY <1>6 DEF Elapse
<1>7. CASE UNCHANGED pacingVars BY <1>7 DEF pacingVars
<1> QED BY <1>1, <1>2, <1>3, <1>4, <1>5, <1>6, <1>7 DEF PacingNext

(* Emulated time grows by no more than one interval and one instruction from  *)
(* one comparison, at s, to the next.                                         *)
LEMMA Growth ==
  ASSUME NEW s \in Nat, NEW c \in Nat, s <= c, c <= s + (SyncInterval + MaxInstr)
  PROVE  /\ s * US \in Nat /\ c * US \in Nat
         /\ s * US <= c * US
         /\ c * US <= (s * US) + (US * (SyncInterval + MaxInstr))
<1> DEFINE e == SyncInterval + MaxInstr
<1>1. e \in Nat /\ US \in Nat /\ c <= s + e BY ConstantsNat
<1> HIDE DEF e
<1>2. s * US \in Nat /\ c * US \in Nat /\ US * e \in Nat BY <1>1, TimesNat
<1>3. s * US <= c * US BY <1>1, TimesMonotone
<1>4. c * US <= (s + e) * US BY <1>1, TimesMonotone
<1>5. (s + e) * US = (s * US) + (US * e) BY <1>1
<1> QED BY <1>2, <1>3, <1>4, <1>5 DEF e

LEMMA SinceSynced ==
  ASSUME Typed, OnTime
  PROVE  /\ SyncedAt \in Nat
         /\ SyncedAt * US \in Nat /\ cycle_count * US \in Nat
         /\ SyncedAt * US <= cycle_count * US
         /\ cycle_count * US <= (SyncedAt * US) + (US * (SyncInterval + MaxInstr))
<1> DEFINE s == SyncedAt
<1>1. s \in Nat /\ cycle_count \in Nat /\ s <= cycle_count
  BY ConstantsNat DEF Typed, OnTime, SyncedAt
<1>2. cycle_count <= s + (SyncInterval + MaxInstr)
  BY ConstantsNat DEF Typed, OnTime, SyncedAt
<1> HIDE DEF s
<1>3. /\ s * US \in Nat /\ cycle_count * US \in Nat
      /\ s * US <= cycle_count * US
      /\ cycle_count * US <= (s * US) + (US * (SyncInterval + MaxInstr))
  BY <1>1, <1>2, Growth
<1> QED BY <1>1, <1>3 DEF s

LEMMA CloseFar ==
  ASSUME Typed
  PROVE  Close \in Nat /\ Far \in Nat /\ Close <= Far
<1>1. Close \in Nat
  <2>1. wall + Slack + 1 \in Nat BY ConstantsNat DEF Typed
  <2> QED BY <2>1, ConstantsNat, TimesNat DEF Close
<1>2. US * (SyncInterval + MaxInstr) \in Nat BY ConstantsNat, TimesNat
<1> QED BY <1>1, <1>2 DEF Far

(* The three claims follow from the invariant. *)
LEMMA InvNeverAhead ==
  ASSUME Typed, OnTime, Paced
  PROVE  cycle_count * US < Modulus => cycle_count * US < Far
<1>1. SUFFICES ASSUME cycle_count * US < Modulus PROVE cycle_count * US < Far
  OBVIOUS
<1>2. SyncedAt * US < Modulus BY <1>1, SinceSynced, ConstantsNat
<1>3. SyncedAt * US < Close BY <1>2 DEF Paced
<1>4. US * (SyncInterval + MaxInstr) \in Nat BY ConstantsNat, TimesNat
<1> QED BY <1>3, <1>4, SinceSynced, CloseFar DEF Far

(* Rounding and overflow only bring the target nearer. *)
LEMMA TargetBelow ==
  ASSUME Typed
  PROVE  /\ Target \in Nat
         /\ HZ * Target <= cycle_count * US /\ HZ * Target < Modulus
         /\ cycle_count * US < Modulus => cycle_count * US < (HZ * Target) + HZ
<1> DEFINE p == cycle_count * US
           r == p % Modulus
<1>1. p \in Nat BY ConstantsNat, TimesNat DEF Typed
<1> HIDE DEF p
<1>2. r \in Nat /\ r < Modulus /\ r <= p /\ (p < Modulus => r = p)
  BY <1>1, ConstantsNat, PacingRemainder
<1>3. Target = r \div HZ BY DEF Target, p
<1> HIDE DEF r
<1>4. r \div HZ \in Nat /\ HZ * (r \div HZ) <= r /\ r < (HZ * (r \div HZ)) + HZ
  BY <1>2, ConstantsNat, Division
<1>5. HZ * (r \div HZ) \in Nat BY <1>4, ConstantsNat, TimesNat
<1> QED BY <1>1, <1>2, <1>3, <1>4, <1>5, ConstantsNat DEF p

LEMMA StaysPaced ==
  ASSUME Typed, OnTime, Paced, [PacingNext]_pacingVars
  PROVE  Paced'
<1>t. Typed' /\ OnTime' BY StaysTyped, StaysOnTime
<1>1. CASE Begin
  BY <1>1 DEF Begin, Paced, SyncedAt, Close, Far, Target, syncVars, snapshotVars
<1>2. CASE Execute
  <2>1. UNCHANGED <<SyncedAt, Close, Far>> BY <1>2 DEF Execute, SyncedAt, Close, Far, syncVars
  <2>2. phase' # "asleep" BY <1>2 DEF Execute
  <2>3. ASSUME cycle_count' * US >= Modulus PROVE Modulus < Far'
    <3>1. CASE SyncedAt * US < Modulus
      <4>1. SyncedAt * US < Close BY <3>1 DEF Paced
      <4>2. US * (SyncInterval + MaxInstr) \in Nat BY ConstantsNat, TimesNat
      <4>3. /\ SyncedAt \in Nat /\ cycle_count' \in Nat /\ SyncedAt <= cycle_count'
            /\ cycle_count' <= SyncedAt + (SyncInterval + MaxInstr)
        <5>1. SyncedAt \in Nat BY SinceSynced
        <5>2. cycle_count' \in Nat /\ cycle_count <= cycle_count'
              /\ cycle_count' <= cycle_count + MaxInstr
          BY <1>2, ConstantsNat DEF Execute, Typed
        <5>3. SyncedAt <= cycle_count /\ cycle_count <= SyncedAt + SyncInterval
          BY <1>2, ConstantsNat DEF Execute, Typed, OnTime, SyncedAt
        <5> QED BY <5>1, <5>2, <5>3, ConstantsNat DEF Typed
      <4>4. /\ cycle_count' * US \in Nat
            /\ cycle_count' * US <= (SyncedAt * US) + (US * (SyncInterval + MaxInstr))
        BY <4>3, Growth
      <4>5. Far' = Close + (US * (SyncInterval + MaxInstr)) BY <2>1 DEF Far
      <4>6. SyncedAt * US \in Nat /\ Close \in Nat /\ Modulus \in Nat
        BY SinceSynced, CloseFar, ConstantsNat
      <4> QED BY <2>3, <4>1, <4>2, <4>4, <4>5, <4>6
    <3>2. CASE ~ (SyncedAt * US < Modulus)
      <4>1. cycle_count * US >= Modulus BY <3>2, SinceSynced, ConstantsNat
      <4> QED BY <2>1, <4>1 DEF Paced
    <3> QED BY <3>1, <3>2
  <2>4. SyncedAt' * US < Modulus => SyncedAt' * US < Close' BY <2>1 DEF Paced
  <2> QED BY <2>2, <2>3, <2>4 DEF Paced
<1>3. CASE NoSync
  BY <1>3 DEF NoSync, Paced, SyncedAt, Close, Far, Target, syncVars, snapshotVars
<1>4. CASE Sync
  <2>1. UNCHANGED <<cycle_count, Close, Far>> BY <1>4 DEF Sync, Close, Far
  <2>2. target_wall' = Target /\ Target' = Target BY <1>4 DEF Sync, Target
  <2>3. HZ * Target < Far
    <3>1. CASE cycle_count * US < Modulus
      <4>1. HZ * Target \in Nat BY TargetBelow, ConstantsNat, TimesNat
      <4> QED BY <3>1, <4>1, TargetBelow, InvNeverAhead, CloseFar, SinceSynced
    <3>2. CASE ~ (cycle_count * US < Modulus)
      <4>1. Modulus < Far BY <3>2, SinceSynced, ConstantsNat DEF Paced
      <4>2. HZ * Target \in Nat BY TargetBelow, ConstantsNat, TimesNat
      <4> QED BY <4>1, <4>2, TargetBelow, CloseFar, ConstantsNat
    <3> QED BY <3>1, <3>2
  <2>4. SyncedAt' * US < Modulus => SyncedAt' * US < Close'
    <3>1. CASE Target - wall > Slack
      <4>1. SyncedAt' = SyncedAt BY <1>4, <3>1 DEF Sync, SyncedAt
      <4> QED BY <2>1, <4>1 DEF Paced
    <3>2. CASE ~ (Target - wall > Slack)
      <4>1. SyncedAt' = cycle_count
        BY <1>4, <3>2, ConstantsNat DEF Sync, Synced, SyncedAt, Typed
      <4>2. Target <= wall + Slack /\ wall + Slack \in Nat
        BY <3>2, TargetBelow, ConstantsNat DEF Typed
      <4>3. Target * HZ <= (wall + Slack) * HZ
        BY <4>2, TargetBelow, ConstantsNat, TimesMonotone
      <4>4. (HZ * Target) + HZ <= Close
        BY <4>2, <4>3, TargetBelow, ConstantsNat DEF Close, Typed
      <4>5. HZ * Target \in Nat BY TargetBelow, ConstantsNat, TimesNat
      <4> QED BY <2>1, <4>1, <4>4, <4>5, TargetBelow, SinceSynced, CloseFar, ConstantsNat
    <3> QED BY <3>1, <3>2
  <2> QED BY <2>1, <2>2, <2>3, <2>4 DEF Paced
<1>5. CASE Wake
  <2>1. UNCHANGED <<cycle_count, Close, Far>> /\ phase' = "top"
    BY <1>5 DEF Wake, Synced, Close, Far
  <2>2. SyncedAt' = cycle_count BY <1>5, ConstantsNat DEF Wake, Synced, SyncedAt, Typed
  <2>3. Target <= wall + Slack /\ wall + Slack \in Nat
    BY <1>5, ConstantsNat DEF Wake, Paced, Typed
  <2>4. Target * HZ <= (wall + Slack) * HZ
    BY <2>3, TargetBelow, ConstantsNat, TimesMonotone
  <2>5. (HZ * Target) + HZ <= Close
    BY <2>3, <2>4, TargetBelow, ConstantsNat DEF Close, Typed
  <2>6. HZ * Target \in Nat BY TargetBelow, ConstantsNat, TimesNat
  <2>7. cycle_count * US < Modulus => cycle_count * US < Close
    BY <2>5, <2>6, TargetBelow, SinceSynced, CloseFar, ConstantsNat
  <2> QED BY <2>1, <2>2, <2>7 DEF Paced
<1>6. CASE Elapse
  <2>1. UNCHANGED <<cycle_count, SyncedAt, phase, target_wall, Target>>
    BY <1>6 DEF Elapse, SyncedAt, syncVars, Target
  <2>n. Close' = Close + HZ /\ Far' = Far + HZ /\ Close' \in Nat /\ Far' \in Nat
    <3>1. Close' = Close + HZ BY <1>6, ConstantsNat DEF Elapse, Close, Typed
    <3>2. US * (SyncInterval + MaxInstr) \in Nat BY ConstantsNat, TimesNat
    <3> QED BY <3>1, <3>2, CloseFar, ConstantsNat DEF Far
  <2>2. Close < Close' /\ Far < Far' BY <2>n, CloseFar, ConstantsNat
  <2>3. HZ * target_wall \in Nat BY ConstantsNat, TimesNat DEF Typed
  <2>4. Close' \in Nat /\ Far' \in Nat BY <2>n
  <2> QED BY <2>1, <2>2, <2>3, <2>4, SinceSynced, CloseFar, ConstantsNat DEF Paced
<1>7. CASE UNCHANGED pacingVars
  BY <1>7 DEF pacingVars, Paced, SyncedAt, Close, Far, Target, syncVars, snapshotVars
<1> QED BY <1>1, <1>2, <1>3, <1>4, <1>5, <1>6, <1>7 DEF PacingNext

(* The invariant of the loop's clock: types, every threshold its last event    *)
(* plus its interval, and emulated time held back at the last comparison.      *)
THEOREM Pace == PacingSpec => []PacingInv
<1>1. PacingInit => PacingInv
  <2> SUFFICES ASSUME PacingInit PROVE PacingInv OBVIOUS
  <2>1. Typed /\ OnTime BY ConstantsNat DEF PacingInit, Typed, OnTime, SyncedAt
  <2>2. SyncedAt = 0 /\ cycle_count = 0 BY ConstantsNat DEF PacingInit, SyncedAt
  <2>3. 0 < Close
    <3>1. (HZ * (wall + Slack)) \in Nat BY <2>1, ConstantsNat, TimesNat DEF Typed
    <3>2. Close = (HZ * (wall + Slack)) + HZ BY <2>1, ConstantsNat DEF Close, Typed
    <3> QED BY <3>1, <3>2, ConstantsNat
  <2>4. 0 * US = 0 BY ConstantsNat
  <2>5. Paced BY <2>2, <2>3, <2>4, ConstantsNat DEF PacingInit, Paced
  <2> QED BY <2>1, <2>5 DEF PacingInv
<1>2. PacingInv /\ [PacingNext]_pacingVars => PacingInv'
  BY StaysTyped, StaysOnTime, StaysPaced DEF PacingInv
<1> QED BY <1>1, <1>2, PTL DEF PacingSpec

-----------------------------------------------------------------------------
(* Emulated time is never ahead of the wall clock, until the product overflows. *)
THEOREM NotAhead == PacingSpec => []NeverAhead
<1>1. PacingInv => NeverAhead
  BY InvNeverAhead DEF PacingInv, NeverAhead, Far, Close
<1> QED BY <1>1, Pace, PTL

(* The loop sleeps only for as long as it may be ahead, also after the overflow. *)
THEOREM SleepsShort == PacingSpec => []SleepIsShort
<1>1. PacingInv => SleepIsShort
  BY DEF PacingInv, Paced, SleepIsShort, Far, Close
<1> QED BY <1>1, Pace, PTL

(* No poll and no snapshot is late. *)
THEOREM InTime == PacingSpec => []Punctual
<1>1. PacingInv => Punctual
  BY ConstantsNat DEF PacingInv, Typed, OnTime, Punctual
<1> QED BY <1>1, Pace, PTL
=============================================================================
