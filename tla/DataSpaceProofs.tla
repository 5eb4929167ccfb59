--------------------------- MODULE DataSpaceProofs ---------------------------
(***************************************************************************)
(* For every set of addresses, registers and bytes: the types of the       *)
(* machine, and that memory outside the addresses laid over Timer0's keeps *)
(* what was stored.  Only WriteByte touches memory, and only where Route   *)
(* leads there; pointer updates, SP and the registers lie elsewhere.       *)
(***************************************************************************)
EXTENDS DataSpace, TLAPS

-----------------------------------------------------------------------------
(* Numbers. *)

LEMMA WordBounds == \A x : x \in Word <=> x \in Int /\ 0 <= x /\ x <= 65535
<1>1. MaxWord \in Int
  BY DEF MaxWord
<1>2. \A x : x \in Word <=> x \in Int /\ 0 <= x /\ x <= MaxWord
  BY <1>1 DEF Word
<1> QED BY <1>2 DEF MaxWord

LEMMA StackRange == \A x \in StackBottom..RamEnd : x \in Int /\ 256 <= x /\ x <= 2303
<1>1. StackBottom \in Int /\ RamEnd \in Int
  BY DEF StackBottom, RamEnd
<1>2. \A x \in StackBottom..RamEnd : x \in Int /\ StackBottom <= x /\ x <= RamEnd
  BY <1>1
<1> QED BY <1>2 DEF StackBottom, RamEnd

LEMMA ByteBounds == \A x : x \in Byte <=> x \in Int /\ 0 <= x /\ x <= 255
BY DEF Byte

LEMMA Halves ==
  ASSUME NEW w \in Word
  PROVE  w % 256 \in Byte /\ w \div 256 \in Byte
BY WordBounds, ByteBounds

LEMMA Whole ==
  ASSUME NEW l \in Byte, NEW h \in Byte
  PROVE  (256 * h) + l \in Word /\ l + 256 * h \in Word
BY WordBounds, ByteBounds

LEMMA Wrapped ==
  ASSUME NEW i \in Int
  PROVE  i % 65536 \in Word
BY WordBounds

LEMMA SumOfBits ==
  ASSUME NEW a \in 0..1, NEW b \in 0..2, NEW c \in 0..4, NEW d \in 0..8,
         NEW e \in 0..16, NEW f \in 0..32, NEW g \in 0..64, NEW h \in 0..128
  PROVE  a + b + c + d + e + f + g + h \in Byte
<1>1. a + b + c + d \in 0..15
  OBVIOUS
<1>2. e + f + g + h \in 0..240
  OBVIOUS
<1> QED BY <1>1, <1>2, ByteBounds

LEMMA FromBitsByte ==
  ASSUME NEW S
  PROVE  FromBits(S) \in Byte
<1> DEFINE w(k) == IF k \in S THEN Weight[k] ELSE 0
<1>1. w(1) \in 0..1 /\ w(2) \in 0..2 /\ w(3) \in 0..4 /\ w(4) \in 0..8
  BY DEF Weight
<1>2. w(5) \in 0..16 /\ w(6) \in 0..32 /\ w(7) \in 0..64 /\ w(8) \in 0..128
  BY DEF Weight
<1>3. FromBits(S) = w(1) + w(2) + w(3) + w(4) + w(5) + w(6) + w(7) + w(8)
  BY DEF FromBits
<1> HIDE DEF w
<1>4. w(1) + w(2) + w(3) + w(4) + w(5) + w(6) + w(7) + w(8) \in Byte
  BY <1>1, <1>2, SumOfBits
<1> QED BY <1>3, <1>4, Zenon

-----------------------------------------------------------------------------
(* The parts of the machine. *)

LEMMA Fields ==
  ASSUME NEW s \in Machine
  PROVE  /\ s = [r |-> s.r, sp |-> s.sp, sreg |-> s.sreg, timer |-> s.timer,
                 sram |-> s.sram, fault |-> s.fault]
         /\ s.r \in [0..31 -> Byte] /\ s.sp \in Word /\ s.sreg \in Byte
         /\ s.timer \in [TimerIo -> Byte] /\ s.sram \in [Sram -> Byte]
         /\ s.fault \in BOOLEAN
BY DEF Machine

LEMMA SetRegType ==
  ASSUME NEW s \in Machine, NEW d, NEW v \in Byte
  PROVE  SetReg(s, d, v) \in Machine /\ SetReg(s, d, v).sram = s.sram
<1>1. [s.r EXCEPT ![d] = v] \in [0..31 -> Byte]
  BY Fields
<1> QED BY <1>1, Fields, Zenon DEF SetReg, Machine

LEMMA SetPairType ==
  ASSUME NEW s \in Machine, NEW p, NEW w \in Word
  PROVE  SetPair(s, p, w) \in Machine /\ SetPair(s, p, w).sram = s.sram
<1> DEFINE low == SetReg(s, p, w % 256)
<1>1. low \in Machine /\ low.sram = s.sram
  BY SetRegType, Halves
<1> HIDE DEF low
<1>2. SetReg(low, p + 1, w \div 256) \in Machine /\ SetReg(low, p + 1, w \div 256).sram = low.sram
  BY <1>1, SetRegType, Halves
<1> QED BY <1>1, <1>2 DEF SetPair, low

LEMMA PairType ==
  ASSUME NEW s \in Machine, NEW p \in Indirect
  PROVE  Pair(s, p) \in Word
<1>1. p \in 0..31 /\ p + 1 \in 0..31
  BY DataSpaceAssumption DEF DataSpaceAssumption
<1>2. s.r[p] \in Byte /\ s.r[p + 1] \in Byte
  BY <1>1, Fields
<1> QED BY <1>2, Whole DEF Pair

-----------------------------------------------------------------------------
(* Reads and writes. *)

LEMMA UsedAreWords == \A a \in Used : a \in Word /\ a \in Int /\ 0 <= a
BY DataSpaceAssumption, WordBounds DEF DataSpaceAssumption

LEMMA Routes ==
  ASSUME NEW a \in Used
  PROVE  /\ Route(a) \in {"register", "cpu", "timer", "uart", "fault", "sram"}
         /\ Route(a) = "register" => a \in 0..31
         /\ Route(a) = "timer" => TimerReg(a) \in TimerIo
         /\ Route(a) = "sram" => a \in Sram
<1>1. Route(a) \in {"register", "cpu", "timer", "uart", "fault", "sram"}
  BY Zenon DEF Route
<1>2. Route(a) = "register" => a \in 0..31
  BY UsedAreWords DEF Route
<1>3. Route(a) = "timer" => TimerReg(a) \in TimerIo
  BY DEF Route
<1>4. Route(a) = "sram" => a >= 32 /\ ~ (a > RamEnd)
  BY UsedAreWords DEF Route
<1> QED BY <1>1, <1>2, <1>3, <1>4, UsedAreWords DEF Sram, RamEnd

LEMMA WriteByteType ==
  ASSUME NEW s \in Machine, NEW a \in Used, NEW v \in Byte
  PROVE  WriteByte(s, a, v) \in Machine
<1>1. CASE Route(a) = "register"
  <2>1. [s.r EXCEPT ![a] = v] \in [0..31 -> Byte]
    BY Fields
  <2>2. WriteByte(s, a, v) = [s EXCEPT !.r = [s.r EXCEPT ![a] = v]]
    BY <1>1 DEF WriteByte
  <2> QED BY <2>1, <2>2, Fields, Zenon DEF Machine
<1>2. CASE Route(a) = "cpu"
  <2>1. s.sp % 256 \in Byte /\ s.sp \div 256 \in Byte
    BY Fields, Halves
  <2>2. (256 * (s.sp \div 256)) + v \in Word /\ (256 * v) + (s.sp % 256) \in Word
    BY <2>1, Whole
  <2>3. [s EXCEPT !.sp = (256 * (s.sp \div 256)) + v] \in Machine
    BY <2>2, Fields, Zenon DEF Machine
  <2>4. [s EXCEPT !.sp = (256 * v) + (s.sp % 256)] \in Machine
    BY <2>2, Fields, Zenon DEF Machine
  <2>5. [s EXCEPT !.sreg = v] \in Machine
    BY Fields, Zenon DEF Machine
  <2> QED BY <1>2, <2>3, <2>4, <2>5 DEF WriteByte
<1>3. CASE Route(a) = "timer"
  <2> DEFINE w == IF TimerReg(a) = TIFR0 THEN FromBits(Bits(s.timer[TIFR0]) \ Bits(v)) ELSE v
  <2>1. w \in Byte
    BY FromBitsByte
  <2>2. [s.timer EXCEPT ![TimerReg(a)] = w] \in [TimerIo -> Byte]
    BY <2>1, Fields
  <2>3. WriteByte(s, a, v) = [s EXCEPT !.timer = [s.timer EXCEPT ![TimerReg(a)] = w]]
    BY <1>3 DEF WriteByte
  <2> HIDE DEF w
  <2> QED BY <2>2, <2>3, Fields, Zenon DEF Machine
<1>4. CASE Route(a) = "uart"
  BY <1>4 DEF WriteByte
<1>5. CASE Route(a) = "fault"
  <2>1. WriteByte(s, a, v) = [s EXCEPT !.fault = TRUE]
    BY <1>5 DEF WriteByte
  <2> QED BY <2>1, Fields, Zenon DEF Machine
<1>6. CASE Route(a) = "sram"
  <2>1. [s.sram EXCEPT ![a] = v] \in [Sram -> Byte]
    BY Fields
  <2>2. WriteByte(s, a, v) = [s EXCEPT !.sram = [s.sram EXCEPT ![a] = v]]
    BY <1>6 DEF WriteByte
  <2> QED BY <2>1, <2>2, Fields, Zenon DEF Machine
<1> QED BY <1>1, <1>2, <1>3, <1>4, <1>5, <1>6, Routes

(* A write reaches memory at its own address or not at all. *)
LEMMA WriteByteMemory ==
  ASSUME NEW s \in Machine, NEW a \in Used, NEW v \in Byte
  PROVE  WriteByte(s, a, v).sram =
           IF Route(a) = "sram" THEN [s.sram EXCEPT ![a] = v] ELSE s.sram
BY Routes, Fields DEF WriteByte

LEMMA ReadType ==
  ASSUME NEW s \in Machine, NEW a \in Used, NEW v \in ReadValues(s, a)
  PROVE  v \in Byte
<1>1. CASE Route(a) = "register"
  BY <1>1, Routes, Fields DEF ReadValues
<1>2. CASE Route(a) = "cpu"
  BY <1>2, Fields, Halves DEF ReadValues
<1>3. CASE Route(a) = "timer"
  BY <1>3, Routes, Fields DEF ReadValues
<1>4. CASE Route(a) = "uart"
  BY <1>4, DataSpaceAssumption DEF ReadValues, DataSpaceAssumption
<1>5. CASE Route(a) = "fault"
  BY <1>5, ByteBounds DEF ReadValues
<1>6. CASE Route(a) = "sram"
  BY <1>6, Routes, Fields DEF ReadValues
<1> QED BY <1>1, <1>2, <1>3, <1>4, <1>5, <1>6, Routes

LEMMA AfterReadType ==
  ASSUME NEW s \in Machine, NEW a
  PROVE  AfterRead(s, a) \in Machine /\ AfterRead(s, a).sram = s.sram
<1>1. [s EXCEPT !.fault = TRUE] \in Machine
  BY Fields, Zenon DEF Machine
<1> QED BY <1>1, Fields DEF AfterRead

-----------------------------------------------------------------------------
(* The invariant: types, and memory equal to its history wherever Route leads *)
(* to memory.                                                                 *)
Kept == \A a \in Sram : Route(a) = "sram" => m.sram[a] = last[a]
DataInv == TypeOK /\ Kept

(* A step that leaves memory and history alone. *)
LEMMA QuietStep ==
  ASSUME DataInv, m' \in Machine, m'.sram = m.sram, last' = last
  PROVE  DataInv'
BY DEF DataInv, TypeOK, Kept

(* A step that writes one byte and records it, with anything but memory changed *)
(* before and after.                                                            *)
LEMMA StoreStep ==
  ASSUME DataInv, NEW s \in Machine, s.sram = m.sram, NEW a \in Used, NEW v \in Byte,
         m' \in Machine, m'.sram = WriteByte(s, a, v).sram, Stored(a, v)
  PROVE  DataInv'
<1> USE DEF DataInv, TypeOK
<1>1. m.sram \in [Sram -> Byte] /\ m'.sram \in [Sram -> Byte]
  BY Fields
<1>2. last' \in [Sram -> Byte]
  BY DEF Stored
<1> DEFINE g == m.sram
           g1 == m'.sram
<1>4. g1 = IF Route(a) = "sram" THEN [g EXCEPT ![a] = v] ELSE g
  BY WriteByteMemory
<1>5. g \in [Sram -> Byte]
  BY <1>1
<1> HIDE DEF g, g1
<1>3. ASSUME NEW b \in Sram, Route(b) = "sram"
      PROVE  m'.sram[b] = last'[b]
  <2>1. g[b] = last[b]
    BY <1>3 DEF Kept, g
  <2>2. CASE b = a
    <3>1. g1[b] = v
      BY <1>3, <1>4, <1>5, <2>2
    <3>2. last'[b] = v
      BY <1>3, <2>2 DEF Stored
    <3> QED BY <3>1, <3>2 DEF g1
  <2>3. CASE b # a
    <3>1. g1[b] = g[b]
      BY <1>4, <1>5, <2>3
    <3>2. last'[b] = last[b]
      BY <2>3 DEF Stored
    <3> QED BY <2>1, <3>1, <3>2 DEF g1
  <2> QED BY <2>2, <2>3
<1> QED BY <1>2, <1>3 DEF Kept

LEMMA LoadKeeps ==
  ASSUME DataInv, NEW d, NEW a, Load(d, a)
  PROVE  DataInv'
<1> USE DEF DataInv, TypeOK
<1>1. PICK v \in ReadValues(m, a) : m' = SetReg(AfterRead(m, a), d, v)
  BY DEF Load
<1>2. a \in Used /\ v \in Byte
  BY ReadType DEF Load, Runs
<1>3. m' \in Machine /\ m'.sram = m.sram
  BY <1>1, <1>2, AfterReadType, SetRegType
<1> QED BY <1>3, QuietStep DEF Load

LEMMA StoreKeeps ==
  ASSUME DataInv, NEW a, NEW d \in Sources, Store(a, d)
  PROVE  DataInv'
<1> USE DEF DataInv, TypeOK
<1>1. a \in Used /\ m.r[d] \in Byte
  BY Fields, DataSpaceAssumption DEF Store, Runs, DataSpaceAssumption
<1>2. m' \in Machine /\ m'.sram = WriteByte(m, a, m.r[d]).sram
  BY <1>1, WriteByteType DEF Store
<1> QED BY <1>1, <1>2, StoreStep DEF Store

(* The pointer before and after an access. *)
LEMMA PointerUpdates ==
  ASSUME m \in Machine, NEW p \in Indirect, NEW mode
  PROVE  /\ Effective(p, mode) \in Word
         /\ Before(p, mode) \in Machine /\ Before(p, mode).sram = m.sram
         /\ \A s \in Machine, w \in Word :
              /\ AfterAccess(s, p, mode, w) \in Machine
              /\ AfterAccess(s, p, mode, w).sram = s.sram
<1>1. Pair(m, p) \in Word /\ Pair(m, p) - 1 \in Int
  BY PairType, WordBounds
<1>2. (Pair(m, p) - 1) % 65536 \in Word
  BY <1>1, Wrapped
<1>3. Effective(p, mode) \in Word
  BY <1>1, <1>2 DEF Effective
<1>4. Before(p, mode) \in Machine /\ Before(p, mode).sram = m.sram
  BY <1>3, SetPairType DEF Before
<1>5. ASSUME NEW s \in Machine, NEW w \in Word
      PROVE  /\ AfterAccess(s, p, mode, w) \in Machine
             /\ AfterAccess(s, p, mode, w).sram = s.sram
  <2>1. (w + 1) % 65536 \in Word
    BY WordBounds, Wrapped
  <2> QED BY <2>1, SetPairType DEF AfterAccess
<1> QED BY <1>3, <1>4, <1>5

LEMMA LoadIndirectKeeps ==
  ASSUME DataInv, NEW d, NEW p \in Indirect, NEW mode, LoadIndirect(d, p, mode)
  PROVE  DataInv'
<1> USE DEF DataInv, TypeOK
<1> DEFINE w == Effective(p, mode)
           s == Before(p, mode)
<1>1. w \in Used /\ w \in Word /\ s \in Machine /\ s.sram = m.sram
  BY PointerUpdates DEF LoadIndirect, Runs
<1>2. PICK v \in ReadValues(s, w) :
        m' = AfterAccess(SetReg(AfterRead(s, w), d, v), p, mode, w)
  BY DEF LoadIndirect
<1>3. last' = last
  BY DEF LoadIndirect
<1> HIDE DEF w, s
<1>4. v \in Byte /\ AfterRead(s, w) \in Machine /\ AfterRead(s, w).sram = s.sram
  BY <1>1, ReadType, AfterReadType
<1> DEFINE t == SetReg(AfterRead(s, w), d, v)
<1>5. t \in Machine /\ t.sram = s.sram
  BY <1>4, SetRegType
<1> HIDE DEF t
<1>6. m' = AfterAccess(t, p, mode, w)
  BY <1>2 DEF t
<1>7. m' \in Machine /\ m'.sram = m.sram
  BY <1>1, <1>5, <1>6, PointerUpdates
<1> QED BY <1>3, <1>7, QuietStep

LEMMA StoreIndirectKeeps ==
  ASSUME DataInv, NEW p \in Indirect, NEW mode, NEW d \in Sources, StoreIndirect(p, mode, d)
  PROVE  DataInv'
<1> USE DEF DataInv, TypeOK
<1> DEFINE w == Effective(p, mode)
           s == Before(p, mode)
           t == WriteByte(s, w, s.r[d])
<1>1. w \in Used /\ w \in Word /\ s \in Machine /\ s.sram = m.sram
  BY PointerUpdates DEF StoreIndirect, Runs
<1>2. m' = AfterAccess(t, p, mode, w) /\ Stored(w, s.r[d])
  BY DEF StoreIndirect
<1> HIDE DEF w, s
<1>3. s.r[d] \in Byte
  BY <1>1, Fields, DataSpaceAssumption DEF DataSpaceAssumption
<1>4. t \in Machine
  BY <1>1, <1>3, WriteByteType
<1>5. m' \in Machine /\ m'.sram = t.sram
  BY <1>1, <1>2, <1>4, PointerUpdates
<1> QED BY <1>1, <1>2, <1>3, <1>5, StoreStep

LEMMA BitOpKeeps ==
  ASSUME DataInv, NEW io, NEW b, NEW on, BitOp(io, b, on)
  PROVE  DataInv'
<1> USE DEF DataInv, TypeOK
<1> DEFINE a == 32 + io
           w(v) == FromBits(IF on THEN Bits(v) \cup {b} ELSE Bits(v) \ {b})
<1>1. a \in Used
  BY DEF BitOp, Runs
<1>2. PICK v \in ReadValues(m, a) : m' = WriteByte(m, a, w(v)) /\ Stored(a, w(v))
  BY DEF BitOp
<1>3. w(v) \in Byte
  BY FromBitsByte
<1> HIDE DEF a, w
<1>4. m' \in Machine
  BY <1>1, <1>2, <1>3, WriteByteType
<1> QED BY <1>1, <1>2, <1>3, <1>4, StoreStep

LEMMA PushKeeps ==
  ASSUME DataInv, NEW d \in Sources, Push(d)
  PROVE  DataInv'
<1> USE DEF DataInv, TypeOK
<1>1. CASE m.sp \in StackBottom..RamEnd
  <2> DEFINE s == WriteByte(m, m.sp, m.r[d])
  <2>1. m.sp \in Used /\ m' = [s EXCEPT !.sp = s.sp - 1] /\ Stored(m.sp, m.r[d])
    BY <1>1 DEF Push
  <2>2. m.r[d] \in Byte
    BY Fields, DataSpaceAssumption DEF DataSpaceAssumption
  <2>3. s \in Machine
    BY <2>1, <2>2, WriteByteType
  <2>4. Route(m.sp) \in {"timer", "uart", "fault", "sram"}
    <3>1. ~ (m.sp < 32) /\ m.sp \notin 93..95
      BY <1>1, StackRange
    <3> QED BY <3>1, Zenon DEF Route
  <2>5. s.sp = m.sp
    <3> DEFINE a == m.sp
    <3>1. WriteByte(m, a, m.r[d]).sp = m.sp
      <4>1. Route(a) \in {"timer", "uart", "fault", "sram"}
        BY <2>4
      <4> HIDE DEF a
      <4> QED BY <4>1, Fields DEF WriteByte
    <3> QED BY <3>1
  <2>6. s.sp - 1 \in Word
    <3>1. m.sp - 1 \in Word
      BY <1>1, StackRange, WordBounds
    <3> QED BY <2>5, <3>1
  <2> HIDE DEF s
  <2>7. m' \in Machine /\ m'.sram = s.sram
    <3>1. [s EXCEPT !.sp = s.sp - 1] \in Machine
      BY <2>3, <2>6, Fields, Zenon DEF Machine
    <3> QED BY <2>1, <2>3, <3>1, Fields
  <2> QED BY <2>1, <2>2, <2>7, StoreStep DEF s
<1>2. CASE m.sp \notin StackBottom..RamEnd
  <2>1. m' = [m EXCEPT !.fault = TRUE] /\ last' = last
    BY <1>2 DEF Push
  <2>2. [m EXCEPT !.fault = TRUE] \in Machine
    BY Fields, Zenon DEF Machine
  <2>3. m' \in Machine /\ m'.sram = m.sram
    BY <2>1, <2>2, Fields
  <2> QED BY <2>1, <2>3, QuietStep
<1> QED BY <1>1, <1>2

LEMMA PopKeeps ==
  ASSUME DataInv, NEW d, Pop(d)
  PROVE  DataInv'
<1> USE DEF DataInv, TypeOK
<1>1. CASE m.sp >= RamEnd
  <2> DEFINE s == [m EXCEPT !.fault = TRUE]
  <2>1. s \in Machine /\ s.sram = m.sram
    BY Fields, Zenon DEF Machine
  <2>2. m' = SetReg(s, d, 0) /\ last' = last
    BY <1>1 DEF Pop
  <2> HIDE DEF s
  <2>3. m' \in Machine /\ m'.sram = m.sram
    BY <2>1, <2>2, SetRegType, ByteBounds
  <2> QED BY <2>2, <2>3, QuietStep
<1>2. CASE ~ (m.sp >= RamEnd)
  <2> DEFINE s == [m EXCEPT !.sp = m.sp + 1]
  <2>1. m.sp + 1 \in Word
    BY <1>2, Fields, WordBounds DEF RamEnd
  <2>2. s \in Machine /\ s.sram = m.sram
    BY <2>1, Fields, Zenon DEF Machine
  <2>3. PICK v \in ReadValues(s, m.sp + 1) : m' = SetReg(s, d, v)
    BY <1>2 DEF Pop
  <2>4. m.sp + 1 \in Used /\ last' = last
    BY <1>2 DEF Pop
  <2> HIDE DEF s
  <2>5. m' \in Machine /\ m'.sram = m.sram
    BY <2>2, <2>3, <2>4, ReadType, SetRegType
  <2> QED BY <2>4, <2>5, QuietStep
<1> QED BY <1>1, <1>2

LEMMA TimerRunsKeeps ==
  ASSUME DataInv, TimerRuns
  PROVE  DataInv'
<1> USE DEF DataInv, TypeOK
<1>1. PICK c \in DeviceBytes, f \in DeviceBytes :
        m' = [m EXCEPT !.timer = [m.timer EXCEPT ![TCNT0] = c, ![TIFR0] = f]]
  BY DEF TimerRuns
<1> DEFINE t == [m.timer EXCEPT ![TCNT0] = c, ![TIFR0] = f]
<1>2. t \in [TimerIo -> Byte]
  BY Fields, DataSpaceAssumption DEF DataSpaceAssumption
<1>3. m' = [m EXCEPT !.timer = t]
  BY <1>1
<1> HIDE DEF t
<1>4. [m EXCEPT !.timer = t] \in Machine
  BY <1>2, Fields, Zenon DEF Machine
<1>5. m' \in Machine /\ m'.sram = m.sram
  BY <1>3, <1>4, Fields
<1> QED BY <1>5, QuietStep DEF TimerRuns

LEMMA LDIKeeps ==
  ASSUME DataInv, NEW d, NEW k \in Immediates, LDI(d, k)
  PROVE  DataInv'
<1> USE DEF DataInv, TypeOK
<1>1. k \in Byte
  BY DataSpaceAssumption DEF DataSpaceAssumption
<1>2. m' \in Machine /\ m'.sram = m.sram
  BY <1>1, SetRegType DEF LDI
<1> QED BY <1>2, QuietStep DEF LDI

-----------------------------------------------------------------------------
LEMMA DataInvInit ==
  ASSUME Init
  PROVE  DataInv
<1>1. 0 \in Byte /\ RamEnd \in Word
  BY ByteBounds, WordBounds DEF RamEnd
<1>2. m \in Machine
  BY <1>1 DEF Init, Machine
<1>3. last \in [Sram -> Byte] /\ Kept
  BY <1>1 DEF Init, Kept
<1> QED BY <1>2, <1>3 DEF DataInv, TypeOK

LEMMA DataInvNext ==
  ASSUME DataInv, [Next]_vars
  PROVE  DataInv'
<1>1. ASSUME NEW d \in Sources, NEW k \in Immediates, LDI(d, k) PROVE DataInv'
  BY <1>1, LDIKeeps
<1>2. ASSUME NEW d \in Sources, NEW a \in Used, Store(a, d) PROVE DataInv'
  BY <1>2, StoreKeeps
<1>3. ASSUME NEW d \in Sources, NEW p \in Indirect, NEW mode \in Modes, StoreIndirect(p, mode, d)
      PROVE  DataInv'
  BY <1>3, StoreIndirectKeeps
<1>4. ASSUME NEW d \in Sources, NEW p \in Indirect, NEW q \in Displacements,
             StoreDisplaced(p, q, d)
      PROVE  DataInv'
  BY <1>4, StoreKeeps DEF StoreDisplaced
<1>5. ASSUME NEW d \in Sources, Push(d) PROVE DataInv'
  BY <1>5, PushKeeps
<1>6. ASSUME NEW d \in Targets, NEW a \in Used, Load(d, a) PROVE DataInv'
  BY <1>6, LoadKeeps
<1>7. ASSUME NEW d \in Targets, NEW p \in Indirect, NEW mode \in Modes, LoadIndirect(d, p, mode)
      PROVE  DataInv'
  BY <1>7, LoadIndirectKeeps
<1>8. ASSUME NEW d \in Targets, NEW p \in Indirect, NEW q \in Displacements,
             LoadDisplaced(d, p, q)
      PROVE  DataInv'
  BY <1>8, LoadKeeps DEF LoadDisplaced
<1>9. ASSUME NEW d \in Targets, Pop(d) PROVE DataInv'
  BY <1>9, PopKeeps
<1>10. ASSUME NEW io \in 0..31, NEW b \in BitNumbers, NEW on \in BOOLEAN, BitOp(io, b, on)
       PROVE  DataInv'
  BY <1>10, BitOpKeeps
<1>11. ASSUME TimerRuns PROVE DataInv'
  BY <1>11, TimerRunsKeeps
<1>12. CASE UNCHANGED vars
  BY <1>12 DEF vars, DataInv, TypeOK, Kept
<1> QED
  BY <1>1, <1>2, <1>3, <1>4, <1>5, <1>6, <1>7, <1>8, <1>9, <1>10, <1>11, <1>12 DEF Next

LEMMA PlainIsMemory ==
  ASSUME NEW a \in Memory, ~ Overlaid(a)
  PROVE  a \in Sram /\ Route(a) = "sram"
<1>1. a \in Sram /\ a \in 32..RamEnd /\ a \notin Documented
  BY DEF Memory, Sram
<1>2. /\ ~ (a < 32) /\ ~ (a > RamEnd)
      /\ a \notin 93..95 /\ a \notin 192..198 /\ a \notin 41..45
  BY <1>1 DEF Documented, RamEnd
<1> QED BY <1>1, <1>2 DEF Route, Overlaid

-----------------------------------------------------------------------------
(* Registers, SP, the I/O registers and memory keep their widths through every *)
(* load, store, pointer update, stack operation and byte-wise write of SP.     *)
THEOREM TypeCorrect == Spec => []TypeOK
<1>1. Spec => []DataInv
  BY DataInvInit, DataInvNext, PTL DEF Spec
<1>2. DataInv => TypeOK
  BY DEF DataInv
<1> QED BY <1>1, <1>2, PTL

(* Memory away from the overlaid addresses holds what was last stored there,   *)
(* whatever mix of addressing modes a program uses (readDataByte,              *)
(* writeDataByte and the instructions that call them).                         *)
THEOREM PlainMemory == Spec => []PlainMemoryHolds
<1>1. Spec => []DataInv
  BY DataInvInit, DataInvNext, PTL DEF Spec
<1>2. DataInv => PlainMemoryHolds
  <2> SUFFICES ASSUME DataInv, NEW a \in Memory, ~ Overlaid(a)
               PROVE  ReadValues(m, a) = {last[a]}
    BY DEF PlainMemoryHolds
  <2>1. a \in Sram /\ Route(a) = "sram"
    BY PlainIsMemory
  <2>2. m.sram[a] = last[a]
    BY <2>1 DEF DataInv, Kept
  <2> QED BY <2>1, <2>2 DEF ReadValues
<1> QED BY <1>1, <1>2, PTL
=============================================================================
