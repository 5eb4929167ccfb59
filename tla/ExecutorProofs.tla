--------------------------- MODULE ExecutorProofs ---------------------------
(***************************************************************************)
(* Proofs about the loop of Executor.tla for every firmware image, every   *)
(* set of vectors and every stack area, what they say of the machine words *)
(* of Flash.tla, how the instructions of Registers.tla are steps of that   *)
(* loop, and what the disassembly of Disasm.tla shows of them.             *)
(***************************************************************************)
EXTENDS Disasm, DecoderProofs, SequenceTheorems, TLAPS

-----------------------------------------------------------------------------
(* The stack operators, from memory to memory. *)

LEMMA MaxWordNat == MaxWord \in Nat
BY DEF MaxWord

(* The two bytes that PushWord pushes for a 16-bit word are bytes. *)
LEMMA WordBytes ==
  ASSUME NEW w \in Word
  PROVE  w % 256 \in Byte /\ w \div 256 \in Byte
<1> DEFINE q == w \div 256
<1>1. w % 256 \in Byte BY MaxWordNat DEF Word, Byte
<1>2. w \in Int /\ 0 <= w /\ w <= MaxWord BY MaxWordNat DEF Word
<1>3. q \in Int /\ 256 * q <= w /\ w < (256 * q) + 256 BY <1>2
<1> HIDE DEF q
<1>4. 0 <= q BY <1>2, <1>3
<1>5. q <= 255 BY <1>2, <1>3 DEF MaxWord
<1>6. q \in Byte BY <1>3, <1>4, <1>5 DEF Byte
<1> QED BY <1>1, <1>6 DEF q

(* The word popWord puts together from two bytes is a 16-bit word. *)
LEMMA BytesWord ==
  ASSUME NEW h \in Byte, NEW l \in Byte
  PROVE  (256 * h) + l \in Word
<1>1. h \in Int /\ l \in Int /\ 0 <= h /\ h <= 255 /\ 0 <= l /\ l <= 255
  BY DEF Byte
<1> DEFINE w == (256 * h) + l
<1>2. w \in Int /\ 0 <= w BY <1>1
<1>3. w <= MaxWord BY <1>1 DEF MaxWord
<1> HIDE DEF w
<1>4. w \in Word BY <1>2, <1>3, MaxWordNat DEF Word
<1> QED BY <1>4 DEF w

(* The fields of a memory, and how one is put together. *)
LEMMA MemFields ==
  ASSUME NEW m \in Mem
  PROVE  /\ m.sp \in Word
         /\ m.sram \in [StackBottom..RamEnd -> Byte]
         /\ m.fault \in BOOLEAN
BY DEF Mem

LEMMA MemSp ==
  ASSUME NEW m \in Mem, NEW s \in Word
  PROVE  [m EXCEPT !.sp = s] \in Mem
BY MemFields, Zenon DEF Mem

LEMMA MemFault ==
  ASSUME NEW m \in Mem, NEW f \in BOOLEAN
  PROVE  [m EXCEPT !.fault = f] \in Mem
BY MemFields, Zenon DEF Mem

LEMMA MemPush ==
  ASSUME NEW m \in Mem, NEW s \in Word, NEW r \in [StackBottom..RamEnd -> Byte]
  PROVE  [m EXCEPT !.sp = s, !.sram = r] \in Mem
BY MemFields, Zenon DEF Mem

(* The constants are 16-bit values. *)
LEMMA Addresses ==
  /\ StackBottom \in Int /\ 1 <= StackBottom
  /\ RamEnd \in Int /\ StackBottom <= RamEnd /\ RamEnd <= MaxWord
BY ConstAssumption, MaxWordNat DEF ConstAssumption

LEMMA WordStep ==
  ASSUME NEW s \in Word
  PROVE  /\ s \in StackBottom..RamEnd => s - 1 \in Word
         /\ s < RamEnd => s + 1 \in Word
         /\ s < RamEnd /\ s + 1 >= StackBottom => s + 1 \in StackBottom..RamEnd
BY Addresses, MaxWordNat DEF Word

(* pushByte yields a memory, also when it faults. *)
LEMMA PushByteType ==
  ASSUME NEW m \in Mem, NEW b \in Byte
  PROVE  PushByte(m, b) \in Mem
<1>1. CASE m.sp \in StackBottom..RamEnd
  <2>1. m.sp - 1 \in Word BY <1>1, WordStep, MemFields
  <2>2. [m.sram EXCEPT ![m.sp] = b] \in [StackBottom..RamEnd -> Byte] BY MemFields
  <2>3. [m EXCEPT !.sp = m.sp - 1, !.sram = [m.sram EXCEPT ![m.sp] = b]] \in Mem
    BY <2>1, <2>2, MemPush, Zenon
  <2> QED BY <1>1, <2>3, Zenon DEF PushByte
<1>2. CASE m.sp \notin StackBottom..RamEnd
  BY <1>2, MemFault, Zenon DEF PushByte
<1> QED BY <1>1, <1>2

(* popByte yields a memory. *)
LEMMA PopByteType ==
  ASSUME NEW m \in Mem
  PROVE  PopByte(m) \in Mem
<1>1. m.sp < RamEnd => m.sp + 1 \in Word BY WordStep, MemFields
<1>2. m.sp < RamEnd => [m EXCEPT !.sp = m.sp + 1] \in Mem BY <1>1, MemSp
<1>3. [m EXCEPT !.fault = TRUE] \in Mem BY MemFault
<1> QED BY <1>2, <1>3, Zenon DEF PopByte

(* What popByte returns is a byte. *)
LEMMA PopValuesType ==
  ASSUME NEW m \in Mem
  PROVE  PopValues(m) \subseteq Byte
<1>1. m.sp \in Int /\ RamEnd \in Int BY MemFields, Addresses, MaxWordNat DEF Word
<1>2. CASE m.sp >= RamEnd BY <1>2 DEF PopValues, Byte
<1>3. CASE ~ (m.sp >= RamEnd) /\ m.sp + 1 >= StackBottom
  <2>1. m.sp + 1 \in StackBottom..RamEnd BY <1>1, <1>3, WordStep, MemFields
  <2>2. m.sram[m.sp + 1] \in Byte BY <2>1, MemFields
  <2> QED BY <1>3, <2>2 DEF PopValues
<1>4. CASE ~ (m.sp >= RamEnd) /\ ~ (m.sp + 1 >= StackBottom)
  BY <1>4, ConstAssumption, Zenon DEF ConstAssumption, PopValues
<1> QED BY <1>2, <1>3, <1>4

LEMMA PushWordType ==
  ASSUME NEW m \in Mem, NEW w \in Word
  PROVE  PushWord(m, w) \in Mem
BY WordBytes, PushByteType DEF PushWord

LEMMA PopWordType ==
  ASSUME NEW m \in Mem
  PROVE  PopWord(m) \in Mem /\ PopWordValues(m) \subseteq Word
<1>1. PopByte(m) \in Mem BY PopByteType
<1>2. PopWord(m) \in Mem BY <1>1, PopByteType DEF PopWord
<1>3. PopValues(m) \subseteq Byte /\ PopValues(PopByte(m)) \subseteq Byte
  BY <1>1, PopValuesType
<1>4. ASSUME NEW w \in PopWordValues(m) PROVE w \in Word
  <2>1. PICK h \in PopValues(m), l \in PopValues(PopByte(m)) : w = (256 * h) + l
    BY DEF PopWordValues
  <2>2. h \in Byte /\ l \in Byte BY <1>3
  <2> QED BY <2>1, <2>2, BytesWord
<1> QED BY <1>2, <1>4

-----------------------------------------------------------------------------
(* What firmware may hold, and where it goes. *)

LEMMA InstrType ==
  ASSUME NEW a \in Word, NEW i \in InstrAt(a)
  PROVE  /\ i \in Instr
         /\ i.op \in {"timsk", "tifr"} => i.vecs \subseteq TimerVec
         /\ i.op = "uart" => i.vecs \cap TimerVec = {}
<1>1. CASE a \in DOMAIN Code
  <2>1. i \in Code[a] BY <1>1 DEF InstrAt
  <2> QED BY <1>1, <2>1, CodeAssumption DEF CodeAssumption
<1>2. CASE a \notin DOMAIN Code
  <2>1. i = NOP BY <1>2 DEF InstrAt
  <2>2. 0 \in Word BY MaxWordNat DEF Word
  <2>3. NOP \in Instr BY <2>2 DEF NOP, Instr, Ops
  <2>4. NOP.op = "plain" BY DEF NOP
  <2> QED BY <2>1, <2>3, <2>4
<1> QED BY <1>1, <1>2

LEMMA InstrFields ==
  ASSUME NEW i \in Instr
  PROVE  i.words \in {1, 2} /\ i.num \in Word /\ i.vecs \subseteq Vectors
BY DEF Instr

LEMMA VectorAddrType ==
  ASSUME NEW v \in Vectors
  PROVE  vectorAddr(v) \in Word
<1>1. v \in Int /\ 1 <= v /\ v <= 21 BY ConstAssumption DEF ConstAssumption
<1>2. vectorAddr(v) \in Int /\ 0 <= vectorAddr(v) /\ vectorAddr(v) <= 80
  BY <1>1 DEF vectorAddr
<1>3. 80 <= MaxWord BY DEF MaxWord
<1> QED BY <1>2, <1>3, MaxWordNat DEF Word

LEMMA ModWord ==
  ASSUME NEW n \in Nat
  PROVE  n % (MaxWord + 1) \in Word
<1>1. MaxWord + 1 \in Nat /\ MaxWord + 1 > 0 BY MaxWordNat
<1>2. n % (MaxWord + 1) \in 0..((MaxWord + 1) - 1) BY <1>1
<1>3. (MaxWord + 1) - 1 = MaxWord BY MaxWordNat
<1> QED BY <1>2, <1>3 DEF Word

LEMMA NextPcType ==
  ASSUME pc \in Word, NEW i \in Instr
  PROVE  NextPc(i) \in Word
<1>1. pc + 2 * i.words \in Nat BY InstrFields, MaxWordNat DEF Word
<1> QED BY <1>1, ModWord DEF NextPc

(* Where a skip at a lands, past the instruction n. *)
LEMMA SkipTarget ==
  ASSUME NEW a \in Word, NEW n \in InstrAt(a)
  PROVE  (a + 2 * n.words) % (MaxWord + 1) \in Word
<1>1. n.words \in {1, 2} BY InstrType, InstrFields
<1>2. a + 2 * n.words \in Nat BY <1>1, MaxWordNat DEF Word
<1> QED BY <1>2, ModWord

(* The history holds frames, whatever is put on it and taken off. *)
LEMMA EnteredType ==
  ASSUME frames \in Seq(Frame), NEW m \in Mem, NEW w \in Word
  PROVE  Entered(m, w) \in Seq(Frame)
<1> DEFINE f == [pc |-> w, sp |-> m.sp]
           now == <<f>> \o frames
<1>1. f \in Frame BY MemFields DEF Frame
<1>2. <<f>> \in Seq(Frame) /\ Len(<<f>>) = 1
  BY <1>1
<1> HIDE DEF f
<1>3. now \in Seq(Frame) /\ Len(now) = 1 + Len(frames) BY <1>2, ConcatProperties
<1> HIDE DEF now
<1>4. ASSUME ~ (Len(frames) < MaxFrames) PROVE SubSeq(now, 1, MaxFrames) \in Seq(Frame)
  <2>1. Len(frames) \in Nat /\ MaxFrames \in Nat
    BY LenProperties, ConstAssumption DEF ConstAssumption
  <2>2. \A k \in 1..MaxFrames : k \in 1..Len(now) BY <1>3, <1>4, <2>1
  <2>3. \A k \in 1..MaxFrames : now[k] \in Frame BY <1>3, <2>2, ElementOfSeq
  <2> QED BY <2>1, <2>3, SubSeqProperties
<1> QED BY <1>3, <1>4 DEF Entered, now, f

LEMMA KeptType ==
  ASSUME frames \in Seq(Frame), NEW s
  PROVE  Kept(s) \in Seq(Frame)
BY DEF Kept

LEMMA LeftType ==
  ASSUME frames \in Seq(Frame)
  PROVE  Left \in Seq(Frame)
<1>1. Balanced => Tail(frames) \in Seq(Frame) BY HeadTailProperties DEF Balanced
<1> QED BY <1>1, KeptType DEF Left

-----------------------------------------------------------------------------
(* Type correctness: SP, pc and the stack bytes keep the widths the code gives *)
(* them, whatever firmware does.                                               *)
THEOREM TypeCorrect == Spec => []TypeOK
<1>1. Init => TypeOK
  <2> SUFFICES ASSUME Init PROVE TypeOK OBVIOUS
  <2>1. 0 \in Word /\ RamEnd \in Word BY Addresses, MaxWordNat DEF Word
  <2>2. [a \in StackBottom..RamEnd |-> 0] \in [StackBottom..RamEnd -> Byte] BY DEF Byte
  <2>3. mem \in Mem BY <2>1, <2>2, Zenon DEF Init, Mem
  <2>4. frames \in Seq(Frame) BY DEF Init
  <2> QED BY <2>1, <2>3, <2>4, Zenon DEF Init, TypeOK
<1>2. TypeOK /\ [Next]_vars => TypeOK'
  <2> SUFFICES ASSUME TypeOK, [Next]_vars PROVE TypeOK'
    OBVIOUS
  <2>f. frames \in Seq(Frame) BY DEF TypeOK
  <2>1. CASE Service
    <3>1. PICK rx \in SUBSET PollVec :
            NothingToService(rx) \/ \E v \in Vectors : Dispatch(rx, v) \/ Discard(rx, v)
      BY <2>1 DEF Service
    <3>2. Requests(rx) \subseteq Vectors
      BY ConstAssumption DEF ConstAssumption, TypeOK, Requests
    <3>3. CASE NothingToService(rx)
      BY <3>2, <3>3, ConstAssumption DEF ConstAssumption, NothingToService, TypeOK
    <3>4. ASSUME NEW v \in Vectors, Dispatch(rx, v) PROVE TypeOK'
      <4>1. mem' \in Mem BY <3>4, PushWordType DEF Dispatch, TypeOK
      <4>2. pc' \in Word BY <3>4, VectorAddrType DEF Dispatch
      <4>3. frames' \in Seq(Frame) BY <3>4, <2>f, EnteredType DEF Dispatch, TypeOK
      <4> QED BY <3>2, <3>4, <4>1, <4>2, <4>3, ConstAssumption DEF ConstAssumption, Dispatch, TypeOK
    <3>5. ASSUME NEW v \in Vectors, Discard(rx, v) PROVE TypeOK'
      BY <3>2, <3>5, ConstAssumption DEF ConstAssumption, Discard, TypeOK
    <3> QED BY <3>1, <3>3, <3>4, <3>5
  <2>2. CASE FetchError
    <3>1. (pc + 2) % (MaxWord + 1) \in Word
      <4>1. pc + 2 \in Nat BY MaxWordNat DEF TypeOK, Word
      <4> QED BY <4>1, ModWord
    <3> QED BY <2>2, <3>1 DEF FetchError, TypeOK
  <2>3. CASE UnknownOpcode
    BY <2>3, InstrType, NextPcType DEF UnknownOpcode, TypeOK
  <2>4. CASE Execute
    <3>1. PICK i \in InstrAt(pc) : Fetched(i) /\ Effect(i) BY <2>4 DEF Execute
    <3>2. i \in Instr /\ NextPc(i) \in Word /\ i.num \in Word
      BY InstrType, NextPcType DEF TypeOK, Instr
    <3>3. Cleared \in Mem BY DEF TypeOK, Cleared, Mem
    <3>4. \A m \in Mem : Retire(m) => mem' \in Mem /\ phase' \in {"halted", "tick"}
      BY DEF Retire
    <3>5. CASE Plain(i) BY <3>2, <3>3, <3>4, <3>5 DEF Plain, TypeOK
    <3>6. CASE WriteI(i) BY <3>2, <3>3, <3>4, <3>6 DEF WriteI, TypeOK
    <3>7. CASE Push(i)
      <4>1. PushByte(Cleared, i.num % 256) \in Mem
        BY <3>2, <3>3, WordBytes, PushByteType
      <4> QED BY <3>2, <3>4, <3>7, <4>1 DEF Push, TypeOK
    <3>8. CASE Pop(i)
      <4>1. PopByte(Cleared) \in Mem BY <3>3, PopByteType
      <4>2. frames' \in Seq(Frame) BY <2>f, <3>8, KeptType DEF Pop
      <4> QED BY <3>2, <3>4, <3>8, <4>1, <4>2 DEF Pop, TypeOK
    <3>9. CASE Call(i)
      <4>1. frames' \in Seq(Frame) BY <2>f, <3>2, <3>3, <3>9, EnteredType DEF Call
      <4> QED BY <3>2, <3>3, <3>4, <3>9, <4>1, PushWordType DEF Call, TypeOK
    <3>10. CASE Ret(i)
      <4>1. frames' \in Seq(Frame) BY <2>f, <3>10, LeftType DEF Ret
      <4> QED BY <3>3, <3>4, <3>10, <4>1, PopWordType DEF Ret, TypeOK
    <3>11. CASE Reti(i)
      <4>1. frames' \in Seq(Frame) BY <2>f, <3>11, LeftType DEF Reti
      <4> QED BY <3>3, <3>4, <3>11, <4>1, PopWordType DEF Reti, TypeOK
    <3>12. CASE WriteTimer(i)
      <4>1. timsk' \subseteq TimerVec /\ tifr' \subseteq TimerVec
        BY <3>12, InstrType DEF WriteTimer, TypeOK
      <4> QED BY <3>2, <3>3, <3>4, <3>12, <4>1 DEF WriteTimer, TypeOK
    <3>13. CASE WriteSp(i)
      <4>1. WrittenSp(i) \in Word
        <5>1. mem.sp \in Word BY MemFields DEF TypeOK
        <5>2. /\ mem.sp \div 256 \in Byte /\ mem.sp % 256 \in Byte
              /\ i.num % 256 \in Byte
          BY <3>2, <5>1, WordBytes
        <5> QED BY <5>2, BytesWord DEF WrittenSp
      <4>2. [Cleared EXCEPT !.sp = WrittenSp(i)] \in Mem BY <3>3, <4>1, MemSp
      <4>3. frames' \in Seq(Frame) BY <2>f, <3>13, KeptType DEF WriteSp
      <4> QED BY <3>2, <3>4, <3>13, <4>2, <4>3 DEF WriteSp, TypeOK
    <3>14. CASE WriteUart(i) BY <3>2, <3>3, <3>4, <3>14 DEF WriteUart, TypeOK, Instr
    <3>15. CASE BadAccess(i)
      <4>1. [mem EXCEPT !.fault = TRUE] \in Mem BY MemFault DEF TypeOK
      <4> QED BY <3>2, <3>4, <3>15, <4>1 DEF BadAccess, TypeOK
    <3>16. CASE Skip(i)
      <4>1. [mem EXCEPT !.fault = TRUE] \in Mem BY MemFault DEF TypeOK
      <4>2. \A n \in InstrAt(NextPc(i)) : (NextPc(i) + 2 * n.words) % (MaxWord + 1) \in Word
        BY <3>2, SkipTarget
      <4>3. pc' \in Word BY <3>2, <3>16, <4>2 DEF Skip
      <4>4. mem' \in Mem /\ phase' \in {"halted", "tick"} BY <3>3, <3>4, <3>16, <4>1 DEF Skip
      <4> QED BY <3>16, <4>3, <4>4 DEF Skip, TypeOK
    <3> QED BY <3>1, <3>5, <3>6, <3>7, <3>8, <3>9, <3>10, <3>11, <3>12, <3>13,
               <3>14, <3>15, <3>16 DEF Effect
  <2>5. CASE Tick BY <2>5, ConstAssumption DEF ConstAssumption, Tick, TypeOK
  <2>6. CASE UNCHANGED vars BY <2>6 DEF vars, TypeOK
  <2> QED BY <2>1, <2>2, <2>3, <2>4, <2>5, <2>6 DEF Next
<1> QED BY <1>1, <1>2, PTL DEF Spec

-----------------------------------------------------------------------------
(* The controller serves each event of a peripheral at most once: an invariant *)
(* that every step keeps on its own, given the types.                          *)
THEOREM ServedOnce == Spec => []EachEventServedOnce
<1>1. Init => EachEventServedOnce
  BY DEF Init, EachEventServedOnce
<1>2. TypeOK /\ EachEventServedOnce /\ [Next]_vars => EachEventServedOnce'
  <2> SUFFICES ASSUME TypeOK, EachEventServedOnce, [Next]_vars
               PROVE  EachEventServedOnce'
    OBVIOUS
  <2>1. CASE Service
    <3>1. PICK rx \in SUBSET PollVec :
            NothingToService(rx) \/ \E v \in Vectors : Dispatch(rx, v) \/ Discard(rx, v)
      BY <2>1 DEF Service
    <3>2. Requests(rx) \subseteq outstanding \cup rx
      BY DEF EachEventServedOnce, Requests
    <3>3. CASE NothingToService(rx)
      BY <3>2, <3>3 DEF NothingToService, EachEventServedOnce
    <3>4. CASE \E v \in Vectors : Dispatch(rx, v)
      BY <3>2, <3>4 DEF Dispatch, EachEventServedOnce
    <3>5. CASE \E v \in Vectors : Discard(rx, v)
      BY <3>2, <3>5 DEF Discard, EachEventServedOnce
    <3> QED BY <3>1, <3>3, <3>4, <3>5
  <2>2. CASE FetchError BY <2>2 DEF FetchError, EachEventServedOnce
  <2>3. CASE UnknownOpcode BY <2>3 DEF UnknownOpcode, EachEventServedOnce
  <2>4. CASE Execute
    <3>1. PICK i \in InstrAt(pc) : Fetched(i) /\ Effect(i) BY <2>4 DEF Execute
    <3>2. CASE WriteTimer(i) BY <3>2 DEF WriteTimer, EachEventServedOnce
    <3>3. CASE WriteUart(i) BY <3>3 DEF WriteUart, EachEventServedOnce
    <3>4. CASE UNCHANGED <<pending, tifr, outstanding>>
      BY <3>4 DEF EachEventServedOnce
    <3> QED BY <3>1, <3>2, <3>3, <3>4
            DEF Effect, Plain, Skip, WriteI, Push, Pop, Call, Ret, Reti, WriteSp, BadAccess
  <2>5. CASE Tick BY <2>5 DEF Tick, EachEventServedOnce
  <2>6. CASE UNCHANGED vars BY <2>6 DEF vars, EachEventServedOnce
  <2> QED BY <2>1, <2>2, <2>3, <2>4, <2>5, <2>6 DEF Next
<1> QED BY <1>1, <1>2, TypeCorrect, PTL DEF Spec

(* No instruction is fetched with I set while a request with a handler waits,  *)
(* when the vectors without one have the higher numbers: Service dispatches    *)
(* the lowest number, so it leaves nothing with a handler behind, and no step  *)
(* between Service and the fetch raises anything.                              *)
THEOREM ZeroLatency == Spec => []NoInstructionWhileRequested
<1>1. Init => NoInstructionWhileRequested
  BY DEF Init, NoInstructionWhileRequested
<1>2. TypeOK /\ NoInstructionWhileRequested /\ [Next]_vars => NoInstructionWhileRequested'
  <2> SUFFICES ASSUME TypeOK, NoInstructionWhileRequested, [Next]_vars,
                      \A u, v \in Vectors : Deliverable(v) /\ ~ Deliverable(u) => v < u,
                      phase' = "fetch", ibit',
                      NEW v \in pending' \cup (timsk' \cap tifr')
               PROVE  ~ Deliverable(v)
    BY DEF NoInstructionWhileRequested, Deliverable
  <2>1. CASE Service
    <3>1. PICK rx \in SUBSET PollVec :
            NothingToService(rx) \/ \E u \in Vectors : Dispatch(rx, u) \/ Discard(rx, u)
      BY <2>1 DEF Service
    <3>2. CASE NothingToService(rx) BY <3>2 DEF NothingToService, Requests
    <3>3. CASE \E u \in Vectors : Dispatch(rx, u) BY <3>3 DEF Dispatch
    <3>4. ASSUME NEW u \in Vectors, Discard(rx, u) PROVE ~ Deliverable(v)
      <4>1. v \in Requests(rx) BY <3>4 DEF Discard, Requests
      <4>2. u <= v /\ ~ Deliverable(u) BY <3>4, <4>1 DEF Discard, Highest
      <4>3. v \in Vectors /\ v \in Int /\ u \in Int
        BY <4>1, ConstAssumption DEF ConstAssumption, TypeOK, Requests
      <4> QED BY <4>2, <4>3
    <3> QED BY <3>1, <3>2, <3>3, <3>4
  <2>2. CASE Execute
    <3>1. PICK i \in InstrAt(pc) : Fetched(i) /\ Effect(i) BY <2>2 DEF Execute
    <3>2. \A m : Retire(m) => phase' # "fetch" BY DEF Retire
    <3> QED BY <3>1, <3>2 DEF Effect, Plain, Skip, WriteI, Push, Pop, Call, Ret,
                              Reti, WriteTimer, WriteSp, WriteUart, BadAccess
  <2>3. CASE UNCHANGED vars BY <2>3 DEF vars, NoInstructionWhileRequested
  <2> QED BY <2>1, <2>2, <2>3 DEF Next, FetchError, UnknownOpcode, Tick
<1> QED BY <1>1, <1>2, TypeCorrect, PTL DEF Spec

-----------------------------------------------------------------------------
(* SP of a memory within the stack area, or the byte under it when it is full. *)
InStack(m) == m.sp \in (StackBottom - 1)..RamEnd

(* Pushes and pops stay inside, also when the second half of one faults. *)
LEMMA StackOperators ==
  ASSUME NEW m \in Mem, InStack(m), NEW b, NEW c
  PROVE  /\ InStack(PushByte(m, b)) /\ InStack(PushByte(PushByte(m, b), c))
         /\ InStack(PopByte(m)) /\ InStack(PopWord(m))
<1>1. \A s \in Int : s \in StackBottom..RamEnd => s - 1 \in (StackBottom - 1)..RamEnd
  BY Addresses
<1>2. \A s \in (StackBottom - 1)..RamEnd : s < RamEnd => s + 1 \in (StackBottom - 1)..RamEnd
  BY Addresses
<1>3. \A s \in (StackBottom - 1)..RamEnd : s \in Int
  BY Addresses
<1>m. DOMAIN m = {"sp", "sram", "fault"} BY DEF Mem
<1>4. /\ DOMAIN PushByte(m, b) = {"sp", "sram", "fault"} /\ InStack(PushByte(m, b))
  BY <1>1, <1>3, <1>m, Zenon DEF InStack, PushByte
<1>5. InStack(PushByte(PushByte(m, b), c))
  BY <1>1, <1>3, <1>4, Zenon DEF InStack, PushByte
<1>6. /\ DOMAIN PopByte(m) = {"sp", "sram", "fault"} /\ InStack(PopByte(m))
  BY <1>2, <1>m, Zenon DEF InStack, PopByte
<1>7. InStack(PopWord(m))
  <2>1. PopWord(m) = PopByte(PopByte(m)) BY DEF PopWord
  <2> QED BY <1>2, <1>6, <2>1, Zenon DEF InStack, PopByte
<1> QED BY <1>4, <1>5, <1>6, <1>7

(* Firmware that never writes SPL or SPH keeps SP within the stack area for    *)
(* ever: interrupts, calls and returns, balanced or not, do not take it out.   *)
THEOREM StackBounds == Spec => []SpStaysInStack
<1> DEFINE Inside == InStack(mem)
<1>1. Init => Inside
  BY Addresses DEF Init, InStack
<1>2. LeavesSpAlone /\ TypeOK /\ Inside /\ [Next]_vars => Inside'
  <2> SUFFICES ASSUME LeavesSpAlone, TypeOK, Inside, [Next]_vars PROVE Inside'
    OBVIOUS
  <2>m. mem \in Mem /\ Cleared \in Mem /\ InStack(Cleared)
    BY Zenon DEF TypeOK, Cleared, Mem, InStack
  <2>1. CASE Service
    <3>1. PICK rx \in SUBSET PollVec :
            NothingToService(rx) \/ \E v \in Vectors : Dispatch(rx, v) \/ Discard(rx, v)
      BY <2>1 DEF Service
    <3>2. CASE \E v \in Vectors : Dispatch(rx, v)
      BY <2>m, <3>2, StackOperators DEF Dispatch, PushWord
    <3> QED BY <3>1, <3>2 DEF NothingToService, Discard
  <2>2. CASE Execute
    <3>1. PICK i \in InstrAt(pc) : Fetched(i) /\ Effect(i) BY <2>2 DEF Execute
    <3>2. ~ WriteSp(i)
      <4>1. i.op \notin {"spl", "sph"}
        BY DEF LeavesSpAlone, InstrAt, NOP
      <4> QED BY <4>1 DEF WriteSp
    <3>3. CASE Plain(i) \/ WriteI(i) \/ WriteTimer(i) \/ WriteUart(i)
      BY <2>m, <3>3 DEF Plain, WriteI, WriteTimer, WriteUart, Retire
    <3>4. CASE Push(i) \/ Pop(i) \/ Call(i) \/ Ret(i) \/ Reti(i)
      <4>1. \/ \E b \in {i.num % 256} : mem' = PushByte(Cleared, b)
            \/ mem' = PushWord(Cleared, NextPc(i))
            \/ mem' = PopByte(Cleared) \/ mem' = PopWord(Cleared)
        BY <3>4, Zenon DEF Push, Pop, Call, Ret, Reti, Retire
      <4> QED BY <2>m, <4>1, StackOperators DEF PushWord
    <3>5. CASE BadAccess(i) \/ Skip(i)
      <4>1. [mem EXCEPT !.fault = TRUE].sp = mem.sp BY <2>m, Zenon DEF Mem
      <4>2. mem' \in {Cleared, [mem EXCEPT !.fault = TRUE]}
        BY <3>5 DEF BadAccess, Skip, Retire
      <4> QED BY <2>m, <4>1, <4>2, Zenon DEF InStack
    <3> QED BY <3>1, <3>2, <3>3, <3>4, <3>5 DEF Effect
  <2> QED BY <2>1, <2>2 DEF Next, FetchError, UnknownOpcode, Tick, vars
<1>3. CASE LeavesSpAlone
  BY <1>1, <1>2, <1>3, TypeCorrect, PTL DEF Spec, SpStaysInStack, InStack
<1>4. CASE ~ LeavesSpAlone
  BY <1>4, PTL DEF SpStaysInStack
<1> QED BY <1>3, <1>4

-----------------------------------------------------------------------------
(* The two bytes of the frame f lie in m where PushWord put them, above SP. *)
Saved(m, f) ==
  /\ f.sp \in (StackBottom + 1)..RamEnd
  /\ m.sram[f.sp] = f.pc % 256
  /\ m.sram[f.sp - 1] = f.pc \div 256
  /\ m.sp <= f.sp - 2

(* The frames fs, innermost first, lie one above the other without overlap. *)
Nested(fs) ==
  \A j, k \in 1..Len(fs) : j < k => fs[j].sp <= fs[k].sp - 2

(* What ReturnsResume needs of every state: every return address of the *)
(* history is on the stack, and SP is below all of them.                       *)
OnStack(m, fs) ==
  Nested(fs) /\ \A k \in 1..Len(fs) : Saved(m, fs[k])

FramesOnStack == OnStack(mem, frames)

LEMMA FrameFields ==
  ASSUME NEW f \in Frame
  PROVE  f.pc \in Word /\ f.sp \in Word /\ f.sp \in Int
BY MaxWordNat DEF Frame, Word

(* A push writes below the frames, and SP goes down or stays. *)
LEMMA PushKeepsSaved ==
  ASSUME NEW m \in Mem, NEW b \in Byte, NEW f \in Frame, Saved(m, f)
  PROVE  Saved(PushByte(m, b), f)
<1>1. m.sp \in Int /\ f.sp \in Int BY MemFields, FrameFields, MaxWordNat DEF Word
<1>2. m.sp < f.sp - 1 BY <1>1 DEF Saved
<1>3. CASE m.sp \in StackBottom..RamEnd
  <2>1. /\ PushByte(m, b).sp = m.sp - 1
        /\ PushByte(m, b).sram = [m.sram EXCEPT ![m.sp] = b]
    BY <1>3, Zenon DEF PushByte, Mem
  <2>2. f.sp \in StackBottom..RamEnd /\ f.sp - 1 \in StackBottom..RamEnd
    BY <1>1, Addresses DEF Saved
  <2>3. /\ [m.sram EXCEPT ![m.sp] = b][f.sp] = m.sram[f.sp]
        /\ [m.sram EXCEPT ![m.sp] = b][f.sp - 1] = m.sram[f.sp - 1]
    BY <1>1, <1>2, <2>2, MemFields
  <2>4. m.sp - 1 <= f.sp - 2 BY <1>1, <1>2
  <2> QED BY <2>1, <2>3, <2>4, Zenon DEF Saved
<1>4. CASE m.sp \notin StackBottom..RamEnd
  <2>1. PushByte(m, b).sp = m.sp /\ PushByte(m, b).sram = m.sram
    BY <1>4, Zenon DEF PushByte, Mem
  <2> QED BY <2>1, Zenon DEF Saved
<1> QED BY <1>3, <1>4

(* A push of two bytes that does not fault saves the word it pushed. *)
LEMMA PushSaves ==
  ASSUME NEW m \in Mem, NEW w \in Word, ~ PushWord(m, w).fault
  PROVE  /\ Saved(PushWord(m, w), [pc |-> w, sp |-> m.sp])
         /\ m.sp \in (StackBottom + 1)..RamEnd
         /\ PushWord(m, w).sp = m.sp - 2
<1> DEFINE l == w % 256  h == w \div 256  n == PushByte(m, l)
<1>0. l \in Byte /\ h \in Byte BY WordBytes
<1> HIDE DEF l, h
<1>1. n \in Mem BY <1>0, PushByteType
<1>2. PushWord(m, w) = PushByte(n, h) BY DEF PushWord, l, h
<1>3. n.sp \in StackBottom..RamEnd
  <2> SUFFICES ASSUME n.sp \notin StackBottom..RamEnd PROVE FALSE OBVIOUS
  <2>1. PushByte(n, h) = [n EXCEPT !.fault = TRUE] BY Zenon DEF PushByte
  <2>2. [n EXCEPT !.fault = TRUE].fault = TRUE BY <1>1, Zenon DEF Mem
  <2> QED BY <1>2, <2>1, <2>2
<1>4. PushByte(n, h) = [n EXCEPT !.sp = n.sp - 1, !.sram = [n.sram EXCEPT ![n.sp] = h]]
  BY <1>3, Zenon DEF PushByte
<1>5. /\ PushByte(n, h).sp = n.sp - 1 /\ PushByte(n, h).fault = n.fault
      /\ PushByte(n, h).sram = [n.sram EXCEPT ![n.sp] = h]
  BY <1>1, <1>4, Zenon DEF Mem
<1>6. m.sp \in StackBottom..RamEnd
  <2> SUFFICES ASSUME m.sp \notin StackBottom..RamEnd PROVE FALSE OBVIOUS
  <2>1. n = [m EXCEPT !.fault = TRUE] BY Zenon DEF PushByte
  <2>2. n.fault = TRUE BY <2>1, Zenon DEF Mem
  <2> QED BY <1>2, <1>5, <2>2
<1>7. /\ n.sp = m.sp - 1
      /\ n.sram = [m.sram EXCEPT ![m.sp] = l]
  BY <1>6, Zenon DEF PushByte, Mem
<1> HIDE DEF n
<1>8. m.sp \in Int /\ m.sp - 1 \in StackBottom..RamEnd BY <1>3, <1>6, <1>7, Addresses
<1>9. m.sp \in (StackBottom + 1)..RamEnd BY <1>8, <1>6, Addresses
<1>10. n.sram[m.sp] = l BY <1>6, <1>7, MemFields
<1>11. n.sram \in [StackBottom..RamEnd -> Byte] BY <1>1, MemFields
<1>12. /\ [n.sram EXCEPT ![m.sp - 1] = h][m.sp] = l
       /\ [n.sram EXCEPT ![m.sp - 1] = h][m.sp - 1] = h
  <2>1. m.sp # m.sp - 1 BY <1>8
  <2>2. m.sp \in DOMAIN n.sram /\ m.sp - 1 \in DOMAIN n.sram BY <1>6, <1>8, <1>11
  <2> QED BY <1>10, <2>1, <2>2, Zenon
<1>13. PushWord(m, w).sram = [n.sram EXCEPT ![m.sp - 1] = h]
  BY <1>2, <1>5, <1>7
<1>14. PushWord(m, w).sp = m.sp - 2 BY <1>2, <1>5, <1>7, <1>8
<1> QED BY <1>8, <1>9, <1>12, <1>13, <1>14 DEF Saved, l, h

(* Popping the two bytes of the frame SP is just under gives back its word. *)
LEMMA PopSaved ==
  ASSUME NEW m \in Mem, NEW f \in Frame, Saved(m, f), m.sp = f.sp - 2
  PROVE  PopWordValues(m) = {f.pc} /\ PopWord(m).sp = f.sp
<1> DEFINE n == PopByte(m)
<1>1. /\ m.sp \in Int /\ f.sp \in Int
      /\ StackBottom + 1 <= f.sp /\ f.sp <= RamEnd
  BY FrameFields, MemFields, MaxWordNat DEF Saved, Word
<1>2. /\ m.sp < RamEnd /\ ~ (m.sp >= RamEnd) /\ m.sp + 1 >= StackBottom
      /\ m.sp + 1 = f.sp - 1
  BY <1>1, Addresses
<1>3. n.sp = m.sp + 1 /\ n.sram = m.sram /\ n \in Mem
  BY <1>2, PopByteType, Zenon DEF PopByte, Mem
<1>4. PopValues(m) = {m.sram[f.sp - 1]} BY <1>2 DEF PopValues
<1> HIDE DEF n
<1>5. /\ n.sp < RamEnd /\ ~ (n.sp >= RamEnd) /\ n.sp + 1 >= StackBottom
      /\ n.sp + 1 = f.sp
  BY <1>1, <1>2, <1>3, Addresses
<1>6. PopValues(n) = {m.sram[f.sp]} BY <1>3, <1>5 DEF PopValues
<1>7. PopByte(n).sp = n.sp + 1 BY <1>3, <1>5, Zenon DEF PopByte, Mem
<1>8. PopWord(m).sp = f.sp BY <1>5, <1>7 DEF PopWord, n
<1>9. (256 * (f.pc \div 256)) + (f.pc % 256) = f.pc
  BY FrameFields, MaxWordNat DEF Word
<1>10. PopWordValues(m) = {(256 * m.sram[f.sp - 1]) + m.sram[f.sp]}
  BY <1>4, <1>6 DEF PopWordValues, n
<1> QED BY <1>8, <1>9, <1>10 DEF Saved

(* The frames stay saved while the bytes above SP do: what pops and writes of  *)
(* SP have to show.                                                            *)
LEMMA SameBytes ==
  ASSUME NEW m, NEW n, NEW f, Saved(m, f), n.sram = m.sram, n.sp <= f.sp - 2
  PROVE  Saved(n, f)
BY DEF Saved

(* After firmware moved SP to s and touched no byte. *)
LEMMA KeptOnStack ==
  ASSUME TypeOK, FramesOnStack, NEW n \in Mem, n.sram = mem.sram
  PROVE  OnStack(n, Kept(n.sp))
<1>1. CASE frames # <<>> /\ n.sp > Head(frames).sp - 2
  <2>1. Kept(n.sp) = <<>> /\ Len(<<>>) = 0 BY <1>1 DEF Kept
  <2> QED BY <2>1 DEF OnStack, Nested
<1>2. CASE ~ (frames # <<>> /\ n.sp > Head(frames).sp - 2)
  <2>1. Kept(n.sp) = frames BY <1>2 DEF Kept
  <2>2. ASSUME NEW k \in 1..Len(frames) PROVE Saved(n, frames[k])
    <3>1. frames \in Seq(Frame) /\ Len(frames) \in Nat BY LenProperties DEF TypeOK
    <3>2. frames # <<>> /\ 1 \in 1..Len(frames) /\ Head(frames) = frames[1]
      BY <3>1, EmptySeq
    <3>3. frames[1] \in Frame /\ frames[k] \in Frame BY <3>1, <3>2, ElementOfSeq
    <3>4. frames[1].sp \in Int /\ frames[k].sp \in Int /\ n.sp \in Int
      BY <3>3, FrameFields, MemFields, MaxWordNat DEF Word
    <3>5. frames[1].sp <= frames[k].sp
      <4>1. CASE k = 1 BY <3>4, <4>1
      <4>2. CASE k # 1
        <5>1. 1 < k BY <4>2
        <5>2. frames[1].sp <= frames[k].sp - 2
          BY <3>2, <5>1, Zenon DEF FramesOnStack, OnStack, Nested
        <5> QED BY <3>4, <5>2
      <4> QED BY <4>1, <4>2
    <3>6. n.sp <= frames[1].sp - 2 BY <1>2, <3>2, <3>4
    <3>7. n.sp <= frames[k].sp - 2 BY <3>4, <3>5, <3>6
    <3> QED BY <3>7, SameBytes DEF FramesOnStack, OnStack
  <2> QED BY <2>1, <2>2 DEF FramesOnStack, OnStack
<1> QED BY <1>1, <1>2

(* A push leaves the frames where they are. *)
LEMMA PushOnStack ==
  ASSUME TypeOK, NEW m \in Mem, OnStack(m, frames), NEW b \in Byte
  PROVE  OnStack(PushByte(m, b), frames)
<1>1. \A k \in 1..Len(frames) : frames[k] \in Frame BY ElementOfSeq DEF TypeOK
<1> QED BY <1>1, PushKeepsSaved DEF OnStack

LEMMA PushWordOnStack ==
  ASSUME TypeOK, NEW m \in Mem, OnStack(m, frames), NEW w \in Word
  PROVE  OnStack(PushWord(m, w), frames)
<1>1. w % 256 \in Byte /\ w \div 256 \in Byte BY WordBytes
<1>2. /\ PushByte(m, w % 256) \in Mem
      /\ OnStack(PushByte(m, w % 256), frames)
  BY <1>1, PushByteType, PushOnStack
<1> QED BY <1>1, <1>2, PushOnStack DEF PushWord

(* A call or an interruption puts one more frame under the others. *)
LEMMA EnteredOnStack ==
  ASSUME TypeOK, NEW n \in Mem, OnStack(n, frames), NEW w \in Word
  PROVE  OnStack(PushWord(n, w), Entered(n, w))
<1> DEFINE f == [pc |-> w, sp |-> n.sp]
           m == PushWord(n, w)
           now == <<f>> \o frames
<1>1. frames \in Seq(Frame) BY DEF TypeOK
<1>2. OnStack(m, frames) BY PushWordOnStack
<1>3. CASE m.fault BY <1>2, <1>3 DEF Entered
<1>4. CASE ~ m.fault
  <2>1. Saved(m, f) BY <1>1, <1>4, PushSaves
  <2>2. f \in Frame /\ f.sp = n.sp BY MemFields DEF Frame
  <2> HIDE DEF f
  <2>3. <<f>> \in Seq(Frame) /\ Len(<<f>>) = 1 /\ <<f>>[1] = f BY <2>2
  <2>4. /\ now \in Seq(Frame) /\ Len(now) = 1 + Len(frames)
        /\ \A k \in 1..(1 + Len(frames)) : now[k] = IF k <= 1 THEN <<f>>[k] ELSE frames[k - 1]
    BY <1>1, <2>3, ConcatProperties
  <2> HIDE DEF now
  <2>5. Len(frames) \in Nat BY <1>1, LenProperties
  <2>6. now[1] = f BY <2>3, <2>4, <2>5
  <2>7. ASSUME NEW k \in 1..Len(now), k # 1
        PROVE  k - 1 \in 1..Len(frames) /\ now[k] = frames[k - 1]
    BY <2>4, <2>5, <2>7
  <2>8. \A k \in 1..Len(now) : Saved(m, now[k])
    BY <1>2, <2>1, <2>6, <2>7 DEF OnStack
  <2>9. \A j, k \in 1..Len(now) : j < k => now[j].sp <= now[k].sp - 2
    <3> SUFFICES ASSUME NEW j \in 1..Len(now), NEW k \in 1..Len(now), j < k
                 PROVE  now[j].sp <= now[k].sp - 2
      OBVIOUS
    <3>1. k # 1 /\ k - 1 \in 1..Len(frames) /\ now[k] = frames[k - 1] BY <2>5, <2>7
    <3>2. CASE j = 1
      <4>1. n.sp <= frames[k - 1].sp - 2 BY <3>1 DEF OnStack, Saved
      <4> QED BY <2>2, <2>6, <3>1, <3>2, <4>1
    <3>3. CASE j # 1
      <4>1. j - 1 \in 1..Len(frames) /\ now[j] = frames[j - 1] BY <2>7, <3>3
      <4>2. j - 1 < k - 1 BY <2>4, <2>5
      <4> QED BY <3>1, <4>1, <4>2, Zenon DEF OnStack, Nested
    <3> QED BY <3>2, <3>3
  <2>10. CASE Len(frames) < MaxFrames
    <3>1. Entered(n, w) = now BY <1>4, <2>10 DEF Entered, now, f
    <3> QED BY <2>8, <2>9, <3>1 DEF OnStack, Nested
  <2>11. CASE ~ (Len(frames) < MaxFrames)
    <3>1. Entered(n, w) = SubSeq(now, 1, MaxFrames) BY <1>4, <2>11 DEF Entered, now, f
    <3>2. MaxFrames \in Nat BY ConstAssumption DEF ConstAssumption
    <3>3. \A k \in 1..MaxFrames : k \in 1..Len(now) BY <2>4, <2>5, <2>11, <3>2
    <3>4. \A k \in 1..MaxFrames : now[k] \in Frame BY <2>4, <3>3, ElementOfSeq
    <3>5. /\ Len(SubSeq(now, 1, MaxFrames)) = IF 1 <= MaxFrames THEN MaxFrames - 1 + 1 ELSE 0
          /\ \A k \in 1..(MaxFrames - 1 + 1) : SubSeq(now, 1, MaxFrames)[k] = now[1 + k - 1]
      BY <3>2, <3>4, SubSeqProperties
    <3>6. /\ Len(Entered(n, w)) = MaxFrames
          /\ \A k \in 1..MaxFrames : Entered(n, w)[k] = now[k]
      BY <3>1, <3>2, <3>5
    <3> QED BY <2>8, <2>9, <3>3, <3>6 DEF OnStack, Nested
  <2> QED BY <2>10, <2>11
<1> QED BY <1>3, <1>4

(* The return of a balanced routine takes its own frame off and no other. *)
LEMMA TailOnStack ==
  ASSUME TypeOK, FramesOnStack, Balanced, NEW n \in Mem,
         n.sram = mem.sram, n.sp = Head(frames).sp
  PROVE  OnStack(n, Tail(frames))
<1>1. /\ frames \in Seq(Frame) /\ frames # <<>>
  BY DEF TypeOK, Balanced
<1>2. /\ Len(frames) \in Nat /\ Len(frames) # 0
      /\ Len(Tail(frames)) = Len(frames) - 1
      /\ \A k \in 1..Len(Tail(frames)) : Tail(frames)[k] = frames[k + 1]
      /\ Head(frames) = frames[1]
  BY <1>1, HeadTailProperties, EmptySeq, LenProperties
<1>3. ASSUME NEW k \in 1..Len(Tail(frames))
      PROVE  k + 1 \in 1..Len(frames) /\ Tail(frames)[k] = frames[k + 1]
  BY <1>2
<1>4. \A k \in 1..Len(Tail(frames)) : Saved(n, Tail(frames)[k])
  <2> SUFFICES ASSUME NEW k \in 1..Len(Tail(frames)) PROVE Saved(n, frames[k + 1])
    BY <1>3
  <2>1. 1 \in 1..Len(frames) /\ k + 1 \in 1..Len(frames) /\ 1 < k + 1 BY <1>2, <1>3
  <2>2. frames[1].sp <= frames[k + 1].sp - 2
    BY <2>1, Zenon DEF FramesOnStack, OnStack, Nested
  <2>3. n.sp <= frames[k + 1].sp - 2 BY <1>2, <2>2
  <2> QED BY <2>1, <2>3, SameBytes DEF FramesOnStack, OnStack
<1>5. Nested(Tail(frames))
  <2> SUFFICES ASSUME NEW j \in 1..Len(Tail(frames)), NEW k \in 1..Len(Tail(frames)), j < k
               PROVE  frames[j + 1].sp <= frames[k + 1].sp - 2
    BY <1>3, Zenon DEF Nested
  <2>1. j + 1 \in 1..Len(frames) /\ k + 1 \in 1..Len(frames) /\ j + 1 < k + 1
    BY <1>2, <1>3
  <2> QED BY <2>1, Zenon DEF FramesOnStack, OnStack, Nested
<1> QED BY <1>4, <1>5 DEF OnStack

(* The two pops of a return from a balanced routine give the innermost frame. *)
LEMMA BalancedPops ==
  ASSUME TypeOK, Balanced, NEW m \in Mem, OnStack(m, frames), m.sp = mem.sp
  PROVE  PopWordValues(m) = {Head(frames).pc} /\ PopWord(m).sp = Head(frames).sp
<1>1. frames \in Seq(Frame) /\ frames # <<>> BY DEF TypeOK, Balanced
<1>2. 1 \in 1..Len(frames) /\ Head(frames) = frames[1] BY <1>1, EmptySeq, LenProperties
<1>3. Head(frames) \in Frame /\ Saved(m, Head(frames)) BY <1>1, <1>2, ElementOfSeq DEF OnStack
<1> QED BY <1>3, PopSaved DEF Balanced

LEMMA FramesStay == Spec => []FramesOnStack
<1>1. Init => FramesOnStack
  BY DEF Init, FramesOnStack, OnStack, Nested
<1>2. TypeOK /\ FramesOnStack /\ [Next]_vars => FramesOnStack'
  <2> SUFFICES ASSUME TypeOK, FramesOnStack, [Next]_vars PROVE OnStack(mem', frames')
    BY DEF FramesOnStack, OnStack, Nested, Saved
  <2>t. mem \in Mem /\ pc \in Word /\ frames \in Seq(Frame) BY DEF TypeOK
  <2>m. /\ Cleared \in Mem /\ Cleared.sram = mem.sram /\ Cleared.sp = mem.sp
    BY <2>t, Zenon DEF Cleared, Mem
  <2>c. OnStack(Cleared, frames) BY <2>m DEF FramesOnStack, OnStack, Saved
  <2>p. \A m \in Mem : PopByte(m) \in Mem /\ PopByte(m).sram = m.sram
    BY PopByteType, Zenon DEF PopByte, Mem
  <2>q. PopWord(Cleared) \in Mem /\ PopWord(Cleared).sram = mem.sram
    BY <2>m, <2>p DEF PopWord
  <2>1. CASE Service
    <3>1. PICK rx \in SUBSET PollVec :
            NothingToService(rx) \/ \E v \in Vectors : Dispatch(rx, v) \/ Discard(rx, v)
      BY <2>1 DEF Service
    <3>2. CASE \E v \in Vectors : Dispatch(rx, v)
      BY <2>t, <3>2, EnteredOnStack DEF Dispatch, FramesOnStack
    <3>3. CASE UNCHANGED <<mem, frames>> BY <3>3 DEF FramesOnStack
    <3> QED BY <3>1, <3>2, <3>3 DEF NothingToService, Discard
  <2>2. CASE Execute
    <3>1. PICK i \in InstrAt(pc) : Fetched(i) /\ Effect(i) BY <2>2 DEF Execute
    <3>2. i \in Instr /\ NextPc(i) \in Word /\ i.num \in Word
      BY <2>t, <3>1, InstrType, NextPcType DEF Instr
    <3>3. CASE Plain(i) \/ WriteI(i) \/ WriteTimer(i) \/ WriteUart(i)
      BY <2>c, <3>3 DEF Plain, WriteI, WriteTimer, WriteUart, Retire
    <3>4. CASE Push(i)
      <4>1. i.num % 256 \in Byte BY <3>2, WordBytes
      <4> QED BY <2>m, <2>c, <3>4, <4>1, PushOnStack DEF Push, Retire
    <3>5. CASE Call(i) BY <2>m, <2>c, <3>2, <3>5, EnteredOnStack DEF Call, Retire
    <3>6. CASE Pop(i)
      <4>1. PopByte(Cleared) \in Mem /\ PopByte(Cleared).sram = mem.sram BY <2>m, <2>p
      <4> QED BY <3>6, <4>1, KeptOnStack DEF Pop, Retire
    <3>7. CASE Ret(i) \/ Reti(i)
      <4>1. mem' = PopWord(Cleared) /\ frames' = Left BY <3>7 DEF Ret, Reti, Retire
      <4>2. CASE Balanced
        <5>1. PopWord(Cleared).sp = Head(frames).sp
          BY <2>t, <2>m, <2>c, <4>2, BalancedPops
        <5> QED BY <2>q, <4>1, <4>2, <5>1, TailOnStack DEF Left
      <4>3. CASE ~ Balanced BY <2>q, <4>1, <4>3, KeptOnStack DEF Left
      <4> QED BY <4>2, <4>3
    <3>9. CASE WriteSp(i)
      <4>1. WrittenSp(i) \in Word
        <5>1. /\ mem.sp \div 256 \in Byte /\ mem.sp % 256 \in Byte
              /\ i.num % 256 \in Byte
          BY <2>t, <3>2, MemFields, WordBytes
        <5> QED BY <5>1, BytesWord DEF WrittenSp
      <4> DEFINE n == [Cleared EXCEPT !.sp = WrittenSp(i)]
      <4>2. n \in Mem BY <2>m, <4>1, MemSp
      <4>3. n.sram = mem.sram /\ n.sp = WrittenSp(i) BY <2>m, Zenon DEF Mem
      <4>4. mem' = n /\ frames' = Kept(WrittenSp(i)) BY <3>9 DEF WriteSp, Retire
      <4> HIDE DEF n
      <4> QED BY <4>2, <4>3, <4>4, KeptOnStack
    <3>10. CASE BadAccess(i) \/ Skip(i)
      <4>1. /\ [mem EXCEPT !.fault = TRUE].sp = mem.sp
            /\ [mem EXCEPT !.fault = TRUE].sram = mem.sram
        BY <2>t, Zenon DEF Mem
      <4>2. OnStack([mem EXCEPT !.fault = TRUE], frames)
        BY <4>1 DEF FramesOnStack, OnStack, Saved
      <4>3. mem' \in {Cleared, [mem EXCEPT !.fault = TRUE]} /\ frames' = frames
        BY <3>10 DEF BadAccess, Skip, Retire
      <4> QED BY <2>c, <4>2, <4>3
    <3> QED BY <3>1, <3>3, <3>4, <3>5, <3>6, <3>7, <3>9, <3>10 DEF Effect
  <2>3. CASE UNCHANGED <<mem, frames>> BY <2>3 DEF FramesOnStack
  <2> QED BY <2>1, <2>2, <2>3 DEF Next, FetchError, UnknownOpcode, Tick, vars
<1> QED BY <1>1, <1>2, TypeCorrect, PTL DEF Spec

LEMMA BalancedReturn ==
  ASSUME TypeOK, FramesOnStack, Balanced, Return
  PROVE  pc' = Head(frames).pc /\ mem'.sp = Head(frames).sp
<1>1. PICK i \in InstrAt(pc) : Ret(i) \/ Reti(i) BY DEF Return
<1>2. mem \in Mem BY DEF TypeOK
<1>3. /\ Cleared \in Mem /\ Cleared.sram = mem.sram /\ Cleared.sp = mem.sp
  BY <1>2, Zenon DEF Cleared, Mem
<1>4. OnStack(Cleared, frames) BY <1>3 DEF FramesOnStack, OnStack, Saved
<1>5. PopWordValues(Cleared) = {Head(frames).pc} /\ PopWord(Cleared).sp = Head(frames).sp
  BY <1>3, <1>4, BalancedPops
<1> QED BY <1>1, <1>5 DEF Ret, Reti, Retire

(* Every routine that leaves SP where it found it returns to what called or    *)
(* interrupted it, whatever firmware, routines nested to any depth and faults  *)
(* come in between.                                                            *)
THEOREM Resumes == Spec => ReturnsResume
<1>1. TypeOK /\ FramesOnStack
        => [Balanced /\ Return => pc' = Head(frames).pc /\ mem'.sp = Head(frames).sp]_vars
  BY BalancedReturn
<1> QED BY <1>1, TypeCorrect, FramesStay, PTL DEF ReturnsResume

-----------------------------------------------------------------------------
(* The addresses B are closed under what firmware says it does next: the       *)
(* vectors, the instruction after one, jump and call targets, and what a skip  *)
(* lands on.  B may be the addresses at which an assembler put instructions.   *)
Past(a, i) == (a + 2 * i.words) % (MaxWord + 1)
Closed(B) ==
  /\ 0 \in B
  /\ \A v \in Vectors : Deliverable(v) => vectorAddr(v) \in B
  /\ \A a \in B : \A i \in InstrAt(a) : a + 1 < FlashSize =>
       /\ i.op \in {"jump", "call"} => i.num \in B
       /\ i.op \notin {"jump", "ret", "reti", "undefined", "bad"} => Past(a, i) \in B
       /\ i.op = "skip" /\ Past(a, i) + 1 < FlashSize =>
            \A n \in InstrAt(Past(a, i)) : n.op # "undefined" => Past(Past(a, i), n) \in B

Within(B) ==
  /\ phase # "halted" => pc \in B
  /\ \A k \in 1..Len(frames) : frames[k].pc \in B

(* Where the history stays in B. *)
LEMMA EnteredWithin ==
  ASSUME TypeOK, NEW B, Within(B), NEW m \in Mem, NEW w \in Word, w \in B
  PROVE  \A k \in 1..Len(Entered(m, w)) : Entered(m, w)[k].pc \in B
<1> DEFINE f == [pc |-> w, sp |-> m.sp]
           now == <<f>> \o frames
<1>1. frames \in Seq(Frame) /\ Len(frames) \in Nat BY LenProperties DEF TypeOK
<1>2. f \in Frame /\ f.pc = w BY MemFields DEF Frame
<1> HIDE DEF f
<1>3. <<f>> \in Seq(Frame) /\ Len(<<f>>) = 1 /\ <<f>>[1] = f BY <1>2
<1>4. /\ now \in Seq(Frame) /\ Len(now) = 1 + Len(frames)
      /\ \A k \in 1..(1 + Len(frames)) : now[k] = IF k <= 1 THEN <<f>>[k] ELSE frames[k - 1]
  BY <1>1, <1>3, ConcatProperties
<1> HIDE DEF now
<1>5. \A k \in 1..Len(now) : now[k].pc \in B
  <2> SUFFICES ASSUME NEW k \in 1..Len(now) PROVE now[k].pc \in B OBVIOUS
  <2>1. CASE k = 1 BY <1>1, <1>2, <1>3, <1>4, <2>1
  <2>2. CASE k # 1
    <3>1. k - 1 \in 1..Len(frames) /\ now[k] = frames[k - 1] BY <1>1, <1>4, <2>2
    <3> QED BY <3>1 DEF Within
  <2> QED BY <2>1, <2>2
<1>6. CASE PushWord(m, w).fault BY <1>6 DEF Entered, Within
<1>7. CASE ~ PushWord(m, w).fault /\ Len(frames) < MaxFrames
  BY <1>5, <1>7 DEF Entered, now, f
<1>8. CASE ~ PushWord(m, w).fault /\ ~ (Len(frames) < MaxFrames)
  <2>1. Entered(m, w) = SubSeq(now, 1, MaxFrames) BY <1>8 DEF Entered, now, f
  <2>2. MaxFrames \in Nat BY ConstAssumption DEF ConstAssumption
  <2>3. \A k \in 1..MaxFrames : k \in 1..Len(now) BY <1>1, <1>4, <1>8, <2>2
  <2>4. \A k \in 1..MaxFrames : now[k] \in Frame BY <1>4, <2>3, ElementOfSeq
  <2>5. /\ Len(SubSeq(now, 1, MaxFrames)) = IF 1 <= MaxFrames THEN MaxFrames - 1 + 1 ELSE 0
        /\ \A k \in 1..(MaxFrames - 1 + 1) : SubSeq(now, 1, MaxFrames)[k] = now[1 + k - 1]
    BY <2>2, <2>4, SubSeqProperties
  <2>6. /\ Len(Entered(m, w)) = MaxFrames
        /\ \A k \in 1..MaxFrames : Entered(m, w)[k] = now[k]
    BY <2>1, <2>2, <2>5
  <2> QED BY <1>5, <2>3, <2>6
<1> QED BY <1>6, <1>7, <1>8

LEMMA KeptWithin ==
  ASSUME NEW B, Within(B), NEW s
  PROVE  \A k \in 1..Len(Kept(s)) : Kept(s)[k].pc \in B
<1>1. CASE Kept(s) = <<>>
  <2>1. Len(<<>>) = 0 OBVIOUS
  <2> QED BY <1>1, <2>1
<1>2. CASE Kept(s) = frames BY <1>2 DEF Within
<1> QED BY <1>1, <1>2 DEF Kept

LEMMA TailWithin ==
  ASSUME TypeOK, NEW B, Within(B), frames # <<>>
  PROVE  /\ Head(frames).pc \in B
         /\ \A k \in 1..Len(Tail(frames)) : Tail(frames)[k].pc \in B
<1>1. frames \in Seq(Frame) BY DEF TypeOK
<1>2. /\ Len(frames) \in Nat /\ Len(frames) # 0
      /\ Len(Tail(frames)) = Len(frames) - 1
      /\ \A k \in 1..Len(Tail(frames)) : Tail(frames)[k] = frames[k + 1]
      /\ Head(frames) = frames[1]
  BY <1>1, HeadTailProperties, EmptySeq, LenProperties
<1>3. \A k \in 1..Len(Tail(frames)) : k + 1 \in 1..Len(frames) BY <1>2
<1>4. 1 \in 1..Len(frames) BY <1>2
<1> QED BY <1>2, <1>3, <1>4 DEF Within

(* A step keeps the history and pc in B, unless it is an unbalanced return. *)
LEMMA WithinStays ==
  ASSUME NEW B, Closed(B)
  PROVE  /\ Init => Within(B)
         /\ TypeOK /\ FramesOnStack /\ Within(B) /\ [Next]_vars /\ [Return => Balanced]_vars
              => Within(B)'
<1>1. Init => Within(B)
  BY DEF Init, Within, Closed
<1>2. TypeOK /\ FramesOnStack /\ Within(B) /\ [Next]_vars /\ [Return => Balanced]_vars
        => Within(B)'
  <2> SUFFICES ASSUME TypeOK, FramesOnStack, Within(B), [Next]_vars, [Return => Balanced]_vars
               PROVE  /\ phase' # "halted" => pc' \in B
                      /\ \A k \in 1..Len(frames') : frames'[k].pc \in B
    BY DEF Within
  <2>t. mem \in Mem /\ pc \in Word /\ frames \in Seq(Frame) /\ Cleared \in Mem
    BY Zenon DEF TypeOK, Cleared, Mem
  <2>1. CASE Service
    <3>1. PICK rx \in SUBSET PollVec :
            NothingToService(rx) \/ \E v \in Vectors : Dispatch(rx, v) \/ Discard(rx, v)
      BY <2>1 DEF Service
    <3>2. ASSUME NEW v \in Vectors, Dispatch(rx, v)
          PROVE  pc' \in B /\ \A k \in 1..Len(frames') : frames'[k].pc \in B
      <4>1. pc \in B BY <3>2 DEF Dispatch, Within
      <4>2. pc' \in B BY <3>2 DEF Dispatch, Closed
      <4>3. frames' = Entered(mem, pc) BY <3>2 DEF Dispatch
      <4> QED BY <2>t, <4>1, <4>2, <4>3, EnteredWithin
    <3>3. CASE phase = "top" /\ UNCHANGED <<pc, frames>> BY <3>3 DEF Within
    <3> QED BY <3>1, <3>2, <3>3 DEF NothingToService, Discard
  <2>2. CASE FetchError \/ UnknownOpcode
    BY <2>2 DEF FetchError, UnknownOpcode, Within
  <2>3. CASE Execute
    <3>1. PICK i \in InstrAt(pc) : Fetched(i) /\ Effect(i) BY <2>3 DEF Execute
    <3>2. /\ pc \in B /\ pc + 1 < FlashSize /\ NextPc(i) = Past(pc, i)
          /\ i \in Instr /\ NextPc(i) \in Word
      BY <2>t, <3>1, InstrType, NextPcType DEF Fetched, Within, NextPc, Past
    <3>3. /\ i.op \in {"jump", "call"} => i.num \in B
          /\ i.op \notin {"jump", "ret", "reti", "undefined", "bad"} => NextPc(i) \in B
      BY <3>1, <3>2 DEF Closed
    <3>4. \A m : Retire(m) => (phase' # "halted" => ~ m.fault) BY DEF Retire
    <3>5. CASE Plain(i) \/ WriteI(i) \/ Push(i) \/ WriteTimer(i) \/ WriteUart(i)
      BY <3>3, <3>5 DEF Plain, WriteI, Push, WriteTimer, WriteUart, Within
    <3>6. CASE Skip(i)
      <4>1. [mem EXCEPT !.fault = TRUE].fault = TRUE BY <2>t, Zenon DEF Mem
      <4>2. Retire([mem EXCEPT !.fault = TRUE]) => phase' = "halted" BY <4>1 DEF Retire
      <4>3. ASSUME NEW n \in InstrAt(NextPc(i)), n.op # "undefined",
                   NextPc(i) + 1 < FlashSize
            PROVE  (NextPc(i) + 2 * n.words) % (MaxWord + 1) \in B
        BY <3>1, <3>2, <3>6, <4>3 DEF Closed, Skip, Past
      <4>4. phase' # "halted" => pc' \in B BY <3>6, <4>2, <4>3 DEF Skip
      <4> QED BY <3>6, <4>4 DEF Skip, Within
    <3>7. CASE Pop(i) BY <3>3, <3>7, KeptWithin DEF Pop
    <3>8. CASE WriteSp(i) BY <3>3, <3>8, KeptWithin DEF WriteSp
    <3>9. CASE Call(i)
      <4>1. /\ NextPc(i) \in B /\ pc' \in B /\ frames' = Entered(Cleared, NextPc(i))
        BY <3>3, <3>9 DEF Call
      <4> QED BY <2>t, <3>2, <4>1, EnteredWithin
    <3>10. CASE Ret(i) \/ Reti(i)
      <4>1. Return BY <3>1, <3>10 DEF Return
      <4>2. vars' # vars BY <3>1, <3>10 DEF Fetched, Ret, Reti, Retire, vars
      <4>3. Balanced BY <4>1, <4>2
      <4>4. pc' = Head(frames).pc BY <4>1, <4>3, BalancedReturn
      <4>5. frames' = Tail(frames) /\ frames # <<>>
        BY <3>10, <4>3 DEF Ret, Reti, Left, Balanced
      <4> QED BY <4>4, <4>5, TailWithin
    <3>11. CASE BadAccess(i)
      <4>1. [mem EXCEPT !.fault = TRUE].fault = TRUE BY <2>t, Zenon DEF Mem
      <4> QED BY <3>11, <4>1 DEF BadAccess, Retire, Within
    <3> QED BY <3>1, <3>5, <3>6, <3>7, <3>8, <3>9, <3>10, <3>11 DEF Effect
  <2>4. CASE Tick BY <2>4 DEF Tick, Within
  <2>5. CASE UNCHANGED vars BY <2>5 DEF vars, Within
  <2> QED BY <2>1, <2>2, <2>3, <2>4, <2>5 DEF Next
<1> QED BY <1>1, <1>2

(* Firmware whose instructions, targets and skips lead only to addresses in B  *)
(* executes only what is there, through interrupts at any moment, nesting and  *)
(* stack faults, as long as its routines return with SP where they found it.   *)
(* So pc can get between instructions by an unbalanced return and in no other  *)
(* way.                                                                        *)
THEOREM OnlyFromB ==
  ASSUME NEW B, Closed(B)
  PROVE  Spec /\ [][Return => Balanced]_vars => [](phase # "halted" => pc \in B)
<1>1. /\ Init => Within(B)
      /\ TypeOK /\ FramesOnStack /\ Within(B) /\ [Next]_vars /\ [Return => Balanced]_vars
           => Within(B)'
  BY WithinStays
<1>2. Within(B) => (phase # "halted" => pc \in B)
  BY DEF Within
<1> QED BY <1>1, <1>2, TypeCorrect, FramesStay, PTL DEF Spec

-----------------------------------------------------------------------------
(* The executor, the controller and the peripherals together keep the promise  *)
(* of InterruptLine: a delivery uses up an event, with I set, and clears I.    *)
THEOREM Refinement == Spec => ImplementsInterruptLine
<1>1. Init => Line!LineInit
  BY DEF Init, Line!LineInit
<1>2. TypeOK /\ EachEventServedOnce /\ [Next]_vars => [Line!LineNext]_(Line!lineVars)
  <2> SUFFICES ASSUME TypeOK, EachEventServedOnce, [Next]_vars
               PROVE  Line!LineNext \/ UNCHANGED <<outstanding, ibit>>
    BY DEF Line!lineVars
  <2>1. CASE Service
    <3>1. PICK rx \in SUBSET PollVec :
            NothingToService(rx) \/ \E v \in Vectors : Dispatch(rx, v) \/ Discard(rx, v)
      BY <2>1 DEF Service
    <3>2. rx \in SUBSET Vectors
      BY ConstAssumption DEF ConstAssumption
    <3>3. Requests(rx) \subseteq outstanding \cup rx
      BY DEF EachEventServedOnce, Requests
    <3>4. CASE NothingToService(rx) \/ \E v \in Vectors : Discard(rx, v)
      <4>1. Line!Occur(rx) BY <3>4 DEF NothingToService, Discard, Line!Occur
      <4> QED BY <3>2, <4>1 DEF Line!LineNext
    <3>5. ASSUME NEW v \in Vectors, Dispatch(rx, v) PROVE Line!LineNext
      <4>1. Line!Deliver(v, rx) BY <3>3, <3>5 DEF Dispatch, Highest, Line!Deliver
      <4> QED BY <3>2, <4>1 DEF Line!LineNext
    <3> QED BY <3>1, <3>4, <3>5
  <2>2. CASE Execute
    <3>1. PICK i \in InstrAt(pc) : Fetched(i) /\ Effect(i) BY <2>2 DEF Execute
    <3>2. CASE WriteI(i) \/ Reti(i)
      <4>1. \E b \in BOOLEAN : Line!SetFlag(b)
        BY <3>2 DEF WriteI, Reti, Line!SetFlag
      <4> QED BY <4>1 DEF Line!LineNext
    <3>3. CASE WriteUart(i)
      <4>1. i.vecs \in SUBSET Vectors BY InstrType, InstrFields DEF TypeOK
      <4>2. Line!Occur(i.vecs) BY <3>3 DEF WriteUart, Line!Occur
      <4> QED BY <4>1, <4>2 DEF Line!LineNext
    <3> QED BY <3>1, <3>2, <3>3
            DEF Effect, Plain, Skip, Push, Pop, Call, Ret, WriteTimer, WriteSp, BadAccess
  <2>3. CASE Tick
    <3>1. PICK S \in SUBSET TimerVec : outstanding' = outstanding \cup S
      BY <2>3 DEF Tick
    <3>2. S \in SUBSET Vectors BY ConstAssumption DEF ConstAssumption
    <3>3. Line!Occur(S) BY <2>3, <3>1 DEF Tick, Line!Occur
    <3> QED BY <3>2, <3>3 DEF Line!LineNext
  <2> QED BY <2>1, <2>2, <2>3 DEF Next, FetchError, UnknownOpcode, vars
<1> QED BY <1>1, <1>2, TypeCorrect, ServedOnce, PTL DEF Spec, ImplementsInterruptLine, Line!LineSpec

-----------------------------------------------------------------------------
(* What an image makes firmware hold. *)

LEMMA WordIsW16 == Word = W16
<1>1. MaxWord + 1 = WordLimit BY SMT DEF MaxWord, WordLimit
<1>2. \A x : x \in Word <=> x \in Nat /\ x < MaxWord + 1 BY MaxWordNat DEF Word
<1>3. \A x : x \in W16 <=> x \in Nat /\ x < MaxWord + 1 BY <1>1 DEF W16
<1> QED BY <1>2, <1>3

LEMMA FormedWord ==
  ASSUME NEW n \in Int
  PROVE  n % (MaxWord + 1) \in Word
<1>1. MaxWord + 1 \in Nat /\ MaxWord + 1 > 0 BY MaxWordNat
<1>2. n % (MaxWord + 1) \in 0..((MaxWord + 1) - 1) BY <1>1
<1>3. (MaxWord + 1) - 1 = MaxWord BY MaxWordNat
<1> QED BY <1>2, <1>3 DEF Word

LEMMA LoadedWordType ==
  ASSUME NEW a \in Nat
  PROVE  LoadedWord(a) \in Word
<1>1. CASE a \in DOMAIN Listing
  BY <1>1, FlashAssumption, ElementOfSeq DEF FlashAssumption, LoadedWord
<1>2. CASE a \notin DOMAIN Listing /\ a \in SecondWords
  <2>1. PICK b \in DOMAIN Listing : Len(Listing[b]) = 2 /\ a = b + 2 BY <1>2 DEF SecondWords
  <2>2. b \in Nat /\ Listing[b] \in Seq(Word) BY FlashAssumption DEF FlashAssumption
  <2>3. a - 2 = b BY <2>1, <2>2
  <2>4. LoadedWord(a) = Listing[b][2] BY <1>2, <2>3 DEF LoadedWord
  <2> QED BY <2>1, <2>2, <2>4, ElementOfSeq, SMTT(30)
<1>3. CASE a \notin DOMAIN Listing /\ a \notin SecondWords
  <2>1. 0 \in Word BY MaxWordNat DEF Word
  <2> QED BY <1>3, <2>1 DEF LoadedWord
<1> QED BY <1>1, <1>2, <1>3

LEMMA FlashByteType ==
  ASSUME NEW a \in Nat
  PROVE  FlashByte(a) \in Byte
<1>1. CASE a >= FlashSize
  <2>1. 0 \in Byte BY DEF Byte
  <2> QED BY <1>1, <2>1 DEF FlashByte
<1>2. CASE ~ (a >= FlashSize) /\ a % 2 = 0
  BY <1>2, LoadedWordType, WordBytes DEF FlashByte
<1>3. CASE ~ (a >= FlashSize) /\ ~ (a % 2 = 0)
  <2>1. a - 1 \in Nat BY <1>3
  <2> QED BY <1>3, <2>1, LoadedWordType, WordBytes DEF FlashByte
<1> QED BY <1>1, <1>2, <1>3

LEMMA WordAtType ==
  ASSUME NEW a \in Nat
  PROVE  WordAt(a) \in Word
<1>1. FlashByte(a) \in Byte /\ FlashByte(a + 1) \in Byte BY FlashByteType
<1>2. \A h, l \in Byte : l + (256 * h) = (256 * h) + l BY DEF Byte
<1>3. WordAt(a) = (256 * FlashByte(a + 1)) + FlashByte(a) BY <1>1, <1>2 DEF WordAt
<1> QED BY <1>1, <1>3, BytesWord

(* What an instruction may do, as CodeAssumption has it. *)
Allowed(i) ==
  /\ i.op \in {"timsk", "tifr"} => i.vecs \subseteq TimerVec
  /\ i.op = "uart" => i.vecs \cap TimerVec = {}
Known == Ops \ {"undefined"}
Doings == {d \in [op : Known, num : Word, vecs : SUBSET Vectors] : Allowed(d)}

LEMMA DoesType ==
  /\ \A op \in Known, n \in Word : Does(op, n, {}) \in Doings
  /\ \A op \in {"timsk", "tifr"}, S \in SUBSET TimerVec : Does(op, 0, S) \in Doings
  /\ \A S \in SUBSET ({20, 21} \cap Vectors) : Does("uart", 0, S) \in Doings
  /\ 0 \in Word /\ Byte \subseteq Word /\ NoControl \in Doings
<1>1. 0 \in Word BY MaxWordNat DEF Word
<1>2. ASSUME NEW op \in Known, NEW n \in Word PROVE Does(op, n, {}) \in Doings
  BY <1>2 DEF Does, Doings, Allowed
<1>3. ASSUME NEW op \in {"timsk", "tifr"}, NEW S \in SUBSET TimerVec PROVE Does(op, 0, S) \in Doings
  <2>1. S \subseteq Vectors BY ConstAssumption DEF ConstAssumption
  <2>2. op \in Known BY DEF Known, Ops
  <2> QED BY <1>1, <2>1, <2>2 DEF Does, Doings, Allowed
<1>4. ASSUME NEW S \in SUBSET ({20, 21} \cap Vectors) PROVE Does("uart", 0, S) \in Doings
  <2>1. S \cap TimerVec = {} BY FlashAssumption DEF FlashAssumption
  <2>2. "uart" \in Known BY DEF Known, Ops
  <2> QED BY <1>1, <2>1, <2>2 DEF Does, Doings, Allowed
<1>5. Byte \subseteq Word
  <2>1. 255 <= MaxWord BY DEF MaxWord
  <2> QED BY <2>1, MaxWordNat DEF Byte, Word
<1>6. NoControl \in Doings
  <2>1. "plain" \in Known BY DEF Known, Ops
  <2> QED BY <1>1, <1>2, <2>1 DEF NoControl
<1> QED BY <1>1, <1>2, <1>3, <1>4, <1>5, <1>6

LEMMA StoresType ==
  ASSUME NEW a, NEW b \in Byte
  PROVE  Stores(a, b) \subseteq Doings /\ Stores(a, b) # {}
<1> DEFINE E1 == {Does(IF a = \h5D THEN "spl" ELSE "sph", b, {})}
           E2 == {Does(IF b >= 128 THEN "sei" ELSE "cli", 0, {})}
           E3 == {Does("timsk", 0, TimerVecs(Bits(b)))}
           E4 == {Does("tifr", 0, TimerVecs(Bits(b)))}
           E5 == {Does("uart", 0, IF 5 \in Bits(b) THEN {20} \cap Vectors ELSE {})}
           E6 == {Does("uart", 0, S) : S \in SUBSET ({20, 21} \cap Vectors)}
           E7 == {Does("bad", 0, {})}
<1>0. \A S : TimerVecs(S) \subseteq TimerVec BY DEF TimerVecs
<1>1. E1 \subseteq Doings BY DoesType DEF Known, Ops
<1>2. E2 \subseteq Doings BY DoesType DEF Known, Ops
<1>3. E3 \subseteq Doings /\ E4 \subseteq Doings BY DoesType, <1>0
<1>4. E5 \subseteq Doings BY DoesType
<1>5. E6 \subseteq Doings /\ E6 # {} BY DoesType
<1>6. E7 \subseteq Doings BY DoesType DEF Known, Ops
<1>7. {NoControl} \subseteq Doings BY DoesType
<1>8. Stores(a, b) \in {{NoControl}, E1, E2, E3, E4, E5, E6, E7} BY DEF Stores
<1>9. E1 # {} /\ E2 # {} /\ E3 # {} /\ E4 # {} /\ E5 # {} /\ E7 # {} /\ {NoControl} # {} OBVIOUS
<1> HIDE DEF E1, E2, E3, E4, E5, E6, E7
<1> QED BY <1>1, <1>2, <1>3, <1>4, <1>5, <1>6, <1>7, <1>8, <1>9

LEMMA StoresAnyType ==
  ASSUME NEW a
  PROVE  StoresAny(a) \subseteq Doings /\ StoresAny(a) # {}
<1>1. RegValues \subseteq Byte /\ RegValues # {} BY FlashAssumption DEF FlashAssumption
<1>2. \A b \in RegValues : Stores(a, b) \subseteq Doings /\ Stores(a, b) # {} BY <1>1, StoresType
<1> QED BY <1>1, <1>2 DEF StoresAny

LEMMA LoadsType ==
  ASSUME NEW a
  PROVE  Loads(a) \subseteq Doings /\ Loads(a) # {}
<1>1. "bad" \in Known BY DEF Known, Ops
<1> QED BY <1>1, DoesType DEF Loads

LEMMA TargetOperands ==
  ASSUME NEW call \in Calls, call.fn \in {"RJMP", "RCALL", "JMP", "CALL", "BRBS", "BRBC"}
  PROVE  call.args[1] \in Int
<1>1. Offsets \subseteq Int /\ LongAddresses \subseteq Int BY SMT DEF Offsets, LongAddresses
<1>2. \A S : S \subseteq Int => \A x \in OneOperand(S) : x[1] \in Int BY DEF OneOperand
<1>3. CASE call \in [fn : {"RJMP", "RCALL"}, args : OneOperand(Offsets)] BY <1>1, <1>2, <1>3
<1>4. CASE call \in [fn : {"JMP", "CALL"}, args : OneOperand(LongAddresses)] BY <1>1, <1>2, <1>4
<1>5. CASE call \in [fn : {"BRBS", "BRBC"}, args : (-64..63) \X (0..7)] BY <1>5
<1> QED BY <1>3, <1>4, <1>5
  DEF Calls, TwoRegisterFns, ConstantFns, OneRegisterFns, OneRegister, Through, NoOperandFns

(* A call of executeInstruction does something, and nothing but what CodeAssumption allows. *)
LEMMA EffectsType ==
  ASSUME NEW call \in Calls, NEW next \in Nat
  PROVE  Effects(call, next) \subseteq Doings /\ Effects(call, next) # {}
<1> DEFINE fn == call.fn
           x == call.args
           E == Effects(call, next)
           To(op, target) == Does(op, target % (MaxWord + 1), {})
<1>1. \A op \in {"jump", "call"}, n \in Int : To(op, n) \in Doings BY FormedWord, DoesType DEF Known, Ops
<1>2. fn \in {"RJMP", "RCALL", "JMP", "CALL", "BRBS", "BRBC"} => x[1] \in Int BY TargetOperands
<1>3. \A n \in Int : next + (2 * n) \in Int /\ 2 * n \in Int OBVIOUS
<1>4. Pointers # {} /\ \A z \in Pointers : z \in Int /\ 2 * z \in Int
  BY FlashAssumption, MaxWordNat DEF FlashAssumption, Word
<1>5. NoControl \in Doings BY DoesType
<1>6. \A op \in {"skip", "ret", "reti", "pop", "sei", "cli", "bad"} : Does(op, 0, {}) \in Doings
  BY DoesType DEF Known, Ops
<1> HIDE DEF To
<1>7. CASE fn = "RJMP"
  <2>1. E = {To("jump", next + (2 * x[1]))} BY <1>7 DEF Effects, To, SkipFns, LoadFns, StoreFns
  <2> QED BY <2>1, <1>1, <1>2, <1>3, <1>7
<1>8. CASE fn = "RCALL"
  <2>1. E = {To("call", next + (2 * x[1]))} BY <1>8 DEF Effects, To, SkipFns, LoadFns, StoreFns
  <2> QED BY <2>1, <1>1, <1>2, <1>3, <1>8
<1>9. CASE fn = "JMP"
  <2>1. E = {To("jump", 2 * x[1])} BY <1>9 DEF Effects, To, SkipFns, LoadFns, StoreFns
  <2> QED BY <2>1, <1>1, <1>2, <1>3, <1>9
<1>10. CASE fn = "CALL"
  <2>1. E = {To("call", 2 * x[1])} BY <1>10 DEF Effects, To, SkipFns, LoadFns, StoreFns
  <2> QED BY <2>1, <1>1, <1>2, <1>3, <1>10
<1>11. CASE fn = "IJMP"
  <2>1. E = {To("jump", 2 * z) : z \in Pointers} BY <1>11 DEF Effects, To, SkipFns, LoadFns, StoreFns
  <2> QED BY <2>1, <1>1, <1>4
<1>12. CASE fn = "ICALL"
  <2>1. E = {To("call", 2 * z) : z \in Pointers} BY <1>12 DEF Effects, To, SkipFns, LoadFns, StoreFns
  <2> QED BY <2>1, <1>1, <1>4
<1>13. CASE fn \in {"BRBS", "BRBC"}
  <2>1. E = {NoControl, To("jump", next + (2 * x[1]))} BY <1>13 DEF Effects, To, SkipFns, LoadFns, StoreFns
  <2> QED BY <2>1, <1>1, <1>2, <1>3, <1>5, <1>13
<1>14. CASE fn \in SkipFns
  <2>1. E = {NoControl, Does("skip", 0, {})} BY <1>14 DEF Effects, SkipFns, LoadFns, StoreFns
  <2> QED BY <2>1, <1>5, <1>6
<1>15. CASE fn \in {"RET", "RETI", "POP"}
  <2>1. E \in {{Does("ret", 0, {})}, {Does("reti", 0, {})}, {Does("pop", 0, {})}}
    BY <1>15 DEF Effects, SkipFns, LoadFns, StoreFns
  <2> QED BY <2>1, <1>6
<1>16. CASE fn = "PUSH"
  <2>1. E = {Does("push", b, {}) : b \in RegValues} BY <1>16 DEF Effects, SkipFns, LoadFns, StoreFns
  <2>2. "push" \in Known BY DEF Known, Ops
  <2>3. RegValues \subseteq Word /\ RegValues # {} BY FlashAssumption, DoesType DEF FlashAssumption
  <2> QED BY <2>1, <2>2, <2>3, DoesType
<1>17. CASE fn \in {"BSET", "BCLR"}
  <2>1. E \in {{Does("sei", 0, {})}, {Does("cli", 0, {})}, {NoControl}}
    BY <1>17 DEF Effects, SkipFns, LoadFns, StoreFns
  <2> QED BY <2>1, <1>5, <1>6
<1>18. CASE fn \in {"OUT", "STS"}
  <2>1. E \in {StoresAny(32 + x[1]), StoresAny(x[2])} BY <1>18 DEF Effects, SkipFns, LoadFns, StoreFns
  <2> QED BY <2>1, StoresAnyType
<1>19. CASE fn = "LDS"
  <2>1. E = Loads(x[2]) BY <1>19 DEF Effects, SkipFns, LoadFns, StoreFns
  <2> QED BY <2>1, LoadsType
<1>20. CASE fn = "LPM"
  <2>1. E = {IF z >= FlashSize THEN Does("bad", 0, {}) ELSE NoControl : z \in Pointers}
    BY <1>20 DEF Effects, SkipFns, LoadFns, StoreFns
  <2> QED BY <2>1, <1>4, <1>5, <1>6
<1>21. CASE fn \in {"SBI", "CBI"}
  <2>1. E = WritesBit(fn, x[1], x[2]) BY <1>21 DEF Effects, SkipFns, LoadFns, StoreFns
  <2>2. \A S \in SUBSET TimerVec : Does("tifr", 0, S) \in Doings BY DoesType
  <2> QED BY <2>1, <2>2, StoresAnyType DEF WritesBit
<1>22. CASE fn \in LoadFns
  <2>1. E = UNION {Loads(a) : a \in FormedAddresses(fn, x)} BY <1>22 DEF Effects, SkipFns, LoadFns, StoreFns
  <2>2. FormedAddresses(fn, x) # {} BY <1>4 DEF FormedAddresses
  <2> QED BY <2>1, <2>2, LoadsType
<1>23. CASE fn \in StoreFns
  <2>1. E = UNION {StoresAny(a) : a \in FormedAddresses(fn, x)}
    BY <1>23 DEF Effects, SkipFns, LoadFns, StoreFns
  <2>2. FormedAddresses(fn, x) # {} BY <1>4 DEF FormedAddresses
  <2> QED BY <2>1, <2>2, StoresAnyType
<1>24. CASE /\ fn \notin {"RJMP", "RCALL", "JMP", "CALL", "IJMP", "ICALL", "BRBS", "BRBC"}
            /\ fn \notin SkipFns \cup {"RET", "RETI", "POP", "PUSH", "BSET", "BCLR", "OUT", "STS"}
            /\ fn \notin {"LDS", "LPM", "SBI", "CBI"} \cup LoadFns \cup StoreFns
  <2>1. E = {NoControl} BY <1>24 DEF Effects
  <2> QED BY <2>1, <1>5
<1> HIDE DEF fn, x, E
<1> QED BY <1>7, <1>8, <1>9, <1>10, <1>11, <1>12, <1>13, <1>14, <1>15, <1>16, <1>17, <1>18,
           <1>19, <1>20, <1>21, <1>22, <1>23, <1>24 DEF E

-----------------------------------------------------------------------------
(* The loop on machine words. *)

(* Running words from flash is one way of running Executor, so that all that   *)
(* is proved of every firmware above holds of every image.                     *)
THEOREM FlashImplements == FlashSpec => Spec
<1>1. FlashInit => Init BY DEF FlashInit
<1>2. [FlashNext]_flashVars => [Next]_vars BY DEF FlashNext, flashVars
<1> QED BY <1>1, <1>2, PTL DEF Spec, FlashSpec

(* Every image is firmware that Executor may run: wherever the loop gets to,   *)
(* also between two instructions, in data or in flash that was never loaded,   *)
(* the words there make it do something, to a pc, a byte of SP and flags that  *)
(* there are, and no UART register write raises a vector of the timer.         *)
THEOREM ImagesAreFirmware ==
  /\ DOMAIN FlashCode \subseteq Word
  /\ \A a \in DOMAIN FlashCode : FlashCode[a] \subseteq Instr /\ FlashCode[a] # {}
  /\ \A a \in DOMAIN FlashCode : \A i \in FlashCode[a] :
       /\ i.op \in {"timsk", "tifr"} => i.vecs \subseteq TimerVec
       /\ i.op = "uart" => i.vecs \cap TimerVec = {}
<1>1. DOMAIN FlashCode = 0..(FlashSize - 2) BY DEF FlashCode
<1>2. 0..(FlashSize - 2) \subseteq Word
  <2>1. FlashSize \in Int /\ FlashSize <= MaxWord + 1 BY ConstAssumption, MaxWordNat DEF ConstAssumption
  <2> QED BY <2>1, MaxWordNat DEF Word
<1>3. \A d \in Doings, n \in {1, 2} : WithWords(d, n) \in Instr /\ Allowed(WithWords(d, n))
  <2> SUFFICES ASSUME NEW d \in Doings, NEW n \in {1, 2}
               PROVE  WithWords(d, n) \in Instr /\ Allowed(WithWords(d, n))
    OBVIOUS
  <2>1. d.op \in Ops /\ d.num \in Word /\ d.vecs \subseteq Vectors /\ Allowed(d)
    BY DEF Doings, Known
  <2>2. WithWords(d, n) \in Instr BY <2>1 DEF WithWords, Instr
  <2> QED BY <2>1, <2>2 DEF WithWords, Allowed
<1>4. ASSUME NEW a \in 0..(FlashSize - 2)
      PROVE  /\ InstructionsAt(a) # {}
             /\ \A i \in InstructionsAt(a) : i \in Instr /\ Allowed(i)
  <2>1. a \in Nat /\ a + 2 \in Nat BY <1>2, MaxWordNat DEF Word
  <2>2. WordAt(a) \in W16 /\ WordAt(a + 2) \in W16 BY <2>1, WordAtType, WordIsW16
  <2>3. CASE ~ Decodes(WordAt(a))
    <3>1. InstructionsAt(a) = {WithWords(Does("undefined", 0, {}), 1)} BY <2>3 DEF InstructionsAt
    <3>2. WithWords(Does("undefined", 0, {}), 1) \in Instr BY DoesType DEF WithWords, Does, Instr, Ops
    <3>3. Allowed(WithWords(Does("undefined", 0, {}), 1)) BY DEF Allowed, WithWords, Does
    <3> QED BY <3>1, <3>2, <3>3
  <2>4. CASE Decodes(WordAt(a))
    <3> DEFINE i == decodeInstruction(WordAt(a))
               call == executeInstruction(i, WordAt(a), WordAt(a + 2))
               next == (a + (2 * Words(i))) % (MaxWord + 1)
    <3>1. Words(i) \in {1, 2} BY <2>2, <2>4, FoundWords
    <3>2. call \in Calls BY <2>2, <2>4, DispatchInRange
    <3>3. next \in Nat
      <4> HIDE DEF i
      <4>1. a + (2 * Words(i)) \in Int BY <2>1, <3>1
      <4> QED BY <4>1, FormedWord, MaxWordNat DEF Word
    <3>4. InstructionsAt(a) = {WithWords(d, Words(i)) : d \in Effects(call, next)}
      BY <2>4 DEF InstructionsAt
    <3> HIDE DEF call, next, i
    <3>5. Effects(call, next) \subseteq Doings /\ Effects(call, next) # {} BY <3>2, <3>3, EffectsType
    <3> QED BY <3>1, <3>4, <3>5, <1>3
  <2> QED BY <2>3, <2>4
<1>5. \A a \in DOMAIN FlashCode : FlashCode[a] = InstructionsAt(a) BY DEF FlashCode
<1> QED BY <1>1, <1>2, <1>4, <1>5 DEF Allowed

(* SP stays in the stack area for every image that does not write it, through  *)
(* recursion, nested interrupts and dispatches whose push fails.               *)
THEOREM FlashStack == FlashSpec => []SpStaysInStack
BY FlashImplements, StackBounds, PTL

(* Where an instruction of the image may be: at its own address, which is even *)
(* and no second word, loaded or not.                                          *)
InstructionAddresses == {a \in Word : a % 2 = 0 /\ a \notin SecondWords}

(* An image whose targets are instructions and whose skips land on one         *)
(* executes only what was assembled as an instruction, as long as its routines *)
(* return with SP where they found it.                                         *)
THEOREM OnlyAssembled ==
  ASSUME Closed(InstructionAddresses)
  PROVE  FlashSpec /\ [][Return => Balanced]_vars => []OnlyInstructionsExecute
<1> DEFINE B == InstructionAddresses
<1>1. /\ Init => Within(B)
      /\ TypeOK /\ FramesOnStack /\ Within(B) /\ [Next]_vars /\ [Return => Balanced]_vars
           => Within(B)'
  BY WithinStays
<1>2. Within(B) => OnlyInstructionsExecute
  BY DEF Within, InstructionAddresses, OnlyInstructionsExecute
<1> QED BY <1>1, <1>2, FlashImplements, TypeCorrect, FramesStay, PTL DEF Spec

-----------------------------------------------------------------------------
(* The words of an image executed by Registers.  Its decoder is this one.      *)

Regs == INSTANCE Registers WITH Half <- 16

LEMMA SameTable == Regs!OPCODE_TABLE = OPCODE_TABLE
<1>1. \A m, c, op, fmt, n : Regs!Row(m, c, op, fmt, n) = Row(m, c, op, fmt, n) BY DEF Regs!Row, Row
<1>2. Regs!Arithmetic = Arithmetic BY DEF Regs!Arithmetic, Arithmetic, Regs!Row, Row
<1>3. Regs!Logic = Logic BY DEF Regs!Logic, Logic, Regs!Row, Row
<1>4. Regs!ShiftRotate = ShiftRotate BY DEF Regs!ShiftRotate, ShiftRotate, Regs!Row, Row
<1>5. Regs!Comparisons = Comparisons BY DEF Regs!Comparisons, Comparisons, Regs!Row, Row
<1>6. Regs!DataTransfer = DataTransfer BY DEF Regs!DataTransfer, DataTransfer, Regs!Row, Row
<1>7. Regs!BranchJumpCall = BranchJumpCall
  BY DEF Regs!BranchJumpCall, BranchJumpCall, Regs!Row, Row
<1>8. Regs!Skips = Skips BY DEF Regs!Skips, Skips, Regs!Row, Row
<1>9. Regs!BitManipulation = BitManipulation
  BY DEF Regs!BitManipulation, BitManipulation, Regs!Row, Row
<1>10. Regs!McuControl = McuControl BY DEF Regs!McuControl, McuControl, Regs!Row, Row
<1> QED BY ONLY <1>2, <1>3, <1>4, <1>5, <1>6, <1>7, <1>8, <1>9, <1>10
        DEF Regs!OPCODE_TABLE, OPCODE_TABLE

LEMMA SameMatches ==
  ASSUME NEW w
  PROVE  /\ Regs!Decodes(w) = Decodes(w)
         /\ Regs!decodeInstruction(w) = decodeInstruction(w)
<1>1. Regs!Rows = Rows BY SameTable DEF Regs!Rows, Rows
<1>2. \A n : Regs!Bits(n) = Bits(n) BY DEF Regs!Bits, Bits
<1>3. \A row, unit, byte : Regs!Asks(row, unit, byte) = Asks(row, unit, byte)
  BY <1>2, ZenonT(30) DEF Regs!Asks, Asks
<1>4. Regs!ByteMatches = ByteMatches
  <2> DEFINE there(unit) == [byte \in 0..255 |->
                 {i \in Regs!Rows : Regs!Asks(Regs!OPCODE_TABLE[i], unit, byte)}]
             here(unit) == [byte \in 0..255 |-> {i \in Rows : Asks(OPCODE_TABLE[i], unit, byte)}]
  <2>1. \A unit, byte : {i \in Regs!Rows : Regs!Asks(Regs!OPCODE_TABLE[i], unit, byte)}
                         = {i \in Rows : Asks(OPCODE_TABLE[i], unit, byte)}
    BY ONLY <1>1, <1>3, SameTable
  <2>2. \A unit : there(unit) = here(unit) BY ONLY <2>1, ZenonT(30)
  <2>3. Regs!ByteMatches = [unit \in {1, 256} |-> there(unit)] BY ONLY Zenon DEF Regs!ByteMatches
  <2>4. ByteMatches = [unit \in {1, 256} |-> here(unit)] BY ONLY Zenon DEF ByteMatches
  <2> HIDE DEF there, here
  <2> QED BY ONLY <2>2, <2>3, <2>4
<1>5. Regs!Matches(w) = Matches(w)
  BY <1>4, ZenonT(30) DEF Regs!Matches, Matches, Regs!BothBytes, BothBytes
<1>6. \A S : Regs!First(S) = First(S) BY DEF Regs!First, First
<1> QED
  BY <1>5, <1>6, ZenonT(30)
  DEF Regs!Decodes, Decodes, Regs!decodeInstruction, decodeInstruction

LEMMA SameCalls ==
  ASSUME NEW i, NEW w, NEW s
  PROVE  /\ Regs!Words(i) = Words(i)
         /\ Regs!executeInstruction(i, w, s) = executeInstruction(i, w, s)
<1>1. Regs!Words(i) = Words(i) BY SameTable DEF Regs!Words, Words
<1>2. \A op, fmt : Regs!Handler(op, fmt) = Handler(op, fmt)
  BY DEF Regs!Handler, Handler, Regs!SetsBit, SetsBit, Regs!ClearsBit, ClearsBit, Regs!BranchesIfSet,
         BranchesIfSet, Regs!BranchesIfClear, BranchesIfClear, Regs!SameAs, SameAs, Regs!Displaced,
         Displaced
<1>3. \A v, lo, n : Regs!Field(v, lo, n) = Field(v, lo, n) BY DEF Regs!Field, Field
<1>4. \A op, fmt : Regs!DecodedOperands(op, fmt, w, s) = DecodedOperands(op, fmt, w, s)
  BY DEF Regs!DecodedOperands, DecodedOperands, Regs!SetsBit, SetsBit, Regs!ClearsBit, ClearsBit,
         Regs!decodeBOnly, decodeBOnly, Regs!decodeRdRr, decodeRdRr, Regs!decodeRdK8, decodeRdK8,
         Regs!decodeRd, decodeRd, Regs!decodeRdRrMpy, decodeRdRrMpy, Regs!decodeRd06K6, decodeRd06K6,
         Regs!decodeRd06Rr06, decodeRd06Rr06, Regs!decodeRdB, decodeRdB, Regs!decodeIOB, decodeIOB,
         Regs!decodeRdIO, decodeRdIO, Regs!decodeIORr, decodeIORr, Regs!decodeK7, decodeK7,
         Regs!decodeK02, decodeK02, Regs!decodeK22, decodeK22, Regs!decodeLdSt, decodeLdSt,
         Regs!decodeLdd, decodeLdd, Regs!decodeLdsSts, decodeLdsSts, Regs!Field, Field,
         Regs!SignExtended, SignExtended
<1> QED BY <1>1, <1>2, <1>4, SameTable DEF Regs!executeInstruction, executeInstruction

(* A row of one word does not look at the next. *)
LEMMA SecondWordUnread ==
  ASSUME NEW w \in W16, Decodes(w), Words(decodeInstruction(w)) = 1, NEW s, NEW t
  PROVE  executeInstruction(decodeInstruction(w), w, s) = executeInstruction(decodeInstruction(w), w, t)
<1> DEFINE row == OPCODE_TABLE[decodeInstruction(w)]
<1>1. row \in WellFormedRows BY FoundRow
<1>2. row[5] = 1 BY DEF Words
<1> HIDE DEF row
<1>3. \A ops, fmt, n : row \in Form(ops, fmt, n) => row[4] = fmt /\ row[5] = n BY DEF Form
<1>4. row[4] \notin {"k22", "k22_call", "LDS_STS"} BY <1>1, <1>2, <1>3 DEF WellFormedRows
<1>5. \A op, fmt : fmt \notin {"k22", "k22_call", "LDS_STS"} =>
        DecodedOperands(op, fmt, w, s) = DecodedOperands(op, fmt, w, t)
  BY DEF DecodedOperands
<1>6. DecodedOperands(row[3], row[4], w, s) = DecodedOperands(row[3], row[4], w, t) BY <1>4, <1>5
<1> QED BY <1>6 DEF executeInstruction, row

(* Two machines that are at the same place in the program. *)
Alike(m, n) == n.pc = m.pc /\ n.i = m.i /\ n.fault = m.fault

Parts == {"pc", "r", "f", "t", "i", "flash", "fault"}

LEMMA MachineShape == \A m \in Regs!Machine : DOMAIN m = Parts
BY DEF Regs!Machine, Parts

LEMMA UpdatesAlike ==
  ASSUME NEW m, DOMAIN m = Parts
  PROVE  /\ \A d, b : Alike(m, Regs!Put(m, d, b))
         /\ \A d, o : Alike(m, Regs!PutResult(m, d, o))
         /\ \A d, w : Alike(m, Regs!writeRegWord(m, d, w))
         /\ \A d, o : Alike(m, Regs!PutWordResult(m, d, o))
         /\ \A g : Alike(m, [m EXCEPT !.f = g])
         /\ \A d, S : Alike(m, Regs!Logical(m, d, S))
         /\ \A d, b : Alike(m, Regs!BST(m, d, b))
         /\ Alike(m, Regs!SPM(m)) /\ Alike(m, m)
<1>1. {"pc", "i", "fault", "r", "f", "t", "flash"} \subseteq DOMAIN m BY DEF Parts
<1>2. \A d, b : Alike(m, Regs!Put(m, d, b)) BY <1>1 DEF Alike, Regs!Put
<1>3. \A d, o : Alike(m, Regs!PutResult(m, d, o)) BY <1>1 DEF Alike, Regs!PutResult
<1>4. \A d, w : Alike(m, Regs!writeRegWord(m, d, w)) BY <1>1 DEF Alike, Regs!writeRegWord
<1>5. \A d, o : Alike(m, Regs!PutWordResult(m, d, o))
  BY <1>1 DEF Alike, Regs!PutWordResult, Regs!writeRegWord
<1>6. \A g : Alike(m, [m EXCEPT !.f = g]) BY <1>1 DEF Alike
<1>7. \A d, S : Alike(m, Regs!Logical(m, d, S)) BY <1>3 DEF Regs!Logical
<1>8. \A d, b : Alike(m, Regs!BST(m, d, b)) BY <1>1 DEF Alike, Regs!BST, Regs!putFlag
<1>9. Alike(m, Regs!SPM(m)) BY <1>1 DEF Alike, Regs!SPM
<1> QED BY <1>2, <1>3, <1>4, <1>5, <1>6, <1>7, <1>8, <1>9 DEF Alike

Arithmetics ==
  {"ADD", "ADC", "SUB", "SUBI", "SBC", "SBCI", "INC", "DEC", "COM", "NEG", "LSR", "ASR", "ROR"}
Products == {"ADIW", "SBIW", "MUL", "MULS", "MULSU", "FMUL", "FMULS", "FMULSU"}
Logicals == {"AND", "ANDI", "OR", "ORI", "EOR"}
Moves == {"SER", "SWAP", "MOV", "LDI", "BLD"}
QuietFns ==
  Arithmetics \cup Products \cup Logicals \cup Moves
    \cup {"CP", "CPI", "CPC", "MOVW", "BST", "SPM_E", "NOP", "SLEEP", "WDR", "BREAK"}

(* Arithmetic, logic and moves change neither pc nor I and never fault. *)
LEMMA QuietControl ==
  ASSUME NEW m \in Regs!Machine, NEW call, call.fn \in QuietFns
  PROVE  Alike(m, Regs!Perform(call, m))
<1> DEFINE n == Regs!Perform(call, m)
<1> USE MachineShape
<1>1. CASE call.fn \in Arithmetics
  <2>1. \E d, o : n = Regs!PutResult(m, d, o) BY <1>1, ZenonT(30) DEF Regs!Perform, Arithmetics
  <2> QED BY <2>1, UpdatesAlike
<1>2. CASE call.fn \in Products
  <2>1. \E d, o : n = Regs!PutWordResult(m, d, o) BY <1>2 DEF Regs!Perform, Products
  <2> QED BY <2>1, UpdatesAlike
<1>3. CASE call.fn \in Logicals
  <2>1. \E d, S : n = Regs!Logical(m, d, S)
    BY <1>3 DEF Regs!Perform, Logicals, Regs!AND, Regs!OR, Regs!EOR
  <2> QED BY <2>1, UpdatesAlike
<1>4. CASE call.fn \in Moves
  <2>1. \E d, b : n = Regs!Put(m, d, b) BY <1>4 DEF Regs!Perform, Moves, Regs!SWAP, Regs!BLD
  <2> QED BY <2>1, UpdatesAlike
<1>5. CASE call.fn \in {"CP", "CPI", "CPC"}
  <2>1. \E g : n = [m EXCEPT !.f = g] BY <1>5 DEF Regs!Perform
  <2> QED BY <2>1, UpdatesAlike
<1>6. CASE call.fn = "MOVW"
  <2>1. \E d, w : n = Regs!writeRegWord(m, d, w) BY <1>6 DEF Regs!Perform
  <2> QED BY <2>1, UpdatesAlike
<1>7. CASE call.fn = "BST"
  <2>1. \E d, b : n = Regs!BST(m, d, b) BY <1>7 DEF Regs!Perform
  <2> QED BY <2>1, UpdatesAlike
<1>8. CASE call.fn \in {"SPM_E", "NOP", "SLEEP", "WDR", "BREAK"}
  <2>1. n \in {m, Regs!SPM(m)} BY <1>8 DEF Regs!Perform
  <2> QED BY <2>1, UpdatesAlike
<1> HIDE DEF n
<1> QED BY <1>1, <1>2, <1>3, <1>4, <1>5, <1>6, <1>7, <1>8 DEF QuietFns, n

RegisterFns ==
  QuietFns \cup {"BSET", "BCLR", "LPM", "BRBS", "BRBC", "RJMP", "JMP", "IJMP", "CPSE", "SBRC", "SBRS"}

(* What Executor makes of d is what became of m, whose pc is past the instruction. *)
Describes(d, m, n) ==
  \/ d = NoControl /\ Alike(m, n)
  \/ d.op = "jump" /\ n.pc = d.num /\ n.i = m.i /\ n.fault = m.fault
  \/ d.op = "skip" /\ n = Regs!skipNextInstruction(m)
  \/ d.op \in {"sei", "cli"} /\ n.pc = m.pc /\ n.i = (d.op = "sei") /\ n.fault = m.fault
  \/ d.op = "bad" /\ n.pc = m.pc /\ n.i = m.i /\ n.fault = TRUE

LEMMA PcWraps == Regs!PcBase = MaxWord + 1
BY SMT DEF Regs!PcBase, MaxWord

LEMMA JumpDescribed ==
  ASSUME NEW m \in Regs!Machine, NEW target
  PROVE  Describes(Does("jump", target % (MaxWord + 1), {}), m, Regs!Jump(m, target))
<1>1. Regs!Jump(m, target) = [m EXCEPT !.pc = target % (MaxWord + 1)] BY PcWraps DEF Regs!Jump
<1>2. {"pc", "i", "fault"} \subseteq DOMAIN m BY MachineShape DEF Parts
<1> QED BY <1>1, <1>2 DEF Describes, Does

LEMMA FlagsDescribed ==
  ASSUME NEW m \in Regs!Machine, NEW call, call.fn \in {"BSET", "BCLR"}, NEW next
  PROVE  \E d \in Effects(call, next) : Describes(d, m, Regs!Perform(call, m))
<1> DEFINE n == Regs!Perform(call, m)
           b == call.args[1]
<1>1. {"pc", "i", "fault", "f", "t"} \subseteq DOMAIN m BY MachineShape DEF Parts
<1>2. n = Regs!putFlag(m, b, call.fn = "BSET") BY DEF Regs!Perform
<1>3. CASE b = 7
  <2>1. n = [m EXCEPT !.i = (call.fn = "BSET")] BY <1>2, <1>3 DEF Regs!putFlag
  <2>2. CASE call.fn = "BSET"
    <3>1. Effects(call, next) = {Does("sei", 0, {})}
      BY <1>3, <2>2 DEF Effects, SkipFns, LoadFns, StoreFns
    <3> QED BY <1>1, <2>1, <2>2, <3>1 DEF Describes, Does
  <2>3. CASE call.fn = "BCLR"
    <3>1. Effects(call, next) = {Does("cli", 0, {})}
      BY <1>3, <2>3 DEF Effects, SkipFns, LoadFns, StoreFns
    <3> QED BY <1>1, <2>1, <2>3, <3>1 DEF Describes, Does
  <2> QED BY <2>2, <2>3
<1>4. CASE b # 7
  <2>1. Effects(call, next) = {NoControl} BY <1>4 DEF Effects, SkipFns, LoadFns, StoreFns
  <2>2. Alike(m, n) BY <1>1, <1>2, <1>4 DEF Alike, Regs!putFlag
  <2> QED BY <2>1, <2>2 DEF Describes
<1> QED BY <1>3, <1>4

LEMMA LpmDescribed ==
  ASSUME NEW m \in Regs!Machine, Regs!readRegWord(m, 30) \in Pointers,
         NEW call, call.fn = "LPM", NEW next
  PROVE  \E d \in Effects(call, next) : Describes(d, m, Regs!Perform(call, m))
<1> DEFINE n == Regs!Perform(call, m)
           z == Regs!readRegWord(m, 30)
           reg == call.args[1]
           loaded == Regs!Put(m, reg, m.flash[z])
<1>1. Effects(call, next) =
        {IF p >= FlashSize THEN Does("bad", 0, {}) ELSE NoControl : p \in Pointers}
  BY DEF Effects, SkipFns, LoadFns, StoreFns
<1>2. n = Regs!LPM(m, reg, call.args[2]) BY DEF Regs!Perform
<1>3. CASE z >= FlashSize
  <2>1. n = Regs!Faulted(m) BY <1>2, <1>3 DEF Regs!LPM
  <2>2. {"pc", "i", "fault"} \subseteq DOMAIN m BY MachineShape DEF Parts
  <2>3. Describes(Does("bad", 0, {}), m, n) BY <2>1, <2>2 DEF Describes, Does, Regs!Faulted
  <2>4. Does("bad", 0, {}) \in Effects(call, next) BY <1>1, <1>3
  <2> QED BY <2>3, <2>4
<1>4. CASE ~ (z >= FlashSize)
  <2>1. DOMAIN m = Parts BY MachineShape
  <2>2. Alike(m, loaded) BY <2>1, UpdatesAlike
  <2>3. DOMAIN loaded = Parts BY <2>1 DEF Regs!Put
  <2>4. \A d, w : Alike(loaded, Regs!writeRegWord(loaded, d, w)) BY <2>3, UpdatesAlike
  <2>5. n = loaded \/ \E d, w : n = Regs!writeRegWord(loaded, d, w) BY <1>2, <1>4 DEF Regs!LPM
  <2> HIDE DEF n, loaded
  <2>6. Alike(m, n) BY <2>2, <2>4, <2>5 DEF Alike
  <2>7. NoControl \in Effects(call, next) BY <1>1, <1>4
  <2> QED BY <2>6, <2>7 DEF Describes, n
<1> QED BY <1>3, <1>4

(* Whatever a call does to a machine is one of the effects that Flash lists. *)
LEMMA Described ==
  ASSUME NEW m \in Regs!Machine, NEW call, call.fn \in RegisterFns,
         call.fn \in {"LPM", "IJMP"} => Regs!readRegWord(m, 30) \in Pointers
  PROVE  \E d \in Effects(call, m.pc) : Describes(d, m, Regs!Perform(call, m))
<1> DEFINE n == Regs!Perform(call, m)
           E == Effects(call, m.pc)
           k == call.args[1]
<1>0. Describes(NoControl, m, m) BY DEF Describes, Alike
<1>1. CASE call.fn \in QuietFns
  <2>1. E = {NoControl}
    BY <1>1 DEF Effects, SkipFns, LoadFns, StoreFns, QuietFns, Arithmetics, Products, Logicals, Moves
  <2> QED BY <1>1, <2>1, QuietControl DEF Describes
<1>2. CASE call.fn \in {"BSET", "BCLR"} BY <1>2, FlagsDescribed, SMTT(30)
<1>3. CASE call.fn = "LPM" BY <1>3, LpmDescribed
<1>4. CASE call.fn \in {"BRBS", "BRBC"}
  <2>1. E = {NoControl, Does("jump", (m.pc + (2 * k)) % (MaxWord + 1), {})}
    BY <1>4 DEF Effects, SkipFns, LoadFns, StoreFns
  <2>2. n \in {m, Regs!Jump(m, m.pc + (2 * k))} BY <1>4 DEF Regs!Perform, Regs!Branch
  <2> HIDE DEF n, k
  <2> QED BY <1>0, <2>1, <2>2, JumpDescribed DEF n
<1>5. CASE call.fn = "RJMP"
  <2>1. E = {Does("jump", (m.pc + (2 * k)) % (MaxWord + 1), {})}
    BY <1>5 DEF Effects, SkipFns, LoadFns, StoreFns
  <2>2. n = Regs!Jump(m, m.pc + (2 * k)) BY <1>5 DEF Regs!Perform
  <2> QED BY <2>1, <2>2, JumpDescribed
<1>6. CASE call.fn = "JMP"
  <2>1. E = {Does("jump", (2 * k) % (MaxWord + 1), {})}
    BY <1>6 DEF Effects, SkipFns, LoadFns, StoreFns
  <2>2. n = Regs!Jump(m, 2 * k) BY <1>6 DEF Regs!Perform
  <2> QED BY <2>1, <2>2, JumpDescribed
<1>7. CASE call.fn = "IJMP"
  <2> DEFINE z == Regs!readRegWord(m, 30)
  <2>1. E = {Does("jump", (2 * p) % (MaxWord + 1), {}) : p \in Pointers}
    BY <1>7 DEF Effects, SkipFns, LoadFns, StoreFns
  <2>2. n = Regs!Jump(m, 2 * z) BY <1>7 DEF Regs!Perform
  <2>3. z \in Pointers BY <1>7
  <2> HIDE DEF z, n, E
  <2>4. Does("jump", (2 * z) % (MaxWord + 1), {}) \in E BY <2>1, <2>3
  <2> QED BY <2>2, <2>4, JumpDescribed DEF E, n
<1>8. CASE call.fn \in {"CPSE", "SBRC", "SBRS"}
  <2>1. E = {NoControl, Does("skip", 0, {})} BY <1>8 DEF Effects, SkipFns, LoadFns, StoreFns
  <2>2. n \in {m, Regs!skipNextInstruction(m)} BY <1>8 DEF Regs!Perform, Regs!SkipIf
  <2>3. Describes(Does("skip", 0, {}), m, Regs!skipNextInstruction(m)) BY DEF Describes, Does
  <2> QED BY <1>0, <2>1, <2>2, <2>3
<1> QED BY <1>1, <1>2, <1>3, <1>4, <1>5, <1>6, <1>7, <1>8 DEF RegisterFns

LEMMA DecodedInstructions ==
  ASSUME NEW a \in Nat, Decodes(WordAt(a))
  PROVE  /\ InstructionsAt(a) # {}
         /\ \A y \in InstructionsAt(a) :
              y.words = Words(decodeInstruction(WordAt(a))) /\ y.op # "undefined"
<1> DEFINE i == decodeInstruction(WordAt(a))
           call == executeInstruction(i, WordAt(a), WordAt(a + 2))
           next == (a + (2 * Words(i))) % (MaxWord + 1)
<1>1. WordAt(a) \in W16 /\ WordAt(a + 2) \in W16 BY WordAtType, WordIsW16
<1>2. Words(i) \in {1, 2} /\ call \in Calls BY <1>1, FoundWords, DispatchInRange
<1>3. InstructionsAt(a) = {WithWords(d, Words(i)) : d \in Effects(call, next)} BY DEF InstructionsAt
<1>4. next \in Nat
  <2> HIDE DEF i
  <2>1. a + (2 * Words(i)) \in Int BY <1>2
  <2> QED BY <2>1, FormedWord, MaxWordNat DEF Word
<1> HIDE DEF call, next
<1>5. Effects(call, next) \subseteq Doings /\ Effects(call, next) # {} BY <1>2, <1>4, EffectsType
<1>6. \A d \in Doings : \A k : WithWords(d, k).words = k /\ WithWords(d, k).op # "undefined"
  BY DEF WithWords, Doings, Known
<1> HIDE DEF i
<1> QED BY <1>3, <1>5, <1>6 DEF i

(* The flash of m is the image. *)
Holds(m) == m.flash = [a \in 0..(FlashSize - 1) |-> FlashByte(a)]

LEMMA FetchedWord ==
  ASSUME NEW m, Holds(m), NEW a \in Nat, a + 1 < FlashSize
  PROVE  Regs!FlashWord(m, a) = WordAt(a)
<1>1. FlashSize \in Int BY ConstAssumption, MaxWordNat DEF ConstAssumption
<1>2. a \in 0..(FlashSize - 1) /\ a + 1 \in 0..(FlashSize - 1) BY <1>1
<1>3. m.flash[a] = FlashByte(a) /\ m.flash[a + 1] = FlashByte(a + 1) BY <1>2 DEF Holds
<1> QED BY <1>3 DEF Regs!FlashWord, WordAt

(* Where a skip over the instruction at pc goes is where Skip goes. *)
LEMMA SkipSame ==
  ASSUME Code = FlashCode, NEW m \in Regs!Machine, Holds(m), m.fault = FALSE,
         NEW n, n = Regs!skipNextInstruction(m),
         NEW i, i.op = "skip", NextPc(i) = m.pc,
         pc' = n.pc, ibit = m.i, ibit' = n.i, mem' = [mem EXCEPT !.fault = n.fault],
         phase' = IF n.fault THEN "halted" ELSE "tick",
         mem \in Mem, UNCHANGED <<pending, timsk, tifr, outstanding, frames>>
  PROVE  Skip(i)
<1>1. m.pc \in Nat /\ m.pc \in Word
  <2>1. m.pc \in 0..(Regs!PcBase - 1) BY DEF Regs!Machine
  <2>2. Regs!PcBase - 1 = MaxWord BY PcWraps, MaxWordNat
  <2> QED BY <2>1, <2>2, MaxWordNat DEF Word
<1>2. FlashSize \in Int BY ConstAssumption, MaxWordNat DEF ConstAssumption
<1>3. {"pc", "i", "fault"} \subseteq DOMAIN m BY MachineShape DEF Parts
<1>4. \A f \in BOOLEAN : [mem EXCEPT !.fault = f].fault = f BY DEF Mem
<1>5. ASSUME n = Regs!Faulted(m)
      PROVE  /\ pc' = NextPc(i) /\ ibit' = ibit /\ Retire([mem EXCEPT !.fault = TRUE])
  BY <1>3, <1>4, <1>5 DEF Regs!Faulted, Retire
<1>6. CASE m.pc + 1 >= FlashSize
  <2>1. n = Regs!Faulted(m) BY <1>6 DEF Regs!skipNextInstruction
  <2> QED BY <1>5, <1>6, <2>1 DEF Skip
<1>7. CASE ~ (m.pc + 1 >= FlashSize)
  <2>1. m.pc + 1 < FlashSize BY <1>1, <1>2, <1>7
  <2>2. Regs!FlashWord(m, m.pc) = WordAt(m.pc) BY <1>1, <2>1, FetchedWord
  <2>3. m.pc \in 0..(FlashSize - 2) BY <1>1, <1>2, <2>1
  <2>4. InstrAt(m.pc) = InstructionsAt(m.pc) BY <2>3 DEF InstrAt, FlashCode
  <2>5. CASE ~ Decodes(WordAt(m.pc))
    <3>1. n = Regs!Faulted(m) BY <2>2, <2>5, SameMatches DEF Regs!skipNextInstruction
    <3>2. InstrAt(m.pc) = {WithWords(Does("undefined", 0, {}), 1)} BY <2>4, <2>5 DEF InstructionsAt
    <3>3. \E y \in InstrAt(NextPc(i)) : y.op = "undefined" BY <3>2 DEF WithWords, Does
    <3> QED BY <1>5, <2>1, <3>1, <3>3 DEF Skip
  <2>6. CASE Decodes(WordAt(m.pc))
    <3> DEFINE k == Words(decodeInstruction(WordAt(m.pc)))
    <3>1. n = Regs!Jump(m, m.pc + (2 * k))
      BY <1>7, <2>2, <2>6, SameMatches, SameCalls DEF Regs!skipNextInstruction
    <3>2. PICK y \in InstructionsAt(m.pc) : y.words = k /\ y.op # "undefined"
      BY <1>1, <2>6, DecodedInstructions
    <3> HIDE DEF k
    <3>3. n = [m EXCEPT !.pc = (m.pc + (2 * k)) % (MaxWord + 1)] BY <3>1, PcWraps DEF Regs!Jump
    <3>4. n.pc = (m.pc + (2 * k)) % (MaxWord + 1) /\ n.i = m.i /\ n.fault = FALSE BY <1>3, <3>3
    <3>5. Retire(Cleared) BY <1>4, <3>4 DEF Retire, Cleared
    <3>6. pc' = (NextPc(i) + 2 * y.words) % (MaxWord + 1) BY <3>2, <3>4
    <3>7. y \in InstrAt(NextPc(i)) BY <2>4
    <3> QED BY <2>1, <3>2, <3>4, <3>5, <3>6, <3>7 DEF Skip
  <2> QED BY <2>5, <2>6
<1> QED BY <1>6, <1>7

(* A turn of the machine in Registers.tla, which has the values of registers   *)
(* and flags, is a step of the loop in Executor.tla on the same image, which   *)
(* has not: pc, I and the fault become what one of the choices allows, whether *)
(* it branches, skips, jumps through Z or only computes.                       *)
THEOREM TurnsExecute ==
  ASSUME Code = FlashCode, TypeOK, phase = "fetch",
         NEW m \in Regs!Machine, Holds(m), m.fault = FALSE, m.pc = pc, m.i = ibit,
         pc + 1 < FlashSize, Decodes(WordAt(pc)),
         Words(decodeInstruction(WordAt(pc))) = 2 => pc + 3 < FlashSize,
         NEW call,
         call = executeInstruction(decodeInstruction(WordAt(pc)), WordAt(pc), WordAt(pc + 2)),
         call.fn \in RegisterFns,
         call.fn \in {"LPM", "IJMP"} => Regs!readRegWord(m, 30) \in Pointers,
         NEW n, n = Regs!Turn(m),
         pc' = n.pc, ibit' = n.i, mem' = [mem EXCEPT !.fault = n.fault],
         phase' = IF n.fault THEN "halted" ELSE "tick",
         UNCHANGED <<pending, timsk, tifr, outstanding, frames>>
  PROVE  Execute
<1> DEFINE w == WordAt(pc)
           i == decodeInstruction(w)
           next == (pc + (2 * Words(i))) % (MaxWord + 1)
           m1 == [m EXCEPT !.pc = next]
<1>1. pc \in Nat /\ pc + 2 \in Nat /\ FlashSize \in Int
  BY ConstAssumption, MaxWordNat DEF TypeOK, Word, ConstAssumption
<1>2. w \in W16 BY <1>1, WordAtType, WordIsW16
<1>3. Words(i) \in {1, 2} BY <1>2, FoundWords
<1>4. Regs!FlashWord(m, pc) = w BY <1>1, FetchedWord
<1>5. DOMAIN m = Parts BY MachineShape
<1>6. next \in Word
  <2> HIDE DEF i
  <2>1. pc + (2 * Words(i)) \in Int BY <1>1, <1>3
  <2> QED BY <2>1, FormedWord
<1>7. m1 \in Regs!Machine
  <2>1. next \in 0..(Regs!PcBase - 1) BY <1>6, PcWraps, MaxWordNat DEF Word
  <2> HIDE DEF next
  <2> QED BY <2>1, Zenon DEF Regs!Machine
<1>8. m1.pc = next /\ m1.i = ibit /\ m1.fault = FALSE /\ m1.flash = m.flash /\ m1.r = m.r
  BY <1>5 DEF Parts
<1>9. n = Regs!Perform(call, m1)
  <2>1. ~ (m.fault \/ m.pc + 1 >= FlashSize) BY <1>1
  <2>2. Regs!Decodes(w) /\ Regs!decodeInstruction(w) = i /\ Regs!Words(i) = Words(i)
    BY SameMatches, SameCalls
  <2>3. (pc + (2 * Words(i))) % Regs!PcBase = next BY PcWraps
  <2>4. CASE Words(i) = 1
    <3>1. n = Regs!Perform(Regs!executeInstruction(i, w, 0), m1)
      BY <1>4, <2>1, <2>2, <2>3, <2>4 DEF Regs!Turn
    <3> QED BY <1>2, <2>4, <3>1, SameCalls, SecondWordUnread
  <2>5. CASE Words(i) = 2
    <3>1. pc + 2 + 1 < FlashSize /\ ~ (pc + 3 >= FlashSize) BY <1>1, <2>5
    <3>2. Regs!FlashWord(m, pc + 2) = WordAt(pc + 2) BY <1>1, <3>1, FetchedWord
    <3>3. n = Regs!Perform(Regs!executeInstruction(i, w, WordAt(pc + 2)), m1)
      BY <1>4, <2>1, <2>2, <2>3, <2>5, <3>1, <3>2 DEF Regs!Turn
    <3> QED BY <3>3, SameCalls
  <2> QED BY <1>3, <2>4, <2>5
<1>10. Holds(m1) BY <1>8 DEF Holds
<1>11. Regs!readRegWord(m1, 30) = Regs!readRegWord(m, 30) BY <1>8 DEF Regs!readRegWord
<1> DEFINE E == Effects(call, next)
<1>12. \E d \in E : Describes(d, m1, n)
  <2> HIDE DEF m1
  <2> QED BY <1>7, <1>8, <1>9, <1>11, Described
<1>13. PICK d \in E : Describes(d, m1, n) BY <1>12
<1> DEFINE x == WithWords(d, Words(i))
<1>14. x \in InstrAt(pc)
  <2>1. pc \in 0..(FlashSize - 2) BY <1>1
  <2>2. InstrAt(pc) = InstructionsAt(pc) BY <2>1 DEF InstrAt, FlashCode
  <2>3. InstructionsAt(pc) = {WithWords(y, Words(i)) : y \in E} BY DEF InstructionsAt
  <2> QED BY <2>2, <2>3
<1>15. x.op = d.op /\ x.num = d.num /\ x.words = Words(i) BY DEF WithWords
<1>16. NextPc(x) = next BY <1>15 DEF NextPc
<1>17. Fetched(x) BY <1>14, <1>15 DEF Fetched
<1> HIDE DEF x, m1, next, E
<1>18. mem \in Mem BY DEF TypeOK
<1>19. \A f \in BOOLEAN : [mem EXCEPT !.fault = f].fault = f BY <1>18 DEF Mem
<1>20. n.fault = FALSE => Retire(Cleared) BY <1>19 DEF Retire, Cleared
<1>21. CASE d = NoControl /\ Alike(m1, n)
  <2>1. Plain(x) BY <1>8, <1>15, <1>16, <1>20, <1>21 DEF Plain, Alike, NoControl, Does
  <2> QED BY <1>14, <1>17, <2>1 DEF Execute, Effect
<1>22. CASE d.op = "jump" /\ n.pc = d.num /\ n.i = m1.i /\ n.fault = m1.fault
  <2>1. Plain(x) BY <1>8, <1>15, <1>20, <1>22 DEF Plain
  <2> QED BY <1>14, <1>17, <2>1 DEF Execute, Effect
<1>23. CASE d.op = "skip" /\ n = Regs!skipNextInstruction(m1)
  <2>1. Skip(x) BY <1>7, <1>8, <1>10, <1>15, <1>16, <1>18, <1>23, SkipSame
  <2> QED BY <1>14, <1>17, <2>1 DEF Execute, Effect
<1>24. CASE d.op \in {"sei", "cli"} /\ n.pc = m1.pc /\ n.i = (d.op = "sei") /\ n.fault = m1.fault
  <2>1. WriteI(x) BY <1>8, <1>15, <1>16, <1>20, <1>24 DEF WriteI
  <2> QED BY <1>14, <1>17, <2>1 DEF Execute, Effect
<1>25. CASE d.op = "bad" /\ n.pc = m1.pc /\ n.i = m1.i /\ n.fault = TRUE
  <2>1. Retire([mem EXCEPT !.fault = TRUE]) BY <1>19, <1>25 DEF Retire
  <2>2. BadAccess(x) BY <1>8, <1>15, <1>16, <1>25, <2>1 DEF BadAccess
  <2> QED BY <1>14, <1>17, <2>2 DEF Execute, Effect
<1> QED BY <1>13, <1>21, <1>22, <1>23, <1>24, <1>25 DEF Describes

-----------------------------------------------------------------------------
(* The disassembly. *)

LEMMA Multiples ==
  ASSUME NEW T \in Nat \ {0}, NEW d \in Int, d >= 1
  PROVE  T * d >= T
OBVIOUS

LEMMA Division ==
  ASSUME NEW T \in Nat \ {0}, NEW n \in Int
  PROVE  n \div T \in Int /\ n % T \in 0..(T - 1) /\ n = T * (n \div T) + (n % T)
OBVIOUS

(* A sum may be reduced before it is complete. *)
LEMMA SumReduced ==
  ASSUME NEW T \in Nat \ {0}, NEW a \in Int, NEW b \in Int
  PROVE  ((a % T) + b) % T = (a + b) % T
<1> DEFINE q == a \div T
           s == (a % T) + b
           p == s \div T
           u == (a + b) \div T
           r == s % T
           v == (a + b) % T
<1>1. q \in Int /\ a % T \in Int /\ a = T * q + (a % T) BY Division
<1>2. s \in Int BY <1>1
<1>3. p \in Int /\ r \in 0..(T - 1) /\ s = T * p + r BY <1>2, Division
<1>4. u \in Int /\ v \in 0..(T - 1) /\ a + b = T * u + v
  <2>1. a + b \in Int OBVIOUS
  <2> QED BY <2>1, Division
<1>5. a + b = T * q + s BY <1>1
<1> HIDE DEF q, s, p, u, r, v
<1>6. T * q + (T * p + r) = T * u + v BY <1>3, <1>4, <1>5
<1>7. T * ((q + p) - u) = v - r /\ T * (u - (q + p)) = r - v BY <1>1, <1>3, <1>4, <1>6
<1>8. (q + p) - u \in Int /\ u - (q + p) \in Int BY <1>1, <1>3, <1>4
<1>9. ~ ((q + p) - u >= 1) BY <1>3, <1>4, <1>7, <1>8, Multiples
<1>10. ~ (u - (q + p) >= 1) BY <1>3, <1>4, <1>7, <1>8, Multiples
<1>11. (q + p) - u = 0
  <2> DEFINE e == (q + p) - u
  <2>1. u - (q + p) = - e BY <1>1, <1>3, <1>4
  <2> HIDE DEF e
  <2>2. e \in Int /\ ~ (e >= 1) /\ ~ (- e >= 1) BY <1>8, <1>9, <1>10, <2>1 DEF e
  <2>3. e = 0 BY <2>2
  <2> QED BY <2>3 DEF e
<1>12. v - r = 0 BY <1>7, <1>11
<1>13. r = v BY <1>3, <1>4, <1>12
<1> QED BY <1>13 DEF r, v, s

(* The row, the function and the first operand of a word that jumps or calls. *)
LEMMA JumpRow ==
  ASSUME NEW w \in W16, Decodes(w), NEW s \in W16,
         NEW i, i = decodeInstruction(w),
         NEW op, op = OPCODE_TABLE[i][3], NEW fmt, fmt = OPCODE_TABLE[i][4],
         NEW call, call = executeInstruction(i, w, s)
  PROVE  /\ call.args = DecodedOperands(op, fmt, w, s)
         /\ fmt = "k7" => op \in Branches /\ Words(i) = 1 /\ call.fn \in {"BRBS", "BRBC"}
         /\ fmt = "k02" => op = "RJMP" /\ Words(i) = 1 /\ call.fn = "RJMP"
         /\ fmt = "k02_call" => op = "RCALL" /\ Words(i) = 1 /\ call.fn = "RCALL"
         /\ fmt = "k22" => op = "JMP" /\ call.fn = "JMP"
         /\ fmt = "k22_call" => op = "CALL" /\ call.fn = "CALL"
<1> DEFINE row == OPCODE_TABLE[i]
<1>1. row \in WellFormedRows BY FoundRow
<1>2. call.fn = Handler(op, fmt) /\ call.args = DecodedOperands(op, fmt, w, s)
  BY DEF executeInstruction
<1>3. op = row[3] /\ fmt = row[4] /\ Words(i) = row[5] BY DEF Words
<1> HIDE DEF row
<1>4. \A ops, f, n : row \in Form(ops, f, n) => op \in ops /\ fmt = f /\ Words(i) = n
  BY <1>3 DEF Form
<1>5. /\ fmt = "k7" => op \in Branches /\ Words(i) = 1
      /\ fmt = "k02" => op = "RJMP" /\ Words(i) = 1
      /\ fmt = "k02_call" => op = "RCALL" /\ Words(i) = 1
      /\ fmt = "k22" => op = "JMP"
      /\ fmt = "k22_call" => op = "CALL"
  BY <1>1, <1>4 DEF WellFormedRows
<1>6. ASSUME NEW b \in Branches
      PROVE  Handler(b, "k7") \in {"BRBS", "BRBC"}
  BY DEF Handler, SetsBit, ClearsBit, BranchesIfSet, BranchesIfClear, SameAs, Branches
<1>7. op \in {"RJMP", "RCALL", "JMP", "CALL"} /\ fmt # "LDD_family" => Handler(op, fmt) = op
  BY DEF Handler, SetsBit, ClearsBit, BranchesIfSet, BranchesIfClear, SameAs
<1> QED BY <1>2, <1>5, <1>6, <1>7

(* The target that the disassembly shows is the one the executor computes,     *)
(* after the modulus of a pc that has already been reduced, at every address   *)
(* of every image that a branch, jump or call was assembled at.                *)
THEOREM ShownTargets == TargetsShown
<1> SUFFICES ASSUME NEW a \in DOMAIN Listing, a + 1 < FlashSize, Decodes(WordAt(a)),
                    NEW i, i = decodeInstruction(WordAt(a)),
                    NEW fmt, fmt = OPCODE_TABLE[i][4],
                    fmt \in {"k7", "k02", "k02_call", "k22", "k22_call"},
                    NEW text, text = disassemble(WordAt(a), WordAt(a + 2), a),
                    NEW y \in FlashCode[a], y.op \in {"jump", "call"}
             PROVE  y.num = text[Len(text)]
  BY DEF TargetsShown
<1> DEFINE op == OPCODE_TABLE[i][3]
           call == executeInstruction(i, WordAt(a), WordAt(a + 2))
           k == call.args[1]
           next == (a + (2 * Words(i))) % (MaxWord + 1)
<1>1. a \in Nat /\ a + 2 \in Nat BY FlashAssumption DEF FlashAssumption
<1>2. WordAt(a) \in W16 /\ WordAt(a + 2) \in W16 BY <1>1, WordAtType, WordIsW16
<1>3. call \in Calls BY <1>2, DispatchInRange
<1>4. FlashCode[a] = {WithWords(d, Words(i)) : d \in Effects(call, next)}
  <2>1. FlashSize \in Int BY ConstAssumption, MaxWordNat DEF ConstAssumption
  <2>2. a \in 0..(FlashSize - 2) BY <1>1, <2>1
  <2> QED BY <2>2 DEF FlashCode, InstructionsAt
<1>5. PICK d \in Effects(call, next) : y = WithWords(d, Words(i)) BY <1>4
<1>6. d.op \in {"jump", "call"} /\ y.num = d.num BY <1>5 DEF WithWords
<1> DEFINE x == DecodedOperands(op, fmt, WordAt(a), WordAt(a + 2))
<1>7. /\ call.args = x
      /\ fmt = "k7" => op \in Branches /\ Words(i) = 1 /\ call.fn \in {"BRBS", "BRBC"}
      /\ fmt = "k02" => op = "RJMP" /\ Words(i) = 1 /\ call.fn = "RJMP"
      /\ fmt = "k02_call" => op = "RCALL" /\ Words(i) = 1 /\ call.fn = "RCALL"
      /\ fmt = "k22" => op = "JMP" /\ call.fn = "JMP"
      /\ fmt = "k22_call" => op = "CALL" /\ call.fn = "CALL"
  BY <1>2, JumpRow
<1>8. k \in Int BY <1>3, <1>7, TargetOperands
<1>9. text = CASE fmt = "k7" ->
                    <<(IF op = "BRBS" THEN brbsNames ELSE brbcNames)[x[2] + 1], x[1],
                      fmtBranchTarget(a, x[1])>>
               [] fmt \in {"k02", "k02_call"} -> <<op, x[1], fmtBranchTarget(a, x[1])>>
               [] OTHER -> <<op, (2 * x[1]) % (MaxWord + 1)>>
  <2> HIDE DEF op, x
  <2>1. op \in Branches \cup {"RJMP", "RCALL", "JMP", "CALL"} BY <1>7
  <2>2. op \notin {"CLR", "TST", "LSL", "ROL", "SER", "CBR", "LPM", "MOVW", "MULS"}
    BY <2>1 DEF Branches
  <2> QED BY <2>2 DEF disassemble, op, x
<1> HIDE DEF op, x, call
<1>10. CASE fmt \in {"k7", "k02", "k02_call"}
  <2>1. text[Len(text)] = fmtBranchTarget(a, k)
    <3>1. PICK p : text = <<p, x[1], fmtBranchTarget(a, x[1])>> BY <1>9, <1>10
    <3>2. k = x[1] BY <1>7
    <3> HIDE DEF k
    <3>3. Len(text) = 3 /\ text[3] = fmtBranchTarget(a, x[1]) BY <3>1
    <3> QED BY <3>2, <3>3
  <2>2. Words(i) = 1 /\ call.fn \in {"BRBS", "BRBC", "RJMP", "RCALL"} BY <1>7, <1>10
  <2>3. d.num = (next + (2 * k)) % (MaxWord + 1)
    BY <1>6, <2>2 DEF Effects, SkipFns, LoadFns, StoreFns, NoControl, Does
  <2>4. next = (a + 2) % (MaxWord + 1) BY <2>2
  <2> HIDE DEF next, k
  <2>5. MaxWord + 1 \in Nat \ {0} BY MaxWordNat
  <2>6. 2 * k \in Int BY <1>8
  <2>7. (next + (2 * k)) % (MaxWord + 1) = ((a + 2) + (2 * k)) % (MaxWord + 1)
    BY <1>1, <2>4, <2>5, <2>6, SumReduced
  <2> QED BY <1>6, <2>1, <2>3, <2>7 DEF fmtBranchTarget
<1>11. CASE fmt \in {"k22", "k22_call"}
  <2>1. text[Len(text)] = (2 * k) % (MaxWord + 1)
    <3>1. text = <<op, (2 * x[1]) % (MaxWord + 1)>> BY <1>9, <1>11
    <3>2. k = x[1] BY <1>7
    <3> HIDE DEF k
    <3>3. Len(text) = 2 /\ text[2] = (2 * x[1]) % (MaxWord + 1) BY <3>1
    <3> QED BY <3>2, <3>3
  <2>2. call.fn \in {"JMP", "CALL"} BY <1>7, <1>11
  <2>3. d.num = (2 * k) % (MaxWord + 1)
    BY <1>6, <2>2 DEF Effects, SkipFns, LoadFns, StoreFns, NoControl, Does
  <2> QED BY <1>6, <2>1, <2>3
<1> QED BY <1>10, <1>11

=============================================================================
