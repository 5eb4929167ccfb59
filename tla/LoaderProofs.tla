----------------------------- MODULE LoaderProofs -----------------------------
(***************************************************************************)
(* For every file and every size of flash and RAM: no copy of the loader   *)
(* leaves its array, a file that fits is not refused, and after a load     *)
(* .text, the initial values of .data and SRAM are what the file says.     *)
(***************************************************************************)
EXTENDS Loader, TLAPS

-----------------------------------------------------------------------------
(* Copies. *)

LEMMA CopyInRange ==
  ASSUME NEW size \in Nat, NEW array \in [0..(size - 1) -> Cells], next \in Nat,
         NEW at \in Nat, NEW n \in Nat, n > 0 => at + n <= size
  PROVE  /\ Copy(array, at, n) \in [0..(size - 1) -> Cells]
         /\ \A a \in 0..(size - 1) :
              Copy(array, at, n)[a] = IF a \in at..(at + n - 1) THEN <<next, a - at>> ELSE array[a]
<1> DEFINE c == Copy(array, at, n)
<1>1. DOMAIN array \cup at..(at + n - 1) = 0..(size - 1)
  OBVIOUS
<1>2. c = [a \in 0..(size - 1) |->
             IF a \in at..(at + n - 1) THEN <<next, a - at>> ELSE array[a]]
  BY <1>1, Zenon DEF Copy
<1>3. \A a \in 0..(size - 1) : a \in at..(at + n - 1) => <<next, a - at>> \in Cells
  BY DEF Cells
<1> QED BY <1>2, <1>3

LEMMA ClearInRange ==
  ASSUME NEW size \in Nat, NEW array \in [0..(size - 1) -> Cells],
         NEW at \in Nat, NEW n \in Nat, n > 0 => at + n <= size
  PROVE  /\ Clear(array, at, n) \in [0..(size - 1) -> Cells]
         /\ \A a \in 0..(size - 1) :
              Clear(array, at, n)[a] = IF a \in at..(at + n - 1) THEN Zero ELSE array[a]
<1>1. DOMAIN array \cup at..(at + n - 1) = 0..(size - 1)
  OBVIOUS
<1>2. Clear(array, at, n) = [a \in 0..(size - 1) |->
                               IF a \in at..(at + n - 1) THEN Zero ELSE array[a]]
  BY <1>1, Zenon DEF Clear
<1>3. Zero \in Cells
  BY DEF Zero, Cells
<1> QED BY <1>2, <1>3

(* A segment that lies in an array stays there under a copy to somewhere else. *)
LEMMA CopyElsewhere ==
  ASSUME NEW size \in Nat, NEW array \in [0..(size - 1) -> Cells], next \in Nat,
         NEW i, segments[i].filesz \in Nat,
         NEW base \in Nat, Holds(array, base, i), base + segments[i].filesz <= size,
         NEW at \in Nat, NEW n \in Nat, n > 0 => at + n <= size,
         \A k \in 0..(segments[i].filesz - 1) : base + k \notin at..(at + n - 1)
  PROVE  Holds(Copy(array, at, n), base, i)
<1>1. next \in Nat /\ size \in Nat /\ at \in Nat /\ n \in Nat /\ (n > 0 => at + n <= size)
  OBVIOUS
<1>2. \A x \in 0..(size - 1) :
        Copy(array, at, n)[x] = IF x \in at..(at + n - 1) THEN <<next, x - at>> ELSE array[x]
  BY ONLY <1>1, array \in [0..(size - 1) -> Cells], CopyInRange
<1> SUFFICES ASSUME NEW k \in 0..(segments[i].filesz - 1)
             PROVE  Copy(array, at, n)[base + k] = <<i, k>>
  BY DEF Holds
<1> DEFINE a == base + k
<1>3. a \in 0..(size - 1) /\ a \notin at..(at + n - 1) /\ array[a] = <<i, k>>
  BY DEF Holds
<1> HIDE DEF a
<1> QED BY <1>2, <1>3 DEF a

(* The present segment lies where it was copied to. *)
LEMMA CopyPlaces ==
  ASSUME NEW size \in Nat, NEW array \in [0..(size - 1) -> Cells], next \in Nat,
         NEW at \in Nat, segments[next].filesz \in Nat,
         segments[next].filesz > 0 => at + segments[next].filesz <= size
  PROVE  Holds(Copy(array, at, segments[next].filesz), at, next)
<1> DEFINE n == segments[next].filesz
<1> SUFFICES ASSUME NEW k \in 0..(n - 1)
             PROVE  Copy(array, at, n)[at + k] = <<next, k>>
  BY DEF Holds
<1>1. n \in Nat /\ (n > 0 => at + n <= size)
  OBVIOUS
<1> DEFINE a == at + k
<1>2. a \in 0..(size - 1) /\ a \in at..(at + n - 1) /\ a - at = k
  BY <1>1
<1> HIDE DEF a, n
<1>3. \A x \in 0..(size - 1) :
        Copy(array, at, n)[x] = IF x \in at..(at + n - 1) THEN <<next, x - at>> ELSE array[x]
  BY <1>1, CopyInRange
<1> QED BY <1>2, <1>3 DEF a

LEMMA RangeFitsMeans ==
  ASSUME NEW offset \in Nat, NEW size \in Nat, NEW limit \in Nat, RangeFits(offset, size, limit)
  PROVE  offset + size <= limit
BY DEF RangeFits

-----------------------------------------------------------------------------
(* The file: what its header's check leaves known about each segment. *)

Checked == \A i \in DOMAIN segments : segments[i].load => segments[i].filesz <= segments[i].memsz
LoadInv ==
  /\ TypeOK /\ image \in Images
  /\ phase \in {"flash", "data"} => Checked
  /\ phase = "header" => next = 1

LEMMA SegmentType ==
  ASSUME image \in Images
  PROVE  /\ segments \in Seq(Segments) /\ Len(segments) \in Nat
         /\ DOMAIN segments = 1..Len(segments)
         /\ \A i \in 1..Len(segments) :
              /\ segments[i] \in Segments
              /\ segments[i].vaddr \in Nat /\ segments[i].paddr \in Nat
              /\ segments[i].filesz \in Nat /\ segments[i].memsz \in Nat
<1>1. segments \in Seq(Segments)
  BY LoaderAssumption DEF LoaderAssumption, segments
<1>2. \A i \in 1..Len(segments) : segments[i] \in Segments
  BY <1>1
<1>3. \A s \in Segments : /\ s.vaddr \in Nat /\ s.paddr \in Nat
                         /\ s.filesz \in Nat /\ s.memsz \in Nat
  BY DEF Segments
<1>4. Len(segments) \in Nat /\ DOMAIN segments = 1..Len(segments)
  BY ONLY <1>1
<1> QED BY ONLY <1>1, <1>2, <1>3, <1>4

LEMMA Sizes ==
  /\ FlashSize \in Nat /\ FlashSize > 0 /\ RamSize \in Nat
  /\ DataBase \in Nat /\ FlashSize < DataBase
  /\ DataLimit \in Nat /\ DataLimit < DataBase + 65536
  /\ \A im \in Images : im.entry \in Nat
BY LoaderAssumption DEF LoaderAssumption

LEMMA FailKeeps ==
  ASSUME LoadInv, Fail, UNCHANGED image
  PROVE  LoadInv'
BY DEF LoadInv, TypeOK, Fail, Checked, segments

LEMMA FlashSegmentKeeps ==
  ASSUME LoadInv, FlashSegment
  PROVE  LoadInv'
<1>1. CASE Current.vaddr < DataBase /\ RangeFits(Current.vaddr, Current.filesz, FlashSize)
  <2>1. /\ flash' = Copy(flash, Current.vaddr, Current.filesz) /\ nextFlashAddr' = AfterText
        /\ hasText' = TRUE /\ next' = next + 1 /\ UNCHANGED <<phase, sram, pc, image>>
        /\ phase = "flash"
    BY <1>1 DEF FlashSegment
  <2>2. next \in 1..Len(segments)
    BY SegmentType DEF LoadInv, TypeOK, FlashSegment
  <2>3. Current.vaddr \in Nat /\ Current.filesz \in Nat
    BY <2>2, SegmentType DEF LoadInv, Current
  <2>4. Current.vaddr + Current.filesz <= FlashSize
    BY <1>1, <2>3, Sizes, RangeFitsMeans
  <2>5. flash' \in [0..(FlashSize - 1) -> Cells]
    BY <2>1, <2>2, <2>3, <2>4, Sizes, CopyInRange DEF LoadInv, TypeOK
  <2>6. nextFlashAddr' \in 0..FlashSize
    BY <2>1, <2>3, <2>4 DEF AfterText, LoadInv, TypeOK
  <2>7. next' \in 1..(Len(segments) + 1)
    BY <2>1, <2>2, SegmentType DEF LoadInv
  <2> QED BY <2>1, <2>5, <2>6, <2>7 DEF LoadInv, TypeOK, Checked, segments
<1>2. CASE ~ (Current.vaddr < DataBase /\ RangeFits(Current.vaddr, Current.filesz, FlashSize))
  BY <1>2, FailKeeps DEF FlashSegment
<1> QED BY <1>1, <1>2

LEMMA DataSegmentKeeps ==
  ASSUME LoadInv, DataSegment
  PROVE  LoadInv'
<1> DEFINE Good ==
      /\ DataBase <= Current.vaddr /\ Current.vaddr <= DataLimit
      /\ RangeFits(SramAddr, Current.memsz, RamSize)
      /\ Current.filesz > 0 => RangeFits(FlashDest, Current.filesz, FlashSize)
<1>1. CASE Good
  <2>1. /\ flash' = Copy(flash, FlashDest, Current.filesz)
        /\ sram' = Clear(Copy(sram, SramAddr, Current.filesz), BssStart, Current.memsz - Current.filesz)
        /\ nextFlashAddr' = AfterData /\ next' = next + 1
        /\ UNCHANGED <<phase, pc, hasText, image>> /\ phase = "data"
    BY <1>1 DEF DataSegment
  <2>2. next \in 1..Len(segments)
    BY SegmentType DEF LoadInv, TypeOK, DataSegment
  <2>3. /\ Current.vaddr \in Nat /\ Current.paddr \in Nat
        /\ Current.filesz \in Nat /\ Current.memsz \in Nat
    BY <2>2, SegmentType DEF LoadInv, Current
  <2>4. Current.filesz <= Current.memsz
    BY <2>2, SegmentType DEF LoadInv, DataSegment, Checked, Current
  <2>5. SramAddr \in Nat /\ FlashDest \in Nat
    <3>1. SramAddr \in Nat
      BY <1>1, <2>3, Sizes DEF SramAddr
    <3>2. nextFlashAddr \in Nat
      BY DEF LoadInv, TypeOK
    <3>3. FlashDest \in {Current.paddr, nextFlashAddr}
      BY DEF FlashDest
    <3> QED BY <2>3, <3>1, <3>2, <3>3
  <2>6. SramAddr + Current.memsz <= RamSize
    BY <1>1, <2>3, <2>5, Sizes, RangeFitsMeans
  <2>7. Current.filesz > 0 => FlashDest + Current.filesz <= FlashSize
    BY <1>1, <2>3, <2>5, Sizes, RangeFitsMeans
  <2>8. flash' \in [0..(FlashSize - 1) -> Cells]
    <3>1. next \in Nat /\ flash \in [0..(FlashSize - 1) -> Cells]
      BY <2>2, SegmentType DEF LoadInv, TypeOK
    <3>2. Copy(flash, FlashDest, Current.filesz) \in [0..(FlashSize - 1) -> Cells]
      BY <3>1, <2>3, <2>5, <2>7, Sizes, CopyInRange
    <3> QED BY <2>1, <3>2
  <2>9. sram' \in [0..(RamSize - 1) -> Cells]
    <3> DEFINE c == Copy(sram, SramAddr, Current.filesz)
    <3>0. SramAddr + Current.filesz <= RamSize
      BY <2>3, <2>4, <2>5, <2>6, Sizes
    <3>1. c \in [0..(RamSize - 1) -> Cells]
      <4>1. next \in Nat /\ sram \in [0..(RamSize - 1) -> Cells]
        BY <2>2, SegmentType DEF LoadInv, TypeOK
      <4> HIDE DEF c
      <4>2. Copy(sram, SramAddr, Current.filesz) \in [0..(RamSize - 1) -> Cells]
        BY <4>1, <2>3, <2>5, <3>0, Sizes, CopyInRange
      <4> QED BY <4>2 DEF c
    <3>2. BssStart \in Nat /\ Current.memsz - Current.filesz \in Nat
      BY <2>3, <2>4, <2>5 DEF BssStart
    <3>3. BssStart + (Current.memsz - Current.filesz) <= RamSize
      BY <2>3, <2>5, <2>6 DEF BssStart
    <3> HIDE DEF c
    <3>4. Clear(c, BssStart, Current.memsz - Current.filesz) \in [0..(RamSize - 1) -> Cells]
      BY <3>1, <3>2, <3>3, Sizes, ClearInRange
    <3> QED BY <2>1, <3>4 DEF c
  <2>10. nextFlashAddr' \in 0..FlashSize
    BY <2>1, <2>3, <2>5, <2>7, Sizes DEF AfterData, LoadInv, TypeOK
  <2>11. next' \in 1..(Len(segments) + 1)
    BY <2>1, <2>2, SegmentType DEF LoadInv
  <2> QED BY <2>1, <2>8, <2>9, <2>10, <2>11 DEF LoadInv, TypeOK, Checked, segments
<1>2. CASE ~ Good
  BY <1>2, FailKeeps DEF DataSegment
<1> QED BY <1>1, <1>2

LEMMA LoadInvInit ==
  ASSUME Init
  PROVE  LoadInv
<1>1. Zero \in Cells
  BY DEF Zero, Cells
<1>2. flash \in [0..(FlashSize - 1) -> Cells] /\ sram \in [0..(RamSize - 1) -> Cells]
  BY <1>1 DEF Init
<1>3. next \in 1..(Len(segments) + 1) /\ image \in Images
  BY SegmentType DEF Init
<1>4. pc \in 0..(FlashSize - 1) /\ nextFlashAddr \in 0..FlashSize
  BY Sizes DEF Init
<1> QED BY <1>2, <1>3, <1>4 DEF Init, LoadInv, TypeOK

LEMMA LoadInvNext ==
  ASSUME LoadInv, [Next]_vars
  PROVE  LoadInv'
<1>1. CASE CheckHeader
  BY <1>1, FailKeeps DEF CheckHeader, LoadInv, TypeOK, Checked, segments
<1>2. CASE FlashSegment
  BY <1>2, FlashSegmentKeeps
<1>3. CASE FlashDone
  <2>1. CASE hasText
    BY <1>3, <2>1, SegmentType DEF FlashDone, LoadInv, TypeOK, Checked, segments
  <2>2. CASE ~ hasText
    BY <1>3, <2>2, FailKeeps DEF FlashDone
  <2> QED BY <2>1, <2>2
<1>4. CASE DataSegment
  BY <1>4, DataSegmentKeeps
<1>5. CASE Skip
  BY <1>5, SegmentType DEF Skip, LoadInv, TypeOK, Checked, segments
<1>6. CASE SetEntry
  <2>1. CASE image.entry < FlashSize
    <3>1. pc' \in 0..(FlashSize - 1)
      BY <1>6, <2>1, Sizes DEF SetEntry, LoadInv
    <3> QED BY <1>6, <2>1, <3>1 DEF SetEntry, LoadInv, TypeOK, segments
  <2>2. CASE ~ (image.entry < FlashSize)
    BY <1>6, <2>2, FailKeeps DEF SetEntry
  <2> QED BY <2>1, <2>2
<1>7. CASE ReadFails
  BY <1>7 DEF ReadFails, LoadInv, TypeOK, segments
<1>8. CASE UNCHANGED vars
  BY <1>8 DEF vars, LoadInv, TypeOK, Checked, segments
<1> QED BY <1>1, <1>2, <1>3, <1>4, <1>5, <1>6, <1>7, <1>8 DEF Next

(* No memcpy or memset of loadFirmware reaches past flash or SRAM, whatever    *)
(* the file says: rangeFits and the check filesz <= memsz are enough.          *)
THEOREM TypeCorrect == Spec => []TypeOK
<1>1. Spec => []LoadInv
  BY LoadInvInit, LoadInvNext, PTL DEF Spec
<1>2. LoadInv => TypeOK
  BY DEF LoadInv
<1> QED BY <1>1, <1>2, PTL

-----------------------------------------------------------------------------
(* The text survives.  Of the segments a pass has seen, and of all of them once *)
(* the second pass has begun, the bytes are in place; and while no segment has  *)
(* a load address nextFlashAddr is behind them.                                 *)

Seen(i) == (phase = "flash" /\ i < next) \/ phase \in {"data", "loaded"}
NoLoadAddress == \A i \in Initialised : ~ HasLoadAddress(i)
InPlace(i) ==
  /\ Holds(flash, segments[i].vaddr, i)
  /\ segments[i].vaddr + segments[i].filesz <= FlashSize
  /\ NoLoadAddress => segments[i].vaddr + segments[i].filesz <= nextFlashAddr
TextInv == LoadInv /\ (Linked => \A i \in Text : Seen(i) => InPlace(i))

(* What depends on the file alone stays. *)
LEMMA SameFile ==
  ASSUME UNCHANGED image
  PROVE  /\ segments' = segments /\ Text' = Text /\ Data' = Data
         /\ Initialised' = Initialised /\ Placed' = Placed
         /\ Linked' = Linked /\ NoLoadAddress' = NoLoadAddress
         /\ \A i : HasLoadAddress(i)' = HasLoadAddress(i) /\ FlashRange(i)' = FlashRange(i)
<1>1. segments' = segments
  BY DEF segments
<1>2. Text' = Text /\ Data' = Data
  BY <1>1 DEF Text, Data
<1>3. Initialised' = Initialised
  BY <1>1, <1>2 DEF Initialised
<1>4. \A i : HasLoadAddress(i)' = HasLoadAddress(i)
  BY <1>1 DEF HasLoadAddress
<1>5. Placed' = Placed /\ NoLoadAddress' = NoLoadAddress
  BY <1>2, <1>3, <1>4 DEF Placed, NoLoadAddress
<1>6. \A i : FlashRange(i)' = FlashRange(i) /\ RamRange(i)' = RamRange(i)
  BY <1>1, <1>2 DEF FlashRange, RamRange
<1>7. Linked' = Linked
  BY <1>2, <1>3, <1>4, <1>5, <1>6 DEF Linked
<1> QED BY <1>1, <1>2, <1>3, <1>4, <1>5, <1>6, <1>7

LEMMA TextSegments ==
  ASSUME image \in Images, NEW i \in Text
  PROVE  i \in 1..Len(segments) /\ segments[i].vaddr \in Nat /\ segments[i].filesz \in Nat
BY SegmentType DEF Text

LEMMA FlashSegmentKeepsText ==
  ASSUME TextInv, FlashSegment, phase' # "failed"
  PROVE  TextInv'
<1>1. LoadInv /\ LoadInv' /\ image' = image
  BY FlashSegmentKeeps DEF TextInv, FlashSegment
<1>2. RangeFits(Current.vaddr, Current.filesz, FlashSize)
  BY DEF FlashSegment, Fail
<1>3. /\ flash' = Copy(flash, Current.vaddr, Current.filesz) /\ nextFlashAddr' = AfterText
      /\ next' = next + 1 /\ phase = "flash" /\ phase' = "flash"
  BY DEF FlashSegment, Fail
<1>4. next \in Text /\ Current = segments[next]
  BY <1>1, SegmentType DEF LoadInv, TypeOK, FlashSegment, Text, Current
<1>5. Current.vaddr \in Nat /\ Current.filesz \in Nat /\ next \in Nat /\ nextFlashAddr \in Nat
  BY <1>1, <1>4, TextSegments DEF LoadInv, TypeOK
<1>6. Current.vaddr + Current.filesz <= FlashSize
  BY <1>2, <1>5, Sizes, RangeFitsMeans
<1>7. /\ nextFlashAddr' >= nextFlashAddr /\ nextFlashAddr' >= Current.vaddr + Current.filesz
      /\ nextFlashAddr' \in Nat
  BY <1>3, <1>5 DEF AfterText
<1> SUFFICES ASSUME Linked, NEW i \in Text, Seen(i)'
             PROVE  InPlace(i)'
  BY <1>1, SameFile DEF TextInv
<1>8. segments[i].vaddr \in Nat /\ segments[i].filesz \in Nat /\ i \in Nat
  BY <1>1, TextSegments DEF LoadInv
<1>9. CASE i = next
  <2>1. Holds(flash', Current.vaddr, i)
    <3>1. flash \in [0..(FlashSize - 1) -> Cells] BY <1>1 DEF LoadInv, TypeOK
    <3>2. Holds(Copy(flash, Current.vaddr, segments[next].filesz), Current.vaddr, next)
      <4>1. /\ next \in Nat /\ FlashSize \in Nat /\ Current.vaddr \in Nat
            /\ segments[next].filesz \in Nat
            /\ Current.vaddr + segments[next].filesz <= FlashSize
        BY <1>4, <1>5, <1>6, Sizes
      <4> QED BY ONLY <3>1, <4>1, CopyPlaces
    <3> QED BY <1>3, <1>4, <1>9, <3>2
  <2> QED BY <1>1, <1>4, <1>6, <1>7, <1>9, <2>1, SameFile DEF InPlace, Holds
<1>10. CASE i # next
  <2>1. i < next
    BY <1>3, <1>5, <1>8, <1>10 DEF Seen
  <2>2. InPlace(i)
    BY <1>3, <2>1 DEF TextInv, Seen
  <2>3. \A k \in 0..(segments[i].filesz - 1) :
          segments[i].vaddr + k \notin Current.vaddr..(Current.vaddr + Current.filesz - 1)
    <3>1. FlashRange(i) \cap FlashRange(next) = {}
      BY <1>4, <1>10 DEF Linked, Placed
    <3>2. /\ FlashRange(i) = segments[i].vaddr..(segments[i].vaddr + segments[i].filesz - 1)
          /\ FlashRange(next) = Current.vaddr..(Current.vaddr + Current.filesz - 1)
      BY <1>4 DEF FlashRange
    <3>3. \A k \in 0..(segments[i].filesz - 1) : segments[i].vaddr + k \in FlashRange(i)
      BY <1>8, <3>2
    <3> QED BY <3>1, <3>2, <3>3
  <2>4. Holds(flash', segments[i].vaddr, i)
    <3>1. flash \in [0..(FlashSize - 1) -> Cells] BY <1>1 DEF LoadInv, TypeOK
    <3> DEFINE base == segments[i].vaddr
               at == Current.vaddr
               n == Current.filesz
    <3>2. Holds(flash, base, i) /\ base + segments[i].filesz <= FlashSize /\ base \in Nat
      BY <1>8, <2>2 DEF InPlace
    <3>3. at \in Nat /\ n \in Nat /\ (n > 0 => at + n <= FlashSize)
      BY <1>5, <1>6
    <3>4. \A k \in 0..(segments[i].filesz - 1) : base + k \notin at..(at + n - 1)
      BY <2>3
    <3>5. flash' = Copy(flash, at, n)
      BY <1>3
    <3> HIDE DEF base, at, n
    <3>6. next \in Nat /\ FlashSize \in Nat /\ segments[i].filesz \in Nat
      BY <1>5, <1>8, Sizes
    <3>7. Holds(Copy(flash, at, n), base, i)
      BY ONLY <3>1, <3>2, <3>3, <3>4, <3>6, CopyElsewhere
    <3> QED BY <3>5, <3>7 DEF base
  <2>5. NoLoadAddress => segments[i].vaddr + segments[i].filesz <= nextFlashAddr'
    BY <1>5, <1>7, <1>8, <2>2 DEF InPlace
  <2> QED BY <1>1, <2>2, <2>4, <2>5, SameFile DEF InPlace, Holds
<1> QED BY <1>9, <1>10

LEMMA DataSegmentKeepsText ==
  ASSUME TextInv, DataSegment, phase' # "failed"
  PROVE  TextInv'
<1>1. LoadInv /\ LoadInv' /\ image' = image
  BY DataSegmentKeeps DEF TextInv, DataSegment
<1>2. Current.filesz > 0 => RangeFits(FlashDest, Current.filesz, FlashSize)
  BY DEF DataSegment, Fail
<1>3. /\ flash' = Copy(flash, FlashDest, Current.filesz) /\ nextFlashAddr' = AfterData
      /\ phase = "data" /\ phase' = "data" /\ DataBase <= Current.vaddr
  BY DEF DataSegment, Fail
<1>4. next \in Data /\ next \notin Text /\ Current = segments[next] /\ next \in 1..Len(segments)
  BY <1>1, SegmentType DEF LoadInv, TypeOK, DataSegment, Data, Text, Current
<1>5. /\ Current.paddr \in Nat /\ Current.filesz \in Nat /\ nextFlashAddr \in Nat
      /\ FlashDest \in Nat
  BY <1>1, <1>4, SegmentType DEF LoadInv, TypeOK, FlashDest
<1>6. Current.filesz > 0 => FlashDest + Current.filesz <= FlashSize
  BY <1>2, <1>5, Sizes, RangeFitsMeans
<1>7. Current.filesz > 0 => next \in Initialised
  BY <1>4 DEF Initialised
<1> SUFFICES ASSUME Linked, NEW i \in Text
             PROVE  InPlace(i)'
  BY <1>1, SameFile DEF TextInv
<1>8. segments[i].vaddr \in Nat /\ segments[i].filesz \in Nat
  BY <1>1, TextSegments DEF LoadInv
<1>9. InPlace(i)
  BY <1>3 DEF TextInv, Seen
<1>10. HasLoadAddress(next) \/ NoLoadAddress \/ Current.filesz = 0
  BY <1>5, <1>7 DEF Linked, NoLoadAddress
<1>11. \A k \in 0..(segments[i].filesz - 1) :
         segments[i].vaddr + k \notin FlashDest..(FlashDest + Current.filesz - 1)
  <2>1. CASE Current.filesz = 0
    BY <1>5, <2>1
  <2>2. CASE Current.filesz > 0 /\ HasLoadAddress(next)
    <3>1. next \in Placed /\ i \in Placed /\ i # next
      BY <1>4, <1>7, <2>2 DEF Placed
    <3>2. FlashRange(i) \cap FlashRange(next) = {}
      BY <3>1 DEF Linked
    <3>3. FlashDest = Current.paddr
      BY <1>4, <1>5, <2>2, Sizes DEF FlashDest, HasLoadAddress
    <3>4. /\ FlashRange(i) = segments[i].vaddr..(segments[i].vaddr + segments[i].filesz - 1)
          /\ FlashRange(next) = FlashDest..(FlashDest + Current.filesz - 1)
      BY <1>4, <3>3 DEF FlashRange
    <3>5. \A k \in 0..(segments[i].filesz - 1) : segments[i].vaddr + k \in FlashRange(i)
      BY ONLY <1>8, <3>4
    <3> QED BY <3>2, <3>4, <3>5
  <2>3. CASE Current.filesz > 0 /\ ~ HasLoadAddress(next)
    <3>1. NoLoadAddress /\ FlashDest = nextFlashAddr
      BY <1>4, <1>5, <1>10, <2>3, Sizes DEF FlashDest, HasLoadAddress
    <3>2. segments[i].vaddr + segments[i].filesz <= FlashDest
      BY <1>9, <3>1 DEF InPlace
    <3> QED BY <1>5, <1>8, <3>2
  <2> QED BY <1>5, <2>1, <2>2, <2>3
<1>12. Holds(flash', segments[i].vaddr, i)
  <2>1. flash \in [0..(FlashSize - 1) -> Cells] /\ next \in Nat
    BY <1>1, <1>4 DEF LoadInv, TypeOK
  <2> DEFINE base == segments[i].vaddr
             n == Current.filesz
  <2>2. Holds(flash, base, i) /\ base + segments[i].filesz <= FlashSize /\ base \in Nat
    BY <1>8, <1>9 DEF InPlace
  <2>3. n \in Nat /\ (n > 0 => FlashDest + n <= FlashSize)
    BY <1>5, <1>6
  <2>4. \A k \in 0..(segments[i].filesz - 1) : base + k \notin FlashDest..(FlashDest + n - 1)
    BY <1>11
  <2>5. flash' = Copy(flash, FlashDest, n)
    BY <1>3
  <2> HIDE DEF base, n
  <2>6. Holds(Copy(flash, FlashDest, n), base, i)
    <3>1. /\ flash \in [0..(FlashSize - 1) -> Cells] /\ next \in Nat /\ FlashSize \in Nat
          /\ segments[i].filesz \in Nat /\ FlashDest \in Nat
      BY <1>5, <1>8, <2>1, Sizes
    <3> QED BY ONLY <2>2, <2>3, <2>4, <3>1, CopyElsewhere
  <2> QED BY <2>5, <2>6 DEF base
<1>13. NoLoadAddress => segments[i].vaddr + segments[i].filesz <= nextFlashAddr'
  <2> SUFFICES ASSUME NoLoadAddress
               PROVE  segments[i].vaddr + segments[i].filesz <= nextFlashAddr'
    OBVIOUS
  <2>1. Current.filesz > 0 => FlashDest = nextFlashAddr
    BY <1>4, <1>5, <1>7, Sizes DEF NoLoadAddress, HasLoadAddress, FlashDest
  <2>2. nextFlashAddr' >= nextFlashAddr /\ nextFlashAddr' \in Nat
    BY <1>3, <1>5, <2>1 DEF AfterData
  <2> QED BY <1>5, <1>8, <1>9, <2>2 DEF InPlace
<1> QED BY <1>1, <1>9, <1>12, <1>13, SameFile DEF InPlace, Holds

(* Steps that leave flash alone. *)
LEMMA SameFlash ==
  ASSUME TextInv, LoadInv', UNCHANGED <<image, flash, nextFlashAddr>>,
         \A i \in Text : Seen(i)' => Seen(i)
  PROVE  TextInv'
<1>1. image' = image /\ flash' = flash /\ nextFlashAddr' = nextFlashAddr
  OBVIOUS
<1>2. /\ segments' = segments /\ Text' = Text /\ Linked' = Linked
      /\ NoLoadAddress' = NoLoadAddress
  BY <1>1, SameFile
<1> SUFFICES ASSUME Linked, NEW i \in Text, Seen(i)'
             PROVE  InPlace(i)'
  BY <1>2 DEF TextInv
<1>3. InPlace(i)
  BY DEF TextInv
<1> QED BY <1>1, <1>2, <1>3 DEF InPlace, Holds

LEMMA TextInvNext ==
  ASSUME TextInv, [Next]_vars
  PROVE  TextInv'
<1>1. LoadInv /\ LoadInv'
  BY LoadInvNext DEF TextInv
<1>2. Len(segments) \in Nat /\ next \in Nat
      /\ \A i \in Text : i \in Nat /\ i <= Len(segments)
  BY <1>1, SegmentType, TextSegments DEF LoadInv, TypeOK
<1>3. CASE phase' \in {"failed", "unreadable", "header"}
  BY <1>1, <1>3 DEF TextInv, Seen
<1>4. CASE FlashSegment /\ phase' # "failed"
  BY <1>4, FlashSegmentKeepsText
<1>5. CASE DataSegment /\ phase' # "failed"
  BY <1>5, DataSegmentKeepsText
<1>6. CASE CheckHeader /\ phase' # "failed"
  <2>1. next = 1 /\ next' = 1 /\ phase' = "flash" /\ UNCHANGED <<image, flash, nextFlashAddr>>
    BY <1>1, <1>6 DEF CheckHeader, Fail, LoadInv
  <2>2. \A i \in Text : ~ Seen(i)'
    BY <1>1, <2>1, TextSegments DEF Seen, LoadInv
  <2> QED BY <1>1, <2>1, <2>2, SameFlash
<1>7. CASE FlashDone /\ phase' # "failed"
  <2>1. phase = "flash" /\ next > Len(segments) /\ UNCHANGED <<image, flash, nextFlashAddr>>
    BY <1>7 DEF FlashDone, Fail
  <2>2. \A i \in Text : Seen(i)
    BY <1>2, <2>1 DEF Seen
  <2> QED BY <1>1, <2>1, <2>2, SameFlash
<1>8. CASE Skip
  <2>1. next' = next + 1 /\ phase' = phase /\ UNCHANGED <<image, flash, nextFlashAddr>>
    BY <1>8 DEF Skip
  <2>2. phase = "flash" => next \notin Text
    BY <1>8 DEF Skip, Text, Current
  <2>3. \A i \in Text : Seen(i)' => Seen(i)
    BY <1>2, <2>1, <2>2 DEF Seen
  <2> QED BY <1>1, <2>1, <2>3, SameFlash
<1>9. CASE SetEntry /\ phase' # "failed"
  <2>1. phase = "data" /\ UNCHANGED <<image, flash, nextFlashAddr>>
    BY <1>9 DEF SetEntry, Fail
  <2>2. \A i \in Text : Seen(i)
    BY <2>1 DEF Seen
  <2> QED BY <1>1, <2>1, <2>2, SameFlash
<1>10. CASE ReadFails
  BY <1>3, <1>10 DEF ReadFails
<1>11. CASE UNCHANGED vars
  <2>1. UNCHANGED <<image, flash, nextFlashAddr>> /\ phase' = phase /\ next' = next
    BY <1>11 DEF vars
  <2>2. \A i \in Text : Seen(i)' => Seen(i)
    BY <2>1 DEF Seen
  <2> QED BY <1>1, <2>1, <2>2, SameFlash
<1> QED BY <1>3, <1>4, <1>5, <1>6, <1>7, <1>8, <1>9, <1>10, <1>11 DEF Next

(* After a successful load of a file whose segments lie apart, every byte of   *)
(* .text is in flash at its address, for every number, order and size of       *)
(* segments: neither the explicit nor the implicit placement of .data reaches it. *)
THEOREM TextSurvives == Spec => []TextIntact
<1>1. Init => TextInv
  <2> SUFFICES ASSUME Init PROVE TextInv
    OBVIOUS
  <2>1. phase = "header" /\ LoadInv
    BY LoadInvInit DEF Init
  <2> QED BY <2>1 DEF TextInv, Seen
<1>2. Spec => []TextInv
  BY <1>1, TextInvNext, PTL DEF Spec
<1>3. TextInv => TextIntact
  BY DEF TextInv, TextIntact, Seen, InPlace
<1> QED BY <1>2, <1>3, PTL

-----------------------------------------------------------------------------
(* What the second pass does with a segment it takes. *)
LEMMA DataStep ==
  ASSUME LoadInv, DataSegment, phase' # "failed"
  PROVE  /\ next \in Data /\ next \in 1..Len(segments) /\ next \in Nat
         /\ next' = next + 1 /\ phase = "data" /\ phase' = "data" /\ image' = image
         /\ Current = segments[next]
         /\ Current.vaddr \in Nat /\ Current.paddr \in Nat
         /\ Current.filesz \in Nat /\ Current.memsz \in Nat
         /\ Current.filesz <= Current.memsz
         /\ SramAddr = Current.vaddr - DataBase /\ SramAddr \in Nat
         /\ SramAddr + Current.memsz <= RamSize
         /\ FlashDest \in Nat
         /\ Current.filesz > 0 => FlashDest + Current.filesz <= FlashSize
         /\ flash' = Copy(flash, FlashDest, Current.filesz)
         /\ sram' = Clear(Copy(sram, SramAddr, Current.filesz), BssStart,
                          Current.memsz - Current.filesz)
         /\ nextFlashAddr \in Nat /\ nextFlashAddr' = AfterData
<1>1. /\ DataBase <= Current.vaddr /\ Current.vaddr <= DataLimit
      /\ RangeFits(SramAddr, Current.memsz, RamSize)
      /\ Current.filesz > 0 => RangeFits(FlashDest, Current.filesz, FlashSize)
  BY DEF DataSegment, Fail
<1>2. /\ flash' = Copy(flash, FlashDest, Current.filesz)
      /\ sram' = Clear(Copy(sram, SramAddr, Current.filesz), BssStart,
                       Current.memsz - Current.filesz)
      /\ nextFlashAddr' = AfterData
      /\ next' = next + 1 /\ phase = "data" /\ phase' = "data" /\ image' = image
  BY DEF DataSegment, Fail
<1>3. next \in 1..Len(segments) /\ next \in Data /\ next \in Nat /\ Current = segments[next]
  BY SegmentType DEF LoadInv, TypeOK, DataSegment, Data, Current
<1>4. /\ Current.vaddr \in Nat /\ Current.paddr \in Nat
      /\ Current.filesz \in Nat /\ Current.memsz \in Nat
  BY <1>3, SegmentType DEF LoadInv
<1>5. Current.filesz <= Current.memsz
  BY <1>2, <1>3, SegmentType DEF LoadInv, DataSegment, Checked
<1>6. SramAddr = Current.vaddr - DataBase /\ SramAddr \in Nat
  BY <1>1, <1>4, Sizes DEF SramAddr
<1>7. nextFlashAddr \in Nat /\ FlashDest \in Nat
  BY <1>4 DEF LoadInv, TypeOK, FlashDest
<1>8. SramAddr + Current.memsz <= RamSize
  BY <1>1, <1>4, <1>6, Sizes, RangeFitsMeans
<1>9. Current.filesz > 0 => FlashDest + Current.filesz <= FlashSize
  BY <1>1, <1>4, <1>7, Sizes, RangeFitsMeans
<1> QED BY <1>2, <1>3, <1>4, <1>5, <1>6, <1>7, <1>8, <1>9

(* SRAM byte by byte after such a segment: its bytes, then zeros, and nothing  *)
(* else.                                                                       *)
LEMMA DataStepRam ==
  ASSUME LoadInv, DataSegment, phase' # "failed", NEW a \in 0..(RamSize - 1)
  PROVE  sram'[a] =
           IF a \in SramAddr..(SramAddr + Current.filesz - 1) THEN <<next, a - SramAddr>>
           ELSE IF a \in (SramAddr + Current.filesz)..(SramAddr + Current.memsz - 1) THEN Zero
           ELSE sram[a]
<1> DEFINE at == SramAddr
           n == Current.filesz
           z == Current.memsz - Current.filesz
           c == Copy(sram, at, n)
<1>0. /\ at \in Nat /\ n \in Nat /\ next \in Nat /\ n <= Current.memsz
      /\ Current.memsz \in Nat /\ at + Current.memsz <= RamSize
      /\ sram' = Clear(c, BssStart, z)
  BY DataStep
<1>1. /\ at \in Nat /\ n \in Nat /\ z \in Nat /\ next \in Nat /\ at + n + z <= RamSize
      /\ Current.memsz = n + z /\ BssStart = at + n
      /\ sram' = Clear(c, BssStart, z)
  BY <1>0 DEF BssStart
<1>2. RamSize \in Nat /\ sram \in [0..(RamSize - 1) -> Cells]
  BY Sizes DEF LoadInv, TypeOK
<1> HIDE DEF at, n, z
<1>3. at + n <= RamSize
  BY <1>1, <1>2
<1>4. c \in [0..(RamSize - 1) -> Cells]
      /\ \A x \in 0..(RamSize - 1) :
           c[x] = IF x \in at..(at + n - 1) THEN <<next, x - at>> ELSE sram[x]
  BY ONLY <1>1, <1>2, <1>3, CopyInRange
<1> HIDE DEF c
<1> DEFINE b == at + n
<1>9. b \in Nat /\ (z > 0 => b + z <= RamSize)
  BY <1>1
<1> HIDE DEF b
<1>11. c \in [0..(RamSize - 1) -> Cells] /\ z \in Nat /\ RamSize \in Nat
  BY <1>1, <1>2, <1>4
<1>10. \A x \in 0..(RamSize - 1) :
         Clear(c, b, z)[x] = IF x \in b..(b + z - 1) THEN Zero ELSE c[x]
  BY ONLY <1>9, <1>11, ClearInRange
<1>5. \A x \in 0..(RamSize - 1) :
        Clear(c, at + n, z)[x] = IF x \in (at + n)..(at + n + z - 1) THEN Zero ELSE c[x]
  BY <1>10 DEF b
<1>6. sram'[a] = IF a \in (at + n)..(at + n + z - 1) THEN Zero
                 ELSE IF a \in at..(at + n - 1) THEN <<next, a - at>> ELSE sram[a]
  BY <1>1, <1>4, <1>5
<1>7. a \in at..(at + n - 1) => a \notin (at + n)..(at + n + z - 1)
  BY <1>1
<1>8. Current.memsz = n + z /\ at + n + z - 1 = at + Current.memsz - 1
  BY <1>1
<1> QED BY <1>6, <1>7, <1>8 DEF at, n

-----------------------------------------------------------------------------
(* SRAM.  The segments of the second pass seen so far are laid out in it. *)

DataSeen(i) == (phase = "data" /\ i < next) \/ phase = "loaded"
RamPlaced(i) ==
  /\ segments[i].vaddr - DataBase \in Nat
  /\ (segments[i].vaddr - DataBase) + segments[i].memsz <= RamSize
  /\ segments[i].filesz <= segments[i].memsz
  /\ RamFilled(i)
RamInv == LoadInv /\ (Linked => \A i \in Data : DataSeen(i) => RamPlaced(i))

LEMMA DataSegments ==
  ASSUME image \in Images, NEW i \in Data
  PROVE  /\ i \in 1..Len(segments) /\ i \in Nat
         /\ segments[i].vaddr \in Nat /\ segments[i].paddr \in Nat
         /\ segments[i].filesz \in Nat /\ segments[i].memsz \in Nat
BY SegmentType DEF Data

LEMMA DataSegmentKeepsRam ==
  ASSUME RamInv, DataSegment, phase' # "failed"
  PROVE  RamInv'
<1>1. LoadInv /\ LoadInv' /\ image' = image
  BY DataSegmentKeeps DEF RamInv, DataSegment
<1>2. segments' = segments /\ Data' = Data /\ Linked' = Linked
  BY <1>1, SameFile
<1> SUFFICES ASSUME Linked, NEW i \in Data, DataSeen(i)'
             PROVE  RamPlaced(i)'
  BY <1>1, <1>2 DEF RamInv
<1> DEFINE at == segments[i].vaddr - DataBase
           n == segments[i].filesz
           z == segments[i].memsz
<1>3. i \in Nat /\ n \in Nat /\ z \in Nat /\ segments[i].vaddr \in Nat
  BY <1>1, DataSegments DEF LoadInv
<1> SUFFICES /\ at \in Nat /\ at + z <= RamSize /\ n <= z
             /\ \A k \in 0..(n - 1) : sram'[at + k] = <<i, k>>
             /\ \A k \in n..(z - 1) : sram'[at + k] = Zero
  BY <1>2 DEF RamPlaced, RamFilled, Holds, Zero
<1>4. CASE i = next
  <2>1. at \in Nat /\ at + z <= RamSize /\ n <= z /\ SramAddr = at
        /\ Current.filesz = n /\ Current.memsz = z
    BY <1>1, <1>4, DataStep
  <2> HIDE DEF at, n, z
  <2>2. \A a \in 0..(RamSize - 1) :
          sram'[a] = IF a \in at..(at + n - 1) THEN <<next, a - at>>
                     ELSE IF a \in (at + n)..(at + z - 1) THEN Zero ELSE sram[a]
    BY <1>1, <2>1, DataStepRam
  <2>3. ASSUME NEW k \in 0..(n - 1) PROVE sram'[at + k] = <<i, k>>
    <3>1. at + k \in 0..(RamSize - 1) /\ at + k \in at..(at + n - 1) /\ (at + k) - at = k
      BY <1>3, <2>1, Sizes
    <3> QED BY <1>4, <2>2, <3>1
  <2>4. ASSUME NEW k \in n..(z - 1) PROVE sram'[at + k] = Zero
    <3>1. /\ at + k \in 0..(RamSize - 1) /\ at + k \notin at..(at + n - 1)
          /\ at + k \in (at + n)..(at + z - 1)
      BY <1>3, <2>1, Sizes
    <3> QED BY <2>2, <3>1
  <2> QED BY <2>1, <2>3, <2>4
<1>5. CASE i # next
  <2>1. RamPlaced(i)
    <3>1. i < next
      BY <1>1, <1>3, <1>5, DataStep DEF DataSeen
    <3> QED BY <1>1, <3>1, DataStep DEF RamInv, DataSeen
  <2>2. /\ at \in Nat /\ at + z <= RamSize /\ n <= z
        /\ \A k \in 0..(n - 1) : sram[at + k] = <<i, k>>
        /\ \A k \in n..(z - 1) : sram[at + k] = Zero
    BY <2>1 DEF RamPlaced, RamFilled, Holds, Zero
  <2>3. ASSUME NEW k \in 0..(z - 1) PROVE sram'[at + k] = sram[at + k]
    <3>1. RamRange(i) \cap RamRange(next) = {}
      BY <1>1, <1>5, DataStep DEF Linked
    <3>2. segments[i].vaddr + k \in RamRange(i)
      BY <1>3 DEF RamRange
    <3>3. segments[i].vaddr + k \notin Current.vaddr..(Current.vaddr + Current.memsz - 1)
      BY <1>1, <3>1, <3>2, DataStep DEF RamRange
    <3>4. /\ Current.vaddr \in Nat /\ Current.filesz \in Nat /\ Current.memsz \in Nat
          /\ Current.filesz <= Current.memsz
          /\ SramAddr = Current.vaddr - DataBase
      BY <1>1, DataStep
    <3>5. /\ at + k \in 0..(RamSize - 1)
          /\ at + k \notin SramAddr..(SramAddr + Current.filesz - 1)
          /\ at + k \notin (SramAddr + Current.filesz)..(SramAddr + Current.memsz - 1)
      BY <1>3, <2>2, <3>3, <3>4, Sizes
    <3> QED BY <1>1, <3>5, DataStepRam
  <2>4. \A k \in 0..(n - 1) : k \in 0..(z - 1)
    BY <1>3, <2>2
  <2>5. \A k \in n..(z - 1) : k \in 0..(z - 1)
    BY <1>3
  <2> QED BY <2>2, <2>3, <2>4, <2>5
<1> QED BY <1>4, <1>5

(* Steps that leave SRAM alone. *)
LEMMA SameRam ==
  ASSUME RamInv, LoadInv', UNCHANGED <<image, sram>>,
         \A i \in Data : DataSeen(i)' => DataSeen(i)
  PROVE  RamInv'
<1>1. sram' = sram /\ segments' = segments /\ Data' = Data /\ Linked' = Linked
  BY SameFile
<1> SUFFICES ASSUME Linked, NEW i \in Data, DataSeen(i)'
             PROVE  RamPlaced(i)'
  BY <1>1 DEF RamInv
<1>2. RamPlaced(i)
  BY DEF RamInv
<1> QED BY <1>1, <1>2 DEF RamPlaced, RamFilled, Holds

LEMMA RamInvNext ==
  ASSUME RamInv, [Next]_vars
  PROVE  RamInv'
<1>1. LoadInv /\ LoadInv'
  BY LoadInvNext DEF RamInv
<1>2. Len(segments) \in Nat /\ next \in Nat
      /\ \A i \in Data : i \in Nat /\ 1 <= i /\ i <= Len(segments)
  BY <1>1, SegmentType, DataSegments DEF LoadInv, TypeOK
<1>3. CASE phase' \in {"failed", "unreadable", "header", "flash"}
  BY <1>1, <1>3 DEF RamInv, DataSeen
<1>4. CASE FlashSegment \/ CheckHeader \/ ReadFails
  BY <1>3, <1>4 DEF FlashSegment, CheckHeader, ReadFails, Fail
<1>5. CASE DataSegment /\ phase' # "failed"
  BY <1>5, DataSegmentKeepsRam
<1>6. CASE FlashDone /\ phase' # "failed"
  <2>1. phase' = "data" /\ next' = 1 /\ UNCHANGED <<image, sram>>
    BY <1>6 DEF FlashDone, Fail
  <2>2. \A i \in Data : ~ DataSeen(i)'
    BY <1>2, <2>1 DEF DataSeen
  <2> QED BY <1>1, <2>1, <2>2, SameRam
<1>7. CASE Skip /\ phase = "data"
  <2>1. next' = next + 1 /\ phase' = phase /\ UNCHANGED <<image, sram>> /\ next \notin Data
    BY <1>7 DEF Skip, Data, Current
  <2>2. \A i \in Data : DataSeen(i)' => DataSeen(i)
    BY <1>2, <1>7, <2>1 DEF DataSeen
  <2> QED BY <1>1, <2>1, <2>2, SameRam
<1>8. CASE Skip /\ phase # "data"
  BY <1>3, <1>8 DEF Skip
<1>9. CASE SetEntry /\ phase' # "failed"
  <2>1. phase = "data" /\ next > Len(segments) /\ UNCHANGED <<image, sram>>
    BY <1>9 DEF SetEntry, Fail
  <2>2. \A i \in Data : DataSeen(i)
    BY <1>2, <2>1 DEF DataSeen
  <2> QED BY <1>1, <2>1, <2>2, SameRam
<1>10. CASE UNCHANGED vars
  <2>1. UNCHANGED <<image, sram>> /\ phase' = phase /\ next' = next
    BY <1>10 DEF vars
  <2>2. \A i \in Data : DataSeen(i)' => DataSeen(i)
    BY <2>1 DEF DataSeen
  <2> QED BY <1>1, <2>1, <2>2, SameRam
<1> QED BY <1>3, <1>4, <1>5, <1>6, <1>7, <1>8, <1>9, <1>10 DEF Next

(* After a load SRAM holds the initial values and the zeros of every writable  *)
(* segment, for every number, order and size of them: no copy and no memset    *)
(* for one reaches another.                                                    *)
THEOREM RamIsReady == Spec => []RamReady
<1>1. Init => RamInv
  <2> SUFFICES ASSUME Init PROVE RamInv
    OBVIOUS
  <2>1. phase = "header" /\ LoadInv
    BY LoadInvInit DEF Init
  <2> QED BY <2>1 DEF RamInv, DataSeen
<1>2. Spec => []RamInv
  BY <1>1, RamInvNext, PTL DEF Spec
<1>3. RamInv => RamReady
  BY DEF RamInv, RamReady, DataSeen, RamPlaced
<1> QED BY <1>2, <1>3, PTL

-----------------------------------------------------------------------------
(* Flash behind .text.  When the first pass is over nextFlashAddr is where the *)
(* text ends; from there the segments without a load address follow.           *)

End(i) == segments[i].vaddr + segments[i].filesz

(* nextFlashAddr is the largest end of the segments the first pass has taken. *)
TextEndInv ==
  /\ LoadInv
  /\ phase = "header" => ~ hasText /\ nextFlashAddr = 0
  /\ phase = "flash" =>
       /\ \A i \in Text : i < next => hasText /\ End(i) <= nextFlashAddr
       /\ IF hasText THEN \E i \in Text : End(i) = nextFlashAddr ELSE nextFlashAddr = 0
  /\ phase = "data" /\ next = 1 => TextEnd = nextFlashAddr
  /\ phase \in {"data", "loaded"} => TextEnd \in 0..FlashSize

LEMMA TextEndStays ==
  ASSUME UNCHANGED image
  PROVE  TextEnd' = TextEnd
<1>1. segments' = segments /\ Text' = Text
  BY SameFile
<1>2. \A e : EndsText(e)' = EndsText(e)
  BY <1>1 DEF EndsText
<1> QED BY <1>2 DEF TextEnd

(* The end of the text is one address. *)
LEMMA TextEndUnique ==
  ASSUME image \in Images, NEW e \in 0..FlashSize, EndsText(e)
  PROVE  TextEnd = e
<1>1. \A i \in Text : End(i) \in Nat
  BY TextSegments DEF End
<1>2. \A d \in 0..FlashSize : EndsText(d) => d <= e /\ e <= d
  BY <1>1, Sizes DEF EndsText, End
<1>3. \A d \in 0..FlashSize : EndsText(d) => d = e
  BY <1>2, Sizes
<1> QED BY <1>3 DEF TextEnd

LEMMA TextEndInvNext ==
  ASSUME TextEndInv, [Next]_vars
  PROVE  TextEndInv'
<1>1. LoadInv /\ LoadInv' /\ image \in Images
  BY LoadInvNext DEF TextEndInv, LoadInv
<1>2. /\ Len(segments) \in Nat /\ next \in Nat /\ 1 <= next /\ nextFlashAddr \in 0..FlashSize
      /\ \A i \in Text : i \in Nat /\ 1 <= i /\ i <= Len(segments) /\ End(i) \in Nat
  <2>1. Len(segments) \in Nat
    BY <1>1, SegmentType
  <2>2. next \in 1..(Len(segments) + 1) /\ nextFlashAddr \in 0..FlashSize
    BY <1>1 DEF LoadInv, TypeOK
  <2>3. \A i \in Text : i \in Nat /\ 1 <= i /\ i <= Len(segments) /\ End(i) \in Nat
    BY <1>1, <2>1, TextSegments DEF End
  <2> QED BY <2>1, <2>2, <2>3
<1>3. image' = image
  BY DEF Next, vars, CheckHeader, FlashSegment, FlashDone, DataSegment, Skip, SetEntry, ReadFails
<1>4. /\ segments' = segments /\ Text' = Text /\ TextEnd' = TextEnd
      /\ \A i : End(i)' = End(i)
  BY <1>3, SameFile, TextEndStays DEF End
<1>5. CASE phase' \in {"failed", "unreadable"}
  BY <1>1, <1>5 DEF TextEndInv
<1>6. CASE CheckHeader /\ phase' # "failed"
  <2>1. /\ phase = "header" /\ phase' = "flash" /\ next' = 1
        /\ UNCHANGED <<hasText, nextFlashAddr>>
    BY <1>1, <1>6 DEF CheckHeader, Fail, LoadInv
  <2>2. \A i \in Text : ~ (i < next')
    BY <1>2, <2>1
  <2> QED BY <1>1, <1>4, <2>1, <2>2 DEF TextEndInv
<1>7. CASE FlashSegment /\ phase' # "failed"
  <2>1. /\ phase = "flash" /\ phase' = "flash" /\ next' = next + 1 /\ hasText' = TRUE
        /\ nextFlashAddr' = AfterText
    BY <1>7 DEF FlashSegment, Fail
  <2>2. next \in Text /\ End(next) = Current.vaddr + Current.filesz
    BY <1>1, <1>7, SegmentType DEF LoadInv, TypeOK, FlashSegment, Text, Current, End
  <2>3. /\ nextFlashAddr' \in {nextFlashAddr, End(next)} /\ nextFlashAddr' \in Nat
        /\ nextFlashAddr <= nextFlashAddr' /\ End(next) <= nextFlashAddr'
    BY <1>2, <2>1, <2>2 DEF AfterText
  <2>4. ASSUME NEW i \in Text, i < next' PROVE End(i) <= nextFlashAddr'
    <3>1. i = next \/ i < next
      BY <1>2, <2>1, <2>4
    <3> QED BY <1>2, <2>1, <2>3, <3>1 DEF TextEndInv
  <2>5. \E i \in Text : End(i) = nextFlashAddr'
    <3>1. CASE nextFlashAddr' = End(next)
      BY <2>2, <3>1
    <3>2. CASE nextFlashAddr' # End(next)
      <4>1. nextFlashAddr' = nextFlashAddr /\ nextFlashAddr > End(next)
        BY <1>2, <2>2, <2>3, <3>2
      <4>2. nextFlashAddr # 0
        BY <1>2, <2>2, <4>1
      <4> QED BY <2>1, <4>1, <4>2 DEF TextEndInv
    <3> QED BY <3>1, <3>2
  <2> QED BY <1>1, <1>4, <2>1, <2>4, <2>5 DEF TextEndInv
<1>8. CASE FlashDone /\ phase' # "failed"
  <2>1. /\ phase = "flash" /\ phase' = "data" /\ next > Len(segments) /\ next' = 1
        /\ hasText /\ nextFlashAddr' = nextFlashAddr
    BY <1>8 DEF FlashDone, Fail
  <2>2. EndsText(nextFlashAddr)
    BY <1>2, <2>1 DEF TextEndInv, EndsText, End
  <2>3. TextEnd = nextFlashAddr
    BY <1>1, <1>2, <2>2, TextEndUnique
  <2> QED BY <1>1, <1>2, <1>4, <2>1, <2>3 DEF TextEndInv
<1>9. CASE phase \in {"data", "loaded"} /\ next' # 1 /\ phase' \in {"data", "loaded"}
  BY <1>1, <1>4, <1>9 DEF TextEndInv
<1>10. CASE DataSegment /\ phase' # "failed"
  <2>1. phase = "data" /\ phase' = "data" /\ next' = next + 1
    BY <1>10 DEF DataSegment, Fail
  <2> QED BY <1>2, <1>9, <2>1
<1>11. CASE Skip
  <2>1. next' = next + 1 /\ phase' = phase /\ phase \in {"flash", "data"}
        /\ UNCHANGED <<nextFlashAddr, hasText>>
    BY <1>11 DEF Skip
  <2>2. CASE phase = "data"
    BY <1>1, <1>2, <1>9, <2>1, <2>2
  <2>3. CASE phase = "flash"
    <3>1. next \notin Text
      BY <1>11, <2>3 DEF Skip, Text, Current
    <3>2. \A i \in Text : i < next' => i < next
      BY <1>2, <2>1, <3>1
    <3> QED BY <1>1, <1>4, <2>1, <2>3, <3>2 DEF TextEndInv
  <2> QED BY <2>1, <2>2, <2>3
<1>12. CASE SetEntry /\ phase' # "failed"
  <2>1. phase = "data" /\ phase' = "loaded"
    BY <1>12 DEF SetEntry, Fail
  <2> QED BY <1>1, <1>4, <2>1 DEF TextEndInv
<1>13. CASE ReadFails
  BY <1>5, <1>13 DEF ReadFails
<1>14. CASE UNCHANGED vars
  BY <1>1, <1>4, <1>14 DEF TextEndInv, vars
<1> QED BY <1>5, <1>6, <1>7, <1>8, <1>10, <1>11, <1>12, <1>13, <1>14 DEF Next

(* Where the initial values of a segment are in flash. *)
DataPlaced(i) ==
  IF HasLoadAddress(i)
  THEN Holds(flash, segments[i].paddr, i) /\ segments[i].paddr + segments[i].filesz <= FlashSize
  ELSE \E at \in Nat :
         /\ TextEnd <= at /\ at + segments[i].filesz <= nextFlashAddr
         /\ Holds(flash, at, i)
DataInv ==
  /\ TextEndInv
  /\ Linked =>
       /\ phase = "data" /\ NoLoadAddress => TextEnd <= nextFlashAddr
       /\ \A i \in Initialised : DataSeen(i) => DataPlaced(i)

(* The copy of the present segment spares what an earlier one was given. *)
LEMMA DataSpared ==
  ASSUME DataInv, Linked, DataSegment, phase' # "failed",
         NEW i \in Initialised, i # next,
         NEW at \in Nat, at + segments[i].filesz <= FlashSize, Holds(flash, at, i),
         IF HasLoadAddress(i) THEN at = segments[i].paddr
         ELSE at + segments[i].filesz <= nextFlashAddr
  PROVE  Holds(flash', at, i)
<1> DEFINE n == Current.filesz
           to == FlashDest
<1>1. LoadInv /\ i \in Data
  BY DEF DataInv, TextEndInv, Initialised
<1>2. /\ flash' = Copy(flash, to, n) /\ to \in Nat /\ n \in Nat /\ next \in Nat
      /\ (n > 0 => to + n <= FlashSize)
      /\ next \in Data /\ Current = segments[next] /\ Current.paddr \in Nat
      /\ nextFlashAddr \in Nat
  BY <1>1, DataStep
<1>3. segments[i].filesz \in Nat /\ segments[i].paddr \in Nat /\ FlashSize \in Nat
      /\ DataBase \in Nat
  BY <1>1, DataSegments, Sizes DEF LoadInv
<1>4. flash \in [0..(FlashSize - 1) -> Cells]
  BY <1>1 DEF LoadInv, TypeOK
<1>5. \A k \in 0..(segments[i].filesz - 1) : at + k \notin to..(to + n - 1)
  <2>1. CASE n = 0
    BY <1>2, <1>3, <2>1
  <2>2. CASE n > 0
    <3>1. next \in Initialised /\ HasLoadAddress(i) = HasLoadAddress(next)
      BY <1>2, <2>2 DEF Initialised, Linked
    <3>2. CASE HasLoadAddress(i)
      <4>1. to = Current.paddr
        BY <1>2, <1>3, <3>1, <3>2 DEF FlashDest, HasLoadAddress
      <4>2. i \in Placed /\ next \in Placed /\ i \notin Text /\ next \notin Text
        BY <1>1, <1>2, <3>1, <3>2 DEF Placed, Data, Text
      <4>3. FlashRange(i) \cap FlashRange(next) = {}
        BY <4>2 DEF Linked
      <4>4. /\ FlashRange(i) = at..(at + segments[i].filesz - 1)
            /\ FlashRange(next) = to..(to + n - 1)
        BY <1>2, <3>2, <4>1, <4>2 DEF FlashRange
      <4>5. \A k \in 0..(segments[i].filesz - 1) : at + k \in FlashRange(i)
        BY <1>3, <4>4
      <4> QED BY <4>3, <4>4, <4>5
    <3>3. CASE ~ HasLoadAddress(i)
      <4>1. to = nextFlashAddr
        BY <1>2, <1>3, <3>1, <3>3 DEF FlashDest, HasLoadAddress
      <4>2. at + segments[i].filesz <= to
        BY <3>3, <4>1
      <4> QED BY <1>2, <1>3, <4>2
    <3> QED BY <3>2, <3>3
  <2> QED BY <1>2, <2>1, <2>2
<1> HIDE DEF n, to
<1>6. Holds(Copy(flash, to, n), at, i)
  BY ONLY <1>2, <1>3, <1>4, <1>5, at \in Nat, at + segments[i].filesz <= FlashSize,
          Holds(flash, at, i), CopyElsewhere
<1> QED BY <1>2, <1>6

LEMMA DataSegmentKeepsData ==
  ASSUME DataInv, DataSegment, phase' # "failed"
  PROVE  DataInv'
<1>1. TextEndInv /\ LoadInv /\ image' = image /\ DataSegment
  BY DEF DataInv, TextEndInv, DataSegment
<1>2. TextEndInv'
  BY <1>1, TextEndInvNext DEF Next
<1>3. /\ segments' = segments /\ Initialised' = Initialised /\ Linked' = Linked
      /\ NoLoadAddress' = NoLoadAddress /\ TextEnd' = TextEnd
      /\ \A i : HasLoadAddress(i)' = HasLoadAddress(i)
  BY <1>1, SameFile, TextEndStays
<1>4. /\ next \in Data /\ next \in Nat /\ next' = next + 1
      /\ phase = "data" /\ phase' = "data" /\ Current = segments[next]
      /\ Current.paddr \in Nat /\ Current.filesz \in Nat /\ FlashDest \in Nat
      /\ (Current.filesz > 0 => FlashDest + Current.filesz <= FlashSize)
      /\ flash' = Copy(flash, FlashDest, Current.filesz)
      /\ nextFlashAddr \in Nat /\ nextFlashAddr' = AfterData
  BY <1>1, DataStep
<1>5. /\ flash \in [0..(FlashSize - 1) -> Cells] /\ FlashSize \in Nat /\ DataBase \in Nat
      /\ TextEnd \in Nat /\ nextFlashAddr \in 0..FlashSize
  BY <1>1, <1>4, Sizes DEF LoadInv, TypeOK, TextEndInv
<1>6. ASSUME NoLoadAddress
      PROVE  /\ Current.filesz > 0 => FlashDest = nextFlashAddr
             /\ nextFlashAddr' = nextFlashAddr + Current.filesz
  <2>1. Current.filesz > 0 => ~ HasLoadAddress(next)
    BY <1>4, <1>6 DEF NoLoadAddress, Initialised
  <2>2. Current.filesz > 0 => FlashDest = nextFlashAddr
    BY <1>4, <1>5, <2>1 DEF HasLoadAddress, FlashDest
  <2> QED BY <1>4, <2>2 DEF AfterData
<1>7. ASSUME Linked, NoLoadAddress PROVE TextEnd <= nextFlashAddr'
  <2>1. TextEnd <= nextFlashAddr
    BY <1>4, <1>7 DEF DataInv
  <2> QED BY <1>4, <1>5, <1>6, <1>7, <2>1
<1>8. ASSUME Linked, NEW i \in Initialised, DataSeen(i)' PROVE DataPlaced(i)'
  <2>1. i \in Nat /\ segments[i].filesz \in Nat /\ segments[i].paddr \in Nat
    BY <1>1, DataSegments DEF LoadInv, Initialised
  <2>2. ~ HasLoadAddress(i) => NoLoadAddress
    BY <1>8 DEF Linked, NoLoadAddress
  <2>3. CASE i = next
    <3>1. Current.filesz > 0
      BY <1>4, <2>1, <2>3 DEF Initialised
    <3>2. Holds(Copy(flash, FlashDest, segments[next].filesz), FlashDest, next)
      BY <1>4, <1>5, CopyPlaces
    <3>3. Holds(flash', FlashDest, i)
      BY <1>4, <2>3, <3>2
    <3>4. CASE HasLoadAddress(i)
      <4>1. FlashDest = segments[i].paddr
        BY <1>4, <1>5, <2>3, <3>4 DEF FlashDest, HasLoadAddress
      <4> QED BY <1>3, <1>4, <2>3, <3>1, <3>3, <3>4, <4>1 DEF DataPlaced, Holds
    <3>5. CASE ~ HasLoadAddress(i)
      <4>1. /\ TextEnd <= nextFlashAddr /\ FlashDest = nextFlashAddr
            /\ nextFlashAddr' = nextFlashAddr + segments[i].filesz
        BY <1>4, <1>6, <1>8, <2>2, <2>3, <3>1, <3>5 DEF DataInv
      <4>2. /\ nextFlashAddr \in Nat /\ nextFlashAddr + segments[i].filesz <= nextFlashAddr'
            /\ TextEnd <= nextFlashAddr /\ Holds(flash', nextFlashAddr, i)
        BY <1>4, <2>1, <3>3, <4>1
      <4> QED BY <1>3, <3>5, <4>2 DEF DataPlaced, Holds
    <3> QED BY <3>4, <3>5
  <2>4. CASE i # next
    <3>1. i < next
      BY <1>4, <1>8, <2>1, <2>4 DEF DataSeen
    <3>2. DataPlaced(i)
      BY <1>4, <1>8, <3>1 DEF DataInv, DataSeen
    <3>3. CASE HasLoadAddress(i)
      <4>1. Holds(flash', segments[i].paddr, i)
        BY <1>1, <1>8, <2>1, <2>4, <3>2, <3>3, DataSpared DEF DataPlaced
      <4> QED BY <1>3, <3>2, <3>3, <4>1 DEF DataPlaced, Holds
    <3>4. CASE ~ HasLoadAddress(i)
      <4>1. PICK at \in Nat : /\ TextEnd <= at /\ at + segments[i].filesz <= nextFlashAddr
                             /\ Holds(flash, at, i)
        BY <3>2, <3>4 DEF DataPlaced
      <4>2. at + segments[i].filesz <= FlashSize
        BY <1>5, <2>1, <4>1
      <4>3. Holds(flash', at, i)
        BY <1>8, <2>4, <3>4, <4>1, <4>2, DataSpared
      <4>4. at + segments[i].filesz <= nextFlashAddr'
        <5>1. nextFlashAddr' = nextFlashAddr + Current.filesz
          BY <1>6, <2>1, <2>2, <3>4
        <5>2. nextFlashAddr \in Nat /\ Current.filesz \in Nat /\ segments[i].filesz \in Nat
          BY <1>4, <2>1
        <5> QED BY ONLY <4>1, <5>1, <5>2
      <4> QED BY <1>3, <3>4, <4>1, <4>3, <4>4 DEF DataPlaced, Holds
    <3> QED BY <3>3, <3>4
  <2> QED BY <2>3, <2>4
<1> QED BY <1>2, <1>3, <1>7, <1>8 DEF DataInv

(* Steps that leave flash alone. *)
LEMMA SameData ==
  ASSUME DataInv, TextEndInv', UNCHANGED <<image, flash, nextFlashAddr>>,
         phase' = "data" => TextEnd = nextFlashAddr \/ phase = "data",
         \A i \in Initialised : DataSeen(i)' => DataSeen(i)
  PROVE  DataInv'
<1>1. /\ flash' = flash /\ nextFlashAddr' = nextFlashAddr /\ segments' = segments
      /\ Initialised' = Initialised /\ Linked' = Linked
      /\ NoLoadAddress' = NoLoadAddress /\ TextEnd' = TextEnd
      /\ \A i : HasLoadAddress(i)' = HasLoadAddress(i)
  BY SameFile, TextEndStays
<1>2. nextFlashAddr \in Int
  BY DEF DataInv, TextEndInv, LoadInv, TypeOK
<1>3. ASSUME Linked, NEW i \in Initialised, DataSeen(i)' PROVE DataPlaced(i)'
  <2>1. DataPlaced(i)
    BY <1>3 DEF DataInv
  <2> QED BY <1>1, <2>1 DEF DataPlaced, Holds
<1>4. ASSUME Linked, NoLoadAddress, phase' = "data" PROVE TextEnd <= nextFlashAddr
  BY <1>2, <1>4 DEF DataInv
<1> QED BY <1>1, <1>3, <1>4 DEF DataInv

LEMMA DataInvNext ==
  ASSUME DataInv, [Next]_vars
  PROVE  DataInv'
<1>1. TextEndInv /\ TextEndInv' /\ LoadInv /\ LoadInv'
  BY TextEndInvNext DEF DataInv, TextEndInv
<1>2. /\ Len(segments) \in Nat /\ next \in Nat
      /\ \A i \in Initialised : i \in Data /\ i \in Nat /\ 1 <= i /\ i <= Len(segments)
  BY <1>1, SegmentType, DataSegments DEF LoadInv, TypeOK, Initialised
<1>3. CASE phase' \in {"failed", "unreadable", "header", "flash"}
  BY <1>1, <1>3 DEF DataInv, DataSeen
<1>4. CASE FlashSegment \/ CheckHeader \/ ReadFails
  BY <1>3, <1>4 DEF FlashSegment, CheckHeader, ReadFails, Fail
<1>5. CASE DataSegment /\ phase' # "failed"
  BY <1>5, DataSegmentKeepsData
<1>6. CASE FlashDone /\ phase' # "failed"
  <2>1. phase' = "data" /\ next' = 1 /\ UNCHANGED <<image, flash, nextFlashAddr>>
    BY <1>6 DEF FlashDone, Fail
  <2>2. TextEnd = nextFlashAddr
    BY <1>1, <2>1, TextEndStays DEF TextEndInv
  <2>3. \A i \in Initialised : ~ DataSeen(i)'
    BY <1>2, <2>1 DEF DataSeen
  <2> QED BY <1>1, <2>1, <2>2, <2>3, SameData
<1>7. CASE Skip /\ phase = "data"
  <2>1. /\ next' = next + 1 /\ phase' = phase /\ next \notin Data
        /\ UNCHANGED <<image, flash, nextFlashAddr>>
    BY <1>7 DEF Skip, Data, Current
  <2>2. \A i \in Initialised : DataSeen(i)' => DataSeen(i)
    BY <1>2, <1>7, <2>1 DEF DataSeen
  <2> QED BY <1>1, <1>7, <2>1, <2>2, SameData
<1>8. CASE Skip /\ phase # "data"
  BY <1>3, <1>8 DEF Skip
<1>9. CASE SetEntry /\ phase' # "failed"
  <2>1. /\ phase = "data" /\ phase' = "loaded" /\ next > Len(segments)
        /\ UNCHANGED <<image, flash, nextFlashAddr>>
    BY <1>9 DEF SetEntry, Fail
  <2>2. \A i \in Initialised : DataSeen(i)
    BY <1>2, <2>1 DEF DataSeen
  <2> QED BY <1>1, <2>1, <2>2, SameData
<1>10. CASE UNCHANGED vars
  <2>1. UNCHANGED <<image, flash, nextFlashAddr>> /\ phase' = phase /\ next' = next
    BY <1>10 DEF vars
  <2>2. \A i \in Initialised : DataSeen(i)' => DataSeen(i)
    BY <2>1 DEF DataSeen
  <2> QED BY <1>1, <2>1, <2>2, SameData
<1> QED BY <1>3, <1>4, <1>5, <1>6, <1>7, <1>8, <1>9, <1>10 DEF Next

LEMMA TextEndInvInit ==
  ASSUME Init
  PROVE  TextEndInv
<1>1. LoadInv /\ phase = "header" /\ ~ hasText /\ nextFlashAddr = 0
  BY LoadInvInit DEF Init
<1> QED BY <1>1 DEF TextEndInv

(* After a load start-up code finds the initial values of each segment, at its *)
(* load address or behind the last byte of .text, whatever the order of the    *)
(* segments: no later copy overwrites an earlier one.                          *)
THEOREM StartupFinds == Spec => []StartupFindsData
<1>1. Init => DataInv
  <2> SUFFICES ASSUME Init PROVE DataInv
    OBVIOUS
  <2>1. phase = "header" /\ TextEndInv
    BY TextEndInvInit DEF Init
  <2> QED BY <2>1 DEF DataInv, DataSeen
<1>2. Spec => []DataInv
  BY <1>1, DataInvNext, PTL DEF Spec
<1>3. DataInv => StartupFindsData
  <2> SUFFICES ASSUME DataInv, phase = "loaded", Linked, NEW i \in Initialised,
                      ~ HasLoadAddress(i)
               PROVE  \E at \in TextEnd..(FlashSize - segments[i].filesz) : Holds(flash, at, i)
    BY DEF DataInv, StartupFindsData, DataSeen, DataPlaced
  <2>1. PICK at \in Nat : /\ TextEnd <= at /\ at + segments[i].filesz <= nextFlashAddr
                         /\ Holds(flash, at, i)
    BY DEF DataInv, DataSeen, DataPlaced
  <2>2. /\ segments[i].filesz \in Nat /\ nextFlashAddr \in 0..FlashSize
        /\ TextEnd \in 0..FlashSize /\ FlashSize \in Nat
    BY DataSegments, Sizes DEF DataInv, TextEndInv, LoadInv, TypeOK, Initialised
  <2>3. at \in TextEnd..(FlashSize - segments[i].filesz)
    BY <2>1, <2>2
  <2> QED BY <2>1, <2>3
<1> QED BY <1>2, <1>3, PTL

-----------------------------------------------------------------------------
(* No file that fits is refused.  In a file that fits each segment passes the  *)
(* checks, and with no load address the data before it fills flash no further  *)
(* than the layout says.                                                       *)

FitInv ==
  /\ TextEndInv
  /\ Linked /\ Fits =>
       /\ phase # "failed"
       /\ phase = "data" =>
            \A end \in [0..Len(segments) -> 0..FlashSize] :
              Placed = Text /\ Behind(end) => nextFlashAddr = end[next - 1]

LEMMA SameFit ==
  ASSUME UNCHANGED image
  PROVE  /\ Fits' = Fits /\ Linked' = Linked
         /\ \A end : (Placed = Text /\ Behind(end))' = (Placed = Text /\ Behind(end))
<1>1. /\ segments' = segments /\ Text' = Text /\ Data' = Data /\ Placed' = Placed
      /\ Initialised' = Initialised /\ TextEnd' = TextEnd /\ Linked' = Linked
      /\ \A i : FlashRange(i)' = FlashRange(i)
  BY SameFile, TextEndStays
<1>2. \A end : Behind(end)' = Behind(end)
  BY <1>1 DEF Behind
<1> QED BY <1>1, <1>2 DEF Fits

(* Each check of the code succeeds on a file that fits. *)
LEMMA FitHeader ==
  ASSUME LoadInv, Fits, CheckHeader
  PROVE  phase' = "flash"
<1>1. segments # <<>>
  BY SegmentType DEF Fits, Text, LoadInv
<1>2. \A i \in DOMAIN segments : segments[i].load =>
        segments[i].filesz <= segments[i].memsz /\ segments[i].inFile
  BY DEF Fits, Text, Data
<1> QED BY <1>1, <1>2 DEF CheckHeader, Fits

LEMMA FitText ==
  ASSUME LoadInv, Fits, FlashSegment
  PROVE  phase' = "flash"
<1>1. next \in Text /\ Current = segments[next]
  BY SegmentType DEF LoadInv, TypeOK, FlashSegment, Text, Current
<1>2. /\ Current.vaddr \in Nat /\ Current.filesz \in Nat
      /\ Current.vaddr + Current.filesz <= FlashSize
  BY <1>1, TextSegments DEF Fits, LoadInv
<1>3. Current.vaddr < DataBase /\ RangeFits(Current.vaddr, Current.filesz, FlashSize)
  BY <1>2, Sizes DEF RangeFits
<1> QED BY <1>3 DEF FlashSegment

LEMMA FitTextDone ==
  ASSUME TextEndInv, Fits, FlashDone
  PROVE  phase' = "data"
<1>1. phase = "flash" /\ next > Len(segments) /\ LoadInv
  BY DEF FlashDone, TextEndInv
<1>2. PICK i \in Text : i \in 1..Len(segments)
  BY <1>1, TextSegments DEF Fits, LoadInv
<1>3. i < next
  BY <1>1, <1>2, SegmentType DEF LoadInv, TypeOK
<1>4. hasText
  BY <1>1, <1>3 DEF TextEndInv
<1> QED BY <1>4 DEF FlashDone

LEMMA FitData ==
  ASSUME FitInv, Linked, Fits, DataSegment
  PROVE  phase' = "data"
<1>1. LoadInv /\ phase = "data"
  BY DEF FitInv, TextEndInv, DataSegment
<1>2. /\ next \in Data /\ next \in 1..Len(segments) /\ Current = segments[next]
  BY <1>1, SegmentType DEF LoadInv, TypeOK, DataSegment, Data, Current
<1>3. /\ Current.vaddr \in Nat /\ Current.paddr \in Nat
      /\ Current.filesz \in Nat /\ Current.memsz \in Nat /\ next \in Nat
  BY <1>1, <1>2, DataSegments DEF LoadInv
<1>4. /\ Current.vaddr \in DataBase..DataLimit
      /\ Current.vaddr - DataBase + Current.memsz <= RamSize
  BY <1>2 DEF Fits
<1>5. SramAddr = Current.vaddr - DataBase
  BY <1>3, <1>4, Sizes DEF SramAddr
<1>6. RangeFits(SramAddr, Current.memsz, RamSize)
  BY <1>3, <1>4, <1>5, Sizes DEF RangeFits
<1>7. ASSUME Current.filesz > 0 PROVE RangeFits(FlashDest, Current.filesz, FlashSize)
  <2>1. next \in Initialised
    BY <1>2, <1>7 DEF Initialised
  <2>2. CASE HasLoadAddress(next)
    <3>1. next \in Placed /\ next \notin Text
      BY <1>2, <2>1, <2>2 DEF Placed, Data, Text
    <3>2. Current.paddr..(Current.paddr + Current.filesz - 1) \subseteq 0..(FlashSize - 1)
      BY <1>2, <3>1 DEF Fits, FlashRange
    <3>3. Current.paddr + Current.filesz - 1 \in 0..(FlashSize - 1)
      BY <1>3, <1>7, <3>2
    <3>4. FlashDest = Current.paddr
      BY <1>2, <1>3, <2>2, Sizes DEF FlashDest, HasLoadAddress
    <3> QED BY <1>3, <3>3, <3>4, Sizes DEF RangeFits
  <2>3. CASE ~ HasLoadAddress(next)
    <3>1. Placed = Text
      BY <2>1, <2>3 DEF Linked, Placed
    <3>2. PICK end \in [0..Len(segments) -> 0..FlashSize] : Behind(end)
      BY <3>1 DEF Fits
    <3>3. nextFlashAddr = end[next - 1]
      BY <1>1, <3>1, <3>2 DEF FitInv
    <3>4. end[next] = end[next - 1] + Current.filesz
      BY <1>1, <1>2, <2>1, <3>2, SegmentType DEF Behind, LoadInv
    <3>5. end[next] \in 0..FlashSize /\ end[next - 1] \in 0..FlashSize
      <4>1. next \in 0..Len(segments) /\ next - 1 \in 0..Len(segments)
        BY <1>1, <1>2, <1>3, SegmentType DEF LoadInv
      <4> QED BY <3>2, <4>1
    <3>6. FlashDest = nextFlashAddr
      BY <1>2, <1>3, <2>3, Sizes DEF FlashDest, HasLoadAddress
    <3>7. FlashDest \in Nat /\ FlashDest + Current.filesz \in 0..FlashSize
      BY ONLY <1>3, <3>3, <3>4, <3>5, <3>6, Sizes
    <3> QED BY ONLY <1>3, <3>7, Sizes DEF RangeFits
  <2> QED BY <2>2, <2>3
<1>8. DataBase <= Current.vaddr /\ Current.vaddr <= DataLimit
  BY <1>3, <1>4, Sizes
<1> QED BY <1>1, <1>6, <1>7, <1>8 DEF DataSegment

(* nextFlashAddr follows the layout through the second pass. *)
LEMMA LayoutFollowed ==
  ASSUME FitInv, Linked, Fits, phase = "data", DataSegment \/ Skip, phase' = "data",
         NEW end \in [0..Len(segments) -> 0..FlashSize], Placed = Text, Behind(end)
  PROVE  nextFlashAddr' = end[next' - 1]
<1>1. LoadInv /\ nextFlashAddr = end[next - 1]
  BY DEF FitInv, TextEndInv
<1>2. /\ next \in 1..Len(segments) /\ next \in Nat /\ next' = next + 1
      /\ Len(segments) \in Nat /\ DOMAIN segments = 1..Len(segments)
  BY <1>1, SegmentType DEF LoadInv, TypeOK, DataSegment, Skip, Fail
<1>3. end[next] = end[next - 1] + (IF next \in Initialised THEN segments[next].filesz ELSE 0)
  BY <1>2 DEF Behind
<1>4. end[next - 1] \in 0..FlashSize /\ end[next] \in 0..FlashSize
  BY <1>2
<1>5. CASE Skip
  <2>1. nextFlashAddr' = nextFlashAddr /\ next \notin Initialised
    BY <1>5 DEF Skip, Initialised, Data, Current
  <2> QED BY <1>1, <1>2, <1>3, <1>4, <2>1
<1>6. CASE DataSegment
  <2>1. /\ next \in Data /\ Current = segments[next] /\ Current.paddr \in Nat
        /\ Current.filesz \in Nat /\ nextFlashAddr' = AfterData
    BY <1>1, <1>6, DataStep
  <2>2. CASE Current.filesz > 0
    <3>1. next \in Initialised
      BY <2>1, <2>2 DEF Initialised
    <3>2. ~ HasLoadAddress(next)
      BY <2>1, <3>1 DEF Placed, Text, Data
    <3>3. FlashDest = nextFlashAddr
      BY <2>1, <3>2, Sizes DEF FlashDest, HasLoadAddress
    <3> QED BY <1>1, <1>2, <1>3, <1>4, <2>1, <2>2, <3>1, <3>3 DEF AfterData
  <2>3. CASE ~ (Current.filesz > 0)
    <3>1. next \notin Initialised
      BY <2>1, <2>3 DEF Initialised
    <3> QED BY <1>1, <1>2, <1>3, <1>4, <2>1, <2>3, <3>1 DEF AfterData
  <2> QED BY <2>2, <2>3
<1> QED BY <1>5, <1>6

LEMMA FitInvNext ==
  ASSUME FitInv, [Next]_vars
  PROVE  FitInv'
<1>1. TextEndInv /\ TextEndInv' /\ LoadInv
  BY TextEndInvNext DEF FitInv, TextEndInv
<1>2. image' = image
  BY DEF Next, vars, CheckHeader, FlashSegment, FlashDone, DataSegment, Skip, SetEntry, ReadFails
<1>3. /\ Fits' = Fits /\ Linked' = Linked /\ segments' = segments
      /\ \A end : (Placed = Text /\ Behind(end))' = (Placed = Text /\ Behind(end))
  BY <1>2, SameFit, SameFile
<1> SUFFICES ASSUME Linked, Fits
             PROVE  /\ phase' # "failed"
                    /\ phase' = "data" =>
                         \A end \in [0..Len(segments) -> 0..FlashSize] :
                           Placed = Text /\ Behind(end) => nextFlashAddr' = end[next' - 1]
  BY <1>1, <1>3 DEF FitInv
<1>4. CASE CheckHeader
  BY <1>1, <1>4, FitHeader
<1>5. CASE FlashSegment
  BY <1>1, <1>5, FitText
<1>6. CASE FlashDone
  <2>1. phase' = "data" /\ next' = 1 /\ nextFlashAddr' = nextFlashAddr
    BY <1>1, <1>6, FitTextDone DEF FlashDone, Fail
  <2>2. TextEnd = nextFlashAddr'
    BY <1>1, <1>2, <2>1, TextEndStays DEF TextEndInv
  <2> QED BY <2>1, <2>2 DEF Behind
<1>7. CASE DataSegment
  <2>1. phase' = "data" /\ phase = "data"
    BY <1>7, FitData DEF DataSegment
  <2> QED BY <1>7, <2>1, LayoutFollowed
<1>8. CASE Skip
  <2>1. phase' = phase /\ phase # "failed"
    BY <1>8 DEF Skip, FitInv
  <2> QED BY <1>8, <2>1, LayoutFollowed
<1>9. CASE SetEntry
  BY <1>9 DEF SetEntry, Fits
<1>10. CASE ReadFails
  BY <1>10 DEF ReadFails
<1>11. CASE UNCHANGED vars
  BY <1>11 DEF vars, FitInv
<1> QED BY <1>4, <1>5, <1>6, <1>7, <1>8, <1>9, <1>10, <1>11 DEF Next

(* A file in order, whose segments fit flash and SRAM to the last byte, is not *)
(* refused: rangeFits turns nothing away that has room.                        *)
THEOREM FittingFileAccepted == Spec => []AcceptsWhatFits
<1>1. Init => FitInv
  <2> SUFFICES ASSUME Init PROVE FitInv
    OBVIOUS
  <2>1. phase = "header" /\ TextEndInv
    BY TextEndInvInit DEF Init
  <2> QED BY <2>1 DEF FitInv
<1>2. Spec => []FitInv
  BY <1>1, FitInvNext, PTL DEF Spec
<1>3. FitInv => AcceptsWhatFits
  BY DEF FitInv, AcceptsWhatFits
<1> QED BY <1>2, <1>3, PTL
=============================================================================
