-------------------------------- MODULE Loader --------------------------------
(***************************************************************************)
(* loadFirmware (loader.cpp): checks of the ELF file, a pass over the      *)
(* segments that are not writable, a pass over those that are, the entry   *)
(* point.  A byte of the file is <<segment, offset>>, so that memory shows *)
(* where each of its bytes came from.  Copies are written as the code      *)
(* writes them: a copy past the end of an array grows its domain.          *)
(***************************************************************************)
EXTENDS Integers, Sequences

CONSTANTS
  FlashSize,   \* AVR_FLASH_SIZE
  RamSize,     \* AVR_SRAM_SIZE
  DataBase,    \* 0x800000
  DataLimit,   \* 0x80FFFF
  Modulus,     \* 2^32, the width of the fields of a header
  Images       \* bound: the files given to the loader

Segments ==
  [load : BOOLEAN, writable : BOOLEAN, inFile : BOOLEAN, vaddr : Nat, paddr : Nat,
   filesz : Nat, memsz : Nat]

ASSUME LoaderAssumption ==
  /\ FlashSize \in Nat \ {0} /\ RamSize \in Nat \ {0} /\ Modulus \in Nat \ {0}
  /\ DataBase \in Nat /\ FlashSize < DataBase
  /\ DataLimit \in Nat /\ DataLimit < DataBase + 65536
  /\ \A im \in Images :
       im.header \in BOOLEAN /\ im.entry \in Nat /\ im.segments \in Seq(Segments)

VARIABLES
  image,          \* the file: are its header and its table valid, entry point, segments
  phase,          \* where the call is, and its outcome
  next,           \* the segment the present pass is at
  flash, sram,    \* AvrState
  pc,
  nextFlashAddr, hasText   \* locals of the code

vars == <<image, phase, next, flash, sram, pc, nextFlashAddr, hasText>>

Zero == <<0, 0>>
segments == image.segments
Current == segments[next]

-----------------------------------------------------------------------------
(* Operators with a suffix are wrong on purpose (README, "Mutants"). *)
RangeFits32(offset, size, limit) == (offset + size) % Modulus <= limit
RangeFitsStrict(offset, size, limit) == offset < limit /\ size < limit - offset

RangeFits(offset, size, limit) == offset <= limit /\ size <= limit - offset

(* The array after n bytes of the present segment, or zeros, went to at. *)
Copy(array, at, n) ==
  [a \in DOMAIN array \cup at..(at + n - 1) |->
     IF a \in at..(at + n - 1) THEN <<next, a - at>> ELSE array[a]]
Clear(array, at, n) ==
  [a \in DOMAIN array \cup at..(at + n - 1) |->
     IF a \in at..(at + n - 1) THEN Zero ELSE array[a]]

Fail == phase' = "failed" /\ UNCHANGED <<next, flash, sram, pc, nextFlashAddr, hasText>>

(* An error of the file system, at the open or at any read. *)
ReadFails ==
  /\ phase \in {"header", "flash", "data"}
  /\ phase' = "unreadable"
  /\ UNCHANGED <<image, next, flash, sram, pc, nextFlashAddr, hasText>>

CheckHeader ==
  /\ phase = "header"
  /\ IF /\ image.header /\ segments # <<>>
        /\ \A i \in DOMAIN segments : LET s == segments[i] IN
             s.load => s.filesz <= s.memsz /\ s.inFile
     THEN phase' = "flash" /\ UNCHANGED <<next, flash, sram, pc, nextFlashAddr, hasText>>
     ELSE Fail
  /\ UNCHANGED image

(* Pass 1. *)
AfterTextNoMax == Current.vaddr + Current.filesz
AfterText ==
  LET end == Current.vaddr + Current.filesz IN IF end > nextFlashAddr THEN end ELSE nextFlashAddr

FlashSegment ==
  /\ phase = "flash" /\ next <= Len(segments)
  /\ Current.load /\ ~ Current.writable
  /\ IF Current.vaddr < DataBase /\ RangeFits(Current.vaddr, Current.filesz, FlashSize)
     THEN /\ flash' = Copy(flash, Current.vaddr, Current.filesz)
          /\ nextFlashAddr' = AfterText
          /\ hasText' = TRUE /\ next' = next + 1
          /\ UNCHANGED <<phase, sram, pc>>
     ELSE Fail
  /\ UNCHANGED image

FlashDone ==
  /\ phase = "flash" /\ next > Len(segments)
  /\ IF hasText
     THEN phase' = "data" /\ next' = 1 /\ UNCHANGED <<flash, sram, pc, nextFlashAddr, hasText>>
     ELSE Fail
  /\ UNCHANGED image

(* Pass 2. *)
SramAddr == (Current.vaddr - DataBase) % 65536
FlashDest == IF Current.paddr >= DataBase THEN nextFlashAddr ELSE Current.paddr
BssStartAtData == SramAddr
BssStart == SramAddr + Current.filesz

AfterDataSame == nextFlashAddr
AfterData == IF Current.filesz > 0 THEN FlashDest + Current.filesz ELSE nextFlashAddr

DataSegment ==
  /\ phase = "data" /\ next <= Len(segments)
  /\ Current.load /\ Current.writable
  /\ IF /\ DataBase <= Current.vaddr /\ Current.vaddr <= DataLimit
        /\ RangeFits(SramAddr, Current.memsz, RamSize)
        /\ Current.filesz > 0 => RangeFits(FlashDest, Current.filesz, FlashSize)
     THEN /\ flash' = Copy(flash, FlashDest, Current.filesz)
          /\ sram' = Clear(Copy(sram, SramAddr, Current.filesz),
                           BssStart, Current.memsz - Current.filesz)
          /\ nextFlashAddr' = AfterData
          /\ next' = next + 1 /\ UNCHANGED <<phase, pc, hasText>>
     ELSE Fail
  /\ UNCHANGED image

(* The segments a pass passes over. *)
Skip ==
  /\ phase \in {"flash", "data"} /\ next <= Len(segments)
  /\ ~ Current.load \/ Current.writable = (phase = "flash")
  /\ next' = next + 1
  /\ UNCHANGED <<image, phase, flash, sram, pc, nextFlashAddr, hasText>>

SetEntry ==
  /\ phase = "data" /\ next > Len(segments)
  /\ IF image.entry < FlashSize
     THEN /\ pc' = image.entry /\ phase' = "loaded"
          /\ UNCHANGED <<next, flash, sram, nextFlashAddr, hasText>>
     ELSE Fail
  /\ UNCHANGED image

-----------------------------------------------------------------------------
Init ==
  /\ image \in Images /\ phase = "header" /\ next = 1
  /\ flash = [a \in 0..(FlashSize - 1) |-> Zero]
  /\ sram = [a \in 0..(RamSize - 1) |-> Zero]
  /\ pc = 0 /\ nextFlashAddr = 0 /\ hasText = FALSE

Next ==
  CheckHeader \/ FlashSegment \/ FlashDone \/ DataSegment \/ Skip \/ SetEntry \/ ReadFails

Spec == Init /\ [][Next]_vars

-----------------------------------------------------------------------------
(* Types.  The domains say that no copy leaves flash or SRAM, whatever sizes   *)
(* and addresses a file states, rangeFits being the only guard of each memcpy  *)
(* and memset.                                                                 *)
Cells == Nat \X Nat
TypeOK ==
  /\ next \in 1..(Len(segments) + 1)
  /\ phase \in {"header", "flash", "data", "loaded", "failed", "unreadable"}
  /\ flash \in [0..(FlashSize - 1) -> Cells] /\ sram \in [0..(RamSize - 1) -> Cells]
  /\ pc \in 0..(FlashSize - 1) /\ nextFlashAddr \in 0..FlashSize /\ hasText \in BOOLEAN

(* What a linker guarantees: segments lie apart in flash and in data memory,   *)
(* and either every .data has a load address or none has.                      *)
Text == {i \in DOMAIN segments : segments[i].load /\ ~ segments[i].writable}
Data == {i \in DOMAIN segments : segments[i].load /\ segments[i].writable}
Initialised == {i \in Data : segments[i].filesz > 0}
HasLoadAddress(i) == segments[i].paddr < DataBase
Placed == Text \cup {i \in Initialised : HasLoadAddress(i)}
FlashRange(i) ==
  LET s == segments[i]
      at == IF i \in Text THEN s.vaddr ELSE s.paddr
  IN  at..(at + s.filesz - 1)
RamRange(i) == segments[i].vaddr..(segments[i].vaddr + segments[i].memsz - 1)
Linked ==
  /\ \A i, j \in Placed : i # j => FlashRange(i) \cap FlashRange(j) = {}
  /\ \A i, j \in Data : i # j => RamRange(i) \cap RamRange(j) = {}
  /\ \A i, j \in Initialised : HasLoadAddress(i) = HasLoadAddress(j)

Holds(array, at, i) == \A k \in 0..(segments[i].filesz - 1) : array[at + k] = <<i, k>>

(* After a load every byte of .text is in flash at its address: the .data put  *)
(* behind it has not overwritten it, in whatever order the segments come.      *)
TextIntact == phase = "loaded" /\ Linked => \A i \in Text : Holds(flash, segments[i].vaddr, i)

(* After a load SRAM is what start-up code would make it: initial values, then *)
(* zeros.                                                                      *)
RamFilled(i) ==
  LET s == segments[i]
      at == s.vaddr - DataBase
  IN  Holds(sram, at, i) /\ \A k \in s.filesz..(s.memsz - 1) : sram[at + k] = Zero
RamReady == phase = "loaded" /\ Linked => \A i \in Data : RamFilled(i)

(* Start-up code finds the initial values of each segment in flash: at its     *)
(* load address, or behind .text if it has none (loader.h:14).                 *)
EndsText(e) ==
  /\ \A i \in Text : segments[i].vaddr + segments[i].filesz <= e
  /\ \E i \in Text : segments[i].vaddr + segments[i].filesz = e
TextEnd == CHOOSE e \in 0..FlashSize : EndsText(e)
StartupFindsData ==
  phase = "loaded" /\ Linked =>
    \A i \in Initialised :
      IF HasLoadAddress(i) THEN Holds(flash, segments[i].paddr, i)
      ELSE \E at \in TextEnd..(FlashSize - segments[i].filesz) : Holds(flash, at, i)

(* end[i] is where flash is full to when the segments up to i are put behind   *)
(* .text one after another.                                                    *)
Behind(end) ==
  /\ end[0] = TextEnd
  /\ \A i \in DOMAIN segments :
       end[i] = end[i - 1] + (IF i \in Initialised THEN segments[i].filesz ELSE 0)

(* A file that is in order and fits, to the last byte, is not refused.         *)
Fits ==
  /\ image.header /\ Text # {} /\ image.entry < FlashSize
  /\ \A i \in Text \cup Data : segments[i].inFile /\ segments[i].filesz <= segments[i].memsz
  /\ \A i \in Text : segments[i].vaddr + segments[i].filesz <= FlashSize
  /\ \A i \in Data : LET s == segments[i] IN
       s.vaddr \in DataBase..DataLimit /\ s.vaddr - DataBase + s.memsz <= RamSize
  /\ \A i \in Placed : FlashRange(i) \subseteq 0..(FlashSize - 1)
  /\ Placed = Text => \E end \in [0..Len(segments) -> 0..FlashSize] : Behind(end)
AcceptsWhatFits == phase = "failed" /\ Linked => ~ Fits
=============================================================================
