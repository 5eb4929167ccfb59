# ATmega328P emulator: TLA+ models, checks and proofs

This directory holds TLA+ models of the emulator in `src/`, the TLC
configurations that check them on small instances, and theorems proved with
TLAPS for every value of the constants. Source references such as
`executor.cpp:118` are to `src/src/`.

1. [The system](#the-system)
2. [Modules](#modules)
3. [What the runs check](#what-the-runs-check)
4. [Bounds](#bounds)
5. [Fairness and deadlock](#fairness-and-deadlock)
6. [Proofs](#proofs)
7. [Mutants](#mutants)
8. [Where code and promise differ](#where-code-and-promise-differ)
9. [What the models show besides](#what-the-models-show-besides)
10. [What is not modelled](#what-is-not-modelled)
11. [Plan](#plan)

## The system

The emulator loads an AVR ELF file, executes it on a thread of its own and shows
the machine in a terminal interface on the main thread.

```
   main thread (FTXUI)          emulator thread                    files
   keys, drawing, join  <-----> executeProgram  <---- flash, sram -- loadFirmware
      | g_emu_stop/pause,          |   once per iteration:
      | emuDone/emuError,          |   uartPoll -> Timer0 flags -> interruptService
      | snapshot mutex             |   -> fetch, decode, execute -> timer0Tick
   refresh thread                  |        |             |
      posts redraw events       data space (memory.cpp): registers, CPU registers,
                                Timer0, UART, SRAM, in that order of address checks
      | uartInjectRx/uartPopTx     |
      +-------- tuiMutex ----------+
```

| Part | State | Operations | What is hard about it |
|---|---|---|---|
| execution loop (`executor.cpp:79-203`) | `pc`, SREG, the cycle counter, the fault flag | one iteration: stop and pause, poll, raise, service, fetch, decode, execute, fault check, tick, publish, pace | interrupts between any two instructions; errors half way through an iteration; which request goes first and which is forgotten |
| interrupt controller (`interrupt.cpp`) | mask of pending vectors | raise, lowest vector first, dispatch, drop an unprogrammed vector | one request lives in two places, the pending mask and the peripheral's flag |
| hardware stack (`memory.cpp:300-362`) | SP, the stack bytes, the fault flag | push and pop of bytes and words | bounds at both ends, failures between the two bytes of a word, SP written one byte at a time |
| data space (`memory.cpp:133-299`, loads and stores of `executor.cpp`) | 32 registers, SREG, SP, SRAM | `readDataByte`, `writeDataByte`, bit helpers; LDS/STS, LD/ST with pointer updates, LDD/STD, IN/OUT, SBI/CBI, PUSH/POP | order of address checks, narrowing of addresses, registers that are also pointers, wrapping |
| Timer0 (`timer0.cpp`) | TCCR0A/B, TCNT0, OCR0A/B, TIMSK0, TIFR0, the prescaler accumulator | `timer0Tick`, register writes, acknowledge | many timer clocks in one call, changing top, prescaler changed with cycles collected |
| UART (`uart.cpp`) | receive queue, one-byte receive buffer, transmit buffer, UCSR0A/B/C, UBRR | inject, poll, read and write of UDR0, UCSR0B, pop | two threads, order of bytes, interrupts raised at edges only |
| TUI and threads (`main.cpp:114-492`) | `g_emu_stop`, `g_emu_pause`, `emuDone`, `emuError`, `refreshStop`, snapshot | keys, drawing, end of run, shutdown and join | three threads and five flags, each read at one moment and used at another |
| ELF loader (`loader.cpp`) | flash, SRAM, entry point | header checks, pass over code, pass over data | 32-bit sums, order of segments, where initial values of `.data` go |
| ALU and register instructions (`executor.cpp:418-1117`, 1282-1295, 1465-1515, 1633-1710, 1737-1781) | registers, SREG, flash | 80-odd instructions | carry, sign and the 16-bit pairs; flags made by one instruction and read by another far away |
| decoder (`decoder.h:189-395`, `decoder.cpp`, `executor.cpp:241-402`) | none | first match of mask and code in a table, operand decoders, dispatch | order of overlapping rows, scattered operand bits |
| disassembler (`disasm.cpp`) and its tab (`main.cpp:282-326`) | none | text of an instruction, the lines around pc | where the sweep starts, targets computed a second time |
| error messages (`error.cpp`) | none | formatting | nothing beyond wording |

What makes them correct, in the order this project asks it: every event is
served once, in time and with the return address intact; the stack stays where it
belongs; the timer computes what its definition says however it is called; no byte
of the UART is lost between the threads; every run ends, and says how, when the user
wants it to; memory is memory; a loaded program is where the CPU and start-up
code look for it; every machine word executes as the instruction that an assembler
made it of, and compiled routines compute what they should; emulated time keeps to
the wall clock.

## Modules

| Module | Models | How |
|---|---|---|
| `InterruptLine` | what the interrupt system promises | abstract: events become outstanding, a delivery uses one up with I set and clears I |
| `Executor` | `executor.cpp:95-176`, `interrupt.cpp`, the stack of `memory.cpp`, RET, RETI, CALL, skips and the I flag | one iteration of the loop is up to three steps: `Service` (poll, raise, service), `Execute` or an error, `Tick` |
| `Timer0` | all of `timer0.cpp` | `TickBegin` is `timer0Tick` up to its loop, `Count` one turn of the loop, one action per register write |
| `Tui` | the threads of `runTui` and the stop, pause and publish steps of the loop | one step per load or store of a shared flag |
| `Channel` | what a serial line promises | abstract: what is received is a first part of what was sent |
| `Uart` | all of `uart.cpp` in TUI mode | one action per critical section; firmware does anything at any time |
| `UartIrq` | the same UART under firmware that polls and under firmware driven by interrupts | the firmware is the environment: any use of the registers, or what a serial library does; it is not part of the emulator |
| `DataSpace` | the routing of `memory.cpp:133-299` and the instructions that go through it | one action per addressing mode |
| `Loader` | all of `loadFirmware` | one step per segment of each pass; a byte of a file is `<<segment, offset>>`, so memory shows where its content came from |
| `Alu` | the arithmetic, compare, shift and multiply instructions of `executor.cpp:418-1102` | operators from register values and SREG to the value stored and the new SREG |
| `AluChains` | numbers of several bytes, worked byte by byte with those instructions | the routines are firmware, the environment: what a compiler makes of `a + b` on integers of 16, 24, 32 bits |
| `Decoder` | the opcode table, its first match, the operand decoders, the dispatch of `executeInstruction` | pure operators on a word; the table is one tuple per row, in the source's order |
| `Flash` | the loop of `Executor` on machine words in flash | extends `Executor` and `Decoder`: the firmware is what the decoder makes of every byte address of an image |
| `Disasm` | `disassemble` and the lines of the disassembly tab | a text is the sequence of what it shows; extends `Flash`, so that it is compared with what executes |
| `Registers` | the instructions on registers, SREG, pc and flash, from their words | a machine record and one operator per function, with `Decoder` before and `Alu` inside; `After` runs it |
| `Pacing` | cycle count, poll, snapshot and wall-clock thresholds, sleep | one action per branch of the end of an iteration; the host's clock is an action of its own |
| `MC*` | instances for TLC | firmware images, files, small sets of addresses |
| `*Proofs` | theorems and proofs about the module before the suffix; `ClockProofs` about `Timer0` and `Pacing`, `ExecutorProofs` also about `Flash`, `Disasm` and how `Registers` runs on `Executor`, `UartProofs` about `UartIrq`, `AluProofs` about `AluChains` and `Registers` | TLAPS |

`InterruptLine` and `Channel` are implemented by `Executor` and `Uart` under
the refinement mappings `Line`, `Rx` and `Tx`. `UartIrq` extends `Uart` with
firmware, `Flash` puts `Executor` on top of `Decoder`, and `MCAlu` runs machine code
through `Decoder`, `Registers` and `Alu`. The other components meet at small interfaces, and each is modelled
against the other side's most general behaviour:

* `Executor` sees Timer0 as flags that any tick may set. `Timer0` says which ones
  it sets and when.
* `Executor` sees the UART as requests that a poll (USART_RX) or a register write
  (USART_UDRE, USART_TX) may raise at any time. `Uart` says when.
* `Tui` sees an iteration as one step that may publish, go on or fail.
* `DataSpace` sees a UART read as any byte, and TCNT0 and TIFR0 as registers the
  timer may change between two instructions.
* `Executor` and `Flash` see the ALU as instructions that leave control state alone,
  and branches and skips as a choice. The theorem `TurnsExecute` says that `Registers`, which knows
  the values, makes one of these choices; `AluChains` says that the choice is made on the
  right flags, and the routines of `MCAlu` that it leads to the right place.
* `Pacing` sees an iteration as some cycles, or none when an interrupt is dispatched.
* `Uart` sees the executor as anything that polls, serves vectors, and reads or
  writes registers in any order.

### From state to code

`Executor`. `pending` is the controller's bit mask; `tifr` and `timsk` are
TIFR0 and TIMSK0 as sets of vectors; `mem` is SP, the stack area and
`g_memoryFault`. The constant `Code` gives each flash address the set of
instructions that may be found there, and one is chosen when the loop arrives, so
that branches that depend on data are a choice. Instructions are told apart by
what they do to control state: all arithmetic is `plain`. Flash nothing was loaded
into is 0x0000, a NOP. `outstanding` and `frames` are history: the
events no dispatch has used up, and for each running routine, called or entered by an
interrupt, the pc it left off at and the SP it found (`Entered`). A frame goes when a
return uses it (`Left`); of a routine that takes more off the stack than it put there
nothing is expected, and all frames go (`Kept`). Registers are not part of the state. Reads of the stack
area and of lower addresses that a POP may reach are bytes of `sram` and of
`IoBytes`; the stack area of the instances is chosen among addresses that
`timer0Write` does not claim (such addresses exist: 0x086F to 0x08FF), because the
aliasing of `memory.cpp:185` is `DataSpace`'s subject.

`Timer0`. Registers keep their names; TCCR0B is its clock select and WGM02.
`since` is history: the counter and flags at the last call or register write, and
the timer clocks counted from there.

`Tui`. `emu`, `ui` and `refresh` are the three program counters. `fresh` and
`shown` abstract the snapshot: does `g_snapshot` hold the machine's present state,
and does the copy on the screen. `late` is history: iterations since a stop or a
pause was requested.

`Uart`. `rxQueue`, `rxHwReady`, `rxHwByte` and `txBuffer` are the variables of
`uart.cpp`; `ucsrb` the enable bits; `pending` the three USART vectors in the
controller. `injected`, `received`, `written`, `popped` are history.

`DataSpace`. `m` is `AvrState` without flash, with Timer0's registers and the
fault flag. `Route` is the order of address checks, in one place, that
`readDataByte` and `writeDataByte` share. `last` is history: the byte last stored at
each address.

`Loader`. `image` is the file: whether its header and section table are
in order, its entry point and its segments. The domains of `flash` and `sram` are
part of their type: a copy past the end would make them larger, as it would
overwrite what is behind the array. The memory a load starts from is zero, as in
`main.cpp`, where `AvrState state{}` precedes it.

`Alu`. A byte is a number below `Half * Half` (256), SREG a record without T and I,
which no instruction here touches. Immediate forms are the register forms with a constant,
LSL and ROL are ADD and ADC of a register with itself. `AluChains` keeps the numbers
`x` and `y` made of the bytes taken so far, the number `res` made of the bytes stored, and
`wide`, how many values numbers of that length have; `counted` says whether a loop
counter was stepped since, which spoils Z for good and S and V until the next byte.

`Flash`. `Listing` is an image as an assembler lists it. `FlashCode` gives each byte
address, odd ones included, the instructions that the bytes found there decode to.
`lost` is history: a dispatch met a full stack. What registers hold is a choice of
`RegValues` and `Pointers`. The image has no SPM, and no store to the stack area.

`Registers`. A machine is `[pc, r, f, t, i, flash, fault]`: SREG is the six flags of
`Alu`, T and I. `Logical` is the five logic instructions with the mask they have, not the one their
comments describe. Loads and stores are not among its functions (`DataSpace` has them),
nor calls (`Executor`): a routine that contains one stops.

`Pacing`. `wall` is whole microseconds since `wall_start`; a pause or a slow host is
`Elapse` at the top of the loop. `asleep` lasts until `target_wall` or longer. `lastPoll` and
`lastSnapshot` are history. The product `cycle_count * US` is taken modulo `Modulus`,
2^64 in the code; `cycle_count` itself is unbounded.

## What the runs check

Runs whose property holds:

| Run | States it explores | Shows |
|---|---|---|
| `executor` | two Timer0 vectors, USART_RX, and USART_UDRE without a handler, firmware that enables, disables, clears, calls, and handlers that push, write registers, enable interrupts again and return | no event is served twice (`EachEventServedOnce`); with I set none waits for an instruction (`NoInstructionWhileRequested`); RET and RETI resume what was called or interrupted, pc and SP, with calls, pushes and nested handlers in between (`ReturnsResume`); the loop implements `InterruptLine`; with I set again and again no vector waits for ever behind others that are quiet (`EachGetsItsTurn`) |
| `flash` | an image of 54 words: recursion, nested interrupts, all five kinds of skip, an undefined word, one vector erased, the end of flash, and too little stack | SP stays in the stack area (`SpStaysInStack`); pc is never inside an instruction (`OnlyInstructionsExecute`); over all 65536 words, the table's order (`MostSpecificWins`) and the operands (`WordsDistinct`); the disassembly has the current line, tells instructions apart and names the executor's targets (`ListingTruthful`) |
| `clock` | Timer0: every register write between ticks, short and long instructions, fast and slow prescaler, normal and CTC mode; the loop's pacing: instructions of one to three cycles, any number of dispatches in between, a host of any speed | counter and flags are those of an arithmetic definition (`FollowsReference`); the accumulator never overflows (`AccumulatorBounded`); no cycle is lost (`CyclesConserved`); the loop of a tick ends (`TickEnds`); emulated time is never ahead by more than a batch (`NeverAhead`); no sleep is longer than that (`SleepIsShort`); polls and snapshots are in time (`Punctual`) |
| `tui` | all interleavings of the three threads, errors, stop, pause, abort | status and exit code tell the truth (`StatusTruthful`, `ReturnTruthful`); at most one iteration after a request (`AtMostOneMoreIteration`); Escape exits when the status bar says so (`EscapeExits`); a stop ends the run (`StopEndsRun`); `runTui` returns (`ShutdownReturns`); the last state is shown (`FinalStateShown`) |
| `uart` | both threads, two different bytes, in both directions; firmware that makes any use of the registers, or driven by interrupts with reception enabled first | each byte is in one place and in order (`NoByteLost`, `ImplementsRx`, `ImplementsTx`); what is typed is read and what is written is displayed (`AllArrive`); data that waits has its handler requested or running, and USART_RX never finds the buffer empty (`RequestsFollowData`); the output queue is emptied (`TxDrains`) |
| `data_space` | loads, stores, pointers, bits, pushes and pops on addresses at the boundaries of the map | memory holds what was last stored, for all addresses that no Timer0 register is laid over (`PlainMemoryHolds`) |
| `loader` | 46,575 files | no copy leaves its array (`TypeOK`); code intact (`TextIntact`); SRAM as start-up code would make it (`RamReady`); initial values found (`StartupFindsData`); nothing that fits is refused (`AcceptsWhatFits`) |
| `alu` | numbers of one to three bytes of 0, 1, 127, 128 and 255, with every routine, and INC or DEC of a counter between two bytes | sums, differences, negatives, halves and products of whole numbers (`ChainsCompute`); unsigned, signed and equality branches (`BranchesDecide`); V and S of sums (`OverflowTruthful`); ten routines of machine code, none of which has a logic instruction between the maker and the reader of C, give the right result from every flag state that a chain leaves (`RoutinesCompute`) |

Runs that show a disagreement, each of one property taken from a text of the
repository: `data_space_alias`, `tui_pause`, `uart_irq_early`, `logic_flags`. See
[Where code and promise differ](#where-code-and-promise-differ).

## Bounds

* `executor`: vectors 15 (TIMER0_COMPA), 17 (TIMER0_OVF), 19 (USART_RX) and 20
  (USART_UDRE): two from one register and two from another peripheral, so that
  ties inside one byte and between peripherals occur. TIMER0_COMPB and
  USART_TX behave as their neighbours do. Vector 20 is erased flash: firmware that
  enables an interrupt it has no handler for. Six bytes of stack hold two return
  addresses and what a handler and its call push, and overflow after that.
  `MaxFrames` 3 keeps the three innermost frames, which is as deep
  as the stack allows. Flash 1024 holds the vector table (to 84), main (512),
  handlers (600) and a subroutine (700). The start-up code writes SPH, then SPL, as crt0 does;
  main may also meet an undefined word or jump past the end of flash.
* `flash`: 110 bytes, ending in the first word of a JMP that a skip may look at; six bytes of
  stack, which the recursive function fills, so that the push of a call or of a dispatch
  fails at its first and at its second byte; two values of a register, with I and the
  timer's bits set and clear, and two pointers: with the displacement of the image's LDD one
  reaches the first byte of the stack area, and the other lies outside memory. The invariants on words go over all 65536.
* `clock`, Timer0: a two-bit counter, dividers 1 and 3, an accumulator modulo 8, and
  instructions of 1 and 5 cycles. One call is then worth zero, one or several timer clocks, more
  than a full turn of the counter, and a switch of prescaler meets a
  full accumulator. The proofs hold for 8 bits, 16 bits and the real table.
* `tui`: nothing is bounded but the counter `late`, at 2, one above what is claimed.
* `uart`: two different bytes, at most two in each direction under polling firmware
  (`MaxPolled`) and three under interrupts (`MaxBytes`): the queue, the
  buffer and the register can then hold different bytes, or the same, and
  order can be wrong; three bytes fill buffer and queue while a handler runs and start again.
* `data_space`: addresses 37 (plain I/O), 93 and 94 (SPL, SPH), 297 (SRAM, equal to
  a UART alias modulo 256, reached by Y, Y + 40 and SP) and 2304 (the first
  outside); pointer Y, displacement 40, bit 1, bytes 0, 1 and 41. `data_space_alias`: 70
  (TCNT0) and 326 (the SRAM byte laid over it).
* `loader`: flash of 4 bytes, RAM of 3 at data address 8, files of no to three
  segments, modulus 16 for a file's 32-bit fields. Texts of 1 and 2 bytes at all
  places, including past the end; data at all places with a load address,
  with none, and with one that overlaps; segments of the wrong kind,
  truncated, and so large that a sum wraps; bad headers and entry points. Files of
  three segments hold any mix of texts and data in any order; a fourth
  would repeat a situation.

* `alu`: the bytes around each boundary (0, 0x7F/0x80, 0xFF/0x00) and one that is
  none; three bytes give a first, a middle and a last link, and two
  joints. `MaxWide` 2^24 ends chains there. The proofs hold for all bytes and any length.
  The routines take twelve bytes around the same boundaries, in pairs where there are two
  operands, and eight words, with every flag state that the chains leave; a routine's number of
  instructions is fixed but for the loop of the division, whose longest way is taken.
  `logic_flags` has the same chains, and logic instructions on the same bytes.
* `clock`, pacing: 8 cycles in 4 of the microseconds of a second, an interval of 6 cycles (so 3
  microseconds), poll every 3 cycles and snapshot every 10: rounding, instructions that cross one, two
  or all thresholds, and none. The product overflows at cycle 32 of 44, so that the
  time after 13.3 days is among the states. The two parts share the run and nothing else: neither
  reads the other's state, and a behaviour moves one and leaves the other where it starts.

## Fairness and deadlock

* `Executor`: weak fairness of `Next`. The loop has a thread of its own and
  nothing in it waits, pausing excepted, which is in `Tui`. That firmware sets I again and again, and
  that vectors of lower number come to rest, is assumed in `EachGetsItsTurn` itself.
* `Timer0`: weak fairness of `Count`, which is a loop inside one call. Nothing
  forces ticks or writes.
* `Tui`: weak fairness of each thread, which is what an operating system gives,
  and strong fairness of `TakeSnapshot`: the rate limit of the slow view is one of
  time (200 ms), so it cannot suppress every frame. No key is ever forced.
* `UartIrq`: weak fairness of `Poll` (every 1024 cycles) and of `PopTx` (a serial tab that
  goes on being drawn); of `ReadUDR` for firmware that polls, which goes on reading; and for
  the other of its handlers and of `EnableRx`, which the setup code of a sketch executes once.

`CHECK_DEADLOCK FALSE` stands in every configuration but the two of `MCAlu` because every part may
really stop: the loop halts on an error, `runTui` returns, a load ends, a bounded
UART has nothing more to send, an instruction of the data space may fault, and the
bounds of `Pacing` end its clock.

## Proofs

All are proved for every value of the constants that satisfies the assumptions
`ConstAssumption` and `CodeAssumption` (Executor), `FlashAssumption`, `TimerAssumption`,
`UartAssumption`, `DataSpaceAssumption`, `LoaderAssumption`, `AluAssumption`,
`ChainAssumption` and `PacingAssumption`. These say no more
than the widths of the code's types and that the given sets are of the right kind; TLC
evaluates each on the runs of its module. `FlashAssumption` has an image list one or two 16-bit words at each even address it lists,
registers hold bytes and pointers words, and the timer's vectors be 15 to 17 (`interrupt.h:44-46`).
`LoaderAssumption` has flash end below
the address where data addresses start (32 KB and 0x800000) and at most
65536 data addresses (to 0x80FFFF), without which a load address in flash could
not be told from none. `TimerAssumption` also says that an
accumulator holds the largest divider and one instruction together
(1024 + at most 4 or so cycles, of 65536).

| Theorem | Says | Argument |
|---|---|---|
| `ExecutorProofs!TypeCorrect` | widths of SP, pc, stack bytes for all firmware | inductive as it stands; one lemma per stack operator (`PushByteType`, `PopWordType`, ...) |
| `ServedOnce` | no event served twice | inductive with `TypeOK`: what is raised came from a flag or a poll, and a dispatch clears mask and flag together |
| `ZeroLatency` | no instruction while a request waits and I is set | one step: only `Service` enters "fetch", and with every vector deliverable it dispatches first |
| `StackBounds` | SP between the byte under the stack and RAMEND | `InStack`, for firmware that leaves SP alone; each of two pushes of a word is bounded by itself |
| `Resumes` | RET and RETI of a routine that leaves SP where it found it resume the pc and SP at which it was called or interrupted, for any firmware, nesting and faults | `FramesOnStack`: each frame's two bytes are on the stack where the frame says (`Saved`), and frames lie one below the other (`Nested`). Lemmas: pushes write below the innermost frame (`PushKeepsSaved`), what was pushed is popped (`BalancedPops`), and one per action |
| `OnlyFromB` | for every set of addresses closed under targets, fall-throughs, skips and vectors (`Closed`), pc leaves it only by an unbalanced return | `Within(B)`: pc and the pc of each frame are in `B`, with `FramesOnStack`, since a balanced return takes its pc from a frame (`WithinStays`). The instructions of the image of the run `executor` are such a set |
| `FlashImplements`, `FlashStack`, `OnlyAssembled` | running machine words from flash is one way of running `Executor`; SP stays in the stack area; only what was assembled is executed, by images whose targets and skips lead to instructions and whose routines return with SP where they found it | step by step; the others from `StackBounds` and, for the addresses that are even and no second word, `WithinStays`. The image of the run `flash` satisfies `Closed` for them |
| `DecoderProofs!TableRows`, `DispatchInRange` | each row of the opcode table has an operation in its operand format; whatever word is decoded, and whatever follows it, `executeInstruction` calls one of its functions with registers, bits, displacements and offsets in range | the nine sections of the table row by row (`Sections`), the first match is a row (`FirstMatch`), each operand decoder in its range (`OperandRanges`, from the width of a bit field), and one lemma per operand format (`TwoRegisterCalls`, ..., `NoOperandCalls`) |
| `ExecutorProofs!ImagesAreFirmware` | what the decoder makes of any image, at any byte address, satisfies `CodeAssumption`: the theorems about every firmware hold of every image | `DispatchInRange`, then one lemma per kind of access (`StoresType`, `LoadsType`, ...) and one case per function (`EffectsType`) |
| `TurnsExecute` | a turn of `Registers`, with the values of registers and flags, is an `Execute` of `Executor` on the same image, which has not: the choices that stand for data include what the data decides | both modules decode the same row and call (`SameTable`, `SameMatches`, `SameCalls`); what a function does to pc, I and the fault is one of the effects that `Flash` lists (`Described`, from `QuietControl` for those that do nothing to them, `FlagsDescribed`, `LpmDescribed`, `JumpDescribed`); a skip passes over the same instruction (`SkipSame`). It is about the functions of `Registers` and a Z among `Pointers` where LPM or IJMP uses it |
| `ShownTargets` | the target shown for a branch, jump or call is the executor's, at every listed address of every image | `JumpRow` (the operation and operands of those formats) and `SumReduced`: pc has been reduced to 16 bits before the offset is added, the disassembly reduces once |
| `Refinement` | the loop implements `InterruptLine` | step by step under `TypeOK` and `EachEventServedOnce`, without which a dispatch could use up an event that never happened |
| `ClockProofs!Conservation`, `AccumulatorIsBounded`, `CyclesAreConserved` | no cycle lost, no overflow | `TimerInv`: with `LoopInv`, the loop is entered only with a period to consume |
| `LoopDescends` | the variant of the loop of `timer0Tick`: nothing else moves while it runs, and each turn takes a whole period from an accumulator that stays at 0 or above | from `TimerInv`; all of `TickEnds` but that a turn that can be taken is taken |
| `MatchesReference` | counter and flags as defined by arithmetic, for every width | `AfterStep` (the closed form of one more clock, from lemmas on division) and `VisitedStep` (the set of values passed grows by the one being left) |
| `TuiProofs!TypeCorrect`, `Outcome`, `ReturnCode`, `PromptStop`, `EscapeKept` | status, exit code, prompt stop, Escape | `OutcomeInv`: who sees `emuDone` sees the `emuError` stored before it; `LateInv`: where the emulator may be when it has overrun by one; `EscapeInv` |
| `UartProofs!TypeCorrect`, `NothingLost`, `RxRefinement`, `TxRefinement` | no byte lost, and the channel twice | `NoByteLost` is inductive; the refinements follow since what was received is a prefix of what was sent |
| `FirmwareUsesUart`, `CarriedOver`, `HandlersRunForData` | the firmware of `UartIrq` does to the UART only what any firmware may, so the results above hold of it; data that waits has its handler requested or running, and USART_RX finds a byte | each action of `UartIrq` is one of `Uart` or leaves it alone; `RequestInv` adds to `RequestsFollowData` which enable bits are set where, and that a handler of USART_RX has no second request behind it |
| `DataSpaceProofs!TypeCorrect`, `PlainMemory` | widths; memory holds what was stored | `DataInv`: every address routed to SRAM holds `last`; one lemma for steps that leave memory alone and one for a store, and `PlainMemoryHolds` since a plain address is routed to SRAM |
| `LoaderProofs!TypeCorrect`, `TextSurvives` | no copy leaves its array; code survives, for any number of segments in any order | `LoadInv`: after the header check `filesz <= memsz` holds of every segment. `TextInv`: each text segment already passed is in place, and what is put behind it is above every text end |
| `RamIsReady` | SRAM holds the initial values and zeros of every writable segment | `RamInv`: each data segment already passed is in SRAM as its file has it; `CopyElsewhere` and `DataStepRam`: the copy and the clearing of the present one touch no byte of the others |
| `StartupFinds` | initial values are in flash at their load address, or behind `.text` in the order of the file | `TextEndInv`: after the first pass `nextFlashAddr` is the end of the last text. `DataInv`: each initialised segment already passed is in flash, at its address or between `TextEnd` and `nextFlashAddr`, where no later copy goes (`DataSpared`) |
| `FittingFileAccepted` | no file that is in order and fits is refused | `FitInv`: with no load addresses `nextFlashAddr` is where the layout that shows that the file fits has the end of the segment before (`LayoutFollowed`), so each check of `RangeFits` passes |
| `AluProofs!TypeCorrect`, `ByteByByte`, `Order`, `Overflow` | chains of any length, bytes of any even number of half-byte values | `IInv` adds `Shifted` (twice the half and C are the number shifted) and `WholeBytes`. Lemmas in three layers: what one instruction does to a byte (`SumFacts`, `DifferenceFacts`, `ShiftFacts`, `MulsFacts`, ...), what a longer number is made of (`Lengthened`, `HighPartFirst`), and the two together (`AddStep`, `DifferenceStep`, `Assembled`) |
| `TurnsStayInMachine`, `RunsStayInMachine` | whatever flash and registers hold, a turn leaves bytes in registers and flash, flags and a 16-bit pc, and so does every run, through SPM too | for bytes of eight bits (`Half = 16`): `DispatchInRange` gives operands in range, `PerformType` has one case per function, with the widths of `Alu`'s results and of a byte made of bits |
| `ClockProofs!Pace`, `NotAhead`, `SleepsShort`, `InTime` | emulated time, sleep, polls and snapshots, for all rates and intervals | `PacingInv`: `Typed`, `OnTime` (each threshold is its last event plus its interval, and not passed before an instruction) and `Paced` (at the last comparison emulated time was at most the slack ahead). Lemmas on the quotient and on the remainder of an overflowed product (`TargetBelow`), and on how far an instruction may take it (`Growth`) |

The type invariants of `Executor`, `Timer0`, `Tui`, `Uart`, `DataSpace` and `AluChains`
are theorems (`Timer0`'s is part of `AccumulatorIsBounded`) and are no longer checked by a run.

Only model-checked:

* Liveness (`EachGetsItsTurn`, `TickEnds`, `StopEndsRun`, `ShutdownReturns`,
  `FinalStateShown`, `AllArrive`, `RxArrives`, `TxDrains`), which the prover does not reach.
* `OnlyInstructionsExecute` of the image of the run `flash`, as long as no dispatch lost a return
  address: the theorem `OnlyAssembled` has the balance of returns as its hypothesis instead.
* `RoutinesCompute`, which is about the routines written for the run; what holds of every program
  is that it stays in the machine (`RunsStayInMachine`).
* Of `ListingTruthful`, that the current line is listed, which holds of the image and not of
  every one (see "The listing of data"), and that texts differ. That the targets shown are
  the executor's is proved (`ShownTargets`).
* `MostSpecificWins`, `WordsDistinct` and the difference of texts, which are about the 65536 words and no
  constant: the run goes through all of them, so there is nothing left to prove.

## Mutants

A definition named after another with a suffix, as `PushByteUnchecked` after
`PushByte`, is wrong on purpose, in a way a bug of that code could be: a dropped
check, a missing acknowledge, an off-by-one, two stores in the wrong order.
Nothing uses it. `PROJECT.json` ("mutants") pairs each with the property that is
violated when it takes the place of the right definition, which shows that the
property depends on the code there.

## Where code and promise differ

* **Memory over Timer0 registers** (`data_space_alias`, `MemoryHolds`).
  `readDataByte` and `writeDataByte` (`memory.cpp:185`, `memory.cpp:244`) hand
  `addr - 0x20` to `timer0Read` and `timer0Write`, whose parameter is a `uint8_t`. Every
  address equal to 0x35, 0x44 to 0x48 or 0x6E modulo 256 is one of the timer's: a
  variable at 0x0146 is TCNT0. `README.md:168` and the comment at
  `memory.cpp:150-156` say that it is SRAM.
* **A pause shows old values** (`tui_pause`, `PauseShowsCurrentValues`).
  `README.md:94-95` says that a pause freezes current values for inspection; the
  pause wait (`executor.cpp:106-109`) publishes nothing, so the screen keeps the last
  snapshot, up to 160000 cycles old.
* **Flags of logic instructions** (`logic_flags`, `LogicFlagsAsDocumented`). The comments at
  `executor.cpp:847-848`, 865, 898, 913 and 929 promise that AND, ANDI, EOR, OR and ORI
  keep C and set N from the result. Their mask 0xE4 (lines 858, 874, 907, 922, 938)
  keeps bit 2 in place of bit 0: C is cleared, and N stays set once it is. A carry
  does not survive the CLR R1 that compilers put behind each MUL, and BRMI and BRPL after a TST
  may go the wrong way; BREQ, BRLT and BRGE go the right one, for Z and S are fresh.
* **Reception stuck** (`uart_irq_early`, `RxArrives`). A byte polled before
  RXCIE is set raises nothing when it is set (`uart.cpp:184-191` looks at UDRIE
  only); the buffer stays full, so no later poll raises either (`uart.cpp:101`), and
  interrupt-driven input never starts, against `uart.cpp:126-128`.

## What the models show besides

Behaviour that a reader of the models should know, without a run of its own:

* **A burst of timer clocks.** Cycles collected under a slow prescaler stay in
  `prescaler_acc` when firmware selects a faster one (`timer0.cpp:160`), and the next call turns them all into timer clocks: up to
  1023 after one instruction, where `timer0.cpp:75` speaks of `cycles` CPU clock cycles.
* **The push of a dispatch may fail unseen.** The fault that `pushWord` sets while
  an interrupt is entered is cleared before the next instruction
  (`executor.cpp:137`, `executor.cpp:166`; `memory.cpp:66-67`): the handler runs and
  its RETI goes to whatever is on the stack.
* **A stale request is dispatched.** A pending bit taken from TIFR0 while I was
  clear stays when firmware clears the flag or its enable bit, and the handler
  runs at the next SEI. `timer0.h:54-55` leaves open when the decision is taken.
* **An unprogrammed vector starves others.** Its pending bit is dropped but its
  Timer0 flag is not (`interrupt.cpp:121-131`), so it is raised again in each
  iteration and, being found first, keeps every vector of higher number from being served.
  The run `executor` has its unprogrammed vector below the others, where neither
  `EachGetsItsTurn` nor `NoInstructionWhileRequested` is disturbed; both exclude one above by their preconditions.
* **CTC above the top.** With OCR0A lowered below TCNT0 the next clock wraps
  (`timer0.cpp:117-118`) and OCF0A is not set; the chip counts on to 0xFF.
* **SBI and CBI on TIFR0** (`executor.cpp:1721-1728`, `memory.cpp:287-299`) read the
  flags and write them back, which clears every flag that is set.
* **A mixed image.** `nextFlashAddr` is assigned after each `.data`
  (`loader.cpp:253`), not advanced as for `.text`. A `.data` with a load address below
  `.text`, followed by one without, puts the second over `.text`, against the intent
  of `loader.cpp:135-136`. Linkers give all segments load addresses or none, which is
  what `Linked` says.
* **Above 0x08FF.** Addresses such as 0x0946 reach Timer0 and not the fault
  (`memory.cpp:185` precedes the check of the end).
* **`.eeprom` is refused.** Writable segments above 0x80FFFF, where compilers put
  `.eeprom` (0x810000), fail the load.
* **ADC keeps a cleared Z** (`executor.cpp:430`), as SBC does. The comments
  (`executor.cpp:415`) and `tests/test_instructions.cpp:71` say so, and it makes Z
  tell of the whole sum (`BranchesDecide`); the chip's ADC and ROL set Z from the byte alone.
* **After a pause a burst.** The wall-clock anchor is taken once (`executor.cpp:95`): after a
  pause of a minute the loop runs unthrottled until it has made up for it, where
  `README.md:23` has `delay(1000)` take one real second. After 13.3 days of emulated time the product
  at `executor.cpp:188` overflows, the target lies in the past and the loop does not sleep again.
* **Names that never decode.** BRBC and BRBS come before BRCC, BREQ and the others, against
  the comment at `decoder.h:317-319`; CBR, SBR, LSL, ROL and TST come after the instruction they are
  another name of; and LDD, whose mask 0xD208 is broader, comes before LD Y and LD Z without update, which are LDD with displacement 0. None of
  this changes what is executed, which is what `MostSpecificWins` says; a CLR row before EOR
  makes the disassembly show every EOR as `CLR Rd`.
* **Overlapping rows.** The comment at `tests/test_decoder.cpp:73` has at most one opcode match a word; up to
  three rows do.
* **LPM in the disassembly** shows no register, and JMP and CALL leave out address
  bit 16 (`decoder.cpp:229-233`), which a flash of 32 KB does not use.
* **The listing of data.** The sweep starts 30 bytes before pc wherever that is. Code gets it back in step by pc, since the second word of an instruction of
  two does not look like another of two; a table in front of pc that does, would hide the current line.
* **FMUL, FMULS, FMULSU** take C from bit 15 after the shift, the chip before it. The routines that add C to a
  third byte, in Atmel's application note on 16-bit fractions, go wrong.
* **A skip costs one cycle** over two words as over one, where the chip takes two.
* **SPM** stores R1:R0 at Z at once, without the page buffer; `RoutinesCompute` has it read back and executed.
* `README.md:22` says USART interrupts are not yet wired; `uart.cpp` raises them
  and `Executor` dispatches them.

## What is not modelled

* EEPROM, watchdog and sleep, of which the source has the storage or a no-operation.
* The cycles of each instruction (`cycles_min`, `extra_cycles`): any small number, in `Timer0` and `Pacing`.
* Headless mode of the UART: the same structure with stdin in place of the
  queue. UBRR and UCSR0C are stored and have no effect.
* Hexadecimal, signs and spacing of the disassembler, and the messages of `error.cpp`: formatting.
* Drawing, tabs, the file dialog and arguments of `main.cpp`: they touch no shared state.
* Build files, the test framework and sketches. Tests and READMEs serve as
  statements of what the program promises.

## Plan

Done in this order, the behaviour that matters most first: `InterruptLine` and
`Executor`; `Timer0`; `Tui`; `Channel`, `Uart`, `UartIrq`; `DataSpace`; `Loader`;
`Alu` and `AluChains`; skips, `Decoder`, `Flash` and `Disasm`; `Registers`; `Pacing`.

To do:

1. Loads, stores, calls and returns in `TurnsExecute`: a machine with the registers of `Registers`,
   the data space of `DataSpace` and the stack of `Executor` in one record.
2. Reception for a firmware that enables and disables RXCIE while it runs.
