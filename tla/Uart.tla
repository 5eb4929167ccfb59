-------------------------------- MODULE Uart --------------------------------
(***************************************************************************)
(* The UART of uart.cpp in TUI mode, with the two threads that use it: the *)
(* main thread injects and pops bytes, the emulator thread polls, and runs *)
(* the firmware's register accesses and the interrupts they cause.  Each   *)
(* action is one critical section of tuiMutex, or touches only variables   *)
(* of the emulator thread.  Here firmware does anything at any time; the   *)
(* interrupt-driven firmware is in UartIrq.tla.                            *)
(*                                                                         *)
(* A poll happens every 1024 cycles at the top of an iteration: here, at   *)
(* any time.  The register addresses 0xC0-0xC6 and their aliases reach the *)
(* same state and are not told apart.                                      *)
(***************************************************************************)
EXTENDS Naturals, Sequences

CONSTANTS
  Bytes,
  MaxBytes  \* bound: bytes sent in each direction

Enables == {"RXCIE", "TXCIE", "UDRIE"}            \* bits 7, 6 and 5 of UCSR0B
UsartVec == {"USART_RX", "USART_UDRE", "USART_TX"}

ASSUME UartAssumption == MaxBytes \in Nat

VARIABLES
  rxQueue,            \* injected bytes waiting
  rxHwReady, rxHwByte,
  txBuffer,           \* output since the last uartPopTx
  ucsrb,              \* the enable bits of UCSR0B
  pending,            \* the USART vectors the interrupt controller holds
  injected, received, \* history: bytes typed, bytes firmware read
  written, popped     \* history: bytes firmware wrote, bytes displayed

rxVars == <<rxQueue, rxHwReady, rxHwByte, injected, received>>
txVars == <<txBuffer, written, popped>>
uartVars == <<rxVars, txVars, ucsrb, pending>>

UartInit ==
  /\ rxQueue = <<>> /\ rxHwReady = FALSE /\ rxHwByte \in Bytes
  /\ txBuffer = <<>> /\ ucsrb = {} /\ pending = {}
  /\ injected = <<>> /\ received = <<>> /\ written = <<>> /\ popped = <<>>

-----------------------------------------------------------------------------
(* The main thread. *)

InjectRx(b) ==
  /\ Len(injected) < MaxBytes
  /\ rxQueue' = Append(rxQueue, b)
  /\ injected' = Append(injected, b)
  /\ UNCHANGED <<rxHwReady, rxHwByte, received, txVars, ucsrb, pending>>

(* The operators with a suffix are wrong on purpose (README, "Mutants").       *)
PopTxKeeps ==
  /\ txBuffer # <<>>
  /\ popped' = popped \o txBuffer
  /\ UNCHANGED <<rxVars, txBuffer, written, ucsrb, pending>>

PopTx ==
  /\ txBuffer # <<>>
  /\ popped' = popped \o txBuffer
  /\ txBuffer' = <<>>
  /\ UNCHANGED <<rxVars, written, ucsrb, pending>>

-----------------------------------------------------------------------------
(* The emulator thread. *)

PollOverrun ==
  /\ rxQueue # <<>>
  /\ rxHwByte' = Head(rxQueue) /\ rxQueue' = Tail(rxQueue) /\ rxHwReady' = TRUE
  /\ pending' = IF "RXCIE" \in ucsrb THEN pending \cup {"USART_RX"} ELSE pending
  /\ UNCHANGED <<injected, received, txVars, ucsrb>>
PollWrongBit ==
  /\ ~ rxHwReady /\ rxQueue # <<>>
  /\ rxHwByte' = Head(rxQueue) /\ rxQueue' = Tail(rxQueue) /\ rxHwReady' = TRUE
  /\ pending' = IF "TXCIE" \in ucsrb THEN pending \cup {"USART_RX"} ELSE pending
  /\ UNCHANGED <<injected, received, txVars, ucsrb>>

(* A poll that moves a byte into the hardware buffer; any other does nothing. *)
Poll ==
  /\ ~ rxHwReady /\ rxQueue # <<>>
  /\ rxHwByte' = Head(rxQueue) /\ rxQueue' = Tail(rxQueue) /\ rxHwReady' = TRUE
  /\ pending' = IF "RXCIE" \in ucsrb THEN pending \cup {"USART_RX"} ELSE pending
  /\ UNCHANGED <<injected, received, txVars, ucsrb>>

ReadUDRKeeps ==
  /\ received' = IF rxHwReady THEN Append(received, rxHwByte) ELSE received
  /\ UNCHANGED <<rxHwReady, rxQueue, rxHwByte, injected, txVars, ucsrb, pending>>

(* Reading UDR0 consumes the byte; with none there firmware reads 0x00. *)
ReadUDR ==
  /\ rxHwReady' = FALSE
  /\ received' = IF rxHwReady THEN Append(received, rxHwByte) ELSE received
  /\ UNCHANGED <<rxQueue, rxHwByte, injected, txVars, ucsrb, pending>>

WriteUCSRB(S) ==
  /\ ucsrb' = S
  /\ pending' = IF "UDRIE" \in S THEN pending \cup {"USART_UDRE"} ELSE pending
  /\ UNCHANGED <<rxVars, txVars>>

WriteUDRNoUdre(b) ==
  /\ Len(written) < MaxBytes
  /\ txBuffer' = Append(txBuffer, b) /\ written' = Append(written, b)
  /\ pending' = pending \cup (IF "TXCIE" \in ucsrb THEN {"USART_TX"} ELSE {})
  /\ UNCHANGED <<rxVars, popped, ucsrb>>

(* The byte is out at once: TXC and UDRE are raised as they are enabled. *)
WriteUDR(b) ==
  /\ Len(written) < MaxBytes
  /\ txBuffer' = Append(txBuffer, b)
  /\ written' = Append(written, b)
  /\ pending' = pending \cup (IF "TXCIE" \in ucsrb THEN {"USART_TX"} ELSE {})
                        \cup (IF "UDRIE" \in ucsrb THEN {"USART_UDRE"} ELSE {})
  /\ UNCHANGED <<rxVars, popped, ucsrb>>

ServeKeeps(v) == v \in pending /\ UNCHANGED <<uartVars>>

(* interruptService takes a vector out of its mask. *)
Serve(v) ==
  /\ v \in pending
  /\ pending' = pending \ {v}
  /\ UNCHANGED <<rxVars, txVars, ucsrb>>

UartNext ==
  \/ \E b \in Bytes : InjectRx(b) \/ WriteUDR(b)
  \/ PopTx \/ Poll \/ ReadUDR
  \/ \E S \in SUBSET Enables : WriteUCSRB(S)
  \/ \E v \in UsartVec : Serve(v)

UartSpec == UartInit /\ [][UartNext]_uartVars

(* The emulator polls again and again, firmware goes on reading UDR0, and the *)
(* serial tab goes on being drawn.                                            *)
UartFairSpec == UartSpec /\ WF_uartVars(Poll) /\ WF_uartVars(ReadUDR) /\ WF_uartVars(PopTx)

-----------------------------------------------------------------------------
(* Types of the UART's variables. *)
UartTypeOK ==
  /\ rxQueue \in Seq(Bytes) /\ txBuffer \in Seq(Bytes)
  /\ injected \in Seq(Bytes) /\ received \in Seq(Bytes)
  /\ written \in Seq(Bytes) /\ popped \in Seq(Bytes)
  /\ rxHwReady \in BOOLEAN /\ rxHwByte \in Bytes
  /\ ucsrb \subseteq Enables /\ pending \subseteq UsartVec

(* At every moment each typed byte is in exactly one place, and in order: read *)
(* by firmware, in the one-byte hardware buffer, or queued behind it.  A poll  *)
(* never overwrites a byte that was not read.                                  *)
InHardware == IF rxHwReady THEN <<rxHwByte>> ELSE <<>>
NoByteLost ==
  /\ injected = received \o InHardware \o rxQueue
  /\ written = popped \o txBuffer

(* What firmware reads is a first part of what was typed, and what is shown a *)
(* first part of what firmware wrote, each growing by the next bytes only.    *)
Rx == INSTANCE Channel WITH sent <- injected, got <- received
Tx == INSTANCE Channel WITH sent <- written, got <- popped
ImplementsRx == Rx!ChannelSpec
ImplementsTx == Tx!ChannelSpec

(* Every byte typed reaches firmware that goes on reading UDR0, or does so in  *)
(* a handler each time USART_RX is raised, and every byte firmware writes is   *)
(* displayed.                                                                  *)
AllArrive ==
  \A n \in 1..MaxBytes :
    /\ (Len(injected) >= n) ~> (Len(received) >= n)
    /\ (Len(written) >= n) ~> (Len(popped) >= n)
=============================================================================
