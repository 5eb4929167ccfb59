------------------------------- MODULE UartIrq -------------------------------
(***************************************************************************)
(* Two kinds of firmware on the UART of Uart.tla.  Polling firmware does   *)
(* anything to the registers and goes on reading UDR0.  Interrupt-driven   *)
(* firmware is as serial libraries are written: a handler of USART_RX      *)
(* reads UDR0 once; output is queued by the main program, which enables    *)
(* UDRIE, and sent by a handler of USART_UDRE that disables UDRIE again    *)
(* when the queue is empty.  The firmware is not part of the emulator: it  *)
(* is the environment in which the edges at which uart.cpp raises          *)
(* interrupts are judged.                                                  *)
(***************************************************************************)
EXTENDS Uart

CONSTANTS
  Styles,            \* the firmware there is: "polled", or "main" for interrupts
  TypesBeforeEnable, \* whether input may come before the latter sets RXCIE
  MaxPolled          \* bound: bytes in each direction under polling firmware

ASSUME StylesAssumption == Styles \subseteq {"polled", "main"} /\ MaxPolled \in Nat

VARIABLES
  running,  \* "polled", "main", or the handler that runs, with I clear
  txLeft    \* bytes in the firmware's output queue

vars == <<uartVars, running, txLeft>>

Init == UartInit /\ running \in Styles /\ txLeft = 0

-----------------------------------------------------------------------------
(* Polling firmware. *)

Polled(access) == running = "polled" /\ access /\ UNCHANGED <<running, txLeft>>

PolledFirmware ==
  \/ Polled(ReadUDR)
  \/ \E b \in Bytes : Polled(Len(written) < MaxPolled /\ WriteUDR(b))
  \/ \E S \in SUBSET Enables : Polled(WriteUCSRB(S))
  \/ \E v \in UsartVec : Polled(Serve(v))

-----------------------------------------------------------------------------
(* The main program of interrupt-driven firmware. *)

EnableRx ==
  /\ running = "main" /\ "RXCIE" \notin ucsrb
  /\ WriteUCSRB(ucsrb \cup {"RXCIE"})
  /\ UNCHANGED <<running, txLeft>>

Enqueue ==
  /\ running = "main" /\ txLeft + Len(written) < MaxBytes
  /\ txLeft' = txLeft + 1
  /\ WriteUCSRB(ucsrb \cup {"UDRIE"})
  /\ UNCHANGED running

(* USART_RX has the lower number and goes first. *)
EnterHandler(v) ==
  /\ running = "main"
  /\ v = "USART_UDRE" => "USART_RX" \notin pending
  /\ Serve(v)
  /\ running' = v /\ UNCHANGED txLeft

-----------------------------------------------------------------------------
(* The handlers. *)

RxHandler ==
  /\ running = "USART_RX"
  /\ ReadUDR
  /\ running' = "main" /\ UNCHANGED txLeft

SendNext(b) ==
  /\ running = "USART_UDRE" /\ txLeft > 0
  /\ WriteUDR(b)
  /\ txLeft' = txLeft - 1
  /\ running' = IF txLeft = 1 THEN "USART_UDRE" ELSE "main"

DisableUdre ==
  /\ running = "USART_UDRE" /\ txLeft = 0
  /\ WriteUCSRB(ucsrb \ {"UDRIE"})
  /\ running' = "main" /\ UNCHANGED txLeft

Firmware ==
  \/ \E v \in {"USART_RX", "USART_UDRE"} : EnterHandler(v)
  \/ RxHandler \/ DisableUdre \/ \E b \in Bytes : SendNext(b)

-----------------------------------------------------------------------------
Type(b) ==
  /\ TypesBeforeEnable \/ running = "polled" \/ "RXCIE" \in ucsrb
  /\ running = "polled" => Len(injected) < MaxPolled
  /\ InjectRx(b)
  /\ UNCHANGED <<running, txLeft>>

Emulator == Poll /\ UNCHANGED <<running, txLeft>>
Display == PopTx /\ UNCHANGED <<running, txLeft>>

Next ==
  \/ PolledFirmware \/ EnableRx \/ Enqueue \/ Firmware
  \/ Emulator \/ Display \/ \E b \in Bytes : Type(b)

(* The emulator thread polls, takes every interrupt it can and runs handlers  *)
(* to their end; polling firmware goes on reading UDR0 and the other gets     *)
(* round to enabling the receiver; the serial tab goes on being drawn.        *)
Spec ==
  Init /\ [][Next]_vars
    /\ WF_vars(Polled(ReadUDR)) /\ WF_vars(Firmware) /\ WF_vars(EnableRx)
    /\ WF_vars(Emulator) /\ WF_vars(Display)

-----------------------------------------------------------------------------
(* A request for USART_RX, or its handler, always finds a byte: the handler    *)
(* never reads an empty buffer as a 0x00 that nobody typed.                    *)
RxHandlerFindsByte ==
  running # "polled" /\ ("USART_RX" \in pending \/ running = "USART_RX") => rxHwReady

(* Data that waits has a handler on its way, although uart.cpp raises a request *)
(* at an edge only: a byte in the buffer a request for USART_RX, when none came *)
(* before RXCIE was set, and the firmware's queue one for USART_UDRE.           *)
NoWakeUpLost ==
  running # "polled" =>
    /\ ~ TypesBeforeEnable /\ rxHwReady => "USART_RX" \in pending \/ running = "USART_RX"
    /\ txLeft > 0 => "USART_UDRE" \in pending \/ running = "USART_UDRE"

(* Requests and data go together: the handler of USART_RX never runs for        *)
(* nothing, and no handler is missing.                                          *)
RequestsFollowData == RxHandlerFindsByte /\ NoWakeUpLost

(* The promise of uart.cpp:126-128, that "interrupt-driven serial (e.g.        *)
(* Arduino Serial) sees the byte": every byte typed is read, also when it was  *)
(* typed before RXCIE is set.                                                  *)
RxArrives == \A n \in 1..MaxBytes : (Len(injected) >= n) ~> (Len(received) >= n)

(* One edge per write of UDR0 or UCSR0B is enough for transmission, although   *)
(* UDRE is a level on the chip: the firmware's queue is always emptied.        *)
TxDrains == txLeft > 0 ~> txLeft = 0
=============================================================================
