----------------------------- MODULE UartProofs -----------------------------
(***************************************************************************)
(* No byte is lost, duplicated or reordered between the keyboard and UDR0, *)
(* or between UDR0 and the display, for any set of bytes, any number of    *)
(* them and any firmware; and under both kinds of firmware of UartIrq no   *)
(* data waits without a request for the handler that is to take it.        *)
(***************************************************************************)
EXTENDS UartIrq, SequenceTheorems, TLAPS

LEMMA Singleton ==
  ASSUME NEW S, NEW e \in S
  PROVE  <<e>> \in Seq(S)
OBVIOUS

LEMMA HeadThenTail ==
  ASSUME NEW S, NEW s \in Seq(S), s # <<>>
  PROVE  s = <<Head(s)>> \o Tail(s)
<1>1. Len(s) \in Nat \ {0} BY EmptySeq
<1>2. SubSeq(s, 1, Len(s)) = <<s[1]>> \o SubSeq(s, 2, Len(s))
  BY <1>1, SubSeqRecursiveFirst
<1>3. SubSeq(s, 1, Len(s)) = s BY SubSeqFull
<1>4. Tail(s) = SubSeq(s, 2, Len(s)) BY TailIsSubSeq
<1>5. Head(s) = s[1] OBVIOUS
<1> QED BY <1>2, <1>3, <1>4, <1>5

(* What was appended to is a prefix of the result. *)
LEMMA PrefixOfConcat ==
  ASSUME NEW S, NEW s \in Seq(S), NEW t \in Seq(S)
  PROVE  SubSeq(s \o t, 1, Len(s)) = s
<1>1. Len(s) \in Nat BY LenProperties
<1>2. CASE s = <<>>
  <2>1. Len(s) = 0 BY <1>2, EmptySeq
  <2> QED BY <1>2, <2>1, SubSeqEmpty
<1>3. CASE s # <<>>
  <2>1. Len(s) \in Nat \ {0} BY <1>3, EmptySeq
  <2>2. SubSeq(s \o t, 1, Len(s)) = SubSeq(s, 1, Len(s))
    BY <2>1, SubSeqOfConcat1
  <2> QED BY <2>2, SubSeqFull
<1> QED BY <1>2, <1>3

-----------------------------------------------------------------------------
LEMMA UartTypeStep ==
  ASSUME UartTypeOK, [UartNext]_uartVars
  PROVE  UartTypeOK'
<1> USE DEF UartTypeOK, rxVars, txVars
<1>1. ASSUME NEW b \in Bytes, InjectRx(b) PROVE UartTypeOK'
  BY <1>1, AppendProperties DEF InjectRx
<1>2. ASSUME NEW b \in Bytes, WriteUDR(b) PROVE UartTypeOK'
  BY <1>2, AppendProperties DEF WriteUDR, UsartVec
<1>3. CASE PopTx
  BY <1>3, ConcatProperties, EmptySeq DEF PopTx
<1>4. CASE Poll
  BY <1>4, HeadTailProperties DEF Poll, UsartVec
<1>5. CASE ReadUDR
  BY <1>5, AppendProperties DEF ReadUDR
<1>6. ASSUME NEW S \in SUBSET Enables, WriteUCSRB(S) PROVE UartTypeOK'
  BY <1>6 DEF WriteUCSRB, UsartVec
<1>7. ASSUME NEW v \in UsartVec, Serve(v) PROVE UartTypeOK'
  BY <1>7 DEF Serve
<1>8. CASE UNCHANGED uartVars
  BY <1>8 DEF uartVars
<1> QED BY <1>1, <1>2, <1>3, <1>4, <1>5, <1>6, <1>7, <1>8 DEF UartNext

LEMMA UartTypeInit == UartInit => UartTypeOK
BY EmptySeq DEF UartInit, UartTypeOK

(* Types are preserved; rxHwByte holds a byte also when none is ready. *)
THEOREM TypeCorrect == UartSpec => []UartTypeOK
BY UartTypeInit, UartTypeStep, PTL DEF UartSpec

-----------------------------------------------------------------------------
LEMMA Regroup ==
  ASSUME NEW s \in Seq(Bytes), NEW t \in Seq(Bytes), NEW u \in Seq(Bytes)
  PROVE  (s \o t) \o u = s \o (t \o u)
BY ConcatAssociative

(* Each byte typed or written is in exactly one place, in order. *)
THEOREM NothingLost == UartSpec => []NoByteLost
<1>1. UartInit => NoByteLost
  <2>1. <<>> \in Seq(Bytes) BY EmptySeq
  <2> QED BY <2>1, ConcatEmptySeq DEF UartInit, NoByteLost, InHardware
<1>2. UartTypeOK /\ NoByteLost /\ [UartNext]_uartVars => NoByteLost'
  <2> SUFFICES ASSUME UartTypeOK, NoByteLost, [UartNext]_uartVars PROVE NoByteLost'
    OBVIOUS
  <2> USE DEF NoByteLost, rxVars, txVars
  <2>a. /\ received \in Seq(Bytes) /\ rxQueue \in Seq(Bytes)
        /\ popped \in Seq(Bytes) /\ txBuffer \in Seq(Bytes)
        /\ rxHwByte \in Bytes /\ <<>> \in Seq(Bytes) /\ <<rxHwByte>> \in Seq(Bytes)
    BY EmptySeq, Singleton DEF UartTypeOK
  <2>b. InHardware \in Seq(Bytes) BY <2>a DEF InHardware
  <2>1. ASSUME NEW b \in Bytes, InjectRx(b) PROVE NoByteLost'
    <3>1. received \o InHardware \in Seq(Bytes) BY <2>a, <2>b, ConcatProperties
    <3>2. <<b>> \in Seq(Bytes) BY Singleton
    <3>3. injected \in Seq(Bytes) BY DEF UartTypeOK
    <3>4. Append(injected, b) = injected \o <<b>> BY <3>3, AppendIsConcat
    <3>5. Append(rxQueue, b) = rxQueue \o <<b>> BY <2>a, AppendIsConcat
    <3>6. ((received \o InHardware) \o rxQueue) \o <<b>>
            = (received \o InHardware) \o (rxQueue \o <<b>>)
      <4> DEFINE s == received \o InHardware
                 u == <<b>>
      <4>1. s \in Seq(Bytes) /\ rxQueue \in Seq(Bytes) /\ u \in Seq(Bytes)
        BY <2>a, <3>1, <3>2
      <4> HIDE DEF s, u
      <4>2. (s \o rxQueue) \o u = s \o (rxQueue \o u)
        BY <4>1, Regroup
      <4> QED BY <4>2 DEF s, u
    <3> QED BY <2>1, <3>4, <3>5, <3>6 DEF InjectRx, InHardware
  <2>2. ASSUME NEW b \in Bytes, WriteUDR(b) PROVE NoByteLost'
    <3>1. <<b>> \in Seq(Bytes) BY Singleton
    <3>2. written \in Seq(Bytes) BY DEF UartTypeOK
    <3>3. Append(written, b) = written \o <<b>> BY <3>2, AppendIsConcat
    <3>4. Append(txBuffer, b) = txBuffer \o <<b>> BY <2>a, AppendIsConcat
    <3>5. (popped \o txBuffer) \o <<b>> = popped \o (txBuffer \o <<b>>)
      <4> DEFINE u == <<b>>
      <4>1. popped \in Seq(Bytes) /\ txBuffer \in Seq(Bytes) /\ u \in Seq(Bytes)
        BY <2>a, <3>1
      <4> HIDE DEF u
      <4>2. (popped \o txBuffer) \o u = popped \o (txBuffer \o u)
        BY <4>1, Regroup
      <4> QED BY <4>2 DEF u
    <3> QED BY <2>2, <3>3, <3>4, <3>5 DEF WriteUDR, InHardware
  <2>3. CASE PopTx
    <3>1. popped \o txBuffer \in Seq(Bytes) BY <2>a, ConcatProperties
    <3>2. (popped \o txBuffer) \o <<>> = popped \o txBuffer BY <3>1, ConcatEmptySeq
    <3> QED BY <2>3, <3>2 DEF PopTx, InHardware
  <2>4. CASE Poll
    <3>1. InHardware = <<>> /\ InHardware' = <<Head(rxQueue)>>
      BY <2>4 DEF Poll, InHardware
    <3>2. /\ Head(rxQueue) \in Bytes /\ Tail(rxQueue) \in Seq(Bytes)
          /\ rxQueue = <<Head(rxQueue)>> \o Tail(rxQueue)
      BY <2>4, <2>a, HeadTailProperties, HeadThenTail DEF Poll
    <3>3. <<Head(rxQueue)>> \in Seq(Bytes) BY <3>2, Singleton
    <3>4. received \o <<>> = received BY <2>a, ConcatEmptySeq
    <3>5. (received \o <<Head(rxQueue)>>) \o Tail(rxQueue)
            = received \o (<<Head(rxQueue)>> \o Tail(rxQueue))
      <4> DEFINE u == <<Head(rxQueue)>>
                 t == Tail(rxQueue)
      <4>1. received \in Seq(Bytes) /\ t \in Seq(Bytes) /\ u \in Seq(Bytes)
        BY <2>a, <3>2, <3>3
      <4> HIDE DEF t, u
      <4>2. (received \o u) \o t = received \o (u \o t)
        BY <4>1, Regroup
      <4> QED BY <4>2 DEF t, u
    <3> QED BY <2>4, <3>1, <3>2, <3>4, <3>5 DEF Poll
  <2>5. CASE ReadUDR
    <3>1. CASE rxHwReady
      <4>1. InHardware = <<rxHwByte>> /\ InHardware' = <<>>
        BY <2>5, <3>1 DEF ReadUDR, InHardware
      <4>2. received' = received \o <<rxHwByte>>
        BY <2>5, <3>1, <2>a, AppendIsConcat DEF ReadUDR
      <4>3. received \o <<rxHwByte>> \in Seq(Bytes) BY <2>a, ConcatProperties
      <4>4. (received \o <<rxHwByte>>) \o <<>> = received \o <<rxHwByte>>
        BY <4>3, ConcatEmptySeq
      <4> QED BY <2>5, <4>1, <4>2, <4>4 DEF ReadUDR
    <3>2. CASE ~ rxHwReady
      BY <2>5, <3>2 DEF ReadUDR, InHardware
    <3> QED BY <3>1, <3>2
  <2>6. ASSUME NEW S \in SUBSET Enables, WriteUCSRB(S) PROVE NoByteLost'
    BY <2>6 DEF WriteUCSRB, InHardware
  <2>7. ASSUME NEW v \in UsartVec, Serve(v) PROVE NoByteLost'
    BY <2>7 DEF Serve, InHardware
  <2>8. CASE UNCHANGED uartVars
    BY <2>8 DEF uartVars, InHardware
  <2> QED BY <2>1, <2>2, <2>3, <2>4, <2>5, <2>6, <2>7, <2>8 DEF UartNext
<1> QED BY <1>1, <1>2, TypeCorrect, PTL DEF UartSpec

-----------------------------------------------------------------------------
(* Reception implements the channel: a read takes the next byte. *)
THEOREM RxRefinement == UartSpec => ImplementsRx
<1>1. UartInit => Rx!ChannelInit
  BY DEF UartInit, Rx!ChannelInit
<1>2. UartTypeOK /\ NoByteLost /\ NoByteLost' /\ UartTypeOK' /\ [UartNext]_uartVars
        => [Rx!ChannelNext]_(Rx!channelVars)
  <2> SUFFICES ASSUME UartTypeOK, NoByteLost, NoByteLost', UartTypeOK', [UartNext]_uartVars
               PROVE  Rx!ChannelNext \/ UNCHANGED <<injected, received>>
    BY DEF Rx!channelVars
  <2>1. ASSUME NEW b \in Bytes, InjectRx(b) PROVE Rx!ChannelNext
    BY <2>1 DEF InjectRx, Rx!ChannelNext, Rx!Send
  <2>2. CASE ReadUDR /\ rxHwReady
    <3>1. /\ received' = Append(received, rxHwByte) /\ injected' = injected
          /\ injected' = (received' \o <<>>) \o rxQueue'
      BY <2>2 DEF ReadUDR, NoByteLost, InHardware
    <3>2. /\ received' \in Seq(Bytes) /\ rxQueue' \in Seq(Bytes) /\ received \in Seq(Bytes)
          /\ rxHwByte \in Bytes
      BY DEF UartTypeOK
    <3>3. injected = received' \o rxQueue' BY <3>1, <3>2, ConcatEmptySeq
    <3>4. received' = SubSeq(injected, 1, Len(received')) BY <3>2, <3>3, PrefixOfConcat
    <3>5. Len(received) \in Nat /\ Len(received') = Len(received) + 1
      BY <3>1, <3>2, AppendProperties, LenProperties
    <3>6. Len(received') <= Len(injected) /\ Len(injected) \in Nat
      BY <3>2, <3>3, ConcatProperties, LenProperties
    <3>7. Len(received') \in (Len(received) + 1)..Len(injected) BY <3>5, <3>6
    <3> QED BY <3>1, <3>4, <3>7 DEF Rx!ChannelNext, Rx!Receive
  <2>3. CASE ~ (ReadUDR /\ rxHwReady) /\ ~ \E b \in Bytes : InjectRx(b)
    BY <2>3 DEF UartNext, uartVars, rxVars, txVars, ReadUDR, PopTx, Poll, WriteUDR,
                WriteUCSRB, Serve
  <2> QED BY <2>1, <2>2, <2>3
<1> QED BY <1>1, <1>2, TypeCorrect, NothingLost, PTL DEF UartSpec, ImplementsRx, Rx!ChannelSpec

(* Transmission implements the channel: a pop takes all that is buffered. *)
THEOREM TxRefinement == UartSpec => ImplementsTx
<1>1. UartInit => Tx!ChannelInit
  BY DEF UartInit, Tx!ChannelInit
<1>2. UartTypeOK /\ NoByteLost /\ [UartNext]_uartVars => [Tx!ChannelNext]_(Tx!channelVars)
  <2> SUFFICES ASSUME UartTypeOK, NoByteLost, [UartNext]_uartVars
               PROVE  Tx!ChannelNext \/ UNCHANGED <<written, popped>>
    BY DEF Tx!channelVars
  <2>1. ASSUME NEW b \in Bytes, WriteUDR(b) PROVE Tx!ChannelNext
    BY <2>1 DEF WriteUDR, Tx!ChannelNext, Tx!Send
  <2>2. CASE PopTx
    <3>1. popped' = popped \o txBuffer /\ written' = written /\ txBuffer # <<>>
      BY <2>2 DEF PopTx
    <3>2. popped \in Seq(Bytes) /\ txBuffer \in Seq(Bytes) /\ written \in Seq(Bytes)
      BY DEF UartTypeOK
    <3>3. popped' = written BY <3>1 DEF NoByteLost
    <3>4. popped' = SubSeq(written, 1, Len(written)) BY <3>2, <3>3, SubSeqFull
    <3>5. Len(written) = Len(popped) + Len(txBuffer)
      BY <3>2, ConcatProperties DEF NoByteLost
    <3>6. Len(popped) \in Nat /\ Len(txBuffer) \in Nat \ {0}
      BY <3>1, <3>2, EmptySeq, LenProperties
    <3>7. Len(written) \in (Len(popped) + 1)..Len(written) BY <3>5, <3>6
    <3> QED BY <3>1, <3>4, <3>7 DEF Tx!ChannelNext, Tx!Receive
  <2>3. CASE ~ PopTx /\ ~ \E b \in Bytes : WriteUDR(b)
    BY <2>3 DEF UartNext, uartVars, rxVars, txVars, ReadUDR, InjectRx, Poll,
                WriteUCSRB, Serve
  <2> QED BY <2>1, <2>2, <2>3
<1> QED BY <1>1, <1>2, TypeCorrect, NothingLost, PTL DEF UartSpec, ImplementsTx, Tx!ChannelSpec

-----------------------------------------------------------------------------
(* Firmware that polls and firmware that serves interrupts only do what any    *)
(* firmware may do to the UART.                                                *)
LEMMA FirmwareStep ==
  ASSUME UartTypeOK, [Next]_vars
  PROVE  [UartNext]_uartVars
<1>1. CASE PolledFirmware
  BY <1>1 DEF PolledFirmware, Polled, UartNext
<1>2. CASE EnableRx
  <2>1. ucsrb \cup {"RXCIE"} \in SUBSET Enables BY DEF UartTypeOK, Enables
  <2> QED BY <1>2, <2>1 DEF EnableRx, UartNext
<1>3. CASE Enqueue
  <2>1. ucsrb \cup {"UDRIE"} \in SUBSET Enables BY DEF UartTypeOK, Enables
  <2> QED BY <1>3, <2>1 DEF Enqueue, UartNext
<1>4. CASE Firmware
  <2>1. ucsrb \ {"UDRIE"} \in SUBSET Enables BY DEF UartTypeOK
  <2> QED BY <1>4, <2>1
          DEF Firmware, EnterHandler, RxHandler, DisableUdre, SendNext, UartNext, UsartVec
<1>5. CASE Emulator \/ Display \/ \E b \in Bytes : Type(b)
  BY <1>5 DEF Emulator, Display, Type, UartNext
<1>6. CASE UNCHANGED vars
  BY <1>6 DEF vars
<1> QED BY <1>1, <1>2, <1>3, <1>4, <1>5, <1>6 DEF Next

(* What holds of the UART under any firmware holds of it under these two.       *)
THEOREM FirmwareUsesUart == Spec => UartSpec
<1>1. Init => UartInit
  BY DEF Init
<1>2. Spec => []UartTypeOK
  BY <1>1, UartTypeInit, UartTypeStep, FirmwareStep, PTL DEF Spec
<1> QED BY <1>1, <1>2, FirmwareStep, PTL DEF Spec, UartSpec

(* No byte is lost under them, and both directions are channels. *)
THEOREM CarriedOver == Spec => []NoByteLost /\ ImplementsRx /\ ImplementsTx
BY FirmwareUsesUart, NothingLost, RxRefinement, TxRefinement

-----------------------------------------------------------------------------
(* Where interrupt-driven firmware is.  A request for USART_RX is gone once its *)
(* handler runs, and cannot come back while the byte is there; UDRIE is set     *)
(* while there is output; and no byte gets in before RXCIE, if none is typed.   *)
Places == {"polled", "main", "USART_RX", "USART_UDRE"}
RequestInv ==
  /\ UartTypeOK /\ running \in Places /\ txLeft \in Nat
  /\ RequestsFollowData
  /\ running = "USART_RX" => "USART_RX" \notin pending
  /\ running # "polled" /\ txLeft > 0 => "UDRIE" \in ucsrb
  /\ running # "polled" /\ ~ TypesBeforeEnable /\ rxQueue # <<>> => "RXCIE" \in ucsrb

LEMMA RequestStep ==
  ASSUME RequestInv, [Next]_vars
  PROVE  RequestInv'
<1>1. UartTypeOK'
  BY FirmwareStep, UartTypeStep DEF RequestInv
<1> USE DEF RequestInv, RequestsFollowData, RxHandlerFindsByte, NoWakeUpLost, Places,
            rxVars, txVars
<1>2. CASE running = "polled"
  <2>1. running' = "polled" /\ txLeft' = txLeft
    BY <1>2 DEF Next, PolledFirmware, Polled, EnableRx, Enqueue, Firmware, EnterHandler,
                RxHandler, SendNext, DisableUdre, Emulator, Display, Type, vars
  <2> QED BY <1>1, <2>1
<1>3. CASE EnableRx
  BY <1>1, <1>3 DEF EnableRx, WriteUCSRB
<1>4. CASE Enqueue
  BY <1>1, <1>4 DEF Enqueue, WriteUCSRB
<1>5. ASSUME NEW v \in {"USART_RX", "USART_UDRE"}, EnterHandler(v) PROVE RequestInv'
  BY <1>1, <1>5 DEF EnterHandler, Serve
<1>6. CASE RxHandler
  BY <1>1, <1>6 DEF RxHandler, ReadUDR
<1>7. ASSUME NEW b \in Bytes, SendNext(b) PROVE RequestInv'
  BY <1>1, <1>7 DEF SendNext, WriteUDR
<1>8. CASE DisableUdre
  BY <1>1, <1>8 DEF DisableUdre, WriteUCSRB
<1>9. CASE running # "polled" /\ Emulator
  BY <1>1, <1>9 DEF Emulator, Poll
<1>10. CASE Display
  BY <1>1, <1>10 DEF Display, PopTx
<1>11. ASSUME running # "polled", NEW b \in Bytes, Type(b) PROVE RequestInv'
  BY <1>1, <1>11 DEF Type, InjectRx
<1>12. CASE UNCHANGED vars
  BY <1>1, <1>12 DEF vars, uartVars
<1> QED BY <1>2, <1>3, <1>4, <1>5, <1>6, <1>7, <1>8, <1>9, <1>10, <1>11, <1>12
        DEF Next, PolledFirmware, Polled, Firmware

(* Under any number of bytes and any pace of typing a handler is requested or   *)
(* runs whenever there is data for it, and that of USART_RX only then.          *)
THEOREM HandlersRunForData == Spec => []RequestsFollowData
<1>1. Init => RequestInv
  <2> SUFFICES ASSUME Init PROVE RequestInv OBVIOUS
  <2>1. UartTypeOK BY UartTypeInit DEF Init
  <2>2. running \in {"polled", "main"} BY StylesAssumption DEF Init, StylesAssumption
  <2> QED BY <2>1, <2>2 DEF Init, UartInit, RequestInv, RequestsFollowData,
                           RxHandlerFindsByte, NoWakeUpLost, Places
<1>2. RequestInv => RequestsFollowData BY DEF RequestInv
<1> QED BY <1>1, <1>2, RequestStep, PTL DEF Spec
=============================================================================
