------------------------------- MODULE MCFlash -------------------------------
(* An image for Flash: recursion and nested interrupts with too little stack,  *)
(* skips over one word, two words, an undefined word and the end of flash.     *)
EXTENDS Disasm, TLC

Firmware ==
   ( 0   :> <<\h940C, 2>>          \* JMP start
  @@ 4   :> <<\hE003>>             \* LDI R16, 3
  @@ 6   :> <<\h9300, 110>>        \* STS TIMSK0, R16
  @@ 10  :> <<\h9478>>             \* SEI
  @@ 12  :> <<\hD021>>             \* RCALL f
  @@ 14  :> <<\hFD10>>             \* SBRC R17, 0
  @@ 16  :> <<\h940C, 6>>          \* JMP main
  @@ 20  :> <<\h9BA8>>             \* SBIS TIFR0, 0
  @@ 22  :> <<\hC002>>             \* RJMP L1
  @@ 24  :> <<\h940E, 44>>         \* CALL g
  @@ 28  :> <<\hF011>>             \* BREQ L2
  @@ 30  :> <<\h1001>>             \* CPSE R0, R1
  @@ 32  :> <<\hFFFF>>             \* undefined
  @@ 34  :> <<\hF411>>             \* BRNE L3
  @@ 36  :> <<\h9AA8>>             \* SBI TIFR0, 0
  @@ 38  :> <<\hCFF2>>             \* RJMP main
  @@ 40  :> <<\hBF0F>>             \* OUT SREG, R16
  @@ 42  :> <<\h9300, 198>>        \* STS UDR0, R16
  @@ 46  :> <<\hF010>>             \* BRCS L4
  @@ 48  :> <<\h9120, 2304>>       \* LDS R18, 0x0900
  @@ 52  :> <<\h940C, 53>>         \* JMP end
  @@ 56  :> <<\hC010>>             \* TIMER0_COMPA: RJMP h15
  @@ 64  :> <<\h940C, 49>>         \* TIMER0_OVF: JMP h17
  @@ 76  :> <<\hFFFF>>             \* USART_UDRE: erased
  @@ 80  :> <<\h930F>>             \* f: PUSH R16
  @@ 82  :> <<\hFF07>>             \* SBRS R16, 7
  @@ 84  :> <<\hDFFD>>             \* RCALL f
  @@ 86  :> <<\h910F>>             \* POP R16
  @@ 88  :> <<\h9508>>             \* g: RET
  @@ 90  :> <<\h930F>>             \* h15: PUSH R16
  @@ 92  :> <<\hA101>>             \* LDD R16, Z+33
  @@ 94  :> <<\h910F>>             \* POP R16
  @@ 96  :> <<\h9518>>             \* RETI
  @@ 98  :> <<\h9478>>             \* h17: SEI
  @@ 100 :> <<\h9300, 110>>        \* STS TIMSK0, R16
  @@ 104 :> <<\h9518>>             \* RETI
  @@ 106 :> <<\hFD41>>             \* SBRC R20, 1
  @@ 108 :> <<\h940C>> )           \* JMP, its second word past the end

(* Named, so that TLC evaluates it once. *)
Image == FlashCode

Values == {3, 131}
Targets == {223, 2304}
=============================================================================
