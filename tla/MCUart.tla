------------------------------- MODULE MCUart -------------------------------
(* UartIrq with two bytes that are told apart. *)
EXTENDS UartIrq

CONSTANTS x, y
TwoBytes == {x, y}
BothStyles == {"polled", "main"}
Interrupts == {"main"}
=============================================================================
