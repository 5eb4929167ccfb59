---------------------------- MODULE MCDataSpace ----------------------------
(* Small sets of addresses for TLC.  Boundary: plain I/O, SPL and SPH, a byte *)
(* of SRAM that Y, Y + 40 and SP all reach and that equals a legacy UART      *)
(* register modulo 256, and the first address outside.  Aliased: a byte of    *)
(* SRAM that equals TCNT0 modulo 256.                                         *)
EXTENDS DataSpace

Boundary == {37, 93, 94, 297, 2304}
Aliased == {70, 326}
=============================================================================
