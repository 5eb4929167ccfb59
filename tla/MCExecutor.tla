----------------------------- MODULE MCExecutor -----------------------------
(* Firmware images and constants for checking Executor with TLC. *)
EXTENDS Executor, TLC

I(op, num, vecs) == [op |-> op, words |-> 1, num |-> num, vecs |-> vecs]
L(op, num) == [op |-> op, words |-> 2, num |-> num, vecs |-> {}]

(* The vector table of 4-byte JMPs; every handler is at 600. *)
Table == [a \in {vectorAddr(v) : v \in Vectors} |-> {L("jump", 600)}]

(* The start-up code sets SP to RamEnd, high byte first, as crt0 does.         *)
(* Main at 512 does any of a choice of things for ever, or until it meets an    *)
(* undefined word or leaves flash; the handler saves a register, does its       *)
(* work, restores the register and returns.                                     *)
Image(main, work) ==
  ( 0   :> {I("sph", RamEnd \div 256, {})}
 @@ 2   :> {I("spl", RamEnd % 256, {})}
 @@ 4   :> {L("jump", 512)}
 @@ 512 :> main
 @@ 514 :> {I("jump", 512, {})}
 @@ 600 :> {I("push", 5, {})}
 @@ 602 :> work
 @@ 604 :> {I("pop", 0, {})}
 @@ 606 :> {I("reti", 0, {})}
 @@ 700 :> {I("ret", 0, {})} ) @@ Table

TimerFirmware ==
  Image({I("sei", 0, {}), I("cli", 0, {}), I("timsk", 0, {15, 17}), I("timsk", 0, {}),
         I("tifr", 0, {17}), I("call", 700, {}), I("uart", 0, {20}),
         I("undefined", 0, {}), I("jump", FlashSize, {})},
        {NOP, I("sei", 0, {}), I("tifr", 0, {15}), I("timsk", 0, {15})})

(* Named, so that TLC evaluates it once. *)
TimerImage == TimerFirmware
=============================================================================
