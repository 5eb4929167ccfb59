---------------------------- MODULE InterruptLine ----------------------------
(***************************************************************************)
(* What the interrupt system promises to firmware, without pending masks,  *)
(* peripheral flags or a stack.  Peripherals produce events; every         *)
(* delivered interrupt uses up one event of its vector, is delivered only  *)
(* while the global interrupt flag is set, and clears that flag.           *)
(* Executor.tla is shown to implement this specification.                  *)
(***************************************************************************)
CONSTANT Vectors

VARIABLES
  outstanding,  \* vectors with an event that no delivery has used up yet
  enabled       \* the global interrupt flag, SREG.I

lineVars == <<outstanding, enabled>>

LineInit == outstanding = {} /\ enabled = FALSE

(* Peripherals report events; a second event of a vector merges with the first. *)
Occur(S) == outstanding' = outstanding \cup S /\ UNCHANGED enabled

(* A delivery, possibly together with the events S noticed just before it. *)
Deliver(v, S) ==
  /\ enabled
  /\ v \in outstanding \cup S
  /\ outstanding' = (outstanding \cup S) \ {v}
  /\ enabled' = FALSE

(* Firmware sets or clears the flag (SEI, CLI, RETI). *)
SetFlag(b) == enabled' = b /\ UNCHANGED outstanding

LineNext ==
  \/ \E S \in SUBSET Vectors : Occur(S) \/ \E v \in Vectors : Deliver(v, S)
  \/ \E b \in BOOLEAN : SetFlag(b)

LineSpec == LineInit /\ [][LineNext]_lineVars
=============================================================================
