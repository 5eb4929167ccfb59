------------------------------- MODULE MCClock -------------------------------
(* The emulator's two clocks, a two-bit Timer0 with a one- and a three-cycle  *)
(* prescaler and the loop's pacing, for TLC.  Neither reads the other, so a   *)
(* behaviour moves one of them and leaves the other where it started.         *)
EXTENDS Timer0, Pacing

SmallDivider == [s \in 0..7 |-> CASE s = 1 -> 1 [] s = 2 -> 3 [] OTHER -> 0]

ClockInit == Init /\ PacingInit

PacingStill == PacingInit /\ UNCHANGED pacingVars
TimerStill == Init /\ UNCHANGED vars

ClockNext ==
  \/ \E c \in Cycles : TickBegin(c) /\ PacingStill
  \/ Count /\ PacingStill
  \/ WriteTCCR0A /\ PacingStill
  \/ WriteTCCR0B /\ PacingStill
  \/ WriteTCNT0 /\ PacingStill
  \/ WriteOCR0A /\ PacingStill
  \/ WriteOCR0B /\ PacingStill
  \/ WriteTIMSK0 /\ PacingStill
  \/ WriteTIFR0 /\ PacingStill
  \/ Ack /\ PacingStill
  \/ Begin /\ TimerStill
  \/ Execute /\ TimerStill
  \/ NoSync /\ TimerStill
  \/ Sync /\ TimerStill
  \/ Wake /\ TimerStill
  \/ Elapse /\ TimerStill

clockVars == <<vars, pacingVars>>

ClockSpec == ClockInit /\ [][ClockNext]_clockVars /\ WF_clockVars(Count /\ PacingStill)
=============================================================================
