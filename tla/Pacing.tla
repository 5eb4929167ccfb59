-------------------------------- MODULE Pacing --------------------------------
(***************************************************************************)
(* The clockwork of executeProgram: the cycle count and its three          *)
(* thresholds, at which the loop polls the UART, publishes a snapshot, and *)
(* compares emulated time with the wall clock and sleeps if it is ahead.   *)
(*                                                                         *)
(* wall is the time since wall_start in whole microseconds.  It passes at  *)
(* any moment, so that the host may be fast or slow and a pause is time    *)
(* that passes at the top of the loop.  What an instruction does is in     *)
(* Executor.tla; here it takes cycles.  cycle_count has 64 bits and is     *)
(* taken as unbounded (36,000 years); its product with US overflows.       *)
(***************************************************************************)
EXTENDS Integers

CONSTANTS
  HZ,                \* AVR_CPU_HZ
  US,                \* WALL_CLOCK_US_PER_SECOND
  SyncInterval,      \* WALL_CLOCK_SYNC_INTERVAL_CYCLES
  PollInterval,      \* UART_POLL_INTERVAL_CYCLES
  SnapshotInterval,  \* 160000
  Slack,             \* microseconds ahead for which the loop does not sleep: 100
  MaxInstr,          \* the most cycles an instruction takes
  Modulus,           \* of a uint64_t
  MaxCycles, MaxWall \* bounds

ASSUME PacingAssumption ==
  /\ HZ \in Nat \ {0} /\ US \in Nat \ {0} /\ Modulus \in Nat \ {0}
  /\ SyncInterval \in Nat \ {0} /\ PollInterval \in Nat \ {0}
  /\ SnapshotInterval \in Nat \ {0}
  /\ Slack \in Nat /\ MaxInstr \in Nat \ {0}
  /\ MaxCycles \in Nat /\ MaxWall \in Nat

VARIABLES
  phase,        \* where the loop is: "top", "execute", "sync" or "asleep"
  cycle_count,
  next_uart_poll_cycle, next_snapshot_cycle, next_wall_sync_cycle,
  wall,
  target_wall,
  lastPoll, lastSnapshot  \* history: cycle_count at the last poll and snapshot

pollVars == <<next_uart_poll_cycle, lastPoll>>
snapshotVars == <<next_snapshot_cycle, lastSnapshot>>
syncVars == <<next_wall_sync_cycle, target_wall>>
pacingVars == <<phase, cycle_count, pollVars, snapshotVars, syncVars, wall>>

-----------------------------------------------------------------------------
PacingInit ==
  /\ phase = "top" /\ cycle_count = 0 /\ wall = 0 /\ target_wall = 0
  /\ next_uart_poll_cycle = 0
  /\ next_snapshot_cycle = SnapshotInterval
  /\ next_wall_sync_cycle = SyncInterval
  /\ lastPoll = 0 /\ lastSnapshot = 0

(* Operators with a suffix are wrong on purpose (README, "Mutants"). *)
BeginPastDue ==
  /\ phase = "top"
  /\ IF cycle_count > next_uart_poll_cycle
     THEN next_uart_poll_cycle' = cycle_count + PollInterval /\ lastPoll' = cycle_count
     ELSE UNCHANGED pollVars
  /\ phase' \in {"top", "execute"}
  /\ UNCHANGED <<cycle_count, snapshotVars, syncVars, wall>>

(* Polls when it is time.  After the dispatch of an interrupt the loop starts *)
(* over, without an instruction.                                              *)
Begin ==
  /\ phase = "top"
  /\ IF cycle_count >= next_uart_poll_cycle
     THEN next_uart_poll_cycle' = cycle_count + PollInterval /\ lastPoll' = cycle_count
     ELSE UNCHANGED pollVars
  /\ phase' \in {"top", "execute"}
  /\ UNCHANGED <<cycle_count, snapshotVars, syncVars, wall>>

Execute ==
  /\ phase = "execute"
  /\ cycle_count' \in (cycle_count + 1)..(cycle_count + MaxInstr)
  /\ cycle_count' <= MaxCycles
  /\ IF cycle_count' >= next_snapshot_cycle
     THEN next_snapshot_cycle' = cycle_count' + SnapshotInterval /\ lastSnapshot' = cycle_count'
     ELSE UNCHANGED snapshotVars
  /\ phase' = "sync"
  /\ UNCHANGED <<pollVars, syncVars, wall>>

(* Emulated time, in microseconds; the product is a uint64_t. *)
Target == ((cycle_count * US) % Modulus) \div HZ

Synced ==
  /\ next_wall_sync_cycle' = cycle_count + SyncInterval
  /\ phase' = "top"

NoSync ==
  /\ phase = "sync" /\ cycle_count < next_wall_sync_cycle
  /\ phase' = "top"
  /\ UNCHANGED <<cycle_count, pollVars, snapshotVars, syncVars, wall>>

SyncRelative ==
  /\ phase = "sync" /\ cycle_count >= next_wall_sync_cycle
  /\ target_wall' = wall + ((SyncInterval * US) \div HZ)
  /\ IF target_wall' - wall > Slack
     THEN phase' = "asleep" /\ UNCHANGED next_wall_sync_cycle
     ELSE Synced
  /\ UNCHANGED <<cycle_count, pollVars, snapshotVars, wall>>

SyncCoarse ==
  /\ phase = "sync" /\ cycle_count >= next_wall_sync_cycle
  /\ target_wall' = Target
  /\ IF (Target \div 4) - (wall \div 4) > Slack
     THEN phase' = "asleep" /\ UNCHANGED next_wall_sync_cycle
     ELSE Synced
  /\ UNCHANGED <<cycle_count, pollVars, snapshotVars, wall>>

Sync ==
  /\ phase = "sync" /\ cycle_count >= next_wall_sync_cycle
  /\ target_wall' = Target
  /\ IF Target - wall > Slack
     THEN phase' = "asleep" /\ UNCHANGED next_wall_sync_cycle
     ELSE Synced
  /\ UNCHANGED <<cycle_count, pollVars, snapshotVars, wall>>

(* sleep_until may return late, never early. *)
Wake ==
  /\ phase = "asleep" /\ wall >= target_wall
  /\ Synced
  /\ UNCHANGED <<cycle_count, pollVars, snapshotVars, target_wall, wall>>

Elapse ==
  /\ wall < MaxWall /\ wall' = wall + 1
  /\ UNCHANGED <<phase, cycle_count, pollVars, snapshotVars, syncVars>>

PacingNext == Begin \/ Execute \/ NoSync \/ Sync \/ Wake \/ Elapse

PacingSpec == PacingInit /\ [][PacingNext]_pacingVars

-----------------------------------------------------------------------------
(* The firmware never runs ahead of the wall clock by more than the slack, a  *)
(* microsecond lost in rounding, and the cycles between two comparisons; in   *)
(* units of 1 / (HZ * US) seconds.  It may run behind and then catch up, for  *)
(* the anchor is never moved.  It holds until the product has overflowed, at  *)
(* 2^64 / US cycles (13.3 days), from when on the loop no longer sleeps.      *)
NeverAhead ==
  cycle_count * US < Modulus =>
    cycle_count * US < (HZ * (wall + Slack + 1)) + (US * (SyncInterval + MaxInstr))

(* The loop never sleeps for longer than that, so a stop or a pause is seen    *)
(* soon: not when a fast host is far ahead, and not after the product has      *)
(* overflowed either.                                                          *)
SleepIsShort ==
  phase = "asleep" =>
    HZ * target_wall < (HZ * (wall + Slack + 1)) + (US * (SyncInterval + MaxInstr))

(* The UART is polled at least once in an interval and the instruction that   *)
(* crosses its end, however many interrupts are dispatched and however long    *)
(* the loop sleeps; and what is displayed is never older than its interval.    *)
Punctual ==
  /\ cycle_count - lastPoll < PollInterval + MaxInstr
  /\ cycle_count - lastSnapshot < SnapshotInterval
=============================================================================
