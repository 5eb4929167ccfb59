--------------------------------- MODULE Tui ---------------------------------
(***************************************************************************)
(* The three threads of main.cpp's runTui and the flags they share: the    *)
(* emulator thread in executeProgram, the refresh thread, and the main     *)
(* thread in the FTXUI loop.  Each step loads or stores one flag, so that  *)
(* the other threads can come in between.                                  *)
(*                                                                         *)
(* One iteration of the executor is one step here (Executor.tla has the    *)
(* detail); of its state only this matters, whether the published snapshot *)
(* and the copy on display are those of the machine as it is now.  The     *)
(* publishing interval of 160000 cycles is a choice at each iteration.     *)
(***************************************************************************)
EXTENDS Naturals

VARIABLES
  stop, pause,        \* g_emu_stop, g_emu_pause
  emuDone, emuError, refreshStop,
  emu,                \* where the emulator thread is
  ok,                 \* what executeProgram returned; an exception is FALSE
  ui,                 \* where the main thread is
  seen,               \* emuDone as the key handler loaded it
  refresh, posted,    \* the refresh thread; an Event::Custom is queued
  fresh,              \* g_snapshot is the machine's present state
  shown,              \* displayState is the machine's present state
  status,             \* what the status bar says
  exitCode,
  late                \* history: iterations since stop or pause was requested

control == <<stop, pause>>
emuVars == <<emu, ok, emuDone, emuError, fresh, late>>
uiVars == <<ui, seen, status, exitCode>>
refreshVars == <<refresh, refreshStop>>
vars == <<control, emuVars, uiVars, refreshVars, posted, shown>>

(* Bound: the history counts no further. *)
MaxLate == 2

-----------------------------------------------------------------------------
Init ==
  /\ stop = FALSE /\ pause = FALSE
  /\ emuDone = FALSE /\ emuError = FALSE /\ refreshStop = FALSE
  /\ emu = "check" /\ ok = TRUE
  /\ ui = "loop" /\ seen = FALSE /\ status = "running" /\ exitCode = 0
  /\ refresh = "test" /\ posted = FALSE
  /\ fresh = TRUE /\ shown = TRUE
  /\ late = 0

-----------------------------------------------------------------------------
(* The emulator thread. *)

(* The operators with a suffix are wrong on purpose (README, "Mutants").       *)
CheckStopNoPublish ==
  /\ emu = "check"
  /\ emu' = IF stop THEN "storeError" ELSE "pause"
  /\ UNCHANGED <<control, ok, emuDone, emuError, fresh, late, uiVars, refreshVars, posted, shown>>

CheckStop ==
  /\ emu = "check"
  /\ IF stop THEN emu' = "storeError" /\ fresh' = TRUE
             ELSE emu' = "pause" /\ UNCHANGED fresh
  /\ UNCHANGED <<control, ok, emuDone, emuError, late, uiVars, refreshVars, posted, shown>>

LoadPauseIgnored ==
  /\ emu = "pause" /\ emu' = "iterate"
  /\ UNCHANGED <<control, ok, emuDone, emuError, fresh, late, uiVars, refreshVars, posted, shown>>

(* The wait loads g_emu_pause and then, if that is set, g_emu_stop. *)
LoadPause ==
  /\ emu = "pause"
  /\ emu' = IF pause THEN "pauseStop" ELSE "iterate"
  /\ UNCHANGED <<control, ok, emuDone, emuError, fresh, late, uiVars, refreshVars, posted, shown>>

LoadStopIgnored ==
  /\ emu = "pauseStop" /\ emu' = "pause"
  /\ UNCHANGED <<control, ok, emuDone, emuError, fresh, late, uiVars, refreshVars, posted, shown>>

LoadStop ==
  /\ emu = "pauseStop"
  /\ emu' = IF stop THEN "iterate" ELSE "pause"
  /\ UNCHANGED <<control, ok, emuDone, emuError, fresh, late, uiVars, refreshVars, posted, shown>>

(* The rest of an iteration, which may publish, or end the run by an error,  *)
(* without publishing, or by an exception.                                   *)
Iterate ==
  /\ emu = "iterate"
  /\ \/ emu' = "check" /\ fresh' \in BOOLEAN /\ UNCHANGED ok
     \/ emu' = "storeError" /\ fresh' = FALSE /\ ok' = FALSE
  /\ shown' = FALSE
  /\ late' = IF (stop \/ pause) /\ late < MaxLate THEN late + 1 ELSE late
  /\ UNCHANGED <<control, emuDone, emuError, uiVars, refreshVars, posted>>

StoreError ==
  /\ emu = "storeError"
  /\ emuError' = ~ ok
  /\ emu' = "storeDone"
  /\ UNCHANGED <<control, ok, emuDone, fresh, late, uiVars, refreshVars, posted, shown>>

StoreDone ==
  /\ emu = "storeDone"
  /\ emuDone' = TRUE
  /\ emu' = "ended"
  /\ UNCHANGED <<control, ok, emuError, fresh, late, uiVars, refreshVars, posted, shown>>

EmuDoneFirst ==
  \/ CheckStop \/ LoadPause \/ LoadStop \/ Iterate
  \/ /\ \/ emu = "storeError" /\ emu' = "storeDone" /\ emuDone' = TRUE /\ UNCHANGED emuError
        \/ emu = "storeDone" /\ emu' = "ended" /\ emuError' = ~ ok /\ UNCHANGED emuDone
     /\ UNCHANGED <<control, ok, fresh, late, uiVars, refreshVars, posted, shown>>

Emu == CheckStop \/ LoadPause \/ LoadStop \/ Iterate \/ StoreError \/ StoreDone

-----------------------------------------------------------------------------
(* The refresh thread. *)

Refresh ==
  /\ \/ refresh = "test" /\ refresh' = (IF refreshStop THEN "ended" ELSE "post")
        /\ UNCHANGED posted
     \/ refresh = "post" /\ refresh' = "test" /\ posted' = TRUE
  /\ UNCHANGED <<control, emuVars, uiVars, refreshStop, shown>>

-----------------------------------------------------------------------------
(* The main thread: events, each followed by drawing a frame, then shutdown. *)

KeyPress(k) ==
  /\ ui = "loop"
  /\ ui' = k /\ seen' = emuDone
  /\ UNCHANGED <<control, emuVars, status, exitCode, refreshVars, posted, shown>>

EscapeNotAfterError ==
  /\ ui = "escape"
  /\ IF seen /\ ~ emuError THEN ui' = "stopRefresh" /\ UNCHANGED stop
                            ELSE ui' = "draw" /\ stop' = TRUE
  /\ UNCHANGED <<pause, emuVars, seen, status, exitCode, refreshVars, posted, shown>>

Escape ==
  /\ ui = "escape"
  /\ IF seen THEN ui' = "stopRefresh" /\ UNCHANGED <<stop, late>>
             ELSE /\ ui' = "draw" /\ stop' = TRUE
                  /\ late' = IF stop THEN late ELSE 0
  /\ UNCHANGED <<pause, emu, ok, emuDone, emuError, fresh, seen, status, exitCode,
                 refreshVars, posted, shown>>

Space ==
  /\ ui = "space"
  /\ ui' = "draw"
  /\ pause' = IF seen THEN pause ELSE ~ pause
  /\ late' = IF stop \/ pause THEN late ELSE 0
  /\ UNCHANGED <<stop, emu, ok, emuDone, emuError, fresh, seen, status, exitCode,
                 refreshVars, posted, shown>>

CustomEvent ==
  /\ ui = "loop" /\ posted
  /\ ui' = "draw" /\ posted' = FALSE
  /\ UNCHANGED <<control, emuVars, seen, status, exitCode, refreshVars, shown>>

(* The status bar loads emuDone first, and then emuError or g_emu_pause. *)
DrawStatus ==
  /\ \/ ui = "draw" /\ ui' = (IF emuDone THEN "drawDone" ELSE "drawRunning")
        /\ UNCHANGED status
     \/ ui = "drawDone" /\ ui' = "drawTab"
        /\ status' = IF emuError THEN "error" ELSE "stopped"
     \/ ui = "drawRunning" /\ ui' = "drawTab"
        /\ status' = IF pause THEN "paused" ELSE "running"
  /\ UNCHANGED <<control, emuVars, seen, exitCode, refreshVars, posted, shown>>

(* The registers or the disassembly: copy the snapshot, always when paused, *)
(* at other times subject to the rate limit.                                *)
TakeSnapshot ==
  /\ ui = "drawTab"
  /\ ui' = "loop" /\ shown' = fresh
  /\ UNCHANGED <<control, emuVars, seen, status, exitCode, refreshVars, posted>>

SkipSnapshot ==
  /\ ui = "drawTab" /\ ~ pause
  /\ ui' = "loop"
  /\ UNCHANGED <<control, emuVars, seen, status, exitCode, refreshVars, posted, shown>>

(* FTXUI leaves its loop by itself on a signal. *)
LoopAborted ==
  /\ ui = "loop" /\ ui' = "stopRefresh"
  /\ UNCHANGED <<control, emuVars, seen, status, exitCode, refreshVars, posted, shown>>

ShutdownLeavesRefresh ==
  /\ ui = "stopRefresh" /\ ui' = "joinRefresh" /\ stop' = TRUE /\ pause' = FALSE
  /\ UNCHANGED <<emuVars, seen, status, exitCode, refreshVars, posted, shown>>

Shutdown ==
  /\ \/ ui = "stopRefresh" /\ ui' = "stopEmu" /\ refreshStop' = TRUE
        /\ UNCHANGED <<control, late>>
     \/ /\ ui = "stopEmu" /\ ui' = "unpause"
        /\ stop' = TRUE /\ late' = (IF stop THEN late ELSE 0)
        /\ UNCHANGED <<pause, refreshStop>>
     \/ ui = "unpause" /\ ui' = "joinRefresh" /\ pause' = FALSE
        /\ UNCHANGED <<stop, late, refreshStop>>
  /\ UNCHANGED <<emu, ok, emuDone, emuError, fresh, seen, status, exitCode,
                 refresh, posted, shown>>

JoinNoWait ==
  /\ ui = "joinRefresh" /\ refresh = "ended"
  /\ ui' = "returned" /\ exitCode' = IF emuError THEN 3 ELSE 0
  /\ UNCHANGED <<control, emuVars, seen, status, refreshVars, posted, shown>>

Join ==
  /\ \/ ui = "joinRefresh" /\ refresh = "ended" /\ ui' = "joinEmu" /\ UNCHANGED exitCode
     \/ /\ ui = "joinEmu" /\ emu = "ended"
        /\ ui' = "returned" /\ exitCode' = IF emuError THEN 3 ELSE 0
  /\ UNCHANGED <<control, emuVars, seen, status, refreshVars, posted, shown>>

Keys == (\E k \in {"escape", "space"} : KeyPress(k)) \/ LoopAborted
Ui == \/ Escape \/ Space \/ CustomEvent \/ DrawStatus
      \/ TakeSnapshot \/ SkipSnapshot \/ Shutdown \/ Join

Next == Emu \/ Refresh \/ Keys \/ Ui

Spec == Init /\ [][Next]_vars

(* No thread is starved, nothing forces the user to press a key, and the rate *)
(* limit, which is one of time, does not suppress every frame.                *)
FairSpec ==
  /\ Spec
  /\ WF_vars(Emu) /\ WF_vars(Refresh) /\ WF_vars(Ui)
  /\ SF_vars(TakeSnapshot)

-----------------------------------------------------------------------------
(* Types, and the places the three threads can be in. *)
FlagsOK ==
  /\ stop \in BOOLEAN /\ pause \in BOOLEAN /\ refreshStop \in BOOLEAN
  /\ emuDone \in BOOLEAN /\ emuError \in BOOLEAN /\ ok \in BOOLEAN
  /\ seen \in BOOLEAN /\ posted \in BOOLEAN /\ fresh \in BOOLEAN /\ shown \in BOOLEAN

PlacesOK ==
  /\ emu \in {"check", "pause", "pauseStop", "iterate", "storeError", "storeDone", "ended"}
  /\ ui \in {"loop", "escape", "space", "draw", "drawDone", "drawRunning", "drawTab",
             "stopRefresh", "stopEmu", "unpause", "joinRefresh", "joinEmu", "returned"}
  /\ refresh \in {"test", "post", "ended"}
  /\ status \in {"running", "paused", "stopped", "error"}
  /\ exitCode \in {0, 3}
  /\ late \in 0..MaxLate

TypeOK == FlagsOK /\ PlacesOK

(* The status bar tells a failed run from a stopped one, and tells neither too *)
(* early: whoever sees emuDone set sees the emuError that belongs to it.       *)
StatusTruthful ==
  /\ status \in {"stopped", "error"} => emu = "ended"
  /\ status = "stopped" => ok
  /\ status = "error" => ~ ok

(* runTui returns after both threads ended, the locals they refer to being its *)
(* own, and with the exit code of how the run ended.                           *)
ReturnTruthful ==
  ui = "returned" =>
    /\ emu = "ended" /\ refresh = "ended"
    /\ exitCode = IF ok THEN 0 ELSE 3

(* After a stop or a pause is requested at most the iteration that was due is  *)
(* still executed, a stop of a paused emulator included.                       *)
AtMostOneMoreIteration == stop \/ pause => late <= 1

(* When the status bar says "Esc to exit", the next Escape exits. *)
EscapeExits ==
  [][ui = "escape" /\ status \in {"stopped", "error"} =>
       ui' \in {"escape", "stopRefresh"}]_vars

(* A stop ends the run, paused or not, whatever keys follow. *)
StopEndsRun == stop ~> emu = "ended"

(* However the FTXUI loop is left, in a pause too, runTui returns. *)
ShutdownReturns == ui = "stopRefresh" ~> ui = "returned"

(* After a clean stop the registers on display become those the machine ended  *)
(* with, unless the user leaves before.                                        *)
InLoop == ui \in {"loop", "escape", "space", "draw", "drawDone", "drawRunning", "drawTab"}
FinalStateShown == (emu = "ended" /\ ok) ~> (shown \/ ~ InLoop)

(* README.md:94-95: Space freezes execution and "registers, disassembly, and   *)
(* SREG flags hold their current values": a pause that lasts does not go on    *)
(* showing other values than those the machine stands at.                      *)
PauseShowsCurrentValues == ~ <>[](pause /\ emu \in {"pause", "pauseStop"} /\ ~ shown)
=============================================================================
