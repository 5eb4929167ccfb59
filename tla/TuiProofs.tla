------------------------------ MODULE TuiProofs ------------------------------
(***************************************************************************)
(* The safety properties of Tui, proved.  Tui has no constants: the proofs *)
(* show that the properties follow from the order of loads and stores and  *)
(* not from an exhaustive list of states.                                  *)
(***************************************************************************)
EXTENDS Tui, TLAPS

(* Types are preserved: no thread leaves the places its code has. *)
THEOREM TypeCorrect == Spec => []TypeOK
<1>1. Init => TypeOK
  <2>1. Init => FlagsOK BY DEF Init, FlagsOK
  <2>2. Init => PlacesOK BY DEF Init, PlacesOK, MaxLate
  <2> QED BY <2>1, <2>2 DEF TypeOK
<1>2. FlagsOK /\ [Next]_vars => FlagsOK'
  <2> SUFFICES ASSUME FlagsOK, [Next]_vars PROVE FlagsOK' OBVIOUS
  <2> USE DEF FlagsOK, control, emuVars, uiVars, refreshVars
  <2>1. CASE CheckStop BY <2>1 DEF CheckStop
  <2>2. CASE LoadPause BY <2>2 DEF LoadPause
  <2>3. CASE LoadStop BY <2>3 DEF LoadStop
  <2>4. CASE Iterate BY <2>4 DEF Iterate
  <2>5. CASE StoreError BY <2>5 DEF StoreError
  <2>6. CASE StoreDone BY <2>6 DEF StoreDone
  <2>7. CASE Refresh BY <2>7 DEF Refresh
  <2>8. CASE Keys BY <2>8 DEF Keys, KeyPress, LoopAborted
  <2>9. CASE Escape BY <2>9 DEF Escape
  <2>10. CASE Space BY <2>10 DEF Space
  <2>11. CASE CustomEvent BY <2>11 DEF CustomEvent
  <2>12. CASE DrawStatus BY <2>12 DEF DrawStatus
  <2>13. CASE TakeSnapshot BY <2>13 DEF TakeSnapshot
  <2>14. CASE SkipSnapshot BY <2>14 DEF SkipSnapshot
  <2>15. CASE Shutdown BY <2>15 DEF Shutdown
  <2>16. CASE Join BY <2>16 DEF Join
  <2>17. CASE UNCHANGED vars BY <2>17 DEF vars
  <2> QED
    BY <2>1, <2>2, <2>3, <2>4, <2>5, <2>6, <2>7, <2>8, <2>9, <2>10, <2>11, <2>12,
       <2>13, <2>14, <2>15, <2>16, <2>17 DEF Next, Emu, Ui
<1>3. PlacesOK /\ [Next]_vars => PlacesOK'
  <2> SUFFICES ASSUME PlacesOK, [Next]_vars PROVE PlacesOK' OBVIOUS
  <2> USE DEF PlacesOK, MaxLate, control, emuVars, uiVars, refreshVars
  <2>1. CASE CheckStop BY <2>1 DEF CheckStop
  <2>2. CASE LoadPause BY <2>2 DEF LoadPause
  <2>3. CASE LoadStop BY <2>3 DEF LoadStop
  <2>4. CASE Iterate BY <2>4 DEF Iterate
  <2>5. CASE StoreError BY <2>5 DEF StoreError
  <2>6. CASE StoreDone BY <2>6 DEF StoreDone
  <2>7. CASE Refresh BY <2>7 DEF Refresh
  <2>8. CASE Keys BY <2>8 DEF Keys, KeyPress, LoopAborted
  <2>9. CASE Escape BY <2>9 DEF Escape
  <2>10. CASE Space BY <2>10 DEF Space
  <2>11. CASE CustomEvent BY <2>11 DEF CustomEvent
  <2>12. CASE DrawStatus BY <2>12 DEF DrawStatus
  <2>13. CASE TakeSnapshot BY <2>13 DEF TakeSnapshot
  <2>14. CASE SkipSnapshot BY <2>14 DEF SkipSnapshot
  <2>15. CASE Shutdown BY <2>15 DEF Shutdown
  <2>16. CASE Join BY <2>16 DEF Join
  <2>17. CASE UNCHANGED vars BY <2>17 DEF vars
  <2> QED
    BY <2>1, <2>2, <2>3, <2>4, <2>5, <2>6, <2>7, <2>8, <2>9, <2>10, <2>11, <2>12,
       <2>13, <2>14, <2>15, <2>16, <2>17 DEF Next, Emu, Ui
<1> QED BY <1>1, <1>2, <1>3, PTL DEF Spec, TypeOK

-----------------------------------------------------------------------------
(* Why the status bar and the exit code can be trusted: emuError is settled    *)
(* before emuDone is set, and neither changes after that; the bar decides what *)
(* to say after it loaded emuDone; each join happens before the next step.     *)
OutcomeInv ==
  /\ emuDone => emu = "ended"
  /\ emu \in {"storeDone", "ended"} => emuError = ~ ok
  /\ ui = "drawDone" => emuDone
  /\ ui \in {"joinEmu", "returned"} => refresh = "ended"
  /\ StatusTruthful
  /\ ReturnTruthful

(* The status bar and the exit code agree with how the run ended. *)
THEOREM Outcome == Spec => [](StatusTruthful /\ ReturnTruthful)
<1>1. Init => OutcomeInv
  BY DEF Init, OutcomeInv, StatusTruthful, ReturnTruthful
<1>2. TypeOK /\ OutcomeInv /\ [Next]_vars => OutcomeInv'
  <2> SUFFICES ASSUME TypeOK, OutcomeInv, [Next]_vars PROVE OutcomeInv' OBVIOUS
  <2> USE DEF TypeOK, FlagsOK, PlacesOK, OutcomeInv, StatusTruthful, ReturnTruthful, control, emuVars,
              uiVars, refreshVars
  <2>1. CASE CheckStop BY <2>1 DEF CheckStop
  <2>2. CASE LoadPause BY <2>2 DEF LoadPause
  <2>3. CASE LoadStop BY <2>3 DEF LoadStop
  <2>4. CASE Iterate BY <2>4 DEF Iterate
  <2>5. CASE StoreError BY <2>5 DEF StoreError
  <2>6. CASE StoreDone BY <2>6 DEF StoreDone
  <2>7. CASE Refresh BY <2>7 DEF Refresh
  <2>8. CASE Keys BY <2>8 DEF Keys, KeyPress, LoopAborted
  <2>9. CASE Escape BY <2>9 DEF Escape
  <2>10. CASE Space BY <2>10 DEF Space
  <2>11. CASE CustomEvent BY <2>11 DEF CustomEvent
  <2>12. CASE DrawStatus BY <2>12 DEF DrawStatus
  <2>13. CASE TakeSnapshot BY <2>13 DEF TakeSnapshot
  <2>14. CASE SkipSnapshot BY <2>14 DEF SkipSnapshot
  <2>15. CASE Shutdown BY <2>15 DEF Shutdown
  <2>16. CASE Join BY <2>16 DEF Join
  <2>17. CASE UNCHANGED vars BY <2>17 DEF vars
  <2> QED
    BY <2>1, <2>2, <2>3, <2>4, <2>5, <2>6, <2>7, <2>8, <2>9, <2>10, <2>11, <2>12,
       <2>13, <2>14, <2>15, <2>16, <2>17 DEF Next, Emu, Ui
<1>3. OutcomeInv => StatusTruthful /\ ReturnTruthful
  BY DEF OutcomeInv
<1> QED BY <1>1, <1>2, <1>3, TypeCorrect, PTL DEF Spec

(* runTui returns only after both other threads, with the exit code that the *)
(* way the run ended calls for.                                              *)
THEOREM ReturnCode == Spec => []ReturnTruthful
<1>1. (StatusTruthful /\ ReturnTruthful) => ReturnTruthful OBVIOUS
<1> QED BY <1>1, Outcome, PTL

-----------------------------------------------------------------------------
(* Once the iteration that was due has run, a stopped emulator is on its way   *)
(* out and a paused one cannot get back to an iteration.                       *)
LateInv ==
  /\ stop => /\ late <= 1
             /\ late = 1 => emu \in {"check", "storeError", "storeDone", "ended"}
  /\ pause /\ ~ stop => late <= 1 /\ (late = 1 => emu # "iterate")

(* A request to stop or pause is obeyed after at most one more iteration. *)
THEOREM PromptStop == Spec => []AtMostOneMoreIteration
<1>1. Init => LateInv
  BY DEF Init, LateInv
<1>2. TypeOK /\ LateInv /\ [Next]_vars => LateInv'
  <2> SUFFICES ASSUME TypeOK, LateInv, [Next]_vars PROVE LateInv' OBVIOUS
  <2> USE DEF TypeOK, PlacesOK, LateInv, MaxLate, control, emuVars, uiVars, refreshVars
  <2>1. CASE CheckStop BY <2>1 DEF CheckStop
  <2>2. CASE LoadPause BY <2>2 DEF LoadPause
  <2>3. CASE LoadStop BY <2>3 DEF LoadStop
  <2>4. CASE Iterate BY <2>4 DEF Iterate
  <2>5. CASE StoreError BY <2>5 DEF StoreError
  <2>6. CASE StoreDone BY <2>6 DEF StoreDone
  <2>7. CASE Refresh BY <2>7 DEF Refresh
  <2>8. CASE Keys BY <2>8 DEF Keys, KeyPress, LoopAborted
  <2>9. CASE Escape BY <2>9 DEF Escape
  <2>10. CASE Space BY <2>10 DEF Space
  <2>11. CASE CustomEvent BY <2>11 DEF CustomEvent
  <2>12. CASE DrawStatus BY <2>12 DEF DrawStatus
  <2>13. CASE TakeSnapshot BY <2>13 DEF TakeSnapshot
  <2>14. CASE SkipSnapshot BY <2>14 DEF SkipSnapshot
  <2>15. CASE Shutdown BY <2>15 DEF Shutdown
  <2>16. CASE Join BY <2>16 DEF Join
  <2>17. CASE UNCHANGED vars BY <2>17 DEF vars
  <2> QED
    BY <2>1, <2>2, <2>3, <2>4, <2>5, <2>6, <2>7, <2>8, <2>9, <2>10, <2>11, <2>12,
       <2>13, <2>14, <2>15, <2>16, <2>17 DEF Next, Emu, Ui
<1>3. LateInv => AtMostOneMoreIteration
  BY DEF LateInv, AtMostOneMoreIteration
<1> QED BY <1>1, <1>2, <1>3, TypeCorrect, PTL DEF Spec
-----------------------------------------------------------------------------
(* The bar said "Esc to exit" because emuDone was set, and so the handler of   *)
(* the next key loads it as set.                                               *)
EscapeInv ==
  /\ ui = "drawDone" => emuDone
  /\ status \in {"stopped", "error"} => emuDone
  /\ ui = "escape" /\ status \in {"stopped", "error"} => seen

(* What the status bar promises of Escape is kept. *)
THEOREM EscapeKept == Spec => EscapeExits
<1>1. Init => EscapeInv
  BY DEF Init, EscapeInv
<1>2. EscapeInv /\ [Next]_vars => EscapeInv'
  <2> SUFFICES ASSUME EscapeInv, [Next]_vars PROVE EscapeInv' OBVIOUS
  <2> USE DEF EscapeInv, control, emuVars, uiVars, refreshVars
  <2>1. CASE CheckStop BY <2>1 DEF CheckStop
  <2>2. CASE LoadPause BY <2>2 DEF LoadPause
  <2>3. CASE LoadStop BY <2>3 DEF LoadStop
  <2>4. CASE Iterate BY <2>4 DEF Iterate
  <2>5. CASE StoreError BY <2>5 DEF StoreError
  <2>6. CASE StoreDone BY <2>6 DEF StoreDone
  <2>7. CASE Refresh BY <2>7 DEF Refresh
  <2>8. CASE Keys BY <2>8 DEF Keys, KeyPress, LoopAborted
  <2>9. CASE Escape BY <2>9 DEF Escape
  <2>10. CASE Space BY <2>10 DEF Space
  <2>11. CASE CustomEvent BY <2>11 DEF CustomEvent
  <2>12. CASE DrawStatus BY <2>12 DEF DrawStatus
  <2>13. CASE TakeSnapshot BY <2>13 DEF TakeSnapshot
  <2>14. CASE SkipSnapshot BY <2>14 DEF SkipSnapshot
  <2>15. CASE Shutdown BY <2>15 DEF Shutdown
  <2>16. CASE Join BY <2>16 DEF Join
  <2>17. CASE UNCHANGED vars BY <2>17 DEF vars
  <2> QED
    BY <2>1, <2>2, <2>3, <2>4, <2>5, <2>6, <2>7, <2>8, <2>9, <2>10, <2>11, <2>12,
       <2>13, <2>14, <2>15, <2>16, <2>17 DEF Next, Emu, Ui
<1>3. EscapeInv /\ [Next]_vars
        => [ui = "escape" /\ status \in {"stopped", "error"}
              => ui' \in {"escape", "stopRefresh"}]_vars
  <2> SUFFICES ASSUME EscapeInv, [Next]_vars, ui = "escape",
                      status \in {"stopped", "error"}
               PROVE  ui' \in {"escape", "stopRefresh"}
    OBVIOUS
  <2> USE DEF EscapeInv, control, emuVars, uiVars, refreshVars
  <2>1. CASE CheckStop BY <2>1 DEF CheckStop
  <2>2. CASE LoadPause BY <2>2 DEF LoadPause
  <2>3. CASE LoadStop BY <2>3 DEF LoadStop
  <2>4. CASE Iterate BY <2>4 DEF Iterate
  <2>5. CASE StoreError BY <2>5 DEF StoreError
  <2>6. CASE StoreDone BY <2>6 DEF StoreDone
  <2>7. CASE Refresh BY <2>7 DEF Refresh
  <2>8. CASE Keys BY <2>8 DEF Keys, KeyPress, LoopAborted
  <2>9. CASE Escape BY <2>9 DEF Escape
  <2>10. CASE Space BY <2>10 DEF Space
  <2>11. CASE CustomEvent BY <2>11 DEF CustomEvent
  <2>12. CASE DrawStatus BY <2>12 DEF DrawStatus
  <2>13. CASE TakeSnapshot BY <2>13 DEF TakeSnapshot
  <2>14. CASE SkipSnapshot BY <2>14 DEF SkipSnapshot
  <2>15. CASE Shutdown BY <2>15 DEF Shutdown
  <2>16. CASE Join BY <2>16 DEF Join
  <2>17. CASE UNCHANGED vars BY <2>17 DEF vars
  <2> QED
    BY <2>1, <2>2, <2>3, <2>4, <2>5, <2>6, <2>7, <2>8, <2>9, <2>10, <2>11, <2>12,
       <2>13, <2>14, <2>15, <2>16, <2>17 DEF Next, Emu, Ui
<1> QED BY <1>1, <1>2, <1>3, PTL DEF Spec, EscapeExits

=============================================================================
