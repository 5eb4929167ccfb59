SPECIFICATION FairSpec
INVARIANTS StatusTruthful ReturnTruthful AtMostOneMoreIteration
PROPERTIES EscapeExits StopEndsRun ShutdownReturns FinalStateShown
CHECK_DEADLOCK FALSE
