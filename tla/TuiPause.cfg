SPECIFICATION FairSpec
PROPERTY PauseShowsCurrentValues
CHECK_DEADLOCK FALSE
