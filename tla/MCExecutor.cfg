SPECIFICATION FairSpec
CONSTANTS
  Vectors = {15, 17, 19, 20}
  TimerVec = {15, 17}
  PollVec = {19}
  Programmed = {15, 17, 19}
  FlashSize = 1024
  StackBottom = 256
  RamEnd = 261
  IoBytes = {0}
  MaxFrames = 3
  Code <- TimerImage
INVARIANTS EachEventServedOnce NoInstructionWhileRequested
PROPERTIES ReturnsResume ImplementsInterruptLine EachGetsItsTurn
CHECK_DEADLOCK FALSE
