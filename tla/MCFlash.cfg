SPECIFICATION FlashSpec
CONSTANTS
  Vectors = {15, 17, 20}
  TimerVec = {15, 17}
  PollVec = {}
  Programmed = {15, 17}
  FlashSize = 110
  StackBottom = 256
  RamEnd = 261
  IoBytes = {0}
  MaxFrames = 0
  Code <- Image
  Listing <- Firmware
  RegValues <- Values
  Pointers <- Targets
INVARIANTS SpStaysInStack OnlyInstructionsExecute MostSpecificWins WordsDistinct ListingTruthful
CHECK_DEADLOCK FALSE
