SPECIFICATION Spec
CONSTANTS
  FlashSize = 4
  RamSize = 3
  DataBase = 8
  DataLimit = 11
  Modulus = 16
  Images <- Files
INVARIANTS TypeOK TextIntact RamReady StartupFindsData AcceptsWhatFits
CHECK_DEADLOCK FALSE
