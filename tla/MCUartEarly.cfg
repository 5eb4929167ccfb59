SPECIFICATION Spec
CONSTANTS
  x = x
  y = y
  Bytes <- TwoBytes
  MaxBytes = 2
  Styles <- Interrupts
  MaxPolled = 2
  TypesBeforeEnable = TRUE
PROPERTY RxArrives
CHECK_DEADLOCK FALSE
