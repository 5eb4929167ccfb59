SPECIFICATION Spec
CONSTANTS
  x = x
  y = y
  Bytes <- TwoBytes
  MaxBytes = 3
  Styles <- BothStyles
  MaxPolled = 2
  TypesBeforeEnable = FALSE
INVARIANTS NoByteLost RequestsFollowData
PROPERTIES ImplementsRx ImplementsTx AllArrive TxDrains
CHECK_DEADLOCK FALSE
