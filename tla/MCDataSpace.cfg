SPECIFICATION Spec
CONSTANTS
  Used <- Boundary
  Immediates = {1, 41}
  Sources = {28, 29}
  Targets = {0}
  Indirect = {28}
  Displacements = {40}
  BitNumbers = {1}
  DeviceBytes = {0, 1}
INVARIANT PlainMemoryHolds
CHECK_DEADLOCK FALSE
