SPECIFICATION Spec
CONSTANTS
  Half = 16
  FlashSize = 190
  Operands = {0, 1, 127, 128, 255}
  Immediates = {0, 1, 63}
  MaxWide = 16777216
INVARIANTS ChainsCompute BranchesDecide OverflowTruthful RoutinesCompute
