SPECIFICATION ImportSpec
CONSTANTS
  Imports = {i1}
  Txs = {t1, t2}
  MaxImports = 2
  MaxStops = 1
  Free = Free
SYMMETRY BatchSymmetry
INVARIANT DoneMakesOwner
CHECK_DEADLOCK FALSE
