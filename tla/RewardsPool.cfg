SPECIFICATION Spec
CONSTANTS
  Stakers = {x, y}
  NoStaker = none
  nFirst = 3
  nCycle = 2
  nCoinbaseMaturity = 3
  CyclesPerYear = 2
  YearsA = 1
  YearsB = 1
  YearsC = 1
  AnnualA = 21
  AnnualB = 11
  AnnualC = 5
  MinRelayFee = 1
  MaxHeight = 15
  MaxReorgs = 3
SYMMETRY StakerSymmetry
INVARIANTS
  AheadOnlyByReorganisation
  LagBounded
  PoolConserved
  PayoutCanBeBuilt
PROPERTIES
  LeftoverKept
CHECK_DEADLOCK FALSE
