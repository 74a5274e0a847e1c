SPECIFICATION FairSpec
CONSTANTS
  Stakers = {x, y}
  NoStaker = none
  nFirst = 3
  nCycle = 3
  nCoinbaseMaturity = 3
  CyclesPerYear = 2
  YearsA = 1
  YearsB = 1
  YearsC = 1
  AnnualA = 21
  AnnualB = 11
  AnnualC = 5
  MinRelayFee = 1
  MaxHeight = 9
  MaxReorgs = 0
PROPERTIES
  SuperblocksAreStaked
CHECK_DEADLOCK FALSE
