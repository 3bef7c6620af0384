SPECIFICATION FairSpec
CONSTANTS
  p1 = p1
  w1 = w1
  r1 = r1
  EURUSD = EURUSD
  NoPlan = NoPlan
  Plans = {p1}
  Workers = {w1}
  Recs = {r1}
  SymbolOf <- MCSameSymbol
  MaxClaims = 3
  MaxCrashes = 2
  MaxPositions = 1
  MaxTrades = 2
  Faults = {}
INVARIANT PositionAccounted
PROPERTY ExecutionResolves
PROPERTY PositionRecorded
PROPERTY ClosedIsBooked
PROPERTY OrderResolved
