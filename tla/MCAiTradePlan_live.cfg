SPECIFICATION FairSpec
CONSTANTS
  p1 = p1
  f1 = f1
  r1 = r1
  EURUSD = EURUSD
  NoPlan = NoPlan
  Plans = {p1}
  Market = {}
  Flows = {f1}
  Passes = {r1}
  SymbolOf <- MCSameSymbol
  Attempts = 2
  OneActive = TRUE
  MaxClaims = 3
  MaxCrashes = 1
  Faults = {}
PROPERTY SubmissionResolves
PROPERTY PlacementResolves
PROPERTY RecordedClosureSynced
