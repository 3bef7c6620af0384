SPECIFICATION FairSpec
CONSTANTS
  p1 = p1
  p2 = p2
  f1 = f1
  f2 = f2
  r1 = r1
  AAPL = AAPL
  NoProposal = NoProposal
  Proposals = {p1, p2}
  Symbols = {AAPL}
  Lot = 2
  Quirks = {"partial"}
  SymbolOf <- MCSameSymbol
  Kinds <- MCExits
  Flows = {f1}
  Passes = {r1}
  PreventDuplicate = TRUE
  MaxFaults = 1
  Faults = {"rollback", "lost", "restart"}
INVARIANT NoLegAfterExit
PROPERTIES
  BracketExitRecorded
  TimeExitHappens
  TradesOnce
