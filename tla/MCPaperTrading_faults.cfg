SPECIFICATION Spec
CONSTANTS
  p1 = p1
  p2 = p2
  f1 = f1
  f2 = f2
  r1 = r1
  AAPL = AAPL
  NoProposal = NoProposal
  Proposals = {p1, p2}
  Symbols = {AAPL}
  Lot = 1
  Quirks = {}
  SymbolOf <- MCSameSymbol
  Kinds <- MCPairs
  Flows = {f1, f2}
  Passes = {r1}
  PreventDuplicate = TRUE
  MaxFaults = 1
  Faults = {"rollback", "lost", "error", "uncancelled", "crash", "restart"}
SYMMETRY Interchangeable
INVARIANTS
  Ledger
  FilledOnce
  ApprovedExclusive
  DeadNeverTraded
  NeverShort
