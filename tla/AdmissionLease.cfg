SPECIFICATION Spec
CONSTANTS
  p1 = p1
  p2 = p2
  w1 = w1
  w2 = w2
  w3 = w3
  c1 = c1
  c2 = c2
  c3 = c3
  Procs = {p1, p2}
  Works = {w1, w2}
  CellIds = {c1, c3}
  Order <- PairOrder
  Repo <- MCRepo
  Priorities <- MCPriorities
  Weight <- MCWeight
  Epochs = {1}
  Outcomes = {"failed", "success"}
  GlobalActive = 2
  PerRepoActive = 1
  PerActorActive = 2
  PerBlueprintActive = 2
  QueueSize = 1
  MaxAttempts = 2
SYMMETRY ProcSymmetry
INVARIANTS
  OrderTellsMembers
  OutboxMatchesState
  OneLeaseHolder
PROPERTY ClosedIsFinal
CHECK_DEADLOCK FALSE
