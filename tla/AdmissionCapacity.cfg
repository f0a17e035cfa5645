SPECIFICATION Spec
CONSTANTS
  p1 = p1
  p2 = p2
  w1 = w1
  w2 = w2
  w3 = w3
  c1 = c1
  c2 = c2
  c3 = c3
  Procs = {p1}
  Works = {w1, w2, w3}
  CellIds = {c1, c2, c3}
  Order <- MixOrder
  Repo <- MCRepo
  Priorities <- MCPriorities
  Weight <- MCWeight
  Epochs = {1}
  Outcomes = {"failed"}
  GlobalActive = 3
  PerRepoActive = 1
  PerActorActive = 2
  PerBlueprintActive = 2
  QueueSize = 2
  MaxAttempts = 1
INVARIANTS
  CapacityRespected
CHECK_DEADLOCK FALSE
