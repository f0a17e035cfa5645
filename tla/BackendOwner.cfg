SPECIFICATION BackendSpec
CONSTANTS
  p1 = p1
  p2 = p2
  t1 = t1
  t2 = t2
  w1 = w1
  w2 = w2
  c1 = c1
  c2 = c2
  NoWork = NoWork
  NoCell = NoCell
  Procs = {p1}
  Threads = {t1, t2}
  Works = {w1, w2}
  CellIds = {c1}
  ProcOf <- OneProcess
  Order <- RivalOrder
  DesiredEpoch <- FirstEpoch
  Attached = {w2}
  Requests = {"submit", "withdraw"}
  MaxCrashes = 1
  Repo <- MCRepo
  Priorities <- MCPriorities
  Weight <- MCWeight
  Epochs = {1, 2}
  Outcomes = {"failed", "success", "cancelled"}
  GlobalActive = 2
  PerRepoActive = 2
  PerActorActive = 2
  PerBlueprintActive = 2
  QueueSize = 1
  MaxAttempts = 1
INVARIANTS
  OneOwnerPerEpoch
  RunBehindDelivery
SYMMETRY ThreadSymmetry
CHECK_DEADLOCK FALSE
