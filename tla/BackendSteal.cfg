SPECIFICATION BackendSpec
CONSTANTS
  p1 = p1
  p2 = p2
  t1 = t1
  t2 = t2
  w1 = w1
  w2 = w2
  c1 = c1
  c2 = c2
  NoWork = NoWork
  NoCell = NoCell
  Procs = {p1, p2}
  Threads = {t1, t2}
  Works = {w1}
  CellIds = {c1}
  ProcOf <- TwoProcesses
  Order <- SoloOrder
  DesiredEpoch <- FirstEpoch
  Attached = {}
  Requests = {"submit", "withdraw", "resume", "stop", "report"}
  MaxCrashes = 0
  Repo <- MCRepo
  Priorities <- MCPriorities
  Weight <- MCWeight
  Epochs = {1, 2}
  Outcomes = {"failed", "success", "cancelled"}
  GlobalActive = 2
  PerRepoActive = 2
  PerActorActive = 2
  PerBlueprintActive = 2
  QueueSize = 1
  MaxAttempts = 2
PROPERTIES
  ImplementsAdmission
