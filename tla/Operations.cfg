SPECIFICATION OperationsSpec
CONSTANTS
  Requests = {q1, q2}
  Patches = {"a"}
  MaxEpoch = 2
  MaxTries = 1
  MaxStarts = 2
  MaxEvents = 1
  Legs = {"l1"}
  Advisory = {}
  WeakLeg = "l1"
  MaxHeads = 2
  MaxMain = 2
  MaxSettings = 1
  Calls = {"a", "b", "c"}
  MaxContainers = 3
  MaxBoots = 3
  SweptCells = {"x"}
  Resources <- MCResources
  Passes = {"p1", "p2"}
  MaxRearms = 2
  MaxSweeps = 2
  Metrics = {"m1", "m2"}
  Checks = {"k1", "k2"}
  MaxRuns = 1
  MaxChecks = 3
  Effects = {"e1"}
  MaxBinary = 2
  MaxRestores = 1
  w1 = w1
  w2 = w2
  Workers = {w1, w2}
  Journals = {"j1", "j2"}
  JournalOf <- TwoProcesses
  Digests = {"d1"}
  Digest <- SameDigest
  ReplaySafe = TRUE
  Reconcilers = {w1}
  MaxAttempts = 2
  MaxClaims = 3
  Posts <- MCPosts
  Blueprints = {"b"}
  Repos = {"r", "s"}
  Threads = {h1, h2}
  MaxSaved = 1
  MaxPosts = 3
  MaxEdits = 1
INVARIANTS
  CallsOverlapOnlyInDoubt
  CommittedWasShown
  MergedIsSealed
  PromotedWasTested
  ContainersAccountedFor
  MachinesAccountedFor
  SweepKeepsFaith
  OneIssuePerIncident
  NoDuplicateEffect
  AcknowledgedIsKept
PROPERTIES
  ReceiptWrittenOnce
  PublicationFenced
CHECK_DEADLOCK FALSE
