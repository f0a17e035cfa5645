SPECIFICATION ExploreSpec
CONSTANTS
  AnnealFixes = 2
  MaxVersions = 2
  MaxCuts = 1
  Strategies = {1, 2, 3}
  MaxCandidates = 1
  MaxAtOnce = 2
  AttemptCost = 1
  Pressures <- MCPressures
  MaxSearchRounds = 2
  Searches = {"s1", "s2", "s3", "s4"}
  Members = {"t1", "t2"}
  Verifier <- MCVerifier
  SearchCost = 1
  RunCeiling = 2
  MaxPrice = 1
  MaxSearchTries = 3
  TreeFiles = {"f", "g", "h"}
  PlanFiles = {"f", "g", "h"}
  FusionProtected = {"h"}
  Edits = {{"f"}, {"g"}, {"f", "h"}}
  Needed = {"f", "g"}
  FusionRounds = 2
  MaxFusionTries = 2
  Candidates = {"c1"}
  Commits = {0, 1, 2}
  Shells = {p1, p2}
  Absent = Absent
  MaxNow = 1
  MaxCommands = 5
  MaxShellKills = 1
INVARIANTS
  OkIsOfHead
  PlansAreSound
  SettledIsCharged
  AdoptedWasVerified
  EvidenceNamesFrozen
CHECK_DEADLOCK FALSE
