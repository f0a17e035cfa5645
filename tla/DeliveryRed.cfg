CONSTANTS
  Line <- MCLine
  MaxInputs = 2
  GateStages = {"plan"}
  MaxReviewFixes = 1
  MaxCodes = 2
  MaxDocs = 2
  MaxRunKills = 1
SPECIFICATION DeliverySpec
INVARIANT PublishedCodePasses
CHECK_DEADLOCK FALSE
