SPECIFICATION JobSpec
CONSTANTS
  TaskRetries = 1
  MaxMishaps = 3
INVARIANT RejectedLineCompletes
CHECK_DEADLOCK FALSE
