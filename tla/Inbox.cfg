SPECIFICATION FairInboxSpec
CONSTANTS
  d1 = d1
  d2 = d2
  k1 = k1
  k2 = k2
  b1 = b1
  b2 = b2
  NoDelivery = NoDelivery
  NoBody = NoBody
  Deliveries = {d1, d2}
  Bodies = {b1, b2}
  Workers = {k1, k2}
  MaxPending = 1
  MaxAttempts = 2
  MaxTotal = 3
  Managed = TRUE
  MaxEpoch = 2

INVARIANTS
  OneRunningLease
  DispatchedWasAccepted
  OrdersWithinAttempts
PROPERTIES
  DeliveryEnds
CHECK_DEADLOCK FALSE
