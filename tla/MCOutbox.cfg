SPECIFICATION OutboxFairSpec
CONSTANTS
  e1 = e1
  e2 = e2
  p1 = p1
  p2 = p2
  c1 = c1
  c2 = c2
  NoEvent = NoEvent
  Events = {e1}
  Relays = {p1, p2}
  Consumers = {c1, c2}
  MaxAttempts = 2
  BatchSize = 1
  DeliveryLimit = 1
  MaxFaults = 2
CHECK_DEADLOCK FALSE
PROPERTIES
  LeaseKept
  RowsSettle
  SentIsHandled
