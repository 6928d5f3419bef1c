\* Two deliveries and two polling loops over one event and its order.
CONSTANTS
  o1 = o1
  NoOrder = NoOrder
  NoEvent = NoEvent
  Orders = {o1}
  Events = {e1}
  Bodies <- MCBodies
  Deliveries = {d1, d2}
  Workers = {w1, w2}
  MaxAttempts = 3
  OtherMoves <- MCOtherMoves
SPECIFICATION FairSpec
INVARIANTS
  TypeOK
  EarlyEventIsKept
  DeadLetterIsEarned
PROPERTIES
  ProcessedIsKept
  RetriesEnd
CHECK_DEADLOCK FALSE
