SPECIFICATION FairSpec
CONSTANTS
  a = a
  b = b
  Node <- MCNode
  Broadcast = all
  None = none
  IdSpan = 2
  Retries = 1
  ExplicitDedup = FALSE
  MaxMessages <- MCMaxMessages
  MaxRestarts = 1
INVARIANTS TypeOK InOrder AckedDelivered
PROPERTIES ImplementsService Returns
CHECK_DEADLOCK FALSE
