SPECIFICATION FairSpec
CONSTANTS
  Node = {n1, n2}
  Client = {c1, c2, c3}
  Call = {p1}
  NoClient = NoClient
  NoNode = NoNode
  Bluetooth = "adapter"
  Budget <- AvailabilityBudget
  MaxSpawned = 2
\* The outside events run out
CHECK_DEADLOCK FALSE
INVARIANTS
  AvailabilityIsCurrent
  ReachableIsShown
PROPERTIES
  HealsItself
  ReachableGetsShown
