SPECIFICATION Spec
CONSTANTS
  Scale = 4
  TypeMin <- MCTypeMin
  TypeMax = 1
  NarrowMin <- MCNarrowMin
  NarrowMax = 0
  Null = Null
  NoNode = NoNode
  NoRow = NoRow
  Changes = 2
  Sets = 1
  Losses = 1
  MaxSpawned = 4
\* The changes, sets and losses run out
CHECK_DEADLOCK FALSE
INVARIANTS
  TypeOK
  HubIsCurrent
  SetIsShown
  SentIsInLimits
  ListensOn
