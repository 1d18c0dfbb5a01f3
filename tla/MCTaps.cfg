SPECIFICATION Spec
CONSTANTS
  Clusters <- TapClusters
  MaxEndpoint = 1
  MaxClusters = 2
  MaxEvents = 1
  None = None
\* A device without a main parameter has no tap
CHECK_DEADLOCK FALSE
INVARIANTS
  TypeOK
  AcceptsTaps
  NeverFromIdle
  TapsAct
PROPERTIES
  TapToggles
