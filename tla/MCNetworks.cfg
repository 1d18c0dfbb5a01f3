SPECIFICATION FairSpec
CONSTANTS
  Versions = 2
  Hook = {h1, h2}
  Sync = sync
  Losses = 2
INVARIANTS
  TypeOK
  NetworksHandedOver
  NodeListFirst
PROPERTIES
  NetworksArrive
