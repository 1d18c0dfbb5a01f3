SPECIFICATION FairSpec
CONSTANTS
  DelayMax = 30
  UnreachableAfter = 15
  Stable = 300
INVARIANTS
  TypeOK
  ReportIsOfAnOutage
  OutageIsReported
  ListenerIsFollowed
PROPERTIES
  RarerInAnOutage
  Reconnects
  NoticeKept
