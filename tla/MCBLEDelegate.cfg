SPECIFICATION FairSpec
CONSTANTS
  Link = {k1, k2}
  NoLink = NoLink
  Source = {s1, s2}
  NoSource = NoSource
  MaxHandle = 3
\* A delegate that was cancelled is at its end
CHECK_DEADLOCK FALSE
INVARIANTS
  TypeOK
  LeaseOwned
  RecordedIsLeased
  NoSegmentSkipped
PROPERTIES
  SourceGivenBack
  LoanKept
