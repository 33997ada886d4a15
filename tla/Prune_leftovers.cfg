SPECIFICATION FairSpec
CONSTANTS
  Jobs = {j1, j2}
  Containers = {c1}
  Builders = {b1}
  Others = {o1}
  Undated = {j2}
  NoJob = NoJob
  Pruners = {p1}
  MaxTroubles = 1
INVARIANT TypeOK
PROPERTY YoungJobsKept
PROPERTY PassReaps
PROPERTY LeftoversReaped
