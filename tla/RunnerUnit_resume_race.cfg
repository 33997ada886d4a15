SPECIFICATION FairSpec
CONSTANTS
  Instances = {i1}
  Ctls = {p1}
  NoInstance = NoInstance
  Verbs = {"enable", "drain", "start"}
  MayFail = {}
  Outages = {}
  TargetAtBoot = TRUE
  MaxEvents = 4
PROPERTY
  EnabledRuns
CHECK_DEADLOCK FALSE
