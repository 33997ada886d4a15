SPECIFICATION StatusSpec
CONSTANTS
  Instances = {i1}
  Ctls = {}
  NoInstance = NoInstance
  Verbs = {"start", "stop", "kill"}
  MayFail = {}
  Outages = {"upstream"}
  TargetAtBoot = FALSE
  MaxEvents = 3
  MaxRestarts = 3
INVARIANT UnexplainedMeansJobless
CHECK_DEADLOCK FALSE
