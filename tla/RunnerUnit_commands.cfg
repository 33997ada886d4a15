SPECIFICATION Spec
CONSTANTS
  Instances = {i1, i2}
  Ctls = {p1, p2}
  NoInstance = NoInstance
  Verbs = {"enable", "drain", "disable-now", "start", "stop", "restart", "target", "kill", "reboot", "edit", "secret"}
  MayFail = {"next", "check", "secret", "clear", "dropin", "relink", "mark", "unlink", "start", "stop"}
  Outages = {}
  TargetAtBoot = TRUE
  MaxEvents = 4
SYMMETRY Symmetry
INVARIANTS
  TypeOK
  DrainBudget
  WantsSettled
  OneIntent
PROPERTY DrainHonoured
CHECK_DEADLOCK FALSE
