SPECIFICATION BusySpec
CONSTANTS
  Instances = {i1}
  Ctls = {p1}
  NoInstance = NoInstance
  Verbs = {"enable", "drain", "disable-now", "restart", "kill", "reboot", "edit", "secret"}
  MayFail = {}
  Outages = {"upstream", "no-token"}
  TargetAtBoot = TRUE
  MaxEvents = 5
PROPERTIES
  DrainStops
  DrainAdvances
  Recovers
CHECK_DEADLOCK FALSE
