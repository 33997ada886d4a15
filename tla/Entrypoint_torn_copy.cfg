SPECIFICATION Spec
CONSTANTS
  Parts = {bin}
  MaxRelease = 1
  Ships <- ShipsFewer
  DiesAt = {"copy"}
  MaxDeaths = 1
INVARIANT TreeSynced
