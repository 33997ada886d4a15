SPECIFICATION FairSpec
CONSTANTS
  Parts = {bin}
  MaxRelease = 2
  Ships <- ShipsFewer
  DiesAt = {"version", "copy", "stamp", "stamped", "sweep", "preflight", "mint", "clear", "config", "save", "listen", "job"}
  MaxDeaths = 2
INVARIANT TypeOK
INVARIANT TreeWhole
INVARIANT WorkFresh
INVARIANT MintsOnce
PROPERTY StartsAgain
PROPERTY ScriptAdvances
PROPERTY ScriptDrains
