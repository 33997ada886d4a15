SPECIFICATION Spec
CONSTANTS
  Instances = {i1, i2}
  Ctls = {p1}
  Tokens = {t1, t2}
  NoInstance = NoInstance
  Shapes <- TwoShapes
  Verbs = {"sync", "enable", "add", "add-no-token", "set-credential", "rm"}
  Edits = {"conf", "package"}
  MayFail = {"unlink", "forget", "unfile", "unconf", "purge"}
  Drifted = {}
  MaxEvents = 7
SYMMETRY Symmetry
INVARIANT SecretFollowsFile
INVARIANT LoadedBetween
PROPERTY SyncConverges
PROPERTY SyncLoads
PROPERTY CredentialLoads
CHECK_DEADLOCK FALSE
