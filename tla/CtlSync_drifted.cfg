SPECIFICATION Spec
CONSTANTS
  Instances = {i1, i2}
  Ctls = {p1}
  Tokens = {t1, t2}
  NoInstance = NoInstance
  Shapes <- TwoShapes
  Verbs = {"sync", "enable", "rm"}
  Edits = {"conf", "delete", "malformed", "file", "store", "package"}
  MayFail <- AnyStep
  Drifted = {i1}
  MaxEvents = 2
SYMMETRY Symmetry
INVARIANT TypeOK
PROPERTY SyncConverges
PROPERTY SyncSettles
PROPERTY EnableExplained
PROPERTY EnableReady
PROPERTY RmLeavesNothing
CHECK_DEADLOCK FALSE
