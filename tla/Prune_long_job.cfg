SPECIFICATION Spec
CONSTANTS
  Jobs = {j1}
  Containers = {c1}
  Builders = {}
  Others = {}
  Undated = {}
  NoJob = NoJob
  Pruners = {p1}
  MaxTroubles = 0
SYMMETRY Symmetry
PROPERTY OnlyLeftovers
