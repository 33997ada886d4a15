SPECIFICATION Spec
CONSTANTS
  Instances = {"01", "02"}
  Global = "gh-runner.conf"
  TextsOf <- SomeTexts
  MaxLines = 3
  PageSize = 4
  WarnReleases = 2
  MaxOdd = 2
  MaxEntries = 6
  Bases = {1, 2}
INVARIANT SeenAsPassed
INVARIANT DropinIsLastWord
INVARIANT NamesDistinct
INVARIANT TargetIsEndpoint
INVARIANT WarnsWhenBehind
INVARIANT UpgradesToRelease
CHECK_DEADLOCK FALSE
