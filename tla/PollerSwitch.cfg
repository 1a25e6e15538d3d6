SPECIFICATION Spec
CONSTANTS
  Servers = {s1, s2}
  Databases = {d1, d2}
  None = None
  Files <- Servers
  FileOf <- KeyedFile
  Modes = {"dual", "single"}
  Unreachable <- NoTarget
  BackoffInitial = 1
  BackoffMax = 3
  SwitchCap = 1
  CommandCap = 0
INVARIANT TargetsApart
PROPERTIES FeedSpec BackoffShrinksOnlyAfterData
SYMMETRY ServerSymmetry
