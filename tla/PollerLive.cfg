SPECIFICATION LiveSpec
CONSTANTS
  Servers = {s1}
  Databases = {d1, d2}
  None = None
  Files <- Servers
  FileOf <- KeyedFile
  Modes = {"dual", "single"}
  Unreachable <- NoTarget
  BackoffInitial = 1
  BackoffMax = 1
  SwitchCap = 1
  CommandCap = 0
PROPERTIES SessionsStop SwitchesTaken TargetEventuallyShown
