SPECIFICATION Spec
CONSTANTS
  Servers = {s1, s2}
  Databases = {d1}
  None = None
  Files <- Servers
  FileOf <- KeyedFile
  Modes = {"dual", "single"}
  Unreachable <- NoTarget
  BackoffInitial = 1
  BackoffMax = 1
  SwitchCap = 1
  CommandCap = 1
INVARIANT CommandHitsItsServer
