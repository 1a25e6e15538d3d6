SPECIFICATION BackgroundSpec
CONSTANTS
  Cadence <- Cadences
  Modes = {"dual", "single"}
  Roles = {"primary", "standby"}
  Failures <- NoFailure
  MaxEpoch = 1
  None = None
  Clients = {c1, c2}
  Databases = {d1}
  Servers = {s1}
  Pids = {1}
  Room = 1
  Mock = FALSE
  MaxVersions = 3
  MaxRequests = 2
INVARIANT LastWordSent
PROPERTIES RefreshHonouredSingle SlowTierRecurs RoleCaughtUp StopEnds NewestArrives
CHECK_DEADLOCK FALSE
