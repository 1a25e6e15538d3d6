SPECIFICATION LiveSpec
CONSTANTS
  Cadence <- Cadences
  Modes = {"dual"}
  Roles = {"primary"}
  Failures <- NoFailure
  MaxEpoch = 1
  None = None
PROPERTY RefreshHonoured
