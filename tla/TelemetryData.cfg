SPECIFICATION Spec
CONSTANTS
  Cadence <- EveryTick
  Modes = {"dual", "single"}
  Roles = {"primary"}
  Failures <- TierFailures
  MaxEpoch = 2
  None = None
INVARIANTS NoStaleError LastGoodShown
