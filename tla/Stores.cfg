SPECIFICATION StoresSpec
CONSTANTS
  None = None
  Targets <- MCTargets
  MaxDay = 48000
  MaxBytes = 2
  Sizes = {1, 2}
  Quota = 2
  Retention = 1
  MaxTime = 2
  MaxFrames = 3
  Cap = 3
  MaxPoints = 7
  MaxFaults = 2
  Oids = {1, 2, 3}
  Parents = {3}
  TableSizes = {0, 3}
  RowLimit = 1
  CapFloor = 2
  RingCap = 2
  Lookback = 2
  Deadband = 1
  MaxClock = 2
  Reporters = {r1, r2}
  Messages = {m1, m2}
  DedupInterval = 2
  MaxSeconds = 4
  MaxErrors = 3
  LocalNames = {a, b}
  RemoteLists = {{a}, {a, c}}
  Urls = {u1}
  MaxEditions = 2
INVARIANTS   PruneKeepsNewest GrowthSound SpellAccounted FieldsFromBest
PROPERTIES ActiveSpared KeepsPointLog ChoiceHonoured
CHECK_DEADLOCK FALSE
