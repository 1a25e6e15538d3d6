SPECIFICATION TerminalSpec
CONSTANTS
  None = None
  Lengths = {1, 3}
  ReadOnly = FALSE
  MaxLive = 4
  EscWindow = 0
  Ids = {1, 2}
  SortKeys = {0, 1}
  MaxNeedle = 2
  Page = 2
  Lenses = {"Micro", "Schema", "Index", "Query", "Blocks", "Records"}
  AdminRoom = 2
  SwitchRoom = 1
  Servers = {s1, s2}
  Databases = {d1, d2}
  MaxConfirmed = 3
  MaxChoices = 2
INVARIANTS RecordingGapless KeysFollowScreen ReplayActsOnNothing ListSound HandedOver
PROPERTIES ScreenFaithful ActsOnWhatIsShown
CHECK_DEADLOCK FALSE
