SPECIFICATION ReadingsSpec
CONSTANTS
  None = None
  Versions = {13, 16}
  Extensions = {0, 11}
  Kinds = {"fast", "tier2", "tier3", "schema", "bloat", "statements", "io", "detail"}
  MaxCollections = 2
  MaxWork = 2
  MaxGap = 1
  Backends = {1, 2, 3}
  IndexNames = {1, 2, 3}
  KeyLists <- MCKeyLists
  Predicates = {"", "p"}
  High = 7
  Sessions = {1, 2}
  MaxAge = 14
  Slots = {1, 2, 3}
  SlotKinds <- MCSlotKinds
  MaxSenders = 1
  SendersShown = 1
  SlotsShown = 2
  Heights = {4, 15}
INVARIANTS CollectionSound DerivedHonest ForestFaithful AdviceCoherent SequenceHonest WorstFirst
PROPERTIES ErrorsContained AlarmsSound
CHECK_DEADLOCK FALSE
