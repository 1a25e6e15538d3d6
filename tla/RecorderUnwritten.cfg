SPECIFICATION RecorderSpec
CONSTANTS
  None = None
  MaxBytes = 2
  Sizes = {1, 2}
  Quota = 2
  Retention = 1
  MaxTime = 1
  MaxFrames = 3
PROPERTY CountedIsWritten
