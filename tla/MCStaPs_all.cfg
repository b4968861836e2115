SPECIFICATION FairSpec
CONSTANTS
  t1 = t1
  Core = Core
  MaxRx = 1
  MaxOff = 1
  QLen = 1
  MaxCmds = 3
  MaxLoss = 1
  Threads <- OneThread
  Apps = {"RF_ENABLE", "RF_DISANABLE", "tx"}
  BleOn = TRUE
  MacEvents = {"off"}
INVARIANTS
  TypeOK
  SleepIsWakeable
  WaitersHaveWaker
  ModeAgrees
  MacIntsRestored
PROPERTIES
  ServedAwake
  WaitersReturn
  DisableTakesEffect
