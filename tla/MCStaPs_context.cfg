SPECIFICATION Spec
CONSTANTS
  t1 = t1
  Core = Core
  MaxRx = 1
  MaxOff = 1
  QLen = 2
  MaxCmds = 2
  MaxLoss = 1
  Threads <- OneThread
  Apps = {"RF_ENABLE", "RF_DISANABLE", "tx"}
  BleOn = TRUE
  MacEvents = {"off"}
INVARIANT
  NotInCoreThread
