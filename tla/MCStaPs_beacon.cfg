SPECIFICATION Spec
CONSTANTS
  t1 = t1
  Core = Core
  MaxRx = 1
  MaxOff = 1
  QLen = 3
  MaxCmds = 3
  MaxLoss = 1
  Threads = {}
  Apps = {"RF_ENABLE", "RF_DISANABLE", "TIMER_INIT", "TIMER_DEINIT"}
  BleOn = FALSE
  MacEvents = {"probe", "reset"}
INVARIANTS
  BeaconWaitBounded
