SPECIFICATION FairSpec
CONSTANTS
  KiExpireTimerDpc = KiExpireTimerDpc
  Timers = {t1, t2}
  Synchronization = {t1}
  WithDpc = {t2}
  Delays = {1}
  DueTimes = {}
  Periods = {0}
  PerMsec = 1
  Half = 16
  BootTime = 18
  SetTimes = {}
  MaxTime = 2
  Importances = {"Medium"}
  MaximumDpcQueueDepth = 4
  MinimumDpcRate = 3
  DpcRequestRate = 0
  MayRemove = {driver}
  RemovesAgain = FALSE
  Word = 8
  Drivers = {driver}
PROPERTIES QueuedAndDueAreServed
CHECK_DEADLOCK FALSE
