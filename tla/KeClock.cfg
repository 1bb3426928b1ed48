SPECIFICATION Spec
CONSTANTS
  KiExpireTimerDpc = KiExpireTimerDpc
  Timers = {t1, t2}
  Synchronization = {t1}
  WithDpc = {t2}
  Delays = {1}
  DueTimes = {20}
  Periods = {0, 1}
  PerMsec = 1
  Half = 16
  BootTime = 18
  SetTimes = {20}
  MaxTime = 2
  Importances = {"Medium"}
  MaximumDpcQueueDepth = 4
  MinimumDpcRate = 3
  DpcRequestRate = 0
  MayRemove = {driver}
  RemovesAgain = FALSE
  Word = 8
  Drivers = {driver}
INVARIANTS QueuesAreSound ExpiryIsInTime
CHECK_DEADLOCK FALSE
