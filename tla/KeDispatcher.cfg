SPECIFICATION Spec
CONSTANTS
  t1 = t1
  t2 = t2
  t3 = t3
  notification = notification
  synchronization = synchronization
  semaphore = semaphore
  mutant = mutant
  Threads = {t1, t2}
  NotificationEvents = {notification}
  SynchronizationEvents = {synchronization}
  Semaphores = {semaphore}
  Mutants = {mutant}
  NoThread = NoThread
  NoObject = NoObject
  Limit = 1
  MinLong <- OneRecursion
  Requests <- MixedRequests
  AlertModes = {"UserMode"}
  ApcKinds = {"special", "normal"}
  Mortal = {t1}
INVARIANTS TypeOK WaitListsMatchThreads NoMissedSignal MutantRecordsAgree TerminatedLeavesNothing
PROPERTIES MutantLeavesAtLastRelease OneSignalOneWait
CHECK_DEADLOCK FALSE
