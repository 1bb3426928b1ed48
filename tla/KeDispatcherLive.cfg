CONSTANTS
  t1 = t1  t2 = t2  t3 = t3
  notification = notification  synchronization = synchronization
  semaphore = semaphore  mutant = mutant
  Threads = {t1, t2, t3}
  NotificationEvents = {}
  SynchronizationEvents = {synchronization}
  Semaphores = {}
  Mutants = {mutant}
  NoThread = NoThread
  NoObject = NoObject
  Limit = 1
  MinLong <- NoRecursion
  Requests <- LiveRequests
  AlertModes = {}
  ApcKinds = {}
  Mortal = {}
SPECIFICATION FairOwnersSpec
PROPERTIES TimedWaitEnds MutantGranted
\* Every thread may come to wait for an event nobody sets.

