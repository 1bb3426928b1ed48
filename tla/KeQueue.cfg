SPECIFICATION FairSpec
CONSTANTS
  t1 = t1
  t2 = t2
  q1 = q1
  q2 = q2
  e1 = e1
  e2 = e2
  Threads = {t1, t2}
  Queues = {q1, q2}
  Entries = {e1, e2}
  NoQueue = NoQueue
  NoEntry = NoEntry
  MaximumCount = 1
  Word = 8
  Ends = {"head", "tail"}
  ApcsInsert = TRUE
  WaitsWithApcPending = FALSE
  Impatient = {t1, t2}
  Interrupted = {t1, t2}
  Mortal = {t1}
PROPERTIES WorkIsHandedOut QueueIsServed
CHECK_DEADLOCK FALSE
