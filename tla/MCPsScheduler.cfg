SPECIFICATION FairSpec
CONSTANTS
  a = a
  b = b
  q = q
  idle = idle
  reaper = reaper
  none = none
  t1 = t1
  t2 = t2
  t3 = t3
  out = out
  head = head
INVARIANTS ListsHoldTheReady
PROPERTIES ThreadsGetOn TerminationEnds

