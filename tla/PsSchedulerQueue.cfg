SPECIFICATION Spec
CONSTANTS
  a = a
  b = b
  q = q
  Idle = idle
  Reaper = reaper
  None = none
  Ordinary = {a, b}
  Queues = {q}
  Takers = {a, b}
  High = 2
  Realtime = 3
  Quantum = 1
  Adjusted = {}
INVARIANTS ListsHoldTheReady
CHECK_DEADLOCK FALSE
