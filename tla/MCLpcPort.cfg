SPECIFICATION FairSpec
CONSTANTS
  c1 = c1
  c2 = c2
INVARIANTS MessagesMatch
PROPERTIES CallsReturn
\* The calls of the clients end.
CHECK_DEADLOCK FALSE
