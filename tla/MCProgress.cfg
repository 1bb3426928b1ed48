SPECIFICATION FairSpec
CONSTANTS
  u1 = u1
  u2 = u2
  w1 = w1
  g1 = g1
  x1 = x1
  c1 = c1
  c2 = c2
  s1 = s1
  n1 = n1
  i1 = i1
  i2 = i2
  i3 = i3
  NoIrp = NoIrp
  user1 = user1
  user2 = user2
  remover = remover
  h1 = h1
  r1 = r1
  r2 = r2
  e1 = e1
  e2 = e2
  NoDescriptor = NoDescriptor
  NoOne = NoOne
PROPERTIES WaitersReturn
\* The threads of the process and the calls of some components end.
CHECK_DEADLOCK FALSE
