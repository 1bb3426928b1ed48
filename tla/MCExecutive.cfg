SPECIFICATION Spec
CONSTANTS
  b1 = b1
  b2 = b2
  balancer = balancer
  u1 = u1
  u2 = u2
  w1 = w1
  w2 = w2
  g1 = g1
  g2 = g2
  g3 = g3
  s1 = s1
  NoPage = NoPage
  NoArea = NoArea
  v1 = v1
  v2 = v2
  writer = writer
  k1 = k1
  k2 = k2
  k3 = k3
  NoView = NoView
  x1 = x1
  x2 = x2
  lazy = lazy
  remover = remover
  z1 = z1
  z2 = z2
  z3 = z3
  NoMap = NoMap
  i1 = i1
  i2 = i2
  i3 = i3
  q1 = q1
  q2 = q2
  NoIrp = NoIrp
  f1 = f1
  f2 = f2
  unlocker = unlocker
  t1 = t1
  t2 = t2
  t3 = t3
  c1 = c1
  c2 = c2
  r1 = r1
  r2 = r2
  e1 = e1
  e2 = e2
  NoDescriptor = NoDescriptor
  n1 = n1
  n2 = n2
  o1 = o1
  o2 = o2
  NoNotifier = NoNotifier
  h1 = h1
  h2 = h2
  NoOne = NoOne
INVARIANTS CallbacksStay HandlesCounted ObjectsStay PacketsAreListed FileLocksHold MemoryIsKept AreasHold CacheHolds
PROPERTIES CompletionGoesUp
\* The calls of some components end.
CHECK_DEADLOCK FALSE
