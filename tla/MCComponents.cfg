SPECIFICATION ComponentsSpec
CONSTANTS
  Special = {special1}
  Normal = {normal1, normal2}
  User = {user1}
  Exit = {exit1}
  Removable = {normal1, user1}
  MaxDisable = 1
  Processes = {own, process1, process2}
  Own = own
  Queueable = {apc1, apc2}
  Depth = 3
  Quiet = TRUE
  Irps = {i1, i2, i3, i4}
  Keys = {1, 2, 3}
  NoIrp = NoIrp
  Callers = {c1, c2}
  MaxCalls = 5
  Width = 16
  Maximum = 2
  AlertResumes = TRUE
  setter1 = setter1
  setter2 = setter2
  leaver1 = leaver1
  leaver2 = leaver2
  t1 = t1
  t2 = t2
  t3 = t3
  out = out
  head = head
  view1 = view1
  view2 = view2
  pager = pager
  page1 = page1
  page2 = page2
  page3 = page3
  swap1 = swap1
  swap2 = swap2
  NoPage = NoPage
  Threads = {a1, a2, a3}
  Pointers = {pointer1}
  MaxHolds = 2
  MaxCredit = 1
  Starving = "Safe"
  Recursive = TRUE
  Converting = FALSE
  TableLookup = FALSE
INVARIANTS ApcsAreDelivered AttachmentsNest OneInside KillReachesAll SectionsHold ResourcesHandedOn
PROPERTIES PacketsServedInOrder SuspensionHolds
\* The calls of some components end, and a shared owner of a resource that asks again waits
\* for itself where another thread waits for exclusive access.
CHECK_DEADLOCK FALSE
