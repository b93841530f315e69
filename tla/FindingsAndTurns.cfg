CONSTANTS
  e1 = e1  e2 = e2  p1 = p1  p2 = p2  l1 = l1
  t1 = t1  t2 = t2  t3 = t3  h1 = h1  h2 = h2  m1 = m1  w1 = w1
  Events = {e1, e2}
  Pages = {p1, p2}
  Links = {l1}
  Notice = 0
  LastDay = 1
SPECIFICATION MCSpec
INVARIANTS LiveIsLinked StoppedAnnouncesNothing RunAnnounces BaselineStands FairTurn
SYMMETRY EventPageSymmetry
CHECK_DEADLOCK FALSE
