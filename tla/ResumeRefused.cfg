CONSTANTS
  e1 = e1  p1 = p1  l1 = l1
  Events = {e1}
  Pages = {p1}
  Links = {l1}
  Notice = 0
  LastDay = 1
SPECIFICATION Spec
INVARIANTS StartRestores
CHECK_DEADLOCK FALSE
