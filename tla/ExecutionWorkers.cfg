CONSTANTS
  t1 = t1  h1 = h1  m1 = m1  m2 = m2  w1 = w1  w2 = w2
  Tasks = {t1}
  Households = {h1}
  HouseholdOf <- OneTaskHousehold
  Members = {m1}
  Revocable = {}
  Requests = {"interpretation", "manual"}
  Workers = {w1, w2}
  MaxExec = 3
  MaxRevision = 5
  MaxSettings = 1
  MaxCrashes = 0
SPECIFICATION Spec
INVARIANTS OneRunner StoppedTaskSilent
PROPERTIES KeepsLedger FreshestWins
SYMMETRY WorkerSymmetry
