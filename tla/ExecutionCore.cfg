CONSTANTS
  t1 = t1  h1 = h1  m1 = m1  m2 = m2  w1 = w1  w2 = w2
  Tasks = {t1}
  Households = {h1}
  HouseholdOf <- OneTaskHousehold
  Members = {m1}
  Revocable = {m1}
  Requests = {"interpretation", "manual", "test", "smarter"}
  Workers = {w1}
  MaxExec = 2
  MaxRevision = 5
  MaxSettings = 2
  MaxCrashes = 1
SPECIFICATION FairSpec
INVARIANTS TypeOK RunsApprovedRule
PROPERTIES CommittedNotLost QueuedTerminates TaskFreed
