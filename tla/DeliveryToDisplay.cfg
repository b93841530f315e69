CONSTANTS
  d1 = d1  h1 = h1  h2 = h2
  Displays = {d1}
  MaxRevision = 3
  Texts = {t1, t2}
  Reads = {r1, r2}
  None = none
  MaxPageRevision = 2
  MaxTasks = 1
  MaxRuns = 1
  Calls = {c1, c2}
  MaxClicks = 2
  Homes = {h1}
  MaxMessages = 2
  MaxForms = 1
  MaxKeys = 2
  MaxSent = 2
  MaxSwitches = 0
  MaxPostRevision = 1
SPECIFICATION MCSpec
INVARIANTS DeliveriesTruthful OneMessagePerAttempt FormStaysLocked
PROPERTIES PublishedIsDisplayed BoardCatchesUp ListNeverGoesBack EndedRunsShown
CHECK_DEADLOCK FALSE
