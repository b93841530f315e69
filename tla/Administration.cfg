CONSTANTS
  o = o  a = a  l = l  m = m  h1 = h1  h2 = h2
  People = {o, a, l, m}
  HouseholdOf <- Households
  Owner = o
  Source = h1
  Live = h2
  LiveOwner = l
  Handlers = {r1, r2}
  Screens = {s1}
  Codes = {c1, c2}
  MaxPairings = 2
  MaxAttempts = 2
  MaxInFlight = 2
  Urls = {u1}
  Editors = {e1, e2}
  Testers = {t1}
  MaxSettings = 2
  Requests = {q1, q2}
  MaxInvitations = 2
  MaxAccountRevision = 4
  Browsers = {b1, b2}
  Slots = {k1, k2}
  NoSlot = none
  MaxTokens = 2
  MaxClicks = 2
  typed = typed  normal = normal
  Addresses = {typed, normal}
  NormalUrl <- Spellings
  Efforts = {low, high}
  Models = {small}
  MaxRevision = 2
  MaxLate = 1
SPECIFICATION MCSpec
INVARIANTS OwnerRemains PairedScreenAccepted AvailabilityMeasured KeyStaysWithEndpoint
           InvitationMatchesAccount ClaimedOnce
PROPERTIES ManagerRemains PairingEnds TypingSurvives
CHECK_DEADLOCK FALSE
