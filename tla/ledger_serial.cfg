\* Journal requests and calendar calls one at a time.
CONSTANTS
  Journals = {j1}
  Users = {u1, u2}
  Delegations <- NoDelegation
  Contents = {even}
  BalancedContents = {even}
  Periods = {p1, p2}
  Slots = {1, 2}
  Requests = {r1}
  Items = {i1}
  Calls = {q1}
  None = None
  MaxNumber = 1
  SerialPerJournal = TRUE
  SerialLedger = TRUE
SPECIFICATION LedgerSpec
SYMMETRY Interchangeable
INVARIANTS PostedInItsPeriod NoOverlap
PROPERTIES PostsIntoOpenPeriods ClosedPeriodsStay
