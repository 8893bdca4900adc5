\* Two journals and two requests that overlap in every way.
CONSTANTS
  Journals = {j1, j2}
  Users = {u1, u2}
  Delegations <- NoDelegation
  Contents = {even}
  BalancedContents = {even}
  Periods = {p1}
  Slots = {1}
  Requests = {r1, r2}
  None = None
  MaxNumber = 2
  SerialPerJournal = FALSE
SPECIFICATION Spec
SYMMETRY Interchangeable
INVARIANTS TypeOK NoCorruptedWorkflow MakerIsNotChecker LedgerNumbering
