\* A post overlaps another handler on the same journal.
CONSTANTS
  Journals = {j1}
  Users = {u1, u2}
  Delegations <- NoDelegation
  Contents = {even}
  BalancedContents = {even}
  Periods = {p1}
  Slots = {1}
  Requests = {r1, r2}
  None = None
  MaxNumber = 1
  SerialPerJournal = FALSE
SPECIFICATION Spec
SYMMETRY Interchangeable
PROPERTIES PostedIsImmutable
