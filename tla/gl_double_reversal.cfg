\* One request at a time, a journal and two reversals of it.
CONSTANTS
  Journals = {j1, j2, j3}
  Users = {u1, u2, u3}
  Delegations <- NoDelegation
  Contents = {even}
  BalancedContents = {even}
  Periods = {p1}
  Slots = {1}
  Requests = {r1}
  None = None
  MaxNumber = 3
  SerialPerJournal = TRUE
SPECIFICATION Spec
SYMMETRY Interchangeable
INVARIANTS ReversedOnce
