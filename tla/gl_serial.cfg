\* One request at a time on a journal: what the handlers promise in sequence.
CONSTANTS
  Journals = {j1, j2}
  Users = {u1, u2, u3}
  Delegations <- NoDelegation
  Contents = {even, odd}
  BalancedContents = {even}
  Periods = {p1}
  Slots = {1}
  Requests = {r1, r2}
  None = None
  MaxNumber = 2
  SerialPerJournal = TRUE
SPECIFICATION Spec
SYMMETRY Interchangeable
INVARIANTS PostedAsReviewed ThreeEyes
PROPERTIES FollowsLifecycle PostedIsImmutable
