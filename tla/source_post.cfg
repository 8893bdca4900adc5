CONSTANTS
  u1 = u1
  u2 = u2
  u3 = u3
  Users = {u1, u2, u3}
  Requests = {r1, r2}
  None = None
  Modes = {FALSE}
  Documents = {d1}
  Kinds = {"checked", "open", "receipt", "own"}
  Journals = {j1, j2}
  Delegations <- NoDelegation
SPECIFICATION PostingSpec
SYMMETRY Interchangeable
\* Bounded tables: a full one ends the behaviour.
CHECK_DEADLOCK FALSE
INVARIANTS ThirdUserPosts
