CONSTANTS
  Users = {u1, u2}
  Requests = {r1}
  None = None
  Modes = {FALSE}
  LedgerAccounts = {g1, g2}
  Reclassifications = {k1}
  ChangeRequests = {}
  Windows = {}
  Moves = {}
CHECK_DEADLOCK FALSE
SPECIFICATION ChartSpec
INVARIANT IsTree
