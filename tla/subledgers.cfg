\* Three documents on one invoice; two proposals and a payment on one bill,
\* or one proposal under two overlapping requests; a chart of three accounts.
CONSTANTS
  u1 = u1
  u2 = u2
  u3 = u3
  g1 = g1
  g2 = g2
  Users = {u1, u2, u3}
  Requests = {r1, r2}
  None = None
  Modes = {TRUE, FALSE}
  MaxAmount = 2
  Invoices = {i1}
  Receipts = {d1, d2}
  CreditNotes = {c1, c2}
  Refunds = {f1, f2}
  MaxDocuments = 3
  MaxJournals = 3
  Bills = {b1}
  Proposals = {p1, p2}
  Payments = {q1}
  MaxEditions = 1
  LedgerAccounts = {g1, g2, g3}
  Reclassifications = {k1}
  ChangeRequests = {c1, c2}
  Windows = {d1, d2}
  Moves <- FewMoves
  Documents = {k1}
  Kinds = {"checked", "open", "receipt", "own"}
  Journals = {c1, c2}
  Delegations <- OneDelegation
\* Nothing moves when all documents exist and the rest is refused.
CHECK_DEADLOCK FALSE
SPECIFICATION Spec
CONSTRAINTS FewUsers FewWhenOverlapping FewDocuments FewStops FewChanges TheFirst
SYMMETRY Interchangeable
INVARIANTS
  NothingOverdrawn  PayablesAgree ReservedWithinBill WindowsApart
  PostedHasJournal PreparerNeverPosts ThreePeople
PROPERTIES DocumentsDraw ProposalsDraw ApprovesWhatWasChecked TreeKept
