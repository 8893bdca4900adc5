\* One credit note, posted again after a stop; one request at a time.
CONSTANTS
  Users = {}
  Requests = {r1}
  None = None
  Modes = {FALSE}
  MaxAmount = 1
  Invoices = {}
  Receipts = {}
  CreditNotes = {c1}
  Refunds = {}
  MaxDocuments = 1
  MaxJournals = 2
CHECK_DEADLOCK FALSE
SPECIFICATION ReceivablesSpec
INVARIANT PostedByOneJournal
