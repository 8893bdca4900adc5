---------------------------- MODULE Receivables ----------------------------
(* Customer invoices, receipts, credit notes and refunds of one customer   *)
(* in one currency, without tax (src/.../finance/ar, src/.../ar-receipts). *)
(* Each handler reads a balance, decides, and writes its own row by id.    *)
(* Posting goes through the general ledger, see Bookings for how and       *)
(* SourcePosting for who may post; here a posting takes place or fails.    *)
EXTENDS Bookings, Money, FiniteSetsExt

CONSTANTS
  Invoices, Receipts, CreditNotes, Refunds,  \* ids
  MaxDocuments   \* bound: receipts, credit notes and refunds created

ASSUME ReceivablesAssumption ==
  /\ MaxDocuments \in Nat
  /\ None \notin Invoices \cup Receipts
  /\ IsFiniteSet(Receipts \cup CreditNotes \cup Refunds)

VARIABLES
  invoices, receipts, creditNotes, refunds

arTables == <<invoices, receipts, creditNotes, refunds>>
arVars == <<arTables, handlerVars>>

Lines == [Invoices -> 0..MaxAmount]     \* 0: the receipt has no such line
NoLines == [i \in Invoices |-> 0]

(* total: the amount of the document; lines: what a receipt allocates to   *)
(* invoices.  A journal of an invoice says its total, one of a receipt its *)
(* lines, one of a credit note or refund whether it posts or voids it.     *)
NoInvoice == [status |-> "NONE", total |-> 0, journals |-> <<>>, unmarked |-> 0]
NoReceipt == [status |-> "NONE", total |-> 0, lines |-> NoLines, journals |-> <<>>]
NoCreditNote ==
  [status |-> "NONE", invoice |-> None, amount |-> 0, journals |-> <<>>, unmarked |-> 0]
NoRefund ==
  [status |-> "NONE", creditNote |-> None, amount |-> 0, journals |-> <<>>, unmarked |-> 0]

ReceivablesInit ==
  /\ invoices = [i \in Invoices |-> NoInvoice]
  /\ receipts = [d \in Receipts |-> NoReceipt]
  /\ creditNotes = [c \in CreditNotes |-> NoCreditNote]
  /\ refunds = [f \in Refunds |-> NoRefund]

Created ==
  Cardinality({d \in Receipts : receipts[d].status # "NONE"})
    + Cardinality({c \in CreditNotes : creditNotes[c].status # "NONE"})
    + Cardinality({f \in Refunds : refunds[f].status # "NONE"})

-----------------------------------------------------------------------------
(* Balances.                                                               *)

PostedReceipts == {d \in Receipts : receipts[d].status = "POSTED"}

(* What the POSTED receipts other than d apply to invoice i.               *)
AppliedByOthers(i, d) ==
  SumFunctionOnSet([e \in Receipts |-> receipts[e].lines[i]], PostedReceipts \ {d})

Credited(i) ==
  SumFunctionOnSet([c \in CreditNotes |-> creditNotes[c].amount],
    {c \in CreditNotes : creditNotes[c].status = "POSTED" /\ creditNotes[c].invoice = i})

(* Mutant: credit notes do not see each other.                             *)
OutstandingWithoutCredits(i) == invoices[i].total - AppliedByOthers(i, None)

(* computeInvoiceOutstanding: what a credit note may still take.           *)
Outstanding(i) == invoices[i].total - AppliedByOthers(i, None) - Credited(i)

Refunded(c) ==
  SumFunctionOnSet([f \in Refunds |-> refunds[f].amount],
    {f \in Refunds : refunds[f].status = "POSTED" /\ refunds[f].creditNote = c})

(* computeCreditNoteRefundable.                                            *)
Refundable(c) == creditNotes[c].amount - Refunded(c)

(* Mutant: a line may take the whole invoice.                              *)
LinesFitAlone(total, lines, d) ==
  /\ SumFunction(lines) <= total
  /\ \A i \in Invoices : lines[i] > 0 =>
       invoices[i].status = "POSTED" /\ lines[i] <= invoices[i].total

(* validateLines: the lines fit the receipt, and each fits what receipts   *)
(* leave open of its invoice.  Credit notes are not subtracted.            *)
ValidLines(total, lines, d) ==
  /\ SumFunction(lines) <= total
  /\ \A i \in Invoices : lines[i] > 0 =>
       /\ invoices[i].status = "POSTED"
       /\ lines[i] <= invoices[i].total - AppliedByOthers(i, d)

-----------------------------------------------------------------------------
(* Invoices.                                                               *)

CreateInvoice(r, i, amount) ==
  /\ AtOnce(r)
  /\ invoices[i].status = "NONE"
  /\ invoices' = [invoices EXCEPT ![i].status = "DRAFT", ![i].total = amount]
  /\ UNCHANGED <<receipts, creditNotes, refunds>>

EditableInvoice(i) == invoices[i].status = "DRAFT"

(* updateDraft: the check of the status, then the UPDATE by id.            *)
UpdateInvoice(r, i, amount) ==
  /\ EditableInvoice(i)
  /\ Begin(r, "writeInvoice", i, None, amount)
  /\ UNCHANGED arTables

WriteInvoice(r) ==
  /\ At(r, "writeInvoice")
  /\ invoices' = [invoices EXCEPT ![running[r].doc].total = running[r].saw]
  /\ Finish(r)
  /\ UNCHANGED <<receipts, creditNotes, refunds>>

(* post: the invoice is loaded, its journal is posted with the total that  *)
(* was loaded, and the invoice is marked.                                  *)
PostInvoice(r, i) ==
  /\ invoices[i].status = "DRAFT" /\ MayBook(invoices[i])
  /\ Begin(r, "bookInvoice", i, None, invoices[i].total)
  /\ UNCHANGED arTables

BookInvoice(r) ==
  /\ At(r, "bookInvoice")
  /\ invoices' = [invoices EXCEPT ![running[r].doc] = Booked(@, running[r].saw)]
  /\ Goto(r, "markInvoice", "POSTED")
  /\ UNCHANGED <<receipts, creditNotes, refunds>>

MarkInvoice(r) ==
  /\ At(r, "markInvoice")
  /\ invoices' = [invoices EXCEPT ![running[r].doc] = Marked(@, running[r].saw)]
  /\ Finish(r)
  /\ UNCHANGED <<receipts, creditNotes, refunds>>

-----------------------------------------------------------------------------
(* Receipts.                                                               *)

CreateReceipt(r, d, total, lines) ==
  /\ receipts[d].status = "NONE"
  /\ Created < MaxDocuments
  /\ ValidLines(total, lines, None)
  /\ AtOnce(r)
  /\ receipts' = [receipts EXCEPT
       ![d].status = "DRAFT", ![d].total = total, ![d].lines = lines]
  /\ UNCHANGED <<invoices, creditNotes, refunds>>

(* Mutant: a receipt stays editable until it is voided.                    *)
EditableUntilVoided(d) == receipts[d].status \in {"DRAFT", "POSTED"}

(* assertEditable                                                          *)
EditableReceipt(d) == receipts[d].status = "DRAFT"

(* updateReceipt replaces the lines when it is given some; without, only   *)
(* the total is validated, and the lines the receipt has may exceed it     *)
(* until it is posted.                                                     *)
UpdateReceipt(r, d, total, lines) ==
  /\ EditableReceipt(d)
  /\ lines # None => ValidLines(total, lines, d)
  /\ Begin(r, "writeReceipt", d, None, [total |-> total, lines |-> lines])
  /\ UNCHANGED arTables

WriteReceipt(r) ==
  LET d == running[r].doc
      saw == running[r].saw
  IN
  /\ At(r, "writeReceipt")
  /\ receipts' = [receipts EXCEPT
       ![d].total = saw.total, ![d].lines = IF saw.lines = None THEN @ ELSE saw.lines]
  /\ Finish(r)
  /\ UNCHANGED <<invoices, creditNotes, refunds>>

(* setAllocations: the lines are validated, then replaced.                 *)
SetAllocations(r, d, lines) ==
  /\ EditableReceipt(d)
  /\ ValidLines(receipts[d].total, lines, d)
  /\ Begin(r, "writeLines", d, None, lines)
  /\ UNCHANGED arTables

WriteLines(r) ==
  /\ At(r, "writeLines")
  /\ receipts' = [receipts EXCEPT ![running[r].doc].lines = running[r].saw]
  /\ Finish(r)
  /\ UNCHANGED <<invoices, creditNotes, refunds>>

(* postReceipt: the lines are read and validated before the transaction.   *)
PostReceipt(r, d) ==
  /\ receipts[d].status = "DRAFT"
  /\ ValidLines(receipts[d].total, receipts[d].lines, None)
  /\ Begin(r, "lockReceipt", d, None, receipts[d].lines)
  /\ UNCHANGED arTables

(* The transaction re-reads the status, but not the lines: POSTED answers  *)
(* as if the request had posted it, anything but DRAFT is refused.         *)
RecheckReceipt(r) ==
  /\ At(r, "lockReceipt")
  /\ IF receipts[running[r].doc].status = "DRAFT"
       THEN Goto(r, "bookReceipt", running[r].saw)
       ELSE Finish(r)
  /\ UNCHANGED arTables

(* Its journal is posted and the receipt is marked when it commits.  The   *)
(* transaction would take over a journal of the receipt, but a DRAFT       *)
(* receipt has none for that reason.                                       *)
BookReceipt(r) ==
  /\ At(r, "bookReceipt")
  /\ receipts' = [receipts EXCEPT
       ![running[r].doc].status = "POSTED",
       ![running[r].doc].journals = Append(@, running[r].saw)]
  /\ Finish(r)
  /\ UNCHANGED <<invoices, creditNotes, refunds>>

(* voidReceipt: no journal is written, and what was booked stays booked.   *)
VoidReceipt(r, d) ==
  /\ receipts[d].status \in {"DRAFT", "POSTED"}
  /\ Begin(r, "voidReceipt", d, None, None)
  /\ UNCHANGED arTables

WriteVoidReceipt(r) ==
  /\ At(r, "voidReceipt")
  /\ receipts' = [receipts EXCEPT ![running[r].doc].status = "VOIDED"]
  /\ Finish(r)
  /\ UNCHANGED <<invoices, creditNotes, refunds>>

-----------------------------------------------------------------------------
(* Credit notes.                                                           *)

CreateCreditNote(r, c, i, amount) ==
  /\ creditNotes[c].status = "NONE"
  /\ Created < MaxDocuments
  /\ i # None => invoices[i].status = "POSTED"
  /\ AtOnce(r)
  /\ creditNotes' = [creditNotes EXCEPT
       ![c].status = "DRAFT", ![c].invoice = i, ![c].amount = amount]
  /\ UNCHANGED <<invoices, receipts, refunds>>

WithinOutstanding(c) ==
  creditNotes[c].invoice # None =>
    creditNotes[c].amount <= Outstanding(creditNotes[c].invoice)

(* submit and approve write a status, post and void write a journal first. *)
SubmitCreditNote(r, c) ==
  /\ creditNotes[c].status = "DRAFT" /\ WithinOutstanding(c)
  /\ Begin(r, "markCreditNote", c, None, "SUBMITTED")
  /\ UNCHANGED arTables

ApproveCreditNote(r, c) ==
  /\ creditNotes[c].status = "SUBMITTED" /\ WithinOutstanding(c)
  /\ Begin(r, "markCreditNote", c, None, "APPROVED")
  /\ UNCHANGED arTables

PostCreditNote(r, c) ==
  /\ creditNotes[c].status = "APPROVED" /\ WithinOutstanding(c)
  /\ MayBook(creditNotes[c])
  /\ Begin(r, "bookCreditNote", c, None, "POSTED")
  /\ UNCHANGED arTables

VoidCreditNote(r, c) ==
  /\ creditNotes[c].status = "POSTED" /\ MayBook(creditNotes[c])
  /\ Begin(r, "bookCreditNote", c, None, "VOID")
  /\ UNCHANGED arTables

BookCreditNote(r) ==
  /\ At(r, "bookCreditNote")
  /\ creditNotes' = [creditNotes EXCEPT ![running[r].doc] = Booked(@, running[r].saw)]
  /\ Goto(r, "markCreditNote", running[r].saw)
  /\ UNCHANGED <<invoices, receipts, refunds>>

MarkCreditNote(r) ==
  /\ At(r, "markCreditNote")
  /\ creditNotes' = [creditNotes EXCEPT ![running[r].doc] = Marked(@, running[r].saw)]
  /\ Finish(r)
  /\ UNCHANGED <<invoices, receipts, refunds>>

-----------------------------------------------------------------------------
(* Refunds of a credit note.                                               *)

CreateRefund(r, f, c, amount) ==
  /\ refunds[f].status = "NONE"
  /\ Created < MaxDocuments
  /\ creditNotes[c].status = "POSTED" /\ amount <= Refundable(c)
  /\ AtOnce(r)
  /\ refunds' = [refunds EXCEPT
       ![f].status = "DRAFT", ![f].creditNote = c, ![f].amount = amount]
  /\ UNCHANGED <<invoices, receipts, creditNotes>>

SubmitRefund(r, f) ==
  /\ refunds[f].status = "DRAFT"
  /\ Begin(r, "markRefund", f, None, "SUBMITTED")
  /\ UNCHANGED arTables

ApproveRefund(r, f) ==
  /\ refunds[f].status = "SUBMITTED"
  /\ Begin(r, "markRefund", f, None, "APPROVED")
  /\ UNCHANGED arTables

PostRefund(r, f) ==
  /\ refunds[f].status = "APPROVED" /\ MayBook(refunds[f])
  /\ creditNotes[refunds[f].creditNote].status = "POSTED"
  /\ refunds[f].amount <= Refundable(refunds[f].creditNote)
  /\ Begin(r, "bookRefund", f, None, "POSTED")
  /\ UNCHANGED arTables

VoidRefund(r, f) ==
  /\ refunds[f].status = "POSTED" /\ MayBook(refunds[f])
  /\ Begin(r, "bookRefund", f, None, "VOID")
  /\ UNCHANGED arTables

BookRefund(r) ==
  /\ At(r, "bookRefund")
  /\ refunds' = [refunds EXCEPT ![running[r].doc] = Booked(@, running[r].saw)]
  /\ Goto(r, "markRefund", running[r].saw)
  /\ UNCHANGED <<invoices, receipts, creditNotes>>

MarkRefund(r) ==
  /\ At(r, "markRefund")
  /\ refunds' = [refunds EXCEPT ![running[r].doc] = Marked(@, running[r].saw)]
  /\ Finish(r)
  /\ UNCHANGED <<invoices, receipts, creditNotes>>

-----------------------------------------------------------------------------
InvoiceStep(r) ==
  \/ \E i \in Invoices :
       \/ \E amount \in Amounts : CreateInvoice(r, i, amount) \/ UpdateInvoice(r, i, amount)
       \/ PostInvoice(r, i)
  \/ WriteInvoice(r) \/ BookInvoice(r) \/ MarkInvoice(r)

ReceiptStep(r) ==
  \/ \E d \in Receipts :
       \/ \E total \in Amounts, lines \in Lines :
            CreateReceipt(r, d, total, lines) \/ UpdateReceipt(r, d, total, lines)
       \/ \E total \in Amounts : UpdateReceipt(r, d, total, None)
       \/ \E lines \in Lines : SetAllocations(r, d, lines)
       \/ PostReceipt(r, d) \/ VoidReceipt(r, d)
  \/ WriteReceipt(r) \/ WriteLines(r) \/ RecheckReceipt(r) \/ BookReceipt(r)
  \/ WriteVoidReceipt(r)

CreditNoteStep(r) ==
  \/ \E c \in CreditNotes :
       \/ \E i \in Invoices \cup {None}, amount \in Amounts : CreateCreditNote(r, c, i, amount)
       \/ SubmitCreditNote(r, c) \/ ApproveCreditNote(r, c)
       \/ PostCreditNote(r, c) \/ VoidCreditNote(r, c)
  \/ BookCreditNote(r) \/ MarkCreditNote(r)

RefundStep(r) ==
  \/ \E f \in Refunds :
       \/ \E c \in CreditNotes, amount \in Amounts : CreateRefund(r, f, c, amount)
       \/ SubmitRefund(r, f) \/ ApproveRefund(r, f)
       \/ PostRefund(r, f) \/ VoidRefund(r, f)
  \/ BookRefund(r) \/ MarkRefund(r)

ReceivablesStep ==
  \E r \in Requests :
    \/ InvoiceStep(r) \/ ReceiptStep(r) \/ CreditNoteStep(r) \/ RefundStep(r)
    \/ Fail(r) /\ UNCHANGED arTables

ReceivablesSpec ==
  ReceivablesInit /\ HandlersInit /\ [][ReceivablesStep]_arVars

-----------------------------------------------------------------------------
(* One request at a time: the receipts POSTED against an invoice do not    *)
(* exceed it, whatever was edited, reallocated, posted and voided on the   *)
(* way: "Allocation exceeds invoice open balance".                         *)
ReceiptsWithinInvoice ==
  ~overlap => \A i \in Invoices : AppliedByOthers(i, None) <= invoices[i].total

(* One request at a time: the credit notes POSTED against an invoice do    *)
(* not exceed it, although each was checked at submit, approve and post    *)
(* against a balance receipts and other notes were changing.               *)
CreditsWithinInvoice ==
  ~overlap => \A i \in Invoices : Credited(i) <= invoices[i].total

(* One request at a time: the refunds POSTED of a credit note do not       *)
(* exceed the credit note, however many drafts drew on the same credit.    *)
RefundsWithinCreditNote ==
  ~overlap => \A c \in CreditNotes : Refunded(c) <= creditNotes[c].amount

(* One request at a time, no document is overdrawn, neither invoices by    *)
(* receipts or by credit notes, nor credit notes by refunds.               *)
NothingOverdrawn == ReceiptsWithinInvoice /\ CreditsWithinInvoice /\ RefundsWithinCreditNote

(* One request at a time, POSTED documents draw on others as Drawings      *)
(* says: receipts and, apart from them, credit notes on POSTED invoices,   *)
(* refunds on credit notes.  A credit note that is voided keeps its limit: *)
(* what was refunded stays refunded.                                       *)
Invoiced == [i \in Invoices |-> IF invoices[i].status = "POSTED" THEN invoices[i].total ELSE 0]
Allocated ==
  [d \in Receipts |-> IF receipts[d].status = "POSTED" THEN receipts[d].lines ELSE NoLines]
CreditedTo ==
  [c \in CreditNotes |-> [i \in Invoices |->
     IF creditNotes[c].status = "POSTED" /\ creditNotes[c].invoice = i
       THEN creditNotes[c].amount ELSE 0]]
Noted ==
  [c \in CreditNotes |->
     IF creditNotes[c].status \in {"POSTED", "VOID"} THEN creditNotes[c].amount ELSE 0]
RefundedOf ==
  [f \in Refunds |-> [c \in CreditNotes |->
     IF refunds[f].status = "POSTED" /\ refunds[f].creditNote = c THEN refunds[f].amount ELSE 0]]

ByReceipts == INSTANCE Drawings
  WITH Sources <- Invoices, Claims <- Receipts, limit <- Invoiced, drawn <- Allocated
ByCreditNotes == INSTANCE Drawings
  WITH Sources <- Invoices, Claims <- CreditNotes, limit <- Invoiced, drawn <- CreditedTo
ByRefunds == INSTANCE Drawings
  WITH Sources <- CreditNotes, Claims <- Refunds, limit <- Noted, drawn <- RefundedOf

DocumentsDraw ==
  /\ ByReceipts!Init /\ [][~overlap => ByReceipts!Next]_<<Invoiced, Allocated>>
  /\ ByCreditNotes!Init /\ [][~overlap => ByCreditNotes!Next]_<<Invoiced, CreditedTo>>
  /\ ByRefunds!Init /\ [][~overlap => ByRefunds!Next]_<<Noted, RefundedOf>>

(* The journals a credit note or a refund is due, by its status.           *)
PaperJournals(status) ==
  CASE status = "POSTED" -> <<"POSTED">>
    [] status = "VOID" -> <<"POSTED", "VOID">>
    [] OTHER -> <<>>

InvoiceBooked(row) ==
  /\ Accounted(row, IF row.status = "POSTED" THEN <<row.total>> ELSE <<>>)
  /\ row.status = "POSTED" => row.journals[Len(row.journals)] = row.total

ReceiptBooked(row) ==
  /\ row.status = "POSTED" => row.journals = <<row.lines>>
  /\ row.status \in {"NONE", "DRAFT"} => row.journals = <<>>

PaperBooked(row) ==
  /\ Accounted(row, PaperJournals(row.status))
  /\ row.status \in {"NONE", "DRAFT", "SUBMITTED"} => row.journals = <<>>

(* One request at a time, documents and ledger agree: a POSTED invoice or  *)
(* receipt has one journal, which says what it says, a VOID credit note or *)
(* refund has one and its reversal, and other documents have none.  Where  *)
(* a handler stopped between a journal and the mark, that journal is left  *)
(* over, the next attempt posts another one, and the last one is right;    *)
(* credit notes and refunds have no journal before they are approved.      *)
(* Receipts have nothing left over, whatever stops.                        *)
BooksAgree ==
  ~overlap =>
    /\ \A i \in Invoices : InvoiceBooked(invoices[i])
    /\ \A d \in Receipts : ReceiptBooked(receipts[d])
    /\ \A c \in CreditNotes : PaperBooked(creditNotes[c])
    /\ \A f \in Refunds : PaperBooked(refunds[f])

(* "Posting creates one linked journal": a POSTED credit note has one      *)
(* journal that posts it.                                                  *)
PostedByOneJournal ==
  \A c \in CreditNotes : creditNotes[c].status = "POSTED" =>
    Cardinality({n \in DOMAIN creditNotes[c].journals :
                   creditNotes[c].journals[n] = "POSTED"}) = 1

=============================================================================
