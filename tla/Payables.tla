------------------------------ MODULE Payables ------------------------------
(* Supplier bills, payment proposals and direct payments of one supplier   *)
(* (src/.../ap/ap.service.ts, src/.../ap/payment-proposals,                *)
(* src/.../payments).  A proposal reserves part of bills and is meant to   *)
(* be executed by a payment run; a direct payment allocates its amount to  *)
(* bills without looking at reservations.  Payment runs are refused by the *)
(* posting policy (SourcePosting), so they change nothing here.            *)
EXTENDS Bookings, Money, FiniteSetsExt

CONSTANTS
  Bills, Proposals, Payments,   \* ids
  MaxEditions                   \* bound: times the lines of a proposal are replaced

ASSUME PayablesAssumption ==
  /\ MaxEditions \in Nat
  /\ None \notin Users
  /\ IsFiniteSet(Proposals \cup Payments)

VARIABLES bills, proposals, payments

apTables == <<bills, proposals, payments>>
apVars == <<apTables, handlerVars>>

Allocations == [Bills -> 0..MaxAmount]   \* 0: no line for that bill
NoAllocation == [b \in Bills |-> 0]

(* edition stands for the ids of the lines, which change when the lines    *)
(* are replaced.                                                           *)
Proposal ==
  [status : {"NONE", "DRAFT", "SUBMITTED", "APPROVED"},
   createdBy : Users \cup {None}, approvedBy : Users \cup {None},
   lines : Allocations, edition : 0..MaxEditions]

(* A journal of a bill says its total, one of a payment its allocations.   *)
NoBill ==
  [status |-> "NONE", createdBy |-> None, total |-> 0, journals |-> <<>>, unmarked |-> 0]
NoProposal == [status |-> "NONE", createdBy |-> None, approvedBy |-> None,
               lines |-> NoAllocation, edition |-> 0]
NoPayment == [status |-> "NONE", allocations |-> NoAllocation, journals |-> <<>>, unmarked |-> 0]

PayablesInit ==
  /\ bills = [b \in Bills |-> NoBill]
  /\ proposals = [p \in Proposals |-> NoProposal]
  /\ payments = [p \in Payments |-> NoPayment]

-----------------------------------------------------------------------------
(* Balances.                                                               *)

Paid(b) ==
  SumFunctionOnSet([p \in Payments |-> payments[p].allocations[b]],
    {p \in Payments : payments[p].status = "POSTED"})

(* computeOutstandingByInvoiceId                                           *)
OutstandingOf(b) == bills[b].total - Paid(b)

(* Mutant: an approved proposal reserves nothing any more.                 *)
ReservedBySubmitted(b, p) ==
  SumFunctionOnSet([q \in Proposals |-> proposals[q].lines[b]],
    {q \in Proposals \ {p} : proposals[q].status = "SUBMITTED"})

(* computeReservedByInvoiceId: what the proposals other than p hold.       *)
Reserved(b, p) ==
  SumFunctionOnSet([q \in Proposals |-> proposals[q].lines[b]],
    {q \in Proposals \ {p} : proposals[q].status \in {"SUBMITTED", "APPROVED"}})

(* What create, update, submit and approve require of the lines of p.      *)
LinesPayable(p, lines) ==
  /\ lines # NoAllocation
  /\ \A b \in Bills : lines[b] > 0 =>
       bills[b].status = "POSTED" /\ lines[b] <= OutstandingOf(b) - Reserved(b, p)

(* What create and update require of the allocations of a payment: each is *)
(* within the total of its bill, whatever is paid or reserved already.     *)
AllocationsValid(allocations) ==
  \A b \in Bills : allocations[b] > 0 =>
    bills[b].status = "POSTED" /\ allocations[b] <= bills[b].total

-----------------------------------------------------------------------------
(* Bills.                                                                  *)

CreateBill(r, u, b, amount) ==
  /\ bills[b].status = "NONE"
  /\ AtOnce(r)
  /\ bills' = [bills EXCEPT ![b].status = "DRAFT", ![b].createdBy = u, ![b].total = amount]
  /\ UNCHANGED <<proposals, payments>>

UpdateBill(r, u, b, amount) ==
  /\ bills[b].status = "DRAFT" /\ bills[b].createdBy = u
  /\ Begin(r, "writeBill", b, u, amount)
  /\ UNCHANGED apTables

WriteBill(r) ==
  /\ At(r, "writeBill")
  /\ bills' = [bills EXCEPT ![running[r].doc].total = running[r].saw]
  /\ Finish(r)
  /\ UNCHANGED <<proposals, payments>>

SubmitBill(r, u, b) ==
  /\ bills[b].status = "DRAFT" /\ bills[b].createdBy = u
  /\ Begin(r, "markBill", b, u, "SUBMITTED")
  /\ UNCHANGED apTables

(* approveInvoice; the guard has refused the creator.                      *)
ApproveBill(r, u, b) ==
  /\ bills[b].status = "SUBMITTED" /\ bills[b].createdBy # u
  /\ Begin(r, "markBill", b, u, "APPROVED")
  /\ UNCHANGED apTables

RejectBill(r, u, b) ==
  /\ bills[b].status = "SUBMITTED" /\ bills[b].createdBy # u
  /\ Begin(r, "markBill", b, u, "DRAFT")
  /\ UNCHANGED apTables

(* postInvoice: the journal is posted with the total that was loaded, then *)
(* the bill is marked.                                                     *)
PostBill(r, u, b) ==
  /\ bills[b].status = "APPROVED" /\ bills[b].createdBy # u /\ MayBook(bills[b])
  /\ Begin(r, "bookBill", b, u, bills[b].total)
  /\ UNCHANGED apTables

BookBill(r) ==
  /\ At(r, "bookBill")
  /\ bills' = [bills EXCEPT ![running[r].doc] = Booked(@, running[r].saw)]
  /\ Goto(r, "markBill", "POSTED")
  /\ UNCHANGED <<proposals, payments>>

MarkBill(r) ==
  /\ At(r, "markBill")
  /\ bills' = [bills EXCEPT ![running[r].doc] = Marked(@, running[r].saw)]
  /\ Finish(r)
  /\ UNCHANGED <<proposals, payments>>

-----------------------------------------------------------------------------
(* Payment proposals.                                                      *)

CreateProposal(r, u, p, lines) ==
  /\ proposals[p].status = "NONE"
  /\ LinesPayable(p, lines)
  /\ AtOnce(r)
  /\ proposals' = [proposals EXCEPT
       ![p] = [@ EXCEPT !.status = "DRAFT", !.createdBy = u, !.lines = lines]]
  /\ UNCHANGED <<bills, payments>>

(* Mutant: a proposal is edited until it is approved.                      *)
EditableUntilApproved(p) == proposals[p].status \in {"DRAFT", "SUBMITTED"}

EditableProposal(p) == proposals[p].status = "DRAFT"

(* updateDraft replaces the lines by id of the proposal.                   *)
UpdateProposal(r, u, p, lines) ==
  /\ EditableProposal(p) /\ proposals[p].createdBy = u
  /\ LinesPayable(p, lines)
  /\ Begin(r, "writeProposal", p, u, lines)
  /\ UNCHANGED apTables

WriteProposal(r) ==
  LET p == running[r].doc IN
  /\ At(r, "writeProposal")
  /\ proposals[p].edition < MaxEditions
  /\ proposals' = [proposals EXCEPT
       ![p] = [@ EXCEPT !.lines = running[r].saw, !.edition = proposals[p].edition + 1]]
  /\ Finish(r)
  /\ UNCHANGED <<bills, payments>>

SubmitProposal(r, u, p) ==
  /\ proposals[p].status = "DRAFT" /\ proposals[p].createdBy = u
  /\ LinesPayable(p, proposals[p].lines)
  /\ Begin(r, "submitProposal", p, u, proposals[p])
  /\ UNCHANGED apTables

NotTheCreator(p, u) == proposals[p].createdBy # u

ApproveProposal(r, u, p) ==
  /\ proposals[p].status = "SUBMITTED" /\ NotTheCreator(p, u)
  /\ LinesPayable(p, proposals[p].lines)
  /\ Begin(r, "approveProposal", p, u, proposals[p])
  /\ UNCHANGED apTables

(* Mutant: the lines are updated by proposal and bill.                     *)
LinesMayBeNew(r) == TRUE

(* submit and approve update each line they read by its id; an id that is  *)
(* gone makes the transaction fail.                                        *)
LinesStillThere(r) == proposals[running[r].doc].edition = running[r].saw.edition

WriteSubmitted(r) ==
  /\ At(r, "submitProposal")
  /\ LinesStillThere(r)
  /\ proposals' = [proposals EXCEPT ![running[r].doc].status = "SUBMITTED"]
  /\ Finish(r)
  /\ UNCHANGED <<bills, payments>>

WriteApproval(r) ==
  /\ At(r, "approveProposal")
  /\ LinesStillThere(r)
  /\ proposals' = [proposals EXCEPT
       ![running[r].doc] = [@ EXCEPT !.status = "APPROVED", !.approvedBy = running[r].by]]
  /\ Finish(r)
  /\ UNCHANGED <<bills, payments>>

RejectProposal(r, u, p) ==
  /\ proposals[p].status = "SUBMITTED" /\ NotTheCreator(p, u)
  /\ Begin(r, "rejectProposal", p, u, None)
  /\ UNCHANGED apTables

WriteRejection(r) ==
  /\ At(r, "rejectProposal")
  /\ proposals' = [proposals EXCEPT
       ![running[r].doc] = [@ EXCEPT !.status = "DRAFT", !.approvedBy = None]]
  /\ Finish(r)
  /\ UNCHANGED <<bills, payments>>

-----------------------------------------------------------------------------
(* Direct payments.                                                        *)

CreatePayment(r, u, p, allocations) ==
  /\ payments[p].status = "NONE"
  /\ AllocationsValid(allocations)
  /\ AtOnce(r)
  /\ payments' = [payments EXCEPT ![p].status = "DRAFT", ![p].allocations = allocations]
  /\ UNCHANGED <<bills, proposals>>

(* Mutant: a payment is edited until it is posted.                         *)
EditableUntilPosted(p) == payments[p].status \in {"DRAFT", "APPROVED"}

EditablePayment(p) == payments[p].status = "DRAFT"

UpdatePayment(r, u, p, allocations) ==
  /\ EditablePayment(p)
  /\ AllocationsValid(allocations)
  /\ Begin(r, "writePayment", p, u, allocations)
  /\ UNCHANGED apTables

WritePayment(r) ==
  /\ At(r, "writePayment")
  /\ payments' = [payments EXCEPT ![running[r].doc].allocations = running[r].saw]
  /\ Finish(r)
  /\ UNCHANGED <<bills, proposals>>

ApprovePayment(r, u, p) ==
  /\ payments[p].status = "DRAFT"
  /\ Begin(r, "markPayment", p, u, "APPROVED")
  /\ UNCHANGED apTables

PostPayment(r, u, p) ==
  /\ payments[p].status = "APPROVED" /\ MayBook(payments[p])
  /\ \A b \in Bills : payments[p].allocations[b] > 0 => bills[b].status = "POSTED"
  /\ Begin(r, "bookPayment", p, u, payments[p].allocations)
  /\ UNCHANGED apTables

BookPayment(r) ==
  /\ At(r, "bookPayment")
  /\ payments' = [payments EXCEPT ![running[r].doc] = Booked(@, running[r].saw)]
  /\ Goto(r, "markPayment", "POSTED")
  /\ UNCHANGED <<bills, proposals>>

MarkPayment(r) ==
  /\ At(r, "markPayment")
  /\ payments' = [payments EXCEPT ![running[r].doc] = Marked(@, running[r].saw)]
  /\ Finish(r)
  /\ UNCHANGED <<bills, proposals>>

-----------------------------------------------------------------------------
BillStep(r, u) ==
  \/ \E b \in Bills :
       \/ \E amount \in Amounts : CreateBill(r, u, b, amount) \/ UpdateBill(r, u, b, amount)
       \/ SubmitBill(r, u, b) \/ ApproveBill(r, u, b)
       \/ RejectBill(r, u, b) \/ PostBill(r, u, b)
  \/ WriteBill(r) \/ BookBill(r) \/ MarkBill(r)

ProposalStep(r, u) ==
  \/ \E p \in Proposals :
       \/ \E lines \in Allocations : CreateProposal(r, u, p, lines) \/ UpdateProposal(r, u, p, lines)
       \/ SubmitProposal(r, u, p) \/ ApproveProposal(r, u, p) \/ RejectProposal(r, u, p)
  \/ WriteProposal(r) \/ WriteSubmitted(r) \/ WriteApproval(r) \/ WriteRejection(r)

PaymentStep(r, u) ==
  \/ \E p \in Payments :
       \/ \E a \in Allocations : CreatePayment(r, u, p, a) \/ UpdatePayment(r, u, p, a)
       \/ ApprovePayment(r, u, p) \/ PostPayment(r, u, p)
  \/ WritePayment(r) \/ BookPayment(r) \/ MarkPayment(r)

PayablesStep ==
  \E r \in Requests :
    \/ \E u \in Users : BillStep(r, u) \/ ProposalStep(r, u) \/ PaymentStep(r, u)
    \/ Fail(r) /\ UNCHANGED apTables

PayablesSpec == PayablesInit /\ HandlersInit /\ [][PayablesStep]_apVars

-----------------------------------------------------------------------------
(* One request at a time: the proposals that are SUBMITTED or APPROVED do  *)
(* not together reserve more than the bill, whatever was edited, rejected  *)
(* and resubmitted: "Proposed amount exceeds remaining payable balance".   *)
ReservedWithinBill ==
  ~overlap => \A b \in Bills :
    SumFunctionOnSet([p \in Proposals |-> proposals[p].lines[b]],
      {p \in Proposals : proposals[p].status \in {"SUBMITTED", "APPROVED"}}) <= bills[b].total

(* One request at a time, the proposals that are SUBMITTED or APPROVED     *)
(* draw on the totals of POSTED bills as Drawings says: they take only     *)
(* what is left when they are submitted, and no total changes under them.  *)
Granted == [b \in Bills |-> IF bills[b].status = "POSTED" THEN bills[b].total ELSE 0]
Reservations ==
  [p \in Proposals |->
     IF proposals[p].status \in {"SUBMITTED", "APPROVED"} THEN proposals[p].lines
     ELSE NoAllocation]

OnBills == INSTANCE Drawings
  WITH Sources <- Bills, Claims <- Proposals, limit <- Granted, drawn <- Reservations

ProposalsDraw == OnBills!Init /\ [][~overlap => OnBills!Next]_<<Granted, Reservations>>

(* what: the total of a bill, the allocations of a payment.                *)
BookedAs(row, what) ==
  /\ Accounted(row, IF row.status = "POSTED" THEN <<what>> ELSE <<>>)
  /\ \A n \in DOMAIN row.journals : row.journals[n] = what
  /\ row.status \in {"NONE", "DRAFT", "SUBMITTED"} => row.journals = <<>>

(* One request at a time, bills and payments agree with the ledger: a      *)
(* POSTED one has one journal, others none; where a handler stopped        *)
(* between a journal and the mark, that one is left over and the next      *)
(* attempt posts another.  None is posted before the approval, and all of  *)
(* them say what was approved, since nothing approved is edited.           *)
PayablesAgree ==
  ~overlap =>
    /\ \A b \in Bills : BookedAs(bills[b], bills[b].total)
    /\ \A p \in Payments : BookedAs(payments[p], payments[p].allocations)

(* However requests overlap, an approval covers the lines the approver's   *)
(* checks saw: a proposal edited meanwhile is not approved.                *)
ApprovesWhatWasChecked ==
  [][\A r \in Requests :
       At(r, "approveProposal") /\ proposals' # proposals
         /\ running'[r] = Idle =>
       proposals'[running[r].doc].lines = running[r].saw.lines]_apVars

(* However submissions, rejections and approvals overlap, an APPROVED      *)
(* proposal names an approver, and it is not its creator.                  *)
ApprovedByAnother ==
  \A p \in Proposals : proposals[p].status = "APPROVED" =>
    proposals[p].approvedBy \notin {None, proposals[p].createdBy}

=============================================================================
