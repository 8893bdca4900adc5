-------------------------- MODULE SubledgersProofs --------------------------
(* Proofs about Payables and ChartOfAccounts, each for its own             *)
(* specification: the approval of payment proposals, however requests      *)
(* overlap; what proposals hold of a bill and the chart of accounts, one   *)
(* request at a time.                                                      *)
EXTENDS Payables, ChartOfAccounts, ReceivablesProofs

TableInv ==
  /\ proposals \in [Proposals -> Proposal]
  /\ ApprovedByAnother

ProposalSteps == {"writeProposal", "submitProposal", "approveProposal", "rejectProposal"}

(* A handler past its checks works on a proposal that exists; an approval  *)
(* carries the lines of the edition it read and a user who did not create  *)
(* the proposal.                                                           *)
CallOK(call) ==
  call.step \in ProposalSteps =>
    LET row == proposals[call.doc] IN
    /\ call.doc \in Proposals
    /\ row.status # "NONE"
    /\ call.step = "writeProposal" => call.saw \in Allocations
    /\ call.step = "approveProposal" =>
         /\ call.by \in Users /\ call.by # row.createdBy
         /\ call.saw \in Proposal
         /\ call.saw.edition <= row.edition
         /\ call.saw.edition = row.edition => call.saw.lines = row.lines

CallsInv == \A r \in Requests : CallOK(running[r])

PayInv == HandlersInv /\ TableInv /\ CallsInv

(* What a write may do to a proposal without disturbing those who read it. *)
Continues(old, new) ==
  \/ old.status = "NONE"
  \/ /\ new.status # "NONE"
     /\ new.createdBy = old.createdBy
     /\ \/ new.edition > old.edition
        \/ new.edition = old.edition /\ new.lines = old.lines

LEMMA RowWritten ==
  ASSUME TableInv, NEW p \in Proposals, NEW row \in Proposal,
         proposals' = [proposals EXCEPT ![p] = row],
         Continues(proposals[p], row),
         row.status = "APPROVED" => row.approvedBy \notin {None, row.createdBy}
  PROVE  /\ TableInv'
         /\ \A call : CallOK(call) => CallOK(call)'
<1>1. proposals' \in [Proposals -> Proposal]
  BY DEF TableInv
<1>2. \A q \in Proposals : proposals'[q] = IF q = p THEN row ELSE proposals[q]
  BY DEF TableInv
<1>3. ApprovedByAnother'
  BY <1>2 DEF TableInv, ApprovedByAnother
<1>4. ASSUME NEW call, CallOK(call) PROVE CallOK(call)'
  <2>1. \A q \in Proposals : proposals[q].edition \in Nat /\ proposals'[q].edition \in Nat
    BY <1>1, PayablesAssumption DEF TableInv, Proposal
  <2>2. call.saw \in Proposal => call.saw.edition \in Nat
    BY PayablesAssumption DEF Proposal
  <2> QED BY <1>2, <1>4, <2>1, <2>2 DEF CallOK, Continues
<1> QED BY <1>1, <1>3, <1>4 DEF TableInv

LEMMA RowsKept ==
  ASSUME TableInv, proposals' = proposals
  PROVE  /\ TableInv'
         /\ \A call : CallOK(call) => CallOK(call)'
BY DEF TableInv, ApprovedByAnother, CallOK

LEMMA CallsKept ==
  ASSUME CallsInv, \A call : CallOK(call) => CallOK(call)',
         NEW r \in Requests, NEW call, Only(r, call), CallOK(call)'
  PROVE  CallsInv'
<1>1. ASSUME NEW q \in Requests PROVE CallOK(running[q])'
  <2>1. running'[q] = running[q] \/ running'[q] = call
    BY DEF Only
  <2>2. CallOK(running[q])
    BY DEF CallsInv
  <2>3. \A c : CallOK(c)' /\ running'[q] = c => CallOK(running[q])'
    BY DEF CallOK
  <2> QED BY <2>1, <2>2, <2>3
<1> QED BY <1>1 DEF CallsInv

LEMMA OtherSteps ==
  /\ \A call : call.step \notin ProposalSteps => CallOK(call)'
  /\ Idle.step \notin ProposalSteps
  /\ \A step, doc, by, saw : Call(step, doc, by, saw).step = step
BY DEF CallOK, Idle, Call, ProposalSteps

(* A step that leaves the proposals alone and does not begin a call on one. *)
LEMMA Elsewhere ==
  ASSUME PayInv, NEW r \in Requests, proposals' = proposals,
         \/ AtOnce(r)
         \/ Finish(r)
         \/ \E step, doc, by, saw : Begin(r, step, doc, by, saw) /\ step \notin ProposalSteps
         \/ \E step, saw : Goto(r, step, saw) /\ running[r] # Idle /\ step \notin ProposalSteps
  PROVE  PayInv'
<1>1. TableInv' /\ \A call : CallOK(call) => CallOK(call)'
  BY RowsKept DEF PayInv
<1>2. CASE AtOnce(r)
  <2>1. HandlersInv' /\ \A q \in Requests : running'[q] = running[q]
    BY <1>2, StaysPut DEF AtOnce, PayInv
  <2>2. CallsInv'
    <3>1. ASSUME NEW q \in Requests PROVE CallOK(running[q])'
      <4>1. CallOK(running[q])'
        BY <2>1, <1>1 DEF PayInv, CallsInv, CallOK
      <4> QED BY <4>1
    <3> QED BY <3>1 DEF CallsInv
  <2> QED BY <1>1, <2>1, <2>2 DEF PayInv
<1>3. CASE Finish(r)
  BY <1>1, <1>3, Finishes, CallsKept, OtherSteps DEF PayInv
<1>4. ASSUME NEW step, NEW doc, NEW by, NEW saw, Begin(r, step, doc, by, saw),
             step \notin ProposalSteps
      PROVE  PayInv'
  BY <1>1, <1>4, Begins, CallsKept, OtherSteps DEF PayInv
<1>5. ASSUME NEW step, NEW saw, Goto(r, step, saw), running[r] # Idle, step \notin ProposalSteps
      PROVE  PayInv'
  BY <1>1, <1>5, Goes, CallsKept, OtherSteps DEF PayInv
<1> QED BY <1>2, <1>3, <1>4, <1>5

-----------------------------------------------------------------------------
LEMMA Initially == PayablesInit /\ HandlersInit => PayInv
<1> SUFFICES ASSUME PayablesInit, HandlersInit PROVE PayInv
  OBVIOUS
<1>1. HandlersInv /\ \A r \in Requests : running[r] = Idle
  BY InitiallyIdle
<1>2. CallsInv
  BY <1>1, OtherSteps DEF CallsInv, CallOK
<1>3. NoProposal \in Proposal
  BY MoneyAssumption, PayablesAssumption DEF NoProposal, Proposal, NoAllocation, Allocations
<1>4. TableInv
  BY <1>3 DEF PayablesInit, TableInv, ApprovedByAnother, NoProposal
<1> QED BY <1>1, <1>2, <1>4 DEF PayInv

(* A call on proposal p begins with what CallOK wants of it.               *)
LEMMA Starts ==
  ASSUME PayInv, NEW r \in Requests, NEW p \in Proposals, NEW step, NEW by, NEW saw,
         Begin(r, step, p, by, saw), proposals' = proposals,
         CallOK(Call(step, p, by, saw))
  PROVE  PayInv'
<1>1. TableInv' /\ \A call : CallOK(call) => CallOK(call)'
  BY RowsKept DEF PayInv
<1>2. HandlersInv' /\ Only(r, Call(step, p, by, saw))
  BY Begins DEF PayInv
<1>3. CallOK(Call(step, p, by, saw))'
  BY <1>1
<1>4. CallsInv'
  BY <1>1, <1>2, <1>3, CallsKept DEF PayInv
<1> QED BY <1>1, <1>2, <1>4 DEF PayInv

(* A call writes its proposal and ends.                                    *)
LEMMA Ends ==
  ASSUME PayInv, NEW r \in Requests, Finish(r),
         NEW p \in Proposals, NEW row \in Proposal,
         proposals' = [proposals EXCEPT ![p] = row],
         Continues(proposals[p], row),
         row.status = "APPROVED" => row.approvedBy \notin {None, row.createdBy}
  PROVE  PayInv'
<1>1. TableInv' /\ \A call : CallOK(call) => CallOK(call)'
  BY RowWritten DEF PayInv
<1>2. HandlersInv' /\ Only(r, Idle)
  BY Finishes DEF PayInv
<1>3. CallsInv'
  BY <1>1, <1>2, OtherSteps, CallsKept DEF PayInv
<1> QED BY <1>1, <1>2, <1>3 DEF PayInv

(* Proposals, one action after the other.                                  *)
LEMMA ProposalKeeps ==
  ASSUME PayInv, NEW r \in Requests, NEW u \in Users, ProposalStep(r, u)
  PROVE  PayInv'
<1>t. proposals \in [Proposals -> Proposal]
  BY DEF PayInv, TableInv
<1>a. ApprovedByAnother
  BY DEF PayInv, TableInv
<1>1. ASSUME NEW p \in Proposals, NEW lines \in Allocations, CreateProposal(r, u, p, lines)
      PROVE  PayInv'
  <2> DEFINE row == [proposals[p] EXCEPT !.status = "DRAFT", !.createdBy = u, !.lines = lines]
  <2>1. row \in Proposal /\ row.status = "DRAFT"
    BY <1>t DEF Proposal
  <2>2. proposals' = [proposals EXCEPT ![p] = row] /\ AtOnce(r) /\ proposals[p].status = "NONE"
    BY <1>1 DEF CreateProposal
  <2> HIDE DEF row
  <2>3. TableInv' /\ \A call : CallOK(call) => CallOK(call)'
    BY <2>1, <2>2, RowWritten DEF PayInv, Continues
  <2>4. HandlersInv' /\ \A q \in Requests : running'[q] = running[q]
    BY <2>2, StaysPut DEF AtOnce, PayInv
  <2>5. ASSUME NEW q \in Requests PROVE CallOK(running[q])'
    <3>1. \A c : CallOK(c)' /\ running'[q] = c => CallOK(running[q])'
      BY DEF CallOK
    <3> QED BY <2>3, <2>4, <3>1 DEF PayInv, CallsInv
  <2> QED BY <2>3, <2>4, <2>5 DEF PayInv, CallsInv
<1>2. ASSUME NEW p \in Proposals, NEW lines \in Allocations, UpdateProposal(r, u, p, lines)
      PROVE  PayInv'
  <2>1. CallOK(Call("writeProposal", p, u, lines))
    BY <1>2 DEF UpdateProposal, EditableProposal, CallOK, Call
  <2> QED BY <1>2, <2>1, Starts DEF UpdateProposal, apTables
<1>3. ASSUME NEW p \in Proposals, SubmitProposal(r, u, p)
      PROVE  PayInv'
  <2>1. CallOK(Call("submitProposal", p, u, proposals[p]))
    BY <1>3 DEF SubmitProposal, CallOK, Call
  <2> QED BY <1>3, <2>1, Starts DEF SubmitProposal, apTables
<1>4. ASSUME NEW p \in Proposals, ApproveProposal(r, u, p)
      PROVE  PayInv'
  <2>1. proposals[p] \in Proposal /\ proposals[p].edition <= proposals[p].edition
    BY <1>t, PayablesAssumption DEF Proposal
  <2>2. CallOK(Call("approveProposal", p, u, proposals[p]))
    BY <1>4, <2>1 DEF ApproveProposal, NotTheCreator, CallOK, Call
  <2> QED BY <1>4, <2>2, Starts DEF ApproveProposal, apTables
<1>5. ASSUME NEW p \in Proposals, RejectProposal(r, u, p)
      PROVE  PayInv'
  <2>1. CallOK(Call("rejectProposal", p, u, None))
    BY <1>5 DEF RejectProposal, CallOK, Call
  <2> QED BY <1>5, <2>1, Starts DEF RejectProposal, apTables
<1>c. CallOK(running[r])
  BY DEF PayInv, CallsInv
<1> DEFINE p == running[r].doc
           old == proposals[p]
<1>6. CASE WriteProposal(r)
  <2> DEFINE n == old.edition + 1
             row == [old EXCEPT !.lines = running[r].saw, !.edition = n]
  <2>1. p \in Proposals /\ old.status # "NONE" /\ running[r].saw \in Allocations
    BY <1>6, <1>c DEF WriteProposal, At, CallOK, ProposalSteps
  <2>2. old \in Proposal /\ old.edition < MaxEditions
    BY <1>6, <1>t, <2>1 DEF WriteProposal
  <2>3. proposals' = [proposals EXCEPT ![p] = row] /\ Finish(r)
    BY <1>6 DEF WriteProposal
  <2>4. n \in 0..MaxEditions /\ n > old.edition
    BY <2>2, PayablesAssumption DEF Proposal
  <2> HIDE DEF n
  <2>5. /\ row \in Proposal /\ row.status = old.status /\ row.edition = n
        /\ row.createdBy = old.createdBy /\ row.approvedBy = old.approvedBy
    BY <2>1, <2>2, <2>4 DEF Proposal
  <2> HIDE DEF row
  <2>6. row.status = "APPROVED" => row.approvedBy \notin {None, row.createdBy}
    BY <1>a, <2>1, <2>5 DEF ApprovedByAnother
  <2> QED BY <2>1, <2>3, <2>4, <2>5, <2>6, Ends DEF Continues
<1>7. CASE WriteSubmitted(r)
  <2> DEFINE row == [old EXCEPT !.status = "SUBMITTED"]
  <2>1. p \in Proposals /\ old.status # "NONE"
    BY <1>7, <1>c DEF WriteSubmitted, At, CallOK, ProposalSteps
  <2>2. old \in Proposal
    BY <1>t, <2>1
  <2>3. /\ row \in Proposal /\ row.status = "SUBMITTED" /\ row.edition = old.edition
        /\ row.createdBy = old.createdBy /\ row.lines = old.lines
    BY <2>2 DEF Proposal
  <2>4. proposals' = [proposals EXCEPT ![p] = row] /\ Finish(r)
    BY <1>7 DEF WriteSubmitted
  <2> HIDE DEF row
  <2> QED BY <2>1, <2>3, <2>4, Ends DEF Continues
<1>8. CASE WriteApproval(r)
  <2> DEFINE row == [old EXCEPT !.status = "APPROVED", !.approvedBy = running[r].by]
  <2>1. /\ p \in Proposals /\ old.status # "NONE"
        /\ running[r].by \in Users /\ running[r].by # old.createdBy
    BY <1>8, <1>c DEF WriteApproval, At, CallOK, ProposalSteps
  <2>2. old \in Proposal
    BY <1>t, <2>1
  <2>3. /\ row \in Proposal /\ row.status = "APPROVED" /\ row.edition = old.edition
        /\ row.createdBy = old.createdBy /\ row.lines = old.lines
        /\ row.approvedBy = running[r].by
    BY <2>1, <2>2 DEF Proposal
  <2>4. proposals' = [proposals EXCEPT ![p] = row] /\ Finish(r)
    BY <1>8 DEF WriteApproval
  <2> HIDE DEF row
  <2>5. row.approvedBy \notin {None, row.createdBy}
    BY <2>1, <2>3, PayablesAssumption
  <2> QED BY <2>1, <2>3, <2>4, <2>5, Ends DEF Continues
<1>9. CASE WriteRejection(r)
  <2> DEFINE row == [old EXCEPT !.status = "DRAFT", !.approvedBy = None]
  <2>1. p \in Proposals /\ old.status # "NONE"
    BY <1>9, <1>c DEF WriteRejection, At, CallOK, ProposalSteps
  <2>2. old \in Proposal
    BY <1>t, <2>1
  <2>3. /\ row \in Proposal /\ row.status = "DRAFT" /\ row.edition = old.edition
        /\ row.createdBy = old.createdBy /\ row.lines = old.lines
    BY <2>2 DEF Proposal
  <2>4. proposals' = [proposals EXCEPT ![p] = row] /\ Finish(r)
    BY <1>9 DEF WriteRejection
  <2> HIDE DEF row
  <2> QED BY <2>1, <2>3, <2>4, Ends DEF Continues
<1> QED
  BY <1>1, <1>2, <1>3, <1>4, <1>5, <1>6, <1>7, <1>8, <1>9 DEF ProposalStep

(* Bills and direct payments do not touch proposals.                       *)
LEMMA OthersUntouched ==
  ASSUME NEW r \in Requests, NEW u \in Users, BillStep(r, u) \/ PaymentStep(r, u)
  PROVE  proposals' = proposals
BY DEF BillStep, CreateBill, UpdateBill, WriteBill, SubmitBill, ApproveBill, RejectBill,
       PostBill, BookBill, MarkBill, PaymentStep, CreatePayment, UpdatePayment, WritePayment,
       ApprovePayment, PostPayment, BookPayment, MarkPayment, apTables

LEMMA OthersKeep ==
  ASSUME PayInv, NEW r \in Requests, NEW u \in Users, BillStep(r, u) \/ PaymentStep(r, u)
  PROVE  PayInv'
<1>1. proposals' = proposals
  BY OthersUntouched
<1>2. \A step : At(r, step) /\ step # "idle" => running[r] # Idle
  BY Busy
<1>3. \/ AtOnce(r)
      \/ Finish(r)
      \/ \E step, doc, by, saw : Begin(r, step, doc, by, saw) /\ step \notin ProposalSteps
      \/ \E step, saw : Goto(r, step, saw) /\ running[r] # Idle /\ step \notin ProposalSteps
  <2>1. CASE \/ \E b \in Bills, amount \in Amounts : CreateBill(r, u, b, amount)
             \/ \E p \in Payments, a \in Allocations : CreatePayment(r, u, p, a)
    BY <2>1 DEF CreateBill, CreatePayment
  <2>2. CASE WriteBill(r) \/ MarkBill(r) \/ WritePayment(r) \/ MarkPayment(r)
    BY <2>2 DEF WriteBill, MarkBill, WritePayment, MarkPayment
  <2>3. CASE BookBill(r) \/ BookPayment(r)
    BY <1>2, <2>3 DEF BookBill, BookPayment, ProposalSteps
  <2>4. ASSUME NEW b \in Bills, NEW amount \in Amounts, UpdateBill(r, u, b, amount)
        PROVE  Begin(r, "writeBill", b, u, amount)
    BY <2>4 DEF UpdateBill
  <2>5. ASSUME NEW b \in Bills,
               \/ SubmitBill(r, u, b) \/ ApproveBill(r, u, b)
               \/ RejectBill(r, u, b) \/ PostBill(r, u, b)
        PROVE  \E step, saw : Begin(r, step, b, u, saw) /\ step \notin ProposalSteps
    BY <2>5 DEF SubmitBill, ApproveBill, RejectBill, PostBill, ProposalSteps
  <2>6. ASSUME NEW p \in Payments, NEW a \in Allocations, UpdatePayment(r, u, p, a)
        PROVE  Begin(r, "writePayment", p, u, a)
    BY <2>6 DEF UpdatePayment
  <2>7. ASSUME NEW p \in Payments, ApprovePayment(r, u, p) \/ PostPayment(r, u, p)
        PROVE  \E step, saw : Begin(r, step, p, u, saw) /\ step \notin ProposalSteps
    BY <2>7 DEF ApprovePayment, PostPayment, ProposalSteps
  <2>8. "writeBill" \notin ProposalSteps /\ "writePayment" \notin ProposalSteps
    BY DEF ProposalSteps
  <2> QED
    BY <2>1, <2>2, <2>3, <2>4, <2>5, <2>6, <2>7, <2>8 DEF BillStep, PaymentStep
<1> QED BY <1>1, <1>3, Elsewhere

LEMMA Inductive == PayInv /\ [PayablesStep]_apVars => PayInv'
<1> SUFFICES ASSUME PayInv, [PayablesStep]_apVars PROVE PayInv'
  OBVIOUS
<1>1. ASSUME NEW r \in Requests, NEW u \in Users,
             BillStep(r, u) \/ ProposalStep(r, u) \/ PaymentStep(r, u)
      PROVE  PayInv'
  BY <1>1, ProposalKeeps, OthersKeep
<1>2. ASSUME NEW r \in Requests, Fail(r), UNCHANGED apTables PROVE PayInv'
  BY <1>2, Elsewhere DEF Fail, apTables
<1>3. CASE UNCHANGED apVars
  <2>1. TableInv' /\ \A call : CallOK(call) => CallOK(call)'
    BY <1>3, RowsKept DEF PayInv, apVars, apTables
  <2>2. HandlersInv' /\ \A q \in Requests : running'[q] = running[q]
    BY <1>3, StaysPut DEF apVars, PayInv
  <2>3. ASSUME NEW q \in Requests PROVE CallOK(running[q])'
    <3>1. \A c : CallOK(c)' /\ running'[q] = c => CallOK(running[q])'
      BY DEF CallOK
    <3> QED BY <2>1, <2>2, <3>1 DEF PayInv, CallsInv
  <2> QED BY <2>1, <2>2, <2>3 DEF PayInv, CallsInv
<1> QED BY <1>1, <1>2, <1>3 DEF PayablesStep

LEMMA Always == PayablesSpec => []PayInv
BY Initially, Inductive, PTL DEF PayablesSpec

(* However submissions, rejections, edits and approvals overlap, an        *)
(* approved proposal has an approver who is not its creator.               *)
THEOREM ApproverDiffers == PayablesSpec => []ApprovedByAnother
<1>1. PayInv => ApprovedByAnother
  BY DEF PayInv, TableInv
<1> QED BY <1>1, Always, PTL

(* A step that ends an approval and changes a proposal wrote the approval, *)
(* and it found the lines of the edition it had checked.                   *)
LEMMA ApprovalStep ==
  ASSUME PayInv, PayablesStep, NEW r \in Requests, At(r, "approveProposal"),
         proposals' # proposals, running'[r] = Idle
  PROVE  proposals'[running[r].doc].lines = running[r].saw.lines
<1>1. running[r] # Idle
  BY Busy
<1>2. ASSUME NEW q \in Requests, Finish(q) PROVE q = r
  BY <1>1, <1>2, Finishes DEF PayInv, Only
<1>3. ASSUME NEW q \in Requests, AtOnce(q) PROVE FALSE
  BY <1>1, <1>3, StaysPut DEF AtOnce, PayInv
<1>4. PICK q \in Requests, u \in Users : ProposalStep(q, u)
  BY OthersUntouched DEF PayablesStep, apTables
<1>5. WriteProposal(q) \/ WriteSubmitted(q) \/ WriteApproval(q) \/ WriteRejection(q)
  BY <1>3, <1>4 DEF ProposalStep, CreateProposal, UpdateProposal, SubmitProposal,
         ApproveProposal, RejectProposal, apTables
<1>6. WriteApproval(r)
  BY <1>2, <1>5 DEF WriteProposal, WriteSubmitted, WriteApproval, WriteRejection, At
<1>7. CallOK(running[r])
  BY DEF PayInv, CallsInv
<1>8. /\ running[r].doc \in Proposals
      /\ proposals[running[r].doc].lines = running[r].saw.lines
  BY <1>6, <1>7 DEF WriteApproval, At, LinesStillThere, CallOK, ProposalSteps
<1>9. proposals[running[r].doc] \in Proposal
  BY <1>8 DEF PayInv, TableInv
<1> QED BY <1>6, <1>8, <1>9 DEF WriteApproval, PayInv, TableInv, Proposal

(* However requests overlap, what is approved is what was checked.         *)
THEOREM ApprovalMatches == PayablesSpec => ApprovesWhatWasChecked
<1> DEFINE A == \A r \in Requests :
                  At(r, "approveProposal") /\ proposals' # proposals /\ running'[r] = Idle =>
                    proposals'[running[r].doc].lines = running[r].saw.lines
<1>1. PayInv /\ [PayablesStep]_apVars => [A]_apVars
  BY ApprovalStep
<1>2. PayablesSpec => []PayInv /\ [][PayablesStep]_apVars
  BY Always, PTL DEF PayablesSpec
<1> QED BY <1>1, <1>2, PTL DEF ApprovesWhatWasChecked

-----------------------------------------------------------------------------
(* What the proposals hold of a bill, one request at a time.               *)
BillStatuses == {"NONE", "DRAFT", "SUBMITTED", "APPROVED", "POSTED"}
BillRow ==
  [status : BillStatuses, createdBy : Users \cup {None}, total : Nat,
   journals : Seq(Nat), unmarked : Nat]
PaymentRow ==
  [status : {"NONE", "DRAFT", "APPROVED", "POSTED"},
   allocations : Allocations, journals : Seq(Allocations), unmarked : Nat]

Holding == {"SUBMITTED", "APPROVED"}

Held(b) ==
  SumFunctionOnSet([p \in Proposals |-> proposals[p].lines[b]],
    {p \in Proposals : proposals[p].status \in Holding})

(* Nothing is held of a bill that is not POSTED: its total may change.     *)
BillLimit(b) == IF bills[b].status = "POSTED" THEN bills[b].total ELSE 0

Purse ==
  /\ bills \in [Bills -> BillRow]
  /\ payments \in [Payments -> PaymentRow]
  /\ \A b \in Bills : Held(b) <= BillLimit(b) /\ BookedAs(bills[b], bills[b].total)
  /\ \A p \in Payments : BookedAs(payments[p], payments[p].allocations)

Payable(p) == LinesPayable(p, proposals[p].lines)

(* A journal waits for its mark, after which the document is in order.     *)
AwaitsMark(row, what) == row.unmarked > 0 /\ BookedAs(Marked(row, "POSTED"), what)

BillCall(call) ==
  call.step \in {"writeBill", "bookBill", "markBill"} =>
    LET row == bills[call.doc] IN
    /\ call.doc \in Bills
    /\ call.step = "writeBill" => row.status = "DRAFT" /\ call.saw \in Nat
    /\ call.step = "bookBill" => row.status = "APPROVED" /\ call.saw = row.total
    /\ call.step = "markBill" =>
         \/ row.status \in {"DRAFT", "SUBMITTED"}
              /\ call.saw \in {"DRAFT", "SUBMITTED", "APPROVED"}
         \/ row.status = "APPROVED" /\ call.saw = "POSTED" /\ AwaitsMark(row, row.total)

PaymentCall(call) ==
  call.step \in {"writePayment", "bookPayment", "markPayment"} =>
    LET row == payments[call.doc] IN
    /\ call.doc \in Payments
    /\ call.step = "writePayment" => row.status = "DRAFT" /\ call.saw \in Allocations
    /\ call.step = "bookPayment" => row.status = "APPROVED" /\ call.saw = row.allocations
    /\ call.step = "markPayment" =>
         \/ row.status = "DRAFT" /\ call.saw = "APPROVED"
         \/ row.status = "APPROVED" /\ call.saw = "POSTED" /\ AwaitsMark(row, row.allocations)

ProposalCall(call) ==
  call.step \in ProposalSteps =>
    /\ call.doc \in Proposals
    /\ call.step \in {"writeProposal", "submitProposal"} => proposals[call.doc].status = "DRAFT"
    /\ call.step = "submitProposal" => Payable(call.doc)
    /\ call.step = "approveProposal" => proposals[call.doc].status = "SUBMITTED"

PayCall(call) == BillCall(call) /\ PaymentCall(call) /\ ProposalCall(call)

PayAlone == ~overlap => Purse /\ \A r \in Requests : PayCall(running[r])

(* What is posted for an approved row is in order until it is marked, and  *)
(* then.                                                                   *)
LEMMA BookedInOrder ==
  ASSUME NEW S, NEW what \in S, NEW row, row.journals \in Seq(S), row.unmarked \in Nat,
         row.status = "APPROVED", BookedAs(row, what),
         NEW booked, booked.status = "APPROVED",
         booked.journals = Append(row.journals, what), booked.unmarked = row.unmarked + 1,
         NEW marked, marked.status = "POSTED",
         marked.journals = booked.journals, marked.unmarked = booked.unmarked - 1
  PROVE  booked.unmarked > 0 /\ BookedAs(booked, what) /\ BookedAs(marked, what)
<1>0. <<>> \in Seq(S)
  OBVIOUS
<1>1. PICK journals \in Seq(S), unmarked \in Nat, due \in Seq(S) :
        journals = row.journals /\ unmarked = row.unmarked /\ due = <<>>
  BY <1>0
<1>2. /\ unmarked = 0 => journals = due
      /\ Len(journals) = unmarked + Len(due)
      /\ \A n \in DOMAIN journals : journals[n] = what
  BY <1>1 DEF BookedAs, Accounted
<1>3. /\ Len(Append(journals, what)) = unmarked + 1 + Len(due)
      /\ Len(Append(journals, what)) = unmarked + Len(Append(due, what))
      /\ unmarked = 0 => Append(journals, what) = Append(due, what)
  BY <1>2, OneMore
<1>4. \A n \in DOMAIN Append(journals, what) : Append(journals, what)[n] = what
  BY <1>2
<1>5. Append(due, what) = <<what>>
  BY <1>1
<1>6. BookedAs(booked, what)
  BY <1>1, <1>3, <1>4 DEF BookedAs, Accounted
<1>7. marked.unmarked = unmarked
  BY <1>1
<1>8. BookedAs(marked, what)
  BY <1>1, <1>3, <1>4, <1>5, <1>7 DEF BookedAs, Accounted
<1> QED BY <1>6, <1>8

(* Before the approval everything may change.                              *)
LEMMA EditedInOrder ==
  ASSUME NEW row, NEW old, BookedAs(row, old), row.status \in {"NONE", "DRAFT", "SUBMITTED"},
         NEW new, new.status \in {"DRAFT", "SUBMITTED", "APPROVED"},
         new.journals = row.journals, new.unmarked = row.unmarked, NEW what
  PROVE  BookedAs(new, what)
BY DEF BookedAs, Accounted

LEMMA PayFinite == IsFiniteSet(Proposals) /\ IsFiniteSet(Payments)
<1> DEFINE all == Proposals \cup Payments
<1>1. IsFiniteSet(all) /\ Proposals \in SUBSET all /\ Payments \in SUBSET all
  BY PayablesAssumption
<1> HIDE DEF all
<1> QED BY <1>1, FS_Subset

LEMMA AmountsInNat == \A lines \in Allocations, b \in Bills : lines[b] \in Nat
BY MoneyAssumption DEF Allocations

(* One proposal changes.                                                   *)
LEMMA HeldChanges ==
  ASSUME proposals \in [Proposals -> Proposal], proposals' \in [Proposals -> Proposal],
         NEW p \in Proposals, \A q \in Proposals \ {p} : proposals'[q] = proposals[q],
         NEW b \in Bills
  PROVE  \E rest \in Nat :
           /\ Held(b) =
                rest + (IF proposals[p].status \in Holding THEN proposals[p].lines[b] ELSE 0)
           /\ Held(b)' =
                rest + (IF proposals'[p].status \in Holding THEN proposals'[p].lines[b] ELSE 0)
<1>1. PICK f : f = [q \in Proposals |-> proposals[q].lines[b]]
  OBVIOUS
<1>2. PICK g : g = [q \in Proposals |-> proposals'[q].lines[b]]
  OBVIOUS
<1>3. PICK S : S = {q \in Proposals : proposals[q].status \in Holding}
  OBVIOUS
<1>4. PICK T : T = {q \in Proposals : proposals'[q].status \in Holding}
  OBVIOUS
<1>5. Held(b) = SumFunctionOnSet(f, S)
  BY <1>1, <1>3 DEF Held
<1>6. Held(b)' = SumFunctionOnSet(g, T)
  BY <1>2, <1>4 DEF Held
<1>7. f \in [Proposals -> Nat] /\ g \in [Proposals -> Nat]
  BY <1>1, <1>2, AmountsInNat DEF Proposal
<1>8. /\ S \in SUBSET Proposals /\ T \in SUBSET Proposals
      /\ p \in S <=> proposals[p].status \in Holding
      /\ p \in T <=> proposals'[p].status \in Holding
  BY <1>3, <1>4
<1>9. \A q \in Proposals \ {p} : f[q] = g[q] /\ (q \in S <=> q \in T)
  BY <1>1, <1>2, <1>3, <1>4
<1>10. f[p] = proposals[p].lines[b] /\ g[p] = proposals'[p].lines[b]
  BY <1>1, <1>2
<1>11. PICK rest \in Nat :
         /\ SumFunctionOnSet(f, S) = rest + (IF p \in S THEN f[p] ELSE 0)
         /\ SumFunctionOnSet(g, T) = rest + (IF p \in T THEN g[p] ELSE 0)
  BY <1>7, <1>8, <1>9, PayFinite, SumChanges
<1> QED BY <1>5, <1>6, <1>8, <1>10, <1>11

LEMMA HeldSame == proposals' = proposals => \A b \in Bills : Held(b)' = Held(b)
BY DEF Held

LEMMA HeldInNat ==
  ASSUME proposals \in [Proposals -> Proposal], NEW b \in Bills
  PROVE  Held(b) \in Nat
<1>1. PICK f : f = [q \in Proposals |-> proposals[q].lines[b]]
  OBVIOUS
<1>2. PICK S : S = {q \in Proposals : proposals[q].status \in Holding}
  OBVIOUS
<1>3. S \in SUBSET Proposals /\ IsFiniteSet(S)
  <2>1. S \in SUBSET Proposals
    BY <1>2
  <2> QED BY <2>1, PayFinite, FS_Subset
<1>4. \A q \in S : f[q] \in Nat
  BY <1>1, <1>3, AmountsInNat DEF Proposal
<1>5. SumFunctionOnSet(f, S) \in Nat
  BY <1>3, <1>4, SumType
<1> QED BY <1>1, <1>2, <1>5 DEF Held

LEMMA PaidInNat ==
  ASSUME payments \in [Payments -> PaymentRow], NEW b \in Bills
  PROVE  Paid(b) \in Nat
<1>1. PICK f : f = [q \in Payments |-> payments[q].allocations[b]]
  OBVIOUS
<1>2. PICK S : S = {q \in Payments : payments[q].status = "POSTED"}
  OBVIOUS
<1>3. S \in SUBSET Payments /\ IsFiniteSet(S)
  <2>1. S \in SUBSET Payments
    BY <1>2
  <2> QED BY <2>1, PayFinite, FS_Subset
<1>4. \A q \in S : f[q] \in Nat
  BY <1>1, <1>3, AmountsInNat DEF PaymentRow
<1>5. SumFunctionOnSet(f, S) \in Nat
  BY <1>3, <1>4, SumType
<1> QED BY <1>1, <1>2, <1>5 DEF Paid

(* A proposal that holds nothing and is payable fits beside the others.    *)
LEMMA PayableFits ==
  ASSUME proposals \in [Proposals -> Proposal], Purse,
         NEW p \in Proposals, proposals[p].status \notin Holding, Payable(p), NEW b \in Bills
  PROVE  Held(b) + proposals[p].lines[b] <= BillLimit(b)
<1>1. /\ Held(b) \in Nat /\ Paid(b) \in Nat /\ bills[b].total \in Nat
      /\ proposals[p].lines[b] \in Nat /\ Held(b) <= BillLimit(b)
  BY HeldInNat, PaidInNat, AmountsInNat DEF Purse, BillRow, Proposal
<1>2. Reserved(b, p) = Held(b)
  <2>1. {q \in Proposals \ {p} : proposals[q].status \in {"SUBMITTED", "APPROVED"}}
          = {q \in Proposals : proposals[q].status \in Holding}
    BY DEF Holding
  <2> QED BY <2>1 DEF Reserved, Held
<1>3. CASE proposals[p].lines[b] = 0
  BY <1>1, <1>3 DEF BillLimit
<1>4. CASE proposals[p].lines[b] > 0
  <2>1. /\ bills[b].status = "POSTED"
        /\ proposals[p].lines[b] <= bills[b].total - Paid(b) - Held(b)
    BY <1>2, <1>4 DEF Payable, LinesPayable, OutstandingOf
  <2> QED BY <1>1, <2>1 DEF BillLimit
<1> QED BY <1>1, <1>3, <1>4

(* In the words of Drawings: what is left of a bill, and what a step may   *)
(* do to the limits and to what is drawn.                                  *)
Drawing == OnBills!Next \/ UNCHANGED <<Granted, Reservations>>
PurseStays == Purse' /\ Drawing
PayStays == PayAlone' /\ (~overlap => Drawing)

LEMMA LeftOfBill ==
  ASSUME proposals \in [Proposals -> Proposal], NEW b \in Bills
  PROVE  OnBills!Left(b) = BillLimit(b) - Held(b)
<1>1. PICK f : f = [p \in Proposals |-> proposals[p].lines[b]]
  OBVIOUS
<1>2. PICK g : g = [p \in Proposals |-> Reservations[p][b]]
  OBVIOUS
<1>3. PICK S : S = {p \in Proposals : proposals[p].status \in Holding}
  OBVIOUS
<1>4. S \subseteq Proposals /\ \A p \in S : f[p] \in Nat
  BY <1>1, <1>3, AmountsInNat DEF Proposal
<1>5. \A p \in Proposals : g[p] = IF p \in S THEN f[p] ELSE 0
  BY <1>1, <1>2, <1>3 DEF Reservations, Holding, NoAllocation
<1>6. SumFunctionOnSet(g, Proposals) = SumFunctionOnSet(f, S)
  BY <1>4, <1>5, PayFinite, SumRestricted
<1>7. OnBills!Left(b) = Granted[b] - SumFunctionOnSet(g, Proposals)
  BY <1>2
     DEF OnBills!Left, OnBills!SumFunctionOnSet, OnBills!FoldFunctionOnSet,
         OnBills!MapThenFoldSet, SumFunctionOnSet, FoldFunctionOnSet, MapThenFoldSet
<1>8. Granted[b] = BillLimit(b)
  BY DEF Granted, BillLimit
<1> QED BY <1>1, <1>3, <1>6, <1>7, <1>8 DEF Held

(* What may be written to one row of a table.                              *)
LEMMA HeldWritten ==
  ASSUME proposals \in [Proposals -> Proposal], proposals' \in [Proposals -> Proposal], Purse,
         UNCHANGED <<bills, payments>>,
         NEW p \in Proposals, \A q \in Proposals \ {p} : proposals'[q] = proposals[q],
         proposals'[p].status \in Holding =>
           /\ proposals'[p].lines = proposals[p].lines
           /\ proposals[p].status \in Holding \/ Payable(p)
  PROVE  PurseStays
<1>1. ASSUME NEW b \in Bills PROVE Held(b)' <= BillLimit(b)'
  <2>1. PICK rest \in Nat :
          /\ Held(b) =
               rest + (IF proposals[p].status \in Holding THEN proposals[p].lines[b] ELSE 0)
          /\ Held(b)' =
               rest + (IF proposals'[p].status \in Holding THEN proposals'[p].lines[b] ELSE 0)
    BY HeldChanges
  <2>2. /\ proposals[p].lines[b] \in Nat /\ proposals'[p].lines[b] \in Nat
        /\ BillLimit(b)' = BillLimit(b) /\ BillLimit(b) \in Nat /\ Held(b) <= BillLimit(b)
    BY AmountsInNat DEF Proposal, Purse, BillRow, BillLimit
  <2>3. CASE proposals'[p].status \notin Holding
    BY <2>1, <2>2, <2>3
  <2>4. CASE proposals'[p].status \in Holding /\ proposals[p].status \in Holding
    BY <2>1, <2>2, <2>4
  <2>5. CASE proposals'[p].status \in Holding /\ proposals[p].status \notin Holding
    <3>1. Held(b) + proposals[p].lines[b] <= BillLimit(b)
      BY <2>5, PayableFits
    <3> QED BY <2>1, <2>2, <2>5, <3>1
  <2> QED BY <2>3, <2>4, <2>5
<1>2. Granted' = Granted
  BY DEF Granted
<1>3. Reservations' = [Reservations EXCEPT ![p] = Reservations'[p]]
  BY DEF Reservations
<1>4. \A q \in Proposals :
        Reservations[q] = IF proposals[q].status \in Holding THEN proposals[q].lines
                          ELSE NoAllocation
  BY DEF Reservations, Holding
<1>5. Reservations'[p] = IF proposals'[p].status \in Holding THEN proposals'[p].lines
                         ELSE NoAllocation
  BY DEF Reservations, Holding
<1>6. OnBills!Nothing = NoAllocation
  BY DEF OnBills!Nothing, NoAllocation
<1>7. Drawing
  <2>1. CASE proposals'[p].status \notin Holding
    <3>1. OnBills!GiveBack(p)
      BY <1>2, <1>3, <1>5, <1>6, <2>1 DEF OnBills!GiveBack
    <3> QED BY <3>1 DEF Drawing, OnBills!Next
  <2>2. CASE proposals'[p].status \in Holding /\ proposals[p].status \in Holding
    <3>1. Reservations' = Reservations
      BY <1>3, <1>4, <1>5, <2>2 DEF Reservations
    <3> QED BY <1>2, <3>1 DEF Drawing
  <2>3. CASE proposals'[p].status \in Holding /\ proposals[p].status \notin Holding
    <3>1. ASSUME NEW b \in Bills PROVE proposals'[p].lines[b] \in 0..OnBills!Left(b)
      <4>1. Held(b) + proposals[p].lines[b] <= BillLimit(b)
        BY <2>3, PayableFits
      <4>2. /\ Held(b) \in Nat /\ proposals[p].lines[b] \in Nat /\ BillLimit(b) \in Nat
            /\ proposals'[p].lines = proposals[p].lines
        BY <2>3, HeldInNat, AmountsInNat DEF Proposal, Purse, BillRow, BillLimit
      <4>3. OnBills!Left(b) = BillLimit(b) - Held(b)
        BY LeftOfBill
      <4> QED BY <4>1, <4>2, <4>3
    <3>2. OnBills!Draw(p)
      BY <1>2, <1>3, <1>4, <1>5, <1>6, <2>3, <3>1 DEF OnBills!Draw
    <3> QED BY <3>2 DEF Drawing, OnBills!Next
  <2> QED BY <2>1, <2>2, <2>3
<1> QED BY <1>1, <1>7 DEF Purse, PurseStays

LEMMA BillWritten ==
  ASSUME proposals \in [Proposals -> Proposal], Purse, UNCHANGED <<proposals, payments>>,
         bills' \in [Bills -> BillRow],
         NEW b \in Bills, \A c \in Bills \ {b} : bills'[c] = bills[c],
         bills[b].status # "POSTED", BookedAs(bills'[b], bills'[b].total)
  PROVE  PurseStays
<1>1. ASSUME NEW c \in Bills PROVE Held(c)' <= BillLimit(c)'
  <2>1. Held(c)' = Held(c) /\ Held(c) \in Nat /\ Held(c) <= BillLimit(c)
    BY HeldSame, HeldInNat DEF Purse
  <2>2. CASE c = b
    BY <2>1, <2>2 DEF BillLimit, BillRow
  <2>3. CASE c # b
    BY <2>1, <2>3 DEF BillLimit
  <2> QED BY <2>2, <2>3
<1>2. OnBills!Grant(b)
  <2>1. Reservations' = Reservations
    BY DEF Reservations
  <2>2. Granted' = [Granted EXCEPT ![b] = Granted'[b]]
    BY DEF Granted
  <2>3. Granted[b] = 0 /\ Granted'[b] \in Nat
    BY DEF Granted, BillRow
  <2> QED BY <2>1, <2>2, <2>3 DEF OnBills!Grant
<1> QED BY <1>1, <1>2 DEF Purse, PurseStays, Drawing, OnBills!Next

LEMMA PaymentWritten ==
  ASSUME Purse, UNCHANGED <<bills, proposals>>, payments' \in [Payments -> PaymentRow],
         NEW p \in Payments, \A q \in Payments \ {p} : payments'[q] = payments[q],
         BookedAs(payments'[p], payments'[p].allocations)
  PROVE  PurseStays
<1>1. \A b \in Bills : Held(b)' = Held(b) /\ BillLimit(b)' = BillLimit(b)
  BY HeldSame DEF BillLimit
<1>2. Drawing
  BY DEF Drawing, Granted, Reservations
<1> QED BY <1>1, <1>2 DEF Purse, PurseStays

LEMMA PayReadOnly ==
  ASSUME UNCHANGED apTables
  PROVE  (Purse => PurseStays) /\ Drawing /\ \A call : PayCall(call) => PayCall(call)'
<1>1. (Purse => PurseStays) /\ Drawing
  <2>1. Purse => Purse'
    BY HeldSame DEF apTables, Purse, BillLimit
  <2>2. Drawing
    BY DEF apTables, Drawing, Granted, Reservations
  <2> QED BY <2>1, <2>2 DEF PurseStays
<1>2. \A p : Payable(p) => Payable(p)'
  BY DEF Payable, LinesPayable, OutstandingOf, Paid, Reserved, apTables
<1>3. ASSUME NEW call, PayCall(call) PROVE PayCall(call)'
  BY <1>2, <1>3 DEF PayCall, BillCall, PaymentCall, ProposalCall, apTables
<1> QED BY <1>1, <1>3

LEMMA PayAccompanied ==
  ASSUME HandlersInv, ~overlap, NEW r \in Requests, running[r] # Idle \/ Quiet,
         NEW call, Only(r, call), PayCall(call)'
  PROVE  \A q \in Requests : PayCall(running[q])'
<1>1. ASSUME NEW q \in Requests PROVE PayCall(running[q])'
  <2>1. running'[q] = call \/ running'[q] = Idle
    BY Alone DEF Only
  <2>2. PayCall(Idle)'
    BY DEF PayCall, BillCall, PaymentCall, ProposalCall, ProposalSteps, Idle, Call
  <2>3. \A c : PayCall(c)' /\ running'[q] = c => PayCall(running[q])'
    BY DEF PayCall, BillCall, PaymentCall, ProposalCall
  <2> QED BY <2>1, <2>2, <2>3
<1> QED BY <1>1

(* A handler begins, goes on, ends; or does everything at once.            *)
LEMMA PayBegins ==
  ASSUME HandlersInv, PayAlone, NEW r \in Requests, NEW step, NEW doc, NEW by, NEW saw,
         Begin(r, step, doc, by, saw), UNCHANGED apTables,
         ~overlap /\ Purse => PayCall(Call(step, doc, by, saw))
  PROVE  PayStays
<1>1. PICK call : call = Call(step, doc, by, saw)
  OBVIOUS
<1>2. Only(r, call) /\ (~overlap => Quiet)
  BY <1>1, Begins
<1>3. overlap' = overlap
  BY <1>2 DEF Only
<1>4. ASSUME ~overlap PROVE PurseStays /\ \A q \in Requests : PayCall(running[q])'
  <2>1. Purse /\ PayCall(call)
    BY <1>1, <1>4 DEF PayAlone
  <2>2. (Purse => PurseStays) /\ \A c : PayCall(c) => PayCall(c)'
    BY PayReadOnly
  <2>3. PurseStays /\ PayCall(call)'
    BY <2>1, <2>2
  <2> QED BY <1>2, <1>4, <2>3, PayAccompanied
<1> QED BY <1>3, <1>4 DEF PayAlone, PurseStays, PayStays

LEMMA PayGoes ==
  ASSUME HandlersInv, PayAlone, NEW r \in Requests, NEW step, NEW saw,
         Goto(r, step, saw), running[r] # Idle,
         ~overlap /\ Purse /\ PayCall(running[r]) =>
           /\ PurseStays
           /\ \A call : call = Call(step, running[r].doc, running[r].by, saw) => PayCall(call)'
  PROVE  PayStays
<1>1. PICK call : call = Call(step, running[r].doc, running[r].by, saw)
  OBVIOUS
<1>2. Only(r, call)
  BY <1>1, Goes
<1>3. overlap' = overlap
  BY <1>2 DEF Only
<1>4. ASSUME ~overlap PROVE PurseStays /\ \A q \in Requests : PayCall(running[q])'
  <2>1. PurseStays /\ PayCall(call)'
    BY <1>1, <1>4 DEF PayAlone
  <2> QED BY <1>2, <1>4, <2>1, PayAccompanied
<1> QED BY <1>3, <1>4 DEF PayAlone, PurseStays, PayStays

LEMMA PayFinishes ==
  ASSUME HandlersInv, PayAlone, NEW r \in Requests, Finish(r), running[r] # Idle,
         ~overlap /\ Purse /\ PayCall(running[r]) => PurseStays
  PROVE  PayStays
<1>1. Only(r, Idle)
  BY Finishes
<1>2. overlap' = overlap
  BY <1>1 DEF Only
<1>3. ASSUME ~overlap PROVE PurseStays /\ \A q \in Requests : PayCall(running[q])'
  <2>1. PurseStays
    BY <1>3 DEF PayAlone
  <2>2. PICK call : call = Idle
    OBVIOUS
  <2>3. PayCall(call)'
    BY <2>2 DEF PayCall, BillCall, PaymentCall, ProposalCall, ProposalSteps, Idle, Call
  <2> QED BY <1>1, <1>3, <2>1, <2>2, <2>3, PayAccompanied
<1> QED BY <1>2, <1>3 DEF PayAlone, PurseStays, PayStays

LEMMA PayAtOnce ==
  ASSUME HandlersInv, PayAlone, NEW r \in Requests, AtOnce(r), ~overlap /\ Purse => PurseStays
  PROVE  PayStays
<1>1. overlap' = overlap /\ \A q \in Requests : running'[q] = running[q]
  BY StaysPut DEF AtOnce
<1>2. ASSUME ~overlap PROVE PurseStays /\ \A q \in Requests : PayCall(running[q])'
  <2>1. \A q \in Requests : running'[q] = Idle
    BY <1>1, <1>2, Alone DEF AtOnce, Quiet
  <2>2. ASSUME NEW q \in Requests PROVE PayCall(running[q])'
    BY <2>1 DEF PayCall, BillCall, PaymentCall, ProposalCall, ProposalSteps, Idle, Call
  <2> QED BY <1>2, <2>2 DEF PayAlone
<1> QED BY <1>1, <1>2 DEF PayAlone, PurseStays, PayStays

(* The rows of bills and payments under Booked and Marked.                 *)
LEMMA BillRowBooked ==
  ASSUME NEW row \in BillRow, NEW booked, booked = Booked(row, row.total)
  PROVE  /\ booked \in BillRow /\ booked.status = row.status /\ booked.total = row.total
         /\ booked.journals = Append(row.journals, row.total)
         /\ booked.unmarked = row.unmarked + 1
<1>1. row.journals \in Seq(Nat) /\ row.unmarked \in Nat /\ row.total \in Nat
  BY DEF BillRow
<1>2. Append(row.journals, row.total) \in Seq(Nat)
  BY <1>1
<1>3. PICK journals \in Seq(Nat) : journals = Append(row.journals, row.total)
  BY <1>2
<1>4. PICK unmarked \in Nat : unmarked = row.unmarked + 1
  BY <1>1
<1>5. booked = [row EXCEPT !.journals = journals, !.unmarked = unmarked]
  BY <1>3, <1>4 DEF Booked
<1> QED BY <1>3, <1>4, <1>5 DEF BillRow

LEMMA BillRowPosted ==
  ASSUME NEW row \in BillRow, NEW marked, marked = Marked(row, "POSTED")
  PROVE  /\ row.unmarked > 0 => marked \in BillRow
         /\ marked.status = "POSTED" /\ marked.total = row.total
         /\ marked.journals = row.journals /\ marked.unmarked = row.unmarked - 1
<1>1. row.unmarked \in Nat
  BY DEF BillRow
<1>2. PICK unmarked : unmarked = row.unmarked - 1
  OBVIOUS
<1>3. marked = [row EXCEPT !.status = "POSTED", !.unmarked = unmarked]
  BY <1>2 DEF Marked
<1>4. row.unmarked > 0 => unmarked \in Nat
  BY <1>1, <1>2
<1> QED BY <1>2, <1>3, <1>4 DEF BillRow, BillStatuses

LEMMA BillRowMoved ==
  ASSUME NEW row \in BillRow, NEW status \in {"DRAFT", "SUBMITTED", "APPROVED"},
         NEW moved, moved = Marked(row, status)
  PROVE  /\ moved \in BillRow /\ moved.status = status
         /\ moved.journals = row.journals /\ moved.unmarked = row.unmarked
<1>1. moved = [row EXCEPT !.status = status, !.unmarked = row.unmarked]
  BY DEF Marked
<1> QED BY <1>1 DEF BillRow, BillStatuses

LEMMA PaymentRowBooked ==
  ASSUME NEW row \in PaymentRow, NEW booked, booked = Booked(row, row.allocations)
  PROVE  /\ booked \in PaymentRow /\ booked.status = row.status /\ booked.allocations = row.allocations
         /\ booked.journals = Append(row.journals, row.allocations)
         /\ booked.unmarked = row.unmarked + 1
<1>1. row.journals \in Seq(Allocations) /\ row.unmarked \in Nat /\ row.allocations \in Allocations
  BY DEF PaymentRow
<1>2. Append(row.journals, row.allocations) \in Seq(Allocations)
  BY <1>1
<1>3. PICK journals \in Seq(Allocations) : journals = Append(row.journals, row.allocations)
  BY <1>2
<1>4. PICK unmarked \in Nat : unmarked = row.unmarked + 1
  BY <1>1
<1>5. booked = [row EXCEPT !.journals = journals, !.unmarked = unmarked]
  BY <1>3, <1>4 DEF Booked
<1> QED BY <1>3, <1>4, <1>5 DEF PaymentRow

LEMMA PaymentRowPosted ==
  ASSUME NEW row \in PaymentRow, NEW marked, marked = Marked(row, "POSTED")
  PROVE  /\ row.unmarked > 0 => marked \in PaymentRow
         /\ marked.status = "POSTED" /\ marked.allocations = row.allocations
         /\ marked.journals = row.journals /\ marked.unmarked = row.unmarked - 1
<1>1. row.unmarked \in Nat
  BY DEF PaymentRow
<1>2. PICK unmarked : unmarked = row.unmarked - 1
  OBVIOUS
<1>3. marked = [row EXCEPT !.status = "POSTED", !.unmarked = unmarked]
  BY <1>2 DEF Marked
<1>4. row.unmarked > 0 => unmarked \in Nat
  BY <1>1, <1>2
<1> QED BY <1>2, <1>3, <1>4 DEF PaymentRow

LEMMA PaymentRowMoved ==
  ASSUME NEW row \in PaymentRow, NEW status \in {"APPROVED"},
         NEW moved, moved = Marked(row, status)
  PROVE  /\ moved \in PaymentRow /\ moved.status = status
         /\ moved.journals = row.journals /\ moved.unmarked = row.unmarked
<1>1. moved = [row EXCEPT !.status = status, !.unmarked = row.unmarked]
  BY DEF Marked
<1> QED BY <1>1 DEF PaymentRow

LEMMA BillsFit ==
  ASSUME PayInv, PayAlone, NEW r \in Requests, NEW u \in Users, BillStep(r, u)
  PROVE  PayStays
<1>a. Amounts \subseteq Nat
  BY MoneyAssumption DEF Amounts
<1>b. Purse => bills \in [Bills -> BillRow]
  BY DEF Purse
<1>h. HandlersInv /\ proposals \in [Proposals -> Proposal]
  BY DEF PayInv, TableInv
<1>1. ASSUME NEW b \in Bills, NEW amount \in Amounts, CreateBill(r, u, b, amount)
      PROVE  PayStays
  <2>1. ASSUME Purse PROVE PurseStays
    <3>1. /\ bills' \in [Bills -> BillRow] /\ bills[b].status = "NONE"
          /\ BookedAs(bills'[b], bills'[b].total)
          /\ \A c \in Bills \ {b} : bills'[c] = bills[c]
      <4>1. PICK row : row = [bills[b] EXCEPT !.status = "DRAFT", !.createdBy = u, !.total = amount]
        OBVIOUS
      <4>2. row \in BillRow
        <5>1. bills[b] \in BillRow /\ amount \in Nat
          BY <1>a, <1>b, <2>1
        <5>2. "DRAFT" \in BillStatuses /\ u \in Users \cup {None}
          BY DEF BillStatuses
        <5> QED BY <4>1, <5>1, <5>2, Zenon DEF BillRow
      <4>3. bills' = [bills EXCEPT ![b] = row] /\ bills[b].status = "NONE"
        BY <1>b, <2>1, <1>1, <4>1 DEF CreateBill
      <4>4. BookedAs(row, row.total)
        <5>1. /\ row.status = "DRAFT" /\ row.journals = bills[b].journals
              /\ row.unmarked = bills[b].unmarked
          BY <1>b, <2>1, <4>1 DEF BillRow
        <5>2. BookedAs(bills[b], bills[b].total)
          BY <2>1 DEF Purse
        <5> QED BY <4>3, <5>1, <5>2, EditedInOrder
      <4> QED BY <1>b, <2>1, <4>2, <4>3, <4>4
    <3>2. UNCHANGED <<proposals, payments>>
      BY <1>1 DEF CreateBill
    <3> QED BY <1>h, <2>1, <3>1, <3>2, BillWritten
  <2> QED BY <1>h, <1>1, <2>1, PayAtOnce DEF CreateBill
<1>2. ASSUME NEW b \in Bills, NEW amount \in Amounts, UpdateBill(r, u, b, amount)
      PROVE  PayStays
  <2>1. PayCall(Call("writeBill", b, u, amount))
    BY <1>a, <1>2 DEF UpdateBill, PayCall, BillCall, PaymentCall, ProposalCall, ProposalSteps, Call
  <2> QED BY <1>h, <1>2, <2>1, PayBegins DEF UpdateBill
<1>3. ASSUME NEW b \in Bills, NEW status \in {"DRAFT", "SUBMITTED", "APPROVED"},
             bills[b].status \in {"DRAFT", "SUBMITTED"},
             Begin(r, "markBill", b, u, status), UNCHANGED apTables
      PROVE  PayStays
  <2>1. PayCall(Call("markBill", b, u, status))
    BY <1>3 DEF PayCall, BillCall, PaymentCall, ProposalCall, ProposalSteps, Call
  <2> QED BY <1>h, <1>3, <2>1, PayBegins
<1>4. ASSUME NEW b \in Bills, SubmitBill(r, u, b) \/ ApproveBill(r, u, b) \/ RejectBill(r, u, b)
      PROVE  PayStays
  BY <1>3, <1>4 DEF SubmitBill, ApproveBill, RejectBill
<1>5. ASSUME NEW b \in Bills, PostBill(r, u, b)
      PROVE  PayStays
  <2>1. PayCall(Call("bookBill", b, u, bills[b].total))
    BY <1>5 DEF PostBill, PayCall, BillCall, PaymentCall, ProposalCall, ProposalSteps, Call
  <2> QED BY <1>h, <1>5, <2>1, PayBegins DEF PostBill
<1> DEFINE b == running[r].doc
<1>6. CASE WriteBill(r)
  <2>1. running[r] # Idle
    BY <1>6, Busy DEF WriteBill
  <2>2. ASSUME Purse, PayCall(running[r]) PROVE PurseStays
    <3>1. b \in Bills /\ bills[b].status = "DRAFT" /\ running[r].saw \in Nat
      BY <1>6, <2>2 DEF WriteBill, At, PayCall, BillCall
    <3>2. /\ bills' \in [Bills -> BillRow] /\ \A c \in Bills \ {b} : bills'[c] = bills[c]
          /\ bills'[b].status = "DRAFT" /\ bills'[b].journals = bills[b].journals
          /\ bills'[b].unmarked = bills[b].unmarked
      BY <1>b, <1>6, <2>2, <3>1 DEF WriteBill, BillRow
    <3>3. UNCHANGED <<proposals, payments>>
      BY <1>6 DEF WriteBill
    <3> HIDE DEF b
    <3>4. BookedAs(bills'[b], bills'[b].total)
      <4>1. BookedAs(bills[b], bills[b].total)
        BY <2>2, <3>1 DEF Purse
      <4> QED BY <3>1, <3>2, <4>1, EditedInOrder
    <3> QED BY <1>h, <2>2, <3>1, <3>2, <3>3, <3>4, BillWritten
  <2> QED BY <1>h, <1>6, <2>1, <2>2, PayFinishes DEF WriteBill
<1>7. CASE BookBill(r)
  <2>1. running[r] # Idle
    BY <1>7, Busy DEF BookBill
  <2>2. ASSUME Purse, PayCall(running[r])
        PROVE  /\ PurseStays
               /\ \A call : call = Call("markBill", b, running[r].by, "POSTED") => PayCall(call)'
    <3>1. /\ b \in Bills /\ bills[b].status = "APPROVED"
          /\ running[r].saw = bills[b].total
      BY <1>7, <2>2 DEF BookBill, At, PayCall, BillCall
    <3>2. PICK row, marked :
            row = Booked(bills[b], bills[b].total) /\ marked = Marked(row, "POSTED")
      OBVIOUS
    <3>3. bills' = [bills EXCEPT ![b] = row]
      BY <1>b, <1>7, <2>2, <3>1, <3>2 DEF BookBill
    <3>4. UNCHANGED <<proposals, payments>>
      BY <1>7 DEF BookBill
    <3>5. PICK k : k = b
      OBVIOUS
    <3> HIDE DEF b
    <3>6. /\ row \in BillRow /\ row.status = "APPROVED" /\ row.total = bills[b].total
          /\ row.unmarked > 0 /\ BookedAs(row, row.total) /\ BookedAs(marked, row.total)
      <4>1. PICK old : old = bills[b]
        OBVIOUS
      <4>2. old \in BillRow /\ BookedAs(old, old.total) /\ old.status = "APPROVED"
        BY <2>2, <3>1, <4>1 DEF Purse
      <4>3. /\ row \in BillRow /\ row.status = "APPROVED" /\ row.total = old.total
            /\ row.journals = Append(old.journals, old.total)
            /\ row.unmarked = old.unmarked + 1
        BY <3>2, <4>1, <4>2, BillRowBooked
      <4>4. /\ marked.status = "POSTED" /\ marked.journals = row.journals
            /\ marked.unmarked = row.unmarked - 1
        BY <3>2, <4>3, BillRowPosted
      <4>5. /\ old.journals \in Seq(Nat) /\ old.unmarked \in Nat /\ old.total \in Nat
        BY <4>2 DEF BillRow
      <4>6. row.unmarked > 0 /\ BookedAs(row, old.total) /\ BookedAs(marked, old.total)
        BY <4>2, <4>3, <4>4, <4>5, BookedInOrder
      <4> QED BY <4>1, <4>3, <4>6
    <3>7. /\ bills' \in [Bills -> BillRow] /\ bills'[b] = row
          /\ \A c \in Bills \ {b} : bills'[c] = bills[c]
      BY <1>b, <2>2, <3>1, <3>3, <3>6
    <3>8. PurseStays
      BY <1>h, <2>2, <3>1, <3>4, <3>6, <3>7, BillWritten
    <3>9. ASSUME NEW call, call = Call("markBill", k, running[r].by, "POSTED")
          PROVE  PayCall(call)'
      <4>1. call.step = "markBill" /\ call.doc = k /\ call.saw = "POSTED"
        BY <3>9 DEF Call
      <4>2. k \in Bills /\ bills'[k] = row /\ AwaitsMark(row, row.total)
        BY <3>1, <3>2, <3>5, <3>6, <3>7 DEF AwaitsMark
      <4>3. BillCall(call)'
        BY <3>6, <4>1, <4>2 DEF BillCall
      <4> QED BY <4>1, <4>3 DEF PayCall, BillCall, PaymentCall, ProposalCall, ProposalSteps
    <3> QED BY <3>5, <3>8, <3>9
  <2> QED BY <1>h, <1>7, <2>1, <2>2, PayGoes DEF BookBill
<1>8. CASE MarkBill(r)
  <2>1. running[r] # Idle
    BY <1>8, Busy DEF MarkBill
  <2>2. ASSUME Purse, PayCall(running[r]) PROVE PurseStays
    <3>1. PICK saw, old, row : saw = running[r].saw /\ old = bills[b] /\ row = Marked(old, saw)
      OBVIOUS
    <3>2. /\ b \in Bills /\ old \in BillRow /\ BookedAs(old, old.total)
          /\ \/ old.status \in {"DRAFT", "SUBMITTED"} /\ saw \in {"DRAFT", "SUBMITTED", "APPROVED"}
             \/ old.status = "APPROVED" /\ saw = "POSTED" /\ AwaitsMark(old, old.total)
      BY <1>8, <2>2, <3>1 DEF MarkBill, At, PayCall, BillCall, Purse
    <3>3. bills' = [bills EXCEPT ![b] = row]
      BY <1>b, <1>8, <2>2, <3>1, <3>2 DEF MarkBill
    <3>4. UNCHANGED <<proposals, payments>>
      BY <1>8 DEF MarkBill
    <3> HIDE DEF b
    <3>5. row \in BillRow /\ BookedAs(row, row.total)
      <4>1. CASE saw = "POSTED"
        BY <3>1, <3>2, <4>1, BillRowPosted DEF AwaitsMark
      <4>2. CASE saw # "POSTED"
        BY <3>1, <3>2, <4>2, BillRowMoved, EditedInOrder
      <4> QED BY <4>1, <4>2
    <3>6. /\ bills' \in [Bills -> BillRow] /\ bills'[b] = row
          /\ \A c \in Bills \ {b} : bills'[c] = bills[c]
      BY <1>b, <2>2, <3>2, <3>3, <3>5
    <3>7. old.status # "POSTED"
      BY <3>2
    <3> QED BY <1>h, <2>2, <3>1, <3>2, <3>4, <3>5, <3>6, <3>7, BillWritten
  <2> QED BY <1>h, <1>8, <2>1, <2>2, PayFinishes DEF MarkBill
<1> QED BY <1>1, <1>2, <1>4, <1>5, <1>6, <1>7, <1>8 DEF BillStep

LEMMA PaymentsFit ==
  ASSUME PayInv, PayAlone, NEW r \in Requests, NEW u \in Users, PaymentStep(r, u)
  PROVE  PayStays
<1>b. Purse => payments \in [Payments -> PaymentRow]
  BY DEF Purse
<1>h. HandlersInv
  BY DEF PayInv
<1>1. ASSUME NEW p \in Payments, NEW a \in Allocations, CreatePayment(r, u, p, a)
      PROVE  PayStays
  <2>1. ASSUME Purse PROVE PurseStays
    <3>1. /\ payments' \in [Payments -> PaymentRow] /\ payments[p].status = "NONE"
          /\ payments'[p].status = "DRAFT" /\ payments'[p].journals = payments[p].journals
          /\ payments'[p].unmarked = payments[p].unmarked
          /\ \A q \in Payments \ {p} : payments'[q] = payments[q]
      BY <1>b, <1>1, <2>1 DEF CreatePayment, PaymentRow
    <3>2. UNCHANGED <<bills, proposals>>
      BY <1>1 DEF CreatePayment
    <3>3. BookedAs(payments'[p], payments'[p].allocations)
      <4>1. BookedAs(payments[p], payments[p].allocations)
        BY <2>1 DEF Purse
      <4> QED BY <3>1, <4>1, EditedInOrder
    <3> QED BY <2>1, <3>1, <3>2, <3>3, PaymentWritten
  <2> QED BY <1>h, <1>1, <2>1, PayAtOnce DEF CreatePayment
<1>2. ASSUME NEW p \in Payments, NEW a \in Allocations, UpdatePayment(r, u, p, a)
      PROVE  PayStays
  <2>1. PayCall(Call("writePayment", p, u, a))
    BY <1>2
       DEF UpdatePayment, EditablePayment, PayCall, BillCall, PaymentCall, ProposalCall,
           ProposalSteps, Call
  <2> QED BY <1>h, <1>2, <2>1, PayBegins DEF UpdatePayment
<1>3. ASSUME NEW p \in Payments, ApprovePayment(r, u, p)
      PROVE  PayStays
  <2>1. PayCall(Call("markPayment", p, u, "APPROVED"))
    BY <1>3
       DEF ApprovePayment, PayCall, BillCall, PaymentCall, ProposalCall, ProposalSteps, Call
  <2> QED BY <1>h, <1>3, <2>1, PayBegins DEF ApprovePayment
<1>4. ASSUME NEW p \in Payments, PostPayment(r, u, p)
      PROVE  PayStays
  <2>1. PayCall(Call("bookPayment", p, u, payments[p].allocations))
    BY <1>4 DEF PostPayment, PayCall, BillCall, PaymentCall, ProposalCall, ProposalSteps, Call
  <2> QED BY <1>h, <1>4, <2>1, PayBegins DEF PostPayment
<1> DEFINE p == running[r].doc
<1>5. CASE WritePayment(r)
  <2>1. running[r] # Idle
    BY <1>5, Busy DEF WritePayment
  <2>2. ASSUME Purse, PayCall(running[r]) PROVE PurseStays
    <3>1. p \in Payments /\ payments[p].status = "DRAFT" /\ running[r].saw \in Allocations
      BY <1>5, <2>2 DEF WritePayment, At, PayCall, PaymentCall
    <3>2. /\ payments' \in [Payments -> PaymentRow]
          /\ payments'[p].status = "DRAFT" /\ payments'[p].journals = payments[p].journals
          /\ payments'[p].unmarked = payments[p].unmarked
          /\ \A q \in Payments \ {p} : payments'[q] = payments[q]
      BY <1>b, <1>5, <2>2, <3>1 DEF WritePayment, PaymentRow
    <3>3. UNCHANGED <<bills, proposals>>
      BY <1>5 DEF WritePayment
    <3> HIDE DEF p
    <3>4. BookedAs(payments'[p], payments'[p].allocations)
      <4>1. BookedAs(payments[p], payments[p].allocations)
        BY <2>2, <3>1 DEF Purse
      <4> QED BY <3>1, <3>2, <4>1, EditedInOrder
    <3> QED BY <2>2, <3>1, <3>2, <3>3, <3>4, PaymentWritten
  <2> QED BY <1>h, <1>5, <2>1, <2>2, PayFinishes DEF WritePayment
<1>6. CASE BookPayment(r)
  <2>1. running[r] # Idle
    BY <1>6, Busy DEF BookPayment
  <2>2. ASSUME Purse, PayCall(running[r])
        PROVE  /\ PurseStays
               /\ \A call : call = Call("markPayment", p, running[r].by, "POSTED") => PayCall(call)'
    <3>1. /\ p \in Payments /\ payments[p].status = "APPROVED"
          /\ running[r].saw = payments[p].allocations
      BY <1>6, <2>2 DEF BookPayment, At, PayCall, PaymentCall
    <3>2. PICK row, marked :
            row = Booked(payments[p], payments[p].allocations) /\ marked = Marked(row, "POSTED")
      OBVIOUS
    <3>3. payments' = [payments EXCEPT ![p] = row]
      BY <1>b, <1>6, <2>2, <3>1, <3>2 DEF BookPayment
    <3>4. UNCHANGED <<bills, proposals>>
      BY <1>6 DEF BookPayment
    <3>5. PICK k : k = p
      OBVIOUS
    <3> HIDE DEF p
    <3>6. /\ row \in PaymentRow /\ row.status = "APPROVED" /\ row.allocations = payments[p].allocations
          /\ row.unmarked > 0 /\ BookedAs(row, row.allocations) /\ BookedAs(marked, row.allocations)
      <4>1. PICK old : old = payments[p]
        OBVIOUS
      <4>2. old \in PaymentRow /\ BookedAs(old, old.allocations) /\ old.status = "APPROVED"
        BY <2>2, <3>1, <4>1 DEF Purse
      <4>3. /\ row \in PaymentRow /\ row.status = "APPROVED" /\ row.allocations = old.allocations
            /\ row.journals = Append(old.journals, old.allocations)
            /\ row.unmarked = old.unmarked + 1
        BY <3>2, <4>1, <4>2, PaymentRowBooked
      <4>4. /\ marked.status = "POSTED" /\ marked.journals = row.journals
            /\ marked.unmarked = row.unmarked - 1
        BY <3>2, <4>3, PaymentRowPosted
      <4>5. /\ old.journals \in Seq(Allocations) /\ old.unmarked \in Nat /\ old.allocations \in Allocations
        BY <4>2 DEF PaymentRow
      <4>6. row.unmarked > 0 /\ BookedAs(row, old.allocations) /\ BookedAs(marked, old.allocations)
        BY <4>2, <4>3, <4>4, <4>5, BookedInOrder
      <4> QED BY <4>1, <4>3, <4>6
    <3>7. /\ payments' \in [Payments -> PaymentRow] /\ payments'[p] = row
          /\ \A c \in Payments \ {p} : payments'[c] = payments[c]
      BY <1>b, <2>2, <3>1, <3>3, <3>6
    <3>8. PurseStays
      BY <2>2, <3>1, <3>4, <3>6, <3>7, PaymentWritten
    <3>9. ASSUME NEW call, call = Call("markPayment", k, running[r].by, "POSTED")
          PROVE  PayCall(call)'
      <4>1. call.step = "markPayment" /\ call.doc = k /\ call.saw = "POSTED"
        BY <3>9 DEF Call
      <4>2. k \in Payments /\ payments'[k] = row /\ AwaitsMark(row, row.allocations)
        BY <3>1, <3>2, <3>5, <3>6, <3>7 DEF AwaitsMark
      <4>3. PaymentCall(call)'
        BY <3>6, <4>1, <4>2 DEF PaymentCall
      <4> QED BY <4>1, <4>3 DEF PayCall, BillCall, PaymentCall, ProposalCall, ProposalSteps
    <3> QED BY <3>5, <3>8, <3>9
  <2> QED BY <1>h, <1>6, <2>1, <2>2, PayGoes DEF BookPayment
<1>7. CASE MarkPayment(r)
  <2>1. running[r] # Idle
    BY <1>7, Busy DEF MarkPayment
  <2>2. ASSUME Purse, PayCall(running[r]) PROVE PurseStays
    <3>1. PICK saw, old, row : saw = running[r].saw /\ old = payments[p] /\ row = Marked(old, saw)
      OBVIOUS
    <3>2. /\ p \in Payments /\ old \in PaymentRow /\ BookedAs(old, old.allocations)
          /\ \/ old.status = "DRAFT" /\ saw = "APPROVED"
             \/ old.status = "APPROVED" /\ saw = "POSTED" /\ AwaitsMark(old, old.allocations)
      BY <1>7, <2>2, <3>1 DEF MarkPayment, At, PayCall, PaymentCall, Purse
    <3>3. payments' = [payments EXCEPT ![p] = row]
      BY <1>b, <1>7, <2>2, <3>1, <3>2 DEF MarkPayment
    <3>4. UNCHANGED <<bills, proposals>>
      BY <1>7 DEF MarkPayment
    <3> HIDE DEF p
    <3>5. row \in PaymentRow /\ BookedAs(row, row.allocations)
      <4>1. CASE saw = "POSTED"
        BY <3>1, <3>2, <4>1, PaymentRowPosted DEF AwaitsMark
      <4>2. CASE saw # "POSTED"
        BY <3>1, <3>2, <4>2, PaymentRowMoved, EditedInOrder
      <4> QED BY <4>1, <4>2
    <3>6. /\ payments' \in [Payments -> PaymentRow] /\ payments'[p] = row
          /\ \A c \in Payments \ {p} : payments'[c] = payments[c]
      BY <1>b, <2>2, <3>2, <3>3, <3>5
    <3>7. old.status # "POSTED"
      BY <3>2
    <3> QED BY <2>2, <3>1, <3>2, <3>4, <3>5, <3>6, <3>7, PaymentWritten
  <2> QED BY <1>h, <1>7, <2>1, <2>2, PayFinishes DEF MarkPayment
<1> QED BY <1>1, <1>2, <1>3, <1>4, <1>5, <1>6, <1>7 DEF PaymentStep

LEMMA ProposalsFit ==
  ASSUME PayInv, PayInv', PayAlone, NEW r \in Requests, NEW u \in Users, ProposalStep(r, u)
  PROVE  PayStays
<1>h. /\ HandlersInv /\ proposals \in [Proposals -> Proposal]
      /\ proposals' \in [Proposals -> Proposal]
  BY DEF PayInv, TableInv
<1>s. \A status : status \in Holding <=> status = "SUBMITTED" \/ status = "APPROVED"
  BY DEF Holding
<1>1. ASSUME NEW p \in Proposals, NEW lines \in Allocations, CreateProposal(r, u, p, lines)
      PROVE  PayStays
  <2>1. ASSUME Purse PROVE PurseStays
    <3>1. /\ proposals'[p].status = "DRAFT"
          /\ \A q \in Proposals \ {p} : proposals'[q] = proposals[q]
      BY <1>h, <1>1 DEF CreateProposal, Proposal
    <3>2. UNCHANGED <<bills, payments>>
      BY <1>1 DEF CreateProposal
    <3>3. proposals'[p].status \notin Holding
      BY <1>s, <3>1
    <3> QED BY <1>h, <2>1, <3>1, <3>2, <3>3, HeldWritten
  <2> QED BY <1>h, <1>1, <2>1, PayAtOnce DEF CreateProposal
<1>2. ASSUME NEW p \in Proposals, NEW step \in ProposalSteps, NEW saw,
             Begin(r, step, p, u, saw), UNCHANGED apTables,
             step \in {"writeProposal", "submitProposal"} => proposals[p].status = "DRAFT",
             step = "submitProposal" => Payable(p),
             step = "approveProposal" => proposals[p].status = "SUBMITTED"
      PROVE  PayStays
  <2>1. PayCall(Call(step, p, u, saw))
    BY <1>2 DEF PayCall, BillCall, PaymentCall, ProposalCall, ProposalSteps, Call
  <2> QED BY <1>h, <1>2, <2>1, PayBegins
<1>3. ASSUME NEW p \in Proposals, NEW lines \in Allocations, UpdateProposal(r, u, p, lines)
      PROVE  PayStays
  BY <1>2, <1>3 DEF UpdateProposal, EditableProposal, ProposalSteps
<1>4. ASSUME NEW p \in Proposals, SubmitProposal(r, u, p) PROVE PayStays
  BY <1>2, <1>4 DEF SubmitProposal, Payable, ProposalSteps
<1>5. ASSUME NEW p \in Proposals, ApproveProposal(r, u, p) PROVE PayStays
  BY <1>2, <1>5 DEF ApproveProposal, ProposalSteps
<1>6. ASSUME NEW p \in Proposals, RejectProposal(r, u, p) PROVE PayStays
  BY <1>2, <1>6 DEF RejectProposal, ProposalSteps
<1> DEFINE p == running[r].doc
<1>7. CASE WriteProposal(r)
  <2>1. running[r] # Idle
    BY <1>7, Busy DEF WriteProposal
  <2>2. ASSUME Purse, PayCall(running[r]) PROVE PurseStays
    <3>1. p \in Proposals /\ proposals[p].status = "DRAFT"
      BY <1>7, <2>2 DEF WriteProposal, At, PayCall, ProposalCall, ProposalSteps
    <3>2. /\ proposals'[p].status = "DRAFT"
          /\ \A q \in Proposals \ {p} : proposals'[q] = proposals[q]
      BY <1>h, <1>7, <3>1 DEF WriteProposal, Proposal
    <3>3. UNCHANGED <<bills, payments>>
      BY <1>7 DEF WriteProposal
    <3> HIDE DEF p
    <3>4. proposals'[p].status \notin Holding
      BY <1>s, <3>2
    <3> QED BY <1>h, <2>2, <3>1, <3>2, <3>3, <3>4, HeldWritten
  <2> QED BY <1>h, <1>7, <2>1, <2>2, PayFinishes DEF WriteProposal
<1>8. CASE WriteSubmitted(r)
  <2>1. running[r] # Idle
    BY <1>8, Busy DEF WriteSubmitted
  <2>2. ASSUME Purse, PayCall(running[r]) PROVE PurseStays
    <3>1. p \in Proposals /\ Payable(p)
      BY <1>8, <2>2 DEF WriteSubmitted, At, PayCall, ProposalCall, ProposalSteps
    <3>2. /\ proposals'[p].lines = proposals[p].lines
          /\ \A q \in Proposals \ {p} : proposals'[q] = proposals[q]
      BY <1>h, <1>8, <3>1 DEF WriteSubmitted, Proposal
    <3>3. UNCHANGED <<bills, payments>>
      BY <1>8 DEF WriteSubmitted
    <3> HIDE DEF p
    <3> QED BY <1>h, <2>2, <3>1, <3>2, <3>3, HeldWritten
  <2> QED BY <1>h, <1>8, <2>1, <2>2, PayFinishes DEF WriteSubmitted
<1>9. CASE WriteApproval(r)
  <2>1. running[r] # Idle
    BY <1>9, Busy DEF WriteApproval
  <2>2. ASSUME Purse, PayCall(running[r]) PROVE PurseStays
    <3>1. p \in Proposals /\ proposals[p].status = "SUBMITTED"
      BY <1>9, <2>2 DEF WriteApproval, At, PayCall, ProposalCall, ProposalSteps
    <3>2. /\ proposals'[p].lines = proposals[p].lines
          /\ \A q \in Proposals \ {p} : proposals'[q] = proposals[q]
      BY <1>h, <1>9, <3>1 DEF WriteApproval, Proposal
    <3>3. UNCHANGED <<bills, payments>>
      BY <1>9 DEF WriteApproval
    <3> HIDE DEF p
    <3>4. proposals[p].status \in Holding
      BY <1>s, <3>1
    <3> QED BY <1>h, <2>2, <3>1, <3>2, <3>3, <3>4, HeldWritten
  <2> QED BY <1>h, <1>9, <2>1, <2>2, PayFinishes DEF WriteApproval
<1>10. CASE WriteRejection(r)
  <2>1. running[r] # Idle
    BY <1>10, Busy DEF WriteRejection
  <2>2. ASSUME Purse, PayCall(running[r]) PROVE PurseStays
    <3>1. p \in Proposals
      BY <1>10, <2>2 DEF WriteRejection, At, PayCall, ProposalCall, ProposalSteps
    <3>2. /\ proposals'[p].status = "DRAFT"
          /\ \A q \in Proposals \ {p} : proposals'[q] = proposals[q]
      BY <1>h, <1>10, <3>1 DEF WriteRejection, Proposal
    <3>3. UNCHANGED <<bills, payments>>
      BY <1>10 DEF WriteRejection
    <3> HIDE DEF p
    <3>4. proposals'[p].status \notin Holding
      BY <1>s, <3>2
    <3> QED BY <1>h, <2>2, <3>1, <3>2, <3>3, <3>4, HeldWritten
  <2> QED BY <1>h, <1>10, <2>1, <2>2, PayFinishes DEF WriteRejection
<1> QED
  BY <1>1, <1>3, <1>4, <1>5, <1>6, <1>7, <1>8, <1>9, <1>10 DEF ProposalStep

LEMMA PurseInitially == PayablesInit /\ HandlersInit => PayAlone
<1> SUFFICES ASSUME PayablesInit, HandlersInit PROVE PayAlone
  OBVIOUS
<1>1. \A r \in Requests : running[r] = Idle
  BY InitiallyIdle
<1>2. \A r \in Requests : PayCall(running[r])
  BY <1>1 DEF PayCall, BillCall, PaymentCall, ProposalCall, ProposalSteps, Idle, Call
<1>3. NoBill \in BillRow /\ NoPayment \in PaymentRow
  BY MoneyAssumption
     DEF NoBill, BillRow, BillStatuses, NoPayment, PaymentRow, NoAllocation, Allocations
<1>4. bills \in [Bills -> BillRow] /\ payments \in [Payments -> PaymentRow]
  BY <1>3 DEF PayablesInit
<1>5. ASSUME NEW b \in Bills PROVE Held(b) <= BillLimit(b)
  <2>1. {p \in Proposals : proposals[p].status \in Holding} = {}
    BY DEF PayablesInit, NoProposal, Holding
  <2>2. Held(b) = 0
    BY <2>1, SumOfNone DEF Held
  <2>3. BillLimit(b) \in Nat
    BY <1>4 DEF BillLimit, BillRow
  <2> QED BY <2>2, <2>3
<1>6. ASSUME NEW row, row.status = "NONE", row.journals = <<>>, row.unmarked = 0, NEW what
      PROVE  BookedAs(row, what)
  BY <1>6 DEF BookedAs, Accounted
<1>7. ASSUME NEW b \in Bills PROVE BookedAs(bills[b], bills[b].total)
  BY <1>6 DEF PayablesInit, NoBill
<1>8. ASSUME NEW p \in Payments PROVE BookedAs(payments[p], payments[p].allocations)
  BY <1>6 DEF PayablesInit, NoPayment
<1> QED BY <1>2, <1>4, <1>5, <1>7, <1>8 DEF PayAlone, Purse

LEMMA PurseInductive == PayInv /\ PayAlone /\ PayInv' /\ [PayablesStep]_apVars => PayStays
<1> SUFFICES ASSUME PayInv, PayAlone, PayInv', [PayablesStep]_apVars PROVE PayStays
  OBVIOUS
<1>h. HandlersInv
  BY DEF PayInv
<1>1. ASSUME NEW r \in Requests, Fail(r), UNCHANGED apTables PROVE PayStays
  <2>1. Purse => PurseStays
    BY <1>1, PayReadOnly
  <2> QED BY <1>h, <1>1, <2>1, PayFinishes DEF Fail
<1>2. CASE UNCHANGED apVars
  <2>1. (Purse => PurseStays) /\ Drawing /\ \A call : PayCall(call) => PayCall(call)'
    BY <1>2, PayReadOnly DEF apVars
  <2>2. overlap' = overlap /\ \A r \in Requests : running'[r] = running[r]
    BY <1>h, <1>2, StaysPut DEF apVars
  <2>3. ASSUME ~overlap, NEW r \in Requests PROVE PayCall(running[r])'
    <3>1. PICK call : call = running[r]
      OBVIOUS
    <3>2. PayCall(call)'
      BY <2>1, <2>3, <3>1 DEF PayAlone
    <3> QED BY <2>2, <3>1, <3>2 DEF PayCall, BillCall, PaymentCall, ProposalCall
  <2> QED BY <2>1, <2>2, <2>3 DEF PayAlone, PurseStays, PayStays
<1> QED BY <1>1, <1>2, BillsFit, PaymentsFit, ProposalsFit DEF PayablesStep

LEMMA PurseAlways == PayablesSpec => []PayAlone
<1>1. PayInv /\ PayAlone /\ PayInv' /\ [PayablesStep]_apVars => PayAlone'
  BY PurseInductive DEF PayStays
<1> QED BY <1>1, Always, PurseInitially, PTL DEF PayablesSpec

(* One request at a time, whatever was edited, rejected and resubmitted:   *)
(* the proposals that wait or are approved hold no more of a bill than its *)
(* total (computeReservedByInvoiceId and the checks around it).            *)
THEOREM ReservationsFit == PayablesSpec => []ReservedWithinBill
<1>1. PayInv /\ PayAlone => ReservedWithinBill
  <2> SUFFICES ASSUME PayInv, PayAlone, ~overlap, NEW b \in Bills
               PROVE  SumFunctionOnSet([p \in Proposals |-> proposals[p].lines[b]],
                        {p \in Proposals : proposals[p].status \in {"SUBMITTED", "APPROVED"}})
                          <= bills[b].total
    BY DEF ReservedWithinBill
  <2>1. Held(b) \in Nat /\ Held(b) <= BillLimit(b) /\ bills[b].total \in Nat
    BY HeldInNat DEF PayInv, TableInv, PayAlone, Purse, BillRow
  <2>2. Held(b) <= bills[b].total
    BY <2>1 DEF BillLimit
  <2> QED BY <2>2 DEF Held, Holding
<1> QED BY <1>1, Always, PurseAlways, PTL

(* One request at a time, bills and payments agree with the ledger         *)
(* whatever was edited, rejected and posted again, and wherever a handler  *)
(* stopped: a POSTED one has one journal and one more for each attempt     *)
(* that was not marked, none is posted before the approval, and all of     *)
(* them say what was approved (postInvoice of ap.service.ts, postPayment). *)
THEOREM PayablesMatchJournals == PayablesSpec => []PayablesAgree
<1>1. PayAlone => PayablesAgree
  BY DEF PayAlone, Purse, PayablesAgree
<1> QED BY <1>1, PurseAlways, PTL

(* One request at a time, proposals implement Drawings on the totals of    *)
(* POSTED bills: a submission takes only what all the others leave of each *)
(* bill, an approval changes nothing of it, a rejection gives it back, and *)
(* no total changes while anything is drawn on it.                         *)
THEOREM ProposalsImplementDrawings == PayablesSpec => ProposalsDraw
<1>1. PayablesInit => OnBills!Init
  <2>1. ASSUME PayablesInit PROVE OnBills!Init
    <3>1. Granted = [b \in Bills |-> 0]
      BY <2>1 DEF PayablesInit, Granted, NoBill
    <3>2. Reservations = [p \in Proposals |-> NoAllocation]
      BY <2>1 DEF PayablesInit, Reservations, NoProposal
    <3> QED BY <3>1, <3>2 DEF OnBills!Init, OnBills!Nothing, NoAllocation
  <2> QED BY <2>1
<1>2. PayInv /\ PayAlone /\ PayInv' /\ [PayablesStep]_apVars
        => [~overlap => OnBills!Next]_<<Granted, Reservations>>
  BY PurseInductive DEF PayStays, Drawing
<1> QED BY <1>1, <1>2, Always, PurseAlways, PTL DEF PayablesSpec, ProposalsDraw

-----------------------------------------------------------------------------
(* The chart of accounts, one request at a time: what a request has read   *)
(* still holds when it writes.                                             *)

Dated(from, to) == from \in Nat /\ to \in Nat \cup {None}

Before(v, w) == windows[v].to # None /\ windows[v].to < windows[w].from

ChangeStatuses == {"NONE", "DRAFT", "SUBMITTED", "APPROVED", "REJECTED", "IMPLEMENTED"}
ChangeRow ==
  [status : ChangeStatuses, by : Users \cup {None}, proposal : Moves \cup {None}]

(* The tables, with the windows apart.                                     *)
ChartIsTable == chart = [a \in LedgerAccounts |-> chart[a]]

ChangesTyped ==
  /\ changes \in [ChangeRequests -> ChangeRow]
  /\ \A c \in ChangeRequests : changes[c].status # "NONE" => changes[c].proposal \in Moves

WindowsLie ==
  /\ windows = [w \in Windows |-> windows[w]]
  /\ \A w \in Windows :
       windows[w].account # None => Dated(windows[w].from, windows[w].to)
  /\ \A v, w \in Windows :
       v # w /\ windows[v].account # None
         /\ windows[v].account = windows[w].account /\ windows[v].type = windows[w].type =>
       Before(v, w) \/ Before(w, v)

ChartRows == ChartIsTable /\ ChangesTyped /\ WindowsLie

(* The ancestors seen so far of the parent to come, none of them a; the    *)
(* next one is at.                                                         *)
Walked(a, saw) ==
  /\ saw.seen \subseteq Known /\ a \notin saw.seen
  /\ \A b \in saw.seen : chart[b].parent \in saw.seen \cup {saw.at}
  /\ saw.change = None =>
       /\ saw.to.parent # None =>
            saw.to.parent \in saw.seen \cup {saw.at} /\ ValidParent(saw.to.parent)
       /\ saw.to.next = IF saw.to.posting = None THEN chart[a].posting ELSE saw.to.posting
  /\ saw.change # None =>
       saw.change \in ChangeRequests /\ saw.to \in Moves /\ changes[saw.change].proposal \in Moves

(* What the reads of a request promise its write.                          *)
ChartCall(call) ==
  LET saw == call.saw IN
  /\ call.step = "insert" =>
       \A a \in DOMAIN saw :
         saw[a].used /\ (saw[a].parent # None => ValidParent(saw[a].parent))
  /\ call.step = "walk" => Walked(call.doc, saw)
  /\ call.step = "update" =>
       /\ Walked(call.doc, saw)
       /\ saw.at = None /\ saw.change = None
       /\ saw.to.next => Children(call.doc) = {}
  /\ call.step = "delete" => saw \subseteq Known /\ \A a \in saw : Children(a) = {}
  /\ call.step = "edit" => saw \in Moves /\ call.doc \in ChangeRequests
  /\ call.step = "mark" =>
       saw \in ChangeStatuses /\ call.doc \in ChangeRequests /\ changes[call.doc].proposal \in Moves
  /\ call.step = "open" =>
       /\ saw.change \in ChangeRequests /\ saw.to \in Moves
       /\ \A w \in Windows : ~InTheWay(w, saw.to)
       /\ changes[saw.change].proposal \in Moves

ChartInv ==
  /\ HandlersInv
  /\ ~overlap => ChartRows /\ \A r \in Requests : ChartCall(running[r])

LEMMA ChartSteps ==
  ASSUME HandlersInv', ~overlap, NEW r \in Requests, NEW call, Only(r, call),
         \A q \in Requests \ {r} : running[q] = Idle,
         ChartRows', ChartCall(call)'
  PROVE  ChartInv'
<1>1. \A q \in Requests : running'[q] = Idle \/ running'[q] = call
  BY DEF Only
<1>2. ChartCall(Idle)'
  BY IdleStep DEF ChartCall
<1>3. ASSUME NEW q \in Requests PROVE ChartCall(running[q])'
  <2>1. \A c : ChartCall(c)' /\ running'[q] = c => ChartCall(running[q])'
    BY DEF ChartCall
  <2> QED BY <1>1, <1>2, <2>1
<1> QED BY <1>3 DEF ChartInv, Only

LEMMA ChartKept ==
  ASSUME UNCHANGED chartTables
  PROVE  /\ ChartRows' <=> ChartRows
         /\ \A call : ChartCall(call)' <=> ChartCall(call)
BY DEF chartTables, ChartRows, ChartIsTable, ChangesTyped, WindowsLie, ChartCall, Before, Walked, Known, Children, ValidParent, InTheWay,
       EndsAfterStart

(* A request begins, or goes on, with what it has just read.               *)
LEMMA ChartReads ==
  ASSUME ChartInv, UNCHANGED chartTables, NEW r \in Requests, NEW call,
         HandlersInv', Only(r, call),
         running[r] # Idle \/ (~overlap => Quiet),
         ~overlap => ChartCall(call)
  PROVE  ChartInv'
<1>1. CASE overlap
  BY <1>1 DEF ChartInv, Only
<1>2. CASE ~overlap
  <2>1. \A q \in Requests \ {r} : running[q] = Idle
    BY <1>2, Alone DEF ChartInv
  <2>2. ChartRows
    BY <1>2 DEF ChartInv
  <2> QED BY <1>2, <2>1, <2>2, ChartKept, ChartSteps
<1> QED BY <1>1, <1>2

LEMMA ChartWrites ==
  ASSUME ChartInv, NEW r \in Requests, NEW call, HandlersInv', Only(r, call),
         running[r] # Idle,
         ~overlap => ChartRows' /\ ChartCall(call)'
  PROVE  ChartInv'
<1>1. CASE overlap
  BY <1>1 DEF ChartInv, Only
<1>2. CASE ~overlap
  <2>1. \A q \in Requests \ {r} : running[q] = Idle
    BY <1>2, Alone DEF ChartInv
  <2> QED BY <1>2, <2>1, ChartSteps
<1> QED BY <1>1, <1>2

(* A statement of its own.                                                 *)
LEMMA ChartAtOnce ==
  ASSUME ChartInv, NEW r \in Requests, AtOnce(r), ~overlap => ChartRows'
  PROVE  ChartInv'
<1>1. HandlersInv' /\ (\A q \in Requests : running'[q] = running[q]) /\ overlap' = overlap
  BY StaysPut DEF ChartInv, AtOnce
<1>2. ~overlap => \A q \in Requests : running[q] = Idle
  BY DEF AtOnce, Quiet
<1>3. ChartCall(Idle)'
  BY IdleStep DEF ChartCall
<1>4. ASSUME ~overlap, NEW q \in Requests PROVE ChartCall(running[q])'
  <2>1. \A c : ChartCall(c)' /\ running'[q] = c => ChartCall(running[q])'
    BY DEF ChartCall
  <2> QED BY <1>1, <1>2, <1>3, <1>4, <2>1
<1> QED BY <1>1, <1>4 DEF ChartInv

LEMMA ChartInitially == ChartInit /\ HandlersInit => ChartInv
<1> SUFFICES ASSUME ChartInit, HandlersInit PROVE ChartInv
  OBVIOUS
<1>1. HandlersInv /\ \A r \in Requests : running[r] = Idle
  BY InitiallyIdle
<1>2. \A r \in Requests : ChartCall(running[r])
  BY <1>1, IdleStep DEF ChartCall
<1>3. ChartIsTable
  BY DEF ChartInit, ChartIsTable
<1>4. ChangesTyped
  BY DEF ChartInit, ChangesTyped, ChangeRow, ChangeStatuses, NoChange
<1>5. WindowsLie
  BY DEF ChartInit, WindowsLie, NoWindow
<1> QED BY <1>1, <1>2, <1>3, <1>4, <1>5 DEF ChartInv, ChartRows

(* The tables are written one by one.                                      *)
LEMMA WindowsSame ==
  ASSUME windows' = windows
  PROVE  WindowsLie' <=> WindowsLie
BY DEF WindowsLie, Before

LEMMA ChartWritten ==
  ASSUME ChartRows, ChartIsTable', UNCHANGED <<changes, windows>>
  PROVE  ChartRows'
BY WindowsSame DEF ChartRows, ChangesTyped

LEMMA ChangeWritten ==
  ASSUME ChartRows, NEW c \in ChangeRequests, NEW row \in ChangeRow, row.proposal \in Moves,
         changes' = [changes EXCEPT ![c] = row]
  PROVE  ChangesTyped'
BY DEF ChartRows, ChangesTyped

LEMMA ChangeMarked ==
  ASSUME ChartRows, NEW c \in ChangeRequests, NEW status \in ChangeStatuses,
         changes[c].proposal \in Moves,
         changes' = [changes EXCEPT ![c] = [changes[c] EXCEPT !.status = status]]
  PROVE  ChangesTyped'
<1>1. PICK row : row = [changes[c] EXCEPT !.status = status]
  OBVIOUS
<1>2. row \in ChangeRow /\ row.proposal \in Moves
  BY <1>1 DEF ChartRows, ChangesTyped, ChangeRow
<1> QED BY <1>1, <1>2, ChangeWritten

LEMMA ChartInductive == ChartInv /\ [ChartStep]_chartVars => ChartInv'
<1> SUFFICES ASSUME ChartInv, [ChartStep]_chartVars PROVE ChartInv'
  OBVIOUS
<1>i. HandlersInv
  BY DEF ChartInv
<1>a. ASSUME NEW r \in Requests, NEW a \in LedgerAccounts, NEW parent \in LedgerAccounts \cup {None},
             NEW posting, CreateAccount(r, a, parent, posting)
      PROVE  ChartInv'
  <2> DEFINE rows == [b \in {a} |-> Account(parent, posting)]
  <2>1. HandlersInv' /\ Only(r, Call("insert", None, None, rows)) /\ (~overlap => Quiet)
    BY <1>a, <1>i, Begins DEF CreateAccount
  <2>2. ChartCall(Call("insert", None, None, rows))
    BY <1>a DEF CreateAccount, ChartCall, Call, Account
  <2>3. UNCHANGED chartTables
    BY <1>a DEF CreateAccount
  <2> HIDE DEF rows
  <2> QED BY <2>1, <2>2, <2>3, ChartReads
<1>b. ASSUME NEW r \in Requests, NEW new \in SUBSET LedgerAccounts, SetupTaxControlAccounts(r, new)
      PROVE  ChartInv'
  <2> DEFINE rows == [a \in new |-> Account(None, TRUE)]
  <2>1. HandlersInv' /\ Only(r, Call("insert", None, None, rows)) /\ (~overlap => Quiet)
    BY <1>b, <1>i, Begins DEF SetupTaxControlAccounts
  <2>2. ChartCall(Call("insert", None, None, rows))
    BY <1>b DEF SetupTaxControlAccounts, ChartCall, Call, Account
  <2>3. UNCHANGED chartTables
    BY <1>b DEF SetupTaxControlAccounts
  <2> HIDE DEF rows
  <2> QED BY <2>1, <2>2, <2>3, ChartReads
<1>c. ASSUME NEW r \in Requests, NEW new \in SUBSET LedgerAccounts, NEW parent \in LedgerAccounts,
             CommitImport(r, new, parent)
      PROVE  ChartInv'
  <2> DEFINE rows == [a \in new |-> Account(parent, TRUE)]
  <2>1. HandlersInv' /\ Only(r, Call("insert", None, None, rows)) /\ (~overlap => Quiet)
    BY <1>c, <1>i, Begins DEF CommitImport
  <2>2. ChartCall(Call("insert", None, None, rows))
    BY <1>c DEF CommitImport, ChartCall, Call, Account
  <2>3. UNCHANGED chartTables
    BY <1>c DEF CommitImport
  <2> HIDE DEF rows
  <2> QED BY <2>1, <2>2, <2>3, ChartReads
<1>d. ASSUME NEW r \in Requests, NEW new \in SUBSET LedgerAccounts, ImportCanonical(r, new)
      PROVE  ChartInv'
  <2>1. HandlersInv' /\ Only(r, Call("import", None, None, new)) /\ (~overlap => Quiet)
    BY <1>d, <1>i, Begins DEF ImportCanonical
  <2>2. ChartCall(Call("import", None, None, new))
    BY DEF ChartCall, Call
  <2>3. UNCHANGED chartTables
    BY <1>d DEF ImportCanonical
  <2> QED BY <2>1, <2>2, <2>3, ChartReads
<1>e. ASSUME NEW r \in Requests, NEW a \in LedgerAccounts, NEW parent \in LedgerAccounts \cup {None},
             NEW posting, UpdateAccount(r, a, parent, posting)
      PROVE  ChartInv'
  <2> DEFINE to == [parent |-> parent, posting |-> posting,
                    next |-> IF posting = None THEN chart[a].posting ELSE posting]
             call == Call("walk", a, None, Walker(parent, {}, to, None))
  <2>1. HandlersInv' /\ Only(r, call) /\ (~overlap => Quiet)
    BY <1>e, <1>i, Begins DEF UpdateAccount
  <2>2. ChartCall(call)
    BY <1>e DEF UpdateAccount, ChartCall, Call, Walker, Walked
  <2>3. UNCHANGED chartTables
    BY <1>e DEF UpdateAccount
  <2> HIDE DEF call
  <2> QED BY <2>1, <2>2, <2>3, ChartReads
<1>f. ASSUME NEW r \in Requests, NEW some \in SUBSET Known, CleanupNonCanonical(r, some)
      PROVE  ChartInv'
  <2>1. HandlersInv' /\ Only(r, Call("delete", None, None, some)) /\ (~overlap => Quiet)
    BY <1>f, <1>i, Begins DEF CleanupNonCanonical
  <2>2. ChartCall(Call("delete", None, None, some))
    BY <1>f DEF CleanupNonCanonical, ChartCall, Call
  <2>3. UNCHANGED chartTables
    BY <1>f DEF CleanupNonCanonical
  <2> QED BY <2>1, <2>2, <2>3, ChartReads
<1>g. ASSUME NEW r \in Requests, NEW which, NEW on, Switch(r, which, on)
      PROVE  ChartInv'
  <2>1. AtOnce(r) /\ UNCHANGED <<chart, changes, windows>>
    BY <1>g DEF Switch
  <2>2. ChartRows => ChartRows'
    BY <2>1, ChartWritten DEF ChartRows, ChartIsTable
  <2> QED BY <2>1, <2>2, ChartAtOnce DEF ChartInv
<1>h. ASSUME NEW r \in Requests, NEW by, NEW c, NEW a, NEW parent,
             CreateReclassification(r, by, c, a, parent)
      PROVE  ChartInv'
  <2>1. AtOnce(r) /\ UNCHANGED <<chart, changes, windows>>
    BY <1>h DEF CreateReclassification, OnlyReclassification
  <2>2. ChartRows => ChartRows'
    BY <2>1, ChartWritten DEF ChartRows, ChartIsTable
  <2> QED BY <2>1, <2>2, ChartAtOnce DEF ChartInv
<1>j. ASSUME NEW r \in Requests, NEW by, NEW c,
             \/ SubmitReclassification(r, by, c)
             \/ \E step \in {"move", "reject"} : DecideReclassification(r, by, c, step)
      PROVE  ChartInv'
  <2>1. PICK step \in {"pend", "move", "reject"} :
          Begin(r, step, c, by, None) /\ UNCHANGED chartTables
    BY <1>j DEF SubmitReclassification, DecideReclassification
  <2>2. HandlersInv' /\ Only(r, Call(step, c, by, None)) /\ (~overlap => Quiet)
    BY <2>1, <1>i, Begins
  <2>3. ChartCall(Call(step, c, by, None))
    BY DEF ChartCall, Call
  <2> QED BY <2>1, <2>2, <2>3, ChartReads
<1>k. ASSUME NEW r \in Requests, NEW by \in Users, NEW c \in ChangeRequests, NEW proposal \in Moves,
             CreateChange(r, by, c, proposal)
      PROVE  ChartInv'
  <2>1. AtOnce(r) /\ UNCHANGED <<chart, windows>>
        /\ changes' = [changes EXCEPT ![c] = [status |-> "DRAFT", by |-> by, proposal |-> proposal]]
    BY <1>k DEF CreateChange, OnlyChange
  <2>3. PICK row \in ChangeRow :
          /\ row.proposal \in Moves /\ changes' = [changes EXCEPT ![c] = row]
    BY <2>1 DEF ChangeRow, ChangeStatuses
  <2>2. ChartRows => ChartRows'
    BY <2>1, <2>3, ChangeWritten, WindowsSame DEF ChartRows, ChartIsTable
  <2> QED BY <2>1, <2>2, ChartAtOnce DEF ChartInv
<1>l. ASSUME NEW r \in Requests, NEW by \in Users, NEW c \in ChangeRequests, NEW proposal \in Moves,
             EditChange(r, by, c, proposal)
      PROVE  ChartInv'
  <2>1. HandlersInv' /\ Only(r, Call("edit", c, by, proposal)) /\ (~overlap => Quiet)
    BY <1>l, <1>i, Begins DEF EditChange
  <2>2. ChartCall(Call("edit", c, by, proposal))
    BY DEF ChartCall, Call
  <2>3. UNCHANGED chartTables
    BY <1>l DEF EditChange
  <2> QED BY <2>1, <2>2, <2>3, ChartReads
<1>m. ASSUME NEW r \in Requests, NEW by \in Users, NEW c \in ChangeRequests,
             \/ SubmitChange(r, by, c)
             \/ \E decision \in {"APPROVED", "REJECTED"} : DecideChange(r, by, c, decision)
      PROVE  ChartInv'
  <2>1. PICK decision \in {"SUBMITTED", "APPROVED", "REJECTED"} :
          /\ changes[c].status # "NONE" /\ decision \in ChangeStatuses
          /\ Begin(r, "mark", c, by, decision)
          /\ UNCHANGED chartTables
    BY <1>m DEF SubmitChange, DecideChange, ChangeStatuses
  <2>2. HandlersInv' /\ Only(r, Call("mark", c, by, decision)) /\ (~overlap => Quiet)
    BY <2>1, <1>i, Begins
  <2>3. ~overlap => ChartCall(Call("mark", c, by, decision))
    BY <2>1 DEF ChartInv, ChartRows, ChangesTyped, ChartCall, Call
  <2> QED BY <2>1, <2>2, <2>3, ChartReads
<1>n. ASSUME NEW r \in Requests, NEW by \in Users, NEW c \in ChangeRequests, Implement(r, by, c)
      PROVE  ChartInv'
  <2> DEFINE p == changes[c].proposal
             call == Call("walk", p.account, by,
                          Walker(IF p.type = "HIERARCHY" THEN p.parent ELSE None, {}, p, c))
  <2>1. HandlersInv' /\ Only(r, call) /\ (~overlap => Quiet)
    BY <1>n, <1>i, Begins DEF Implement
  <2>2. ~overlap => ChartCall(call)
    BY <1>n, ChartAssumption DEF Implement, ChartInv, ChartRows, ChangesTyped, ChartCall, Call, Walker, Walked
  <2>3. UNCHANGED chartTables
    BY <1>n DEF Implement
  <2> HIDE DEF call
  <2> QED BY <2>1, <2>2, <2>3, ChartReads
<1>o. ASSUME NEW r \in Requests, running[r] # Idle, Finish(r), UNCHANGED chartTables PROVE ChartInv'
  <2>1. HandlersInv' /\ Only(r, Idle)
    BY <1>o, <1>i, Finishes
  <2>2. ChartCall(Idle)
    BY IdleStep DEF ChartCall
  <2>3. \A call : call = Idle => HandlersInv' /\ Only(r, call) /\ ChartCall(call)
    BY <2>1, <2>2
  <2> QED BY <2>3, <1>o, ChartReads
<1>p. ASSUME NEW r \in Requests, NEW step \in {"ask", "rejected"},
             running[r] # Idle,
             Goto(r, step, None) \/ Finish(r),
             ~overlap => ChartIsTable',
             UNCHANGED <<changes, windows>>
      PROVE  ChartInv'
  <2> DEFINE next == Call(step, running[r].doc, running[r].by, None)
  <2>1. HandlersInv' /\ (Only(r, next) \/ Only(r, Idle))
    BY <1>p, <1>i, Goes, Finishes
  <2>2. PICK call : Only(r, call) /\ call.step \in {"ask", "rejected", "idle"}
    BY <2>1, IdleStep DEF Call
  <2>4. ChartCall(call)'
    BY <2>2 DEF ChartCall
  <2>5. ~overlap => ChartRows'
    BY <1>p, ChartWritten DEF ChartInv
  <2> QED BY <1>p, <2>1, <2>2, <2>4, <2>5, ChartWrites
<1>q. ASSUME NEW r \in Requests, Walk(r) PROVE ChartInv'
  <2> DEFINE saw == Carried(r)
             more == Walker(chart[saw.at].parent, saw.seen \cup {saw.at}, saw.to, saw.change)
             call == Call("walk", Doc(r), running[r].by, more)
  <2>1. At(r, "walk") /\ UNCHANGED chartTables /\ running[r] # Idle
    BY <1>q, Busy DEF Walk
  <2>2. CASE Circular(saw, Doc(r)) \/ saw.at \notin Known
    BY <2>1, <2>2, <1>q, <1>o DEF Walk
  <2>3. CASE ~(Circular(saw, Doc(r)) \/ saw.at \notin Known)
    <3>1. Goto(r, "walk", more)
      BY <1>q, <2>3 DEF Walk
    <3>2. HandlersInv' /\ Only(r, call)
      BY <3>1, <2>1, <1>i, Goes DEF Doc
    <3>3. ~overlap => ChartCall(call)
      <4> SUFFICES ASSUME ~overlap PROVE Walked(Doc(r), more)
        BY DEF ChartCall, Call
      <4>1. Walked(Doc(r), saw)
        BY <2>1 DEF ChartInv, ChartCall, At, Doc, Carried
      <4>2. /\ more.at = chart[saw.at].parent /\ more.seen = saw.seen \cup {saw.at}
            /\ more.to = saw.to /\ more.change = saw.change
        BY DEF Walker
      <4> HIDE DEF more
      <4> QED BY <2>3, <4>1, <4>2 DEF Walked, Circular
    <3> HIDE DEF call
    <3> QED BY <2>1, <3>2, <3>3, ChartReads
  <2> QED BY <2>2, <2>3
<1>s. ASSUME NEW r \in Requests, CheckChildren(r) PROVE ChartInv'
  <2> DEFINE saw == Carried(r)
             call == Call("update", Doc(r), running[r].by, saw)
  <2>1. /\ At(r, "walk") /\ saw.at = None /\ saw.change = None
        /\ UNCHANGED chartTables /\ running[r] # Idle
    BY <1>s, Busy DEF CheckChildren
  <2>2. CASE saw.to.next /\ Children(Doc(r)) # {}
    BY <2>1, <2>2, <1>s, <1>o DEF CheckChildren
  <2>3. CASE ~(saw.to.next /\ Children(Doc(r)) # {})
    <3>1. Goto(r, "update", saw)
      BY <1>s, <2>3 DEF CheckChildren
    <3>2. HandlersInv' /\ Only(r, call)
      BY <3>1, <2>1, <1>i, Goes DEF Doc
    <3>3. ~overlap => ChartCall(call)
      <4> SUFFICES ASSUME ~overlap PROVE ChartCall(call)
        OBVIOUS
      <4>1. Walked(Doc(r), saw)
        BY <2>1 DEF ChartInv, ChartCall, At, Doc, Carried
      <4> HIDE DEF saw
      <4> QED BY <2>1, <2>3, <4>1 DEF ChartCall, Call
    <3> HIDE DEF call
    <3> QED BY <2>1, <3>2, <3>3, ChartReads
  <2> QED BY <2>2, <2>3
<1>t. ASSUME NEW r \in Requests, CheckWindows(r) PROVE ChartInv'
  <2> DEFINE saw == Carried(r)
             call == Call("open", Doc(r), running[r].by, saw)
  <2>1. /\ At(r, "walk") /\ saw.at = None /\ saw.change # None
        /\ UNCHANGED chartTables /\ running[r] # Idle
    BY <1>t, Busy DEF CheckWindows
  <2>2. CASE \E w \in Windows : InTheWay(w, saw.to)
    BY <2>1, <2>2, <1>t, <1>o DEF CheckWindows
  <2>3. CASE ~\E w \in Windows : InTheWay(w, saw.to)
    <3>1. Goto(r, "open", saw)
      BY <1>t, <2>3 DEF CheckWindows
    <3>2. HandlersInv' /\ Only(r, call)
      BY <3>1, <2>1, <1>i, Goes DEF Doc
    <3>3. ~overlap => ChartCall(call)
      <4> SUFFICES ASSUME ~overlap PROVE ChartCall(call)
        OBVIOUS
      <4>1. Walked(Doc(r), saw)
        BY <2>1 DEF ChartInv, ChartCall, At, Doc, Carried
      <4> HIDE DEF saw
      <4> QED BY <2>1, <2>3, <4>1 DEF ChartCall, Call, Walked
    <3> HIDE DEF call
    <3> QED BY <2>1, <3>2, <3>3, ChartReads
  <2> QED BY <2>2, <2>3
<1>u. ASSUME NEW r \in Requests, running[r] # Idle, Finish(r), ~overlap => ChartRows' PROVE ChartInv'
  <2>1. HandlersInv' /\ Only(r, Idle)
    BY <1>u, <1>i, Finishes
  <2>2. ChartCall(Idle)'
    BY IdleStep DEF ChartCall
  <2> QED BY <2>1, <2>2, <1>u, ChartWrites
<1>v. ASSUME NEW r \in Requests, InsertAccounts(r) \/ ImportRows(r) \/ WriteAccount(r)
      PROVE  ChartInv'
  <2>1. running[r] # Idle
    BY <1>v, Busy DEF InsertAccounts, ImportRows, WriteAccount
  <2>2. Finish(r) /\ UNCHANGED <<changes, windows>>
    BY <1>v DEF InsertAccounts, ImportRows, WriteAccount, OnlyChart
  <2>3. ChartIsTable => ChartIsTable'
    BY <1>v DEF InsertAccounts, ImportRows, WriteAccount, OnlyChart, ChartIsTable
  <2>4. ~overlap => ChartRows'
    BY <2>2, <2>3, ChartWritten DEF ChartInv, ChartRows
  <2> QED BY <2>1, <2>2, <2>4, <1>u
<1>w. ASSUME NEW r \in Requests, DeleteAccounts(r) PROVE ChartInv'
  <2>1. running[r] # Idle /\ Finish(r)
    BY <1>w, Busy DEF DeleteAccounts
  <2>2. CASE UNCHANGED chartTables
    BY <2>1, <2>2, <1>o
  <2>3. CASE ~UNCHANGED chartTables
    <3> SUFFICES ASSUME ~overlap PROVE ChartRows'
      BY <2>1, <1>u
    <3>1. /\ changes' = changes
          /\ ChartIsTable'
          /\ windows' = [w \in Windows |->
               IF windows[w].account \in Carried(r) THEN NoWindow ELSE windows[w]]
      BY <1>w, <2>3 DEF DeleteAccounts, ChartIsTable
    <3>2. ChangesTyped'
      BY <3>1 DEF ChartInv, ChartRows, ChangesTyped
    <3>3. \A w \in Windows : windows'[w].account # None => windows'[w] = windows[w]
      BY <3>1 DEF NoWindow
    <3>4. WindowsLie'
      <4>1. WindowsLie
        BY DEF ChartInv, ChartRows
      <4> QED BY <3>1, <3>3, <4>1 DEF WindowsLie, Before
    <3> QED BY <3>1, <3>2, <3>4 DEF ChartRows
  <2> QED BY <2>2, <2>3
<1>x. ASSUME NEW r \in Requests, MoveByReclassification(r) PROVE ChartInv'
  <2>1. running[r] # Idle /\ Finish(r) /\ UNCHANGED <<changes, windows>>
    BY <1>x, Busy DEF MoveByReclassification, chartTables
  <2>2. ChartIsTable => ChartIsTable'
    BY <1>x DEF MoveByReclassification, chartTables, ChartIsTable
  <2>3. ~overlap => ChartRows'
    BY <2>1, <2>2, ChartWritten DEF ChartInv, ChartRows
  <2> QED BY <2>1, <2>3, <1>u
<1>y. ASSUME NEW r \in Requests,
             Pend(r) \/ AskApproval(r) \/ RejectTheRequest(r) \/ RejectTheRow(r)
      PROVE  ChartInv'
  <2>1. running[r] # Idle
    BY <1>y, Busy DEF Pend, AskApproval, RejectTheRequest, RejectTheRow
  <2>2. UNCHANGED <<chart, changes, windows>>
    BY <1>y DEF Pend, AskApproval, RejectTheRequest, RejectTheRow, OnlyReclassification
  <2>3. \E step \in {"ask", "rejected"} : Goto(r, step, None) \/ Finish(r)
    BY <1>y DEF Pend, AskApproval, RejectTheRequest, RejectTheRow
  <2>4. ~overlap => ChartIsTable'
    BY <2>2 DEF ChartInv, ChartRows, ChartIsTable
  <2> QED BY <2>1, <2>2, <2>3, <2>4, <1>p
<1>z. ASSUME NEW r \in Requests, RewriteChange(r) \/ MarkChange(r) PROVE ChartInv'
  <2>1. running[r] # Idle /\ Finish(r) /\ UNCHANGED <<chart, windows>>
    BY <1>z, Busy DEF RewriteChange, MarkChange, OnlyChange
  <2> SUFFICES ASSUME ~overlap PROVE ChartRows'
    BY <2>1, <1>u
  <2>2. ChartRows /\ ChartCall(running[r])
    BY DEF ChartInv
  <2>3. ChartIsTable' /\ WindowsLie'
    BY <2>1, <2>2, WindowsSame DEF ChartRows, ChartIsTable
  <2>4. ChangesTyped'
    <3>1. CASE RewriteChange(r)
      <4>1. Doc(r) \in ChangeRequests /\ Carried(r) \in Moves
        BY <3>1, <2>2 DEF RewriteChange, At, ChartCall, Doc, Carried
      <4>2. PICK row : row = [changes[Doc(r)] EXCEPT !.proposal = Carried(r)]
        OBVIOUS
      <4>3. row \in ChangeRow /\ row.proposal \in Moves
        BY <2>2, <4>1, <4>2 DEF ChartRows, ChangesTyped, ChangeRow
      <4>4. changes' = [changes EXCEPT ![Doc(r)] = row]
        BY <3>1, <4>2 DEF RewriteChange, OnlyChange
      <4> QED BY <2>2, <4>1, <4>3, <4>4, ChangeWritten
    <3>2. CASE MarkChange(r)
      <4>1. /\ Doc(r) \in ChangeRequests /\ Carried(r) \in ChangeStatuses
            /\ changes[Doc(r)].proposal \in Moves
        BY <3>2, <2>2 DEF MarkChange, At, ChartCall, Doc, Carried
      <4>2. changes' = [changes EXCEPT ![Doc(r)] = [changes[Doc(r)] EXCEPT !.status = Carried(r)]]
        BY <3>2 DEF MarkChange, OnlyChange
      <4> QED BY <2>2, <4>1, <4>2, ChangeMarked
    <3> QED BY <1>z, <3>1, <3>2
  <2> QED BY <2>3, <2>4 DEF ChartRows
<1>0. ASSUME NEW r \in Requests, OpenWindow(r) PROVE ChartInv'
  <2> DEFINE p == Carried(r).to
             c == Carried(r).change
  <2>1. running[r] # Idle /\ Finish(r) /\ chart' = chart /\ At(r, "open")
        /\ changes' = [changes EXCEPT ![c] = [changes[c] EXCEPT !.status = "IMPLEMENTED"]]
    BY <1>0, Busy DEF OpenWindow
  <2> SUFFICES ASSUME ~overlap PROVE ChartRows'
    BY <2>1, <1>u
  <2>2. ChartRows /\ ChartCall(running[r])
    BY DEF ChartInv
  <2>3. /\ c \in ChangeRequests /\ p \in Moves /\ changes[c].proposal \in Moves
        /\ \A w \in Windows : ~InTheWay(w, p)
    BY <2>1, <2>2 DEF At, ChartCall, Carried
  <2>4. ChartIsTable'
    BY <2>1, <2>2 DEF ChartRows, ChartIsTable
  <2>5. ChangesTyped'
    BY <2>1, <2>2, <2>3, ChangeMarked DEF ChangeStatuses
  <2>6. PICK n \in Windows : \E parents :
          windows' = [windows EXCEPT ![n] =
            [account |-> p.account, type |-> p.type, parents |-> parents,
             from |-> p.from, to |-> p.to]]
    BY <1>0 DEF OpenWindow
  <2>7. WindowsLie'
    <3>1. Dated(p.from, p.to)
      BY <2>3, ChartAssumption DEF Move, Dated
    <3>2. WindowsLie
      BY <2>2 DEF ChartRows
    <3> HIDE DEF p
    <3>3. /\ windows' = [w \in Windows |-> windows'[w]]
          /\ \A w \in Windows \ {n} : windows'[w] = windows[w]
          /\ windows'[n].account = p.account /\ windows'[n].type = p.type
          /\ windows'[n].from = p.from /\ windows'[n].to = p.to
      BY <2>6, <3>2 DEF WindowsLie
    <3>4. ASSUME NEW w \in Windows \ {n}, windows[w].account # None,
                 windows[w].account = p.account, windows[w].type = p.type
          PROVE  Before(n, w)' \/ Before(w, n)'
      <4>1. ~InTheWay(w, p) /\ Dated(windows[w].from, windows[w].to)
        BY <2>3, <3>2, <3>4 DEF WindowsLie
      <4> QED BY <3>1, <3>3, <3>4, <4>1, ChartAssumption DEF InTheWay, EndsAfterStart, Before, Dated
    <3>5. ASSUME NEW v \in Windows \ {n}, NEW w \in Windows \ {n}, v # w, windows[v].account # None,
                 windows[v].account = windows[w].account, windows[v].type = windows[w].type
          PROVE  Before(v, w)' \/ Before(w, v)'
      BY <3>2, <3>3, <3>5 DEF WindowsLie, Before
    <3> QED BY <3>1, <3>2, <3>3, <3>4, <3>5 DEF WindowsLie
  <2> QED BY <2>4, <2>5, <2>7 DEF ChartRows
<1>1. CASE UNCHANGED chartVars
  <2>1. UNCHANGED chartTables /\ UNCHANGED handlerVars
    BY <1>1 DEF chartVars
  <2>2. HandlersInv' /\ overlap' = overlap /\ \A r \in Requests : running'[r] = running[r]
    BY <2>1, <1>i, StaysPut
  <2>3. ASSUME ~overlap, NEW r \in Requests PROVE ChartCall(running[r])'
    <3>1. \A d : d = running'[r] /\ ChartCall(d)' => ChartCall(running[r])'
      BY DEF ChartCall
    <3> QED BY <2>1, <2>2, <2>3, <3>1, ChartKept DEF ChartInv
  <2> QED BY <2>1, <2>2, <2>3, ChartKept DEF ChartInv
<1>2. ASSUME NEW r \in Requests, BeginChart(r) PROVE ChartInv'
  BY <1>2, <1>a, <1>b, <1>c, <1>d, <1>e, <1>f, <1>g, <1>h, <1>j, <1>k, <1>l, <1>m, <1>n DEF BeginChart
<1>3. ASSUME NEW r \in Requests, ContinueChart(r) PROVE ChartInv'
  <2>1. CASE HierarchyChangeTimesOut(r)
    BY <2>1, <1>o, Busy DEF HierarchyChangeTimesOut
  <2> QED BY <1>3, <2>1, <1>q, <1>s, <1>t, <1>v, <1>w, <1>x, <1>y, <1>z, <1>0 DEF ContinueChart
<1>4. ASSUME NEW r \in Requests, Fail(r), UNCHANGED chartTables PROVE ChartInv'
  BY <1>4, <1>o DEF Fail
<1> QED BY <1>1, <1>2, <1>3, <1>4 DEF ChartStep

(* New accounts under parents that exist keep a tree a tree.               *)
LEMMA AccountsAdded ==
  ASSUME NEW rows, Tree,
         \A a \in DOMAIN rows : a \notin Known,
         \A a \in DOMAIN rows :
           rows[a].used /\ (rows[a].parent # None => ValidParent(rows[a].parent)),
         chart' = [a \in LedgerAccounts |-> IF a \in DOMAIN rows THEN rows[a] ELSE chart[a]]
  PROVE  Tree'
<1> DEFINE new == DOMAIN rows
<1>1. Known' = Known \cup (LedgerAccounts \cap new)
  BY DEF Known
<1>2. \A a \in Known : chart'[a] = chart[a] /\ (ValidParent(a) => ValidParent(a)')
  BY <1>1 DEF Known, ValidParent
<1>3. \A a \in Known' : chart'[a].parent # None => chart'[a].parent \in Known /\ ValidParent(chart'[a].parent)
  BY <1>1, <1>2 DEF Tree, ParentsGroup, ValidParent, Known
<1>4. ParentsGroup'
  BY <1>2, <1>3 DEF ParentsGroup
<1>5. ASSUME NEW S \in SUBSET Known', S # {} PROVE \E a \in S : chart'[a].parent \notin S
  <2>1. CASE S \cap Known # {}
    <3>1. PICK a \in S \cap Known : chart[a].parent \notin S \cap Known
      BY <2>1 DEF Tree, NoCycle
    <3>2. chart'[a].parent \notin S
      BY <1>2, <1>3, <3>1, ChartAssumption DEF Known
    <3> QED BY <3>1, <3>2
  <2>2. CASE S \cap Known = {}
    <3>1. PICK a \in S : a \in Known'
      BY <1>5
    <3>2. chart'[a].parent \in Known \cup {None}
      BY <1>3, <3>1
    <3>3. None \notin S
      BY ChartAssumption DEF Known
    <3> QED BY <2>2, <3>1, <3>2, <3>3
  <2> QED BY <2>1, <2>2
<1> QED BY <1>4, <1>5 DEF Tree, NoCycle

(* Deleting accounts without children keeps a tree a tree.                 *)
LEMMA AccountsDeleted ==
  ASSUME NEW some, Tree, \A a \in some : Children(a) = {},
         chart' = [a \in LedgerAccounts |-> IF a \in some THEN NoAccount ELSE chart[a]]
  PROVE  Tree'
<1>1. Known' = Known \ some /\ \A a \in Known' : chart'[a] = chart[a]
  BY DEF Known, NoAccount
<1>2. \A a \in Known : chart[a].parent \notin some
  BY DEF Children
<1>3. ParentsGroup'
  BY <1>1, <1>2 DEF Tree, ParentsGroup, ValidParent
<1>4. NoCycle'
  BY <1>1 DEF Tree, NoCycle
<1> QED BY <1>3, <1>4 DEF Tree

(* So does the move of an account that the walk from the new parent to the *)
(* root did not meet.                                                      *)
LEMMA AccountMoved ==
  ASSUME NEW a \in Known, NEW saw, Tree, Walked(a, saw), saw.at = None, saw.change = None,
         saw.to.next => Children(a) = {},
         NEW parent, NEW posting,
         parent = IF saw.to.parent = None THEN chart[a].parent ELSE saw.to.parent,
         posting = IF saw.to.posting = None THEN chart[a].posting ELSE saw.to.posting,
         ChartIsTable, chart' = [chart EXCEPT ![a] = Account(parent, posting)]
  PROVE  Tree'
<1>1. /\ a \in LedgerAccounts
      /\ \A b \in LedgerAccounts \ {a} : chart'[b] = chart[b]
      /\ chart'[a].used /\ chart'[a].parent = parent /\ chart'[a].posting = posting
  BY DEF ChartIsTable, Account, Known
<1>2. Known' = Known
  BY <1>1 DEF Known
<1>3. posting = saw.to.next
  BY DEF Walked
<1>4. saw.to.parent # None => saw.to.parent \in saw.seen /\ saw.to.parent # a /\ ValidParent(saw.to.parent)
  BY DEF Walked
<1>5. chart[a].parent # None => chart[a].parent # a /\ ValidParent(chart[a].parent)
  <2>1. {a} \in SUBSET Known /\ {a} # {}
    OBVIOUS
  <2>2. chart[a].parent # a
    BY <2>1 DEF Tree, NoCycle
  <2> QED BY <2>2 DEF Tree, ParentsGroup
<1>6. ParentsGroup'
  <2>1. \A b \in LedgerAccounts \ {a} : ValidParent(b) => ValidParent(b)'
    BY <1>1, <1>2 DEF ValidParent
  <2>2. parent # None => parent # a /\ parent \in LedgerAccounts /\ ValidParent(parent)
    BY <1>4, <1>5 DEF ValidParent, Known
  <2>3. ASSUME NEW b \in Known, b # a, NEW q, q = chart[b].parent, q # None PROVE ValidParent(q)'
    <3>1. ValidParent(q) /\ q \in LedgerAccounts
      BY <2>3 DEF Tree, ParentsGroup, ValidParent, Known
    <3>2. CASE q = a
      <4>1. b \in Children(a)
        BY <2>3, <3>2 DEF Children
      <4>2. ~posting
        BY <4>1, <1>3
      <4> QED BY <3>2, <4>2, <1>1, <1>2 DEF ValidParent
    <3>3. CASE q # a
      BY <3>1, <3>3, <2>1
    <3> QED BY <3>2, <3>3
  <2>4. ASSUME NEW b \in Known, NEW q, q = chart'[b].parent, q # None PROVE ValidParent(q)'
    <3>1. CASE b = a
      BY <3>1, <2>1, <2>2, <2>4, <1>1
    <3>2. CASE b # a
      <4>1. chart'[b] = chart[b]
        BY <3>2, <1>1 DEF Known
      <4> QED BY <3>2, <4>1, <2>3, <2>4
    <3> QED BY <3>1, <3>2
  <2> QED BY <2>4, <1>2 DEF ParentsGroup, ValidParent
<1>7. ASSUME NEW S \in SUBSET Known, S # {} PROVE \E b \in S : chart'[b].parent \notin S
  <2>1. CASE S \cap saw.seen # {}
    <3>1. PICK b \in S \cap saw.seen : chart[b].parent \notin S \cap saw.seen
      BY <2>1 DEF Tree, NoCycle
    <3>2. chart[b].parent \in saw.seen \cup {None} /\ b # a
      BY <3>1 DEF Walked
    <3>3. None \notin S
      BY ChartAssumption DEF Known
    <3> QED BY <3>1, <3>2, <3>3, <1>1 DEF Known
  <2>2. CASE S \cap saw.seen = {} /\ a \in S /\ saw.to.parent # None
    BY <2>2, <1>1, <1>4
  <2>3. CASE a \notin S \/ saw.to.parent = None
    <3>1. \A b \in S : chart'[b].parent = chart[b].parent
      BY <2>3, <1>1 DEF Known
    <3> QED BY <3>1, <1>7 DEF Tree, NoCycle
  <2> QED BY <2>1, <2>2, <2>3
<1> QED BY <1>2, <1>6, <1>7 DEF Tree, NoCycle

(* No other step writes the chart, but the approval of a reclassification. *)
LEMMA TreeStep ==
  ASSUME ChartInv, ~overlap, Tree, \A r \in Requests : ~At(r, "move"), [ChartStep]_chartVars
  PROVE  Tree'
<1>1. CASE chart' = chart
  BY <1>1 DEF Tree, ParentsGroup, NoCycle, ValidParent, Known
<1>2. CASE chart' # chart
  <2>b. ASSUME NEW r \in Requests, BeginChart(r) PROVE FALSE
    <3>1. \A a, parent, posting :
            CreateAccount(r, a, parent, posting) \/ UpdateAccount(r, a, parent, posting) => chart' = chart
      BY DEF CreateAccount, UpdateAccount, chartTables
    <3>2. \A new, parent :
            (\/ SetupTaxControlAccounts(r, new) \/ ImportCanonical(r, new)
             \/ CommitImport(r, new, parent) \/ CleanupNonCanonical(r, new)) => chart' = chart
      BY DEF SetupTaxControlAccounts, ImportCanonical, CommitImport, CleanupNonCanonical, chartTables
    <3>3. \A which, on : Switch(r, which, on) => chart' = chart
      BY DEF Switch
    <3>4. \A by, c, a, parent, step :
            (\/ CreateReclassification(r, by, c, a, parent) \/ SubmitReclassification(r, by, c)
             \/ DecideReclassification(r, by, c, step)) => chart' = chart
      BY DEF CreateReclassification, SubmitReclassification, DecideReclassification,
           OnlyReclassification, chartTables
    <3>5. \A by, c, proposal, decision :
            (\/ CreateChange(r, by, c, proposal) \/ EditChange(r, by, c, proposal)
             \/ SubmitChange(r, by, c) \/ DecideChange(r, by, c, decision)
             \/ Implement(r, by, c)) => chart' = chart
      BY DEF CreateChange, EditChange, SubmitChange, DecideChange, Implement, OnlyChange, chartTables
    <3> QED BY <1>2, <2>b, <3>1, <3>2, <3>3, <3>4, <3>5 DEF BeginChart
  <2>c. ASSUME NEW r \in Requests, ContinueChart(r)
        PROVE  InsertAccounts(r) \/ ImportRows(r) \/ WriteAccount(r) \/ DeleteAccounts(r)
    BY <1>2, <2>c DEF ContinueChart, chartTables, OnlyReclassification, OnlyChange, Walk,
         CheckChildren, Pend, AskApproval, MoveByReclassification, RejectTheRequest, RejectTheRow,
         RewriteChange, MarkChange, HierarchyChangeTimesOut, CheckWindows, OpenWindow
  <2>1. PICK r \in Requests :
          InsertAccounts(r) \/ ImportRows(r) \/ WriteAccount(r) \/ DeleteAccounts(r)
    BY <1>2, <2>b, <2>c DEF ChartStep, chartVars, chartTables
  <2>2. ChartIsTable /\ ChartCall(running[r])
    BY DEF ChartInv, ChartRows
  <2>3. CASE InsertAccounts(r)
    <3> DEFINE rows == Carried(r)
    <3>1. /\ chart' = [a \in LedgerAccounts |-> IF a \in DOMAIN rows THEN rows[a] ELSE chart[a]]
          /\ \A a \in DOMAIN rows : a \notin Known
      BY <2>3 DEF InsertAccounts, OnlyChart, Known
    <3>2. \A a \in DOMAIN rows :
            rows[a].used /\ (rows[a].parent # None => ValidParent(rows[a].parent))
      BY <2>2, <2>3 DEF InsertAccounts, At, ChartCall, Carried
    <3> HIDE DEF rows
    <3> QED BY <3>1, <3>2, AccountsAdded
  <2>4. CASE ImportRows(r)
    <3> DEFINE rows == [a \in Carried(r) \ Known |-> Account(None, TRUE)]
    <3>1. chart' = [a \in LedgerAccounts |-> IF a \in DOMAIN rows THEN rows[a] ELSE chart[a]]
      BY <2>4 DEF ImportRows, OnlyChart
    <3>2. \A a \in DOMAIN rows : a \notin Known /\ rows[a].used /\ rows[a].parent = None
      BY DEF Account
    <3> HIDE DEF rows
    <3> QED BY <3>1, <3>2, AccountsAdded
  <2>5. CASE DeleteAccounts(r)
    <3>1. chart' = [a \in LedgerAccounts |-> IF a \in Carried(r) THEN NoAccount ELSE chart[a]]
      BY <1>2, <2>5 DEF DeleteAccounts, chartTables
    <3>2. \A a \in Carried(r) : Children(a) = {}
      BY <2>2, <2>5 DEF DeleteAccounts, At, ChartCall, Carried
    <3> QED BY <3>1, <3>2, AccountsDeleted
  <2>6. CASE WriteAccount(r)
    <3> DEFINE a == Doc(r)
               saw == Carried(r)
               parent == IF saw.to.parent = None THEN chart[a].parent ELSE saw.to.parent
               posting == IF saw.to.posting = None THEN chart[a].posting ELSE saw.to.posting
    <3>1. a \in Known /\ chart' = [chart EXCEPT ![a] = Account(parent, posting)]
      BY <1>2, <2>6 DEF WriteAccount, OnlyChart
    <3>2. /\ Walked(a, saw) /\ saw.at = None /\ saw.change = None
          /\ saw.to.next => Children(a) = {}
      BY <2>2, <2>6 DEF WriteAccount, At, ChartCall, Carried, Doc
    <3> HIDE DEF a, saw
    <3> QED BY <2>2, <3>1, <3>2, AccountMoved
  <2> QED BY <2>1, <2>3, <2>4, <2>5, <2>6
<1> QED BY <1>1, <1>2

LEMMA ChartAlways == ChartSpec => []ChartInv
BY ChartInitially, ChartInductive, PTL DEF ChartSpec

(* One request at a time, adding, importing, moving and deleting accounts  *)
(* keeps a tree a tree (assertNoCircularReference, assertParentValid,      *)
(* assertNoChildren), as long as no reclassification moves an account.     *)
THEOREM TreesAreKept == ChartSpec => TreeKept
<1>1. ChartInv /\ [ChartStep]_chartVars =>
        [~overlap /\ Tree /\ (\A r \in Requests : ~At(r, "move")) => Tree']_chartVars
  BY TreeStep
<1> QED BY <1>1, ChartAlways, PTL DEF ChartSpec, TreeKept

(* One request at a time, the structural changes of one type an account    *)
(* goes through lie apart on the calendar: implement looks at every window *)
(* in the way of the new one.                                              *)
THEOREM WindowsLieApart == ChartSpec => []WindowsApart
<1>1. ChartInv => WindowsApart
  BY DEF ChartInv, ChartRows, WindowsLie, Before, WindowsApart
<1> QED BY <1>1, ChartAlways, PTL

=============================================================================
