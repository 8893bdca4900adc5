---------------------------- MODULE MCSubledgers ----------------------------
(* Receivables, Payables, the way of their documents into the ledger and   *)
(* the accounts they book to, for TLC.  A behaviour is about one of them,  *)
(* the tables of the others stay as they are, so the state spaces add up   *)
(* instead of multiplying.                                                 *)
EXTENDS Receivables, Payables, ChartOfAccounts, SourcePosting, TLC

CONSTANTS u1, u2, u3, g1, g2

VARIABLE part

subledgerVars ==
  <<arTables, apTables, chartTables, postingTables, handlerVars, part>>

OneDelegation == {<<u2, u3>>}

(* Moves at once, and dated moves that may lie in each other's way.        *)
FewMoves ==
  LET Moved(kind, type, a, b, from, to) ==
        [kind |-> kind, type |-> type, account |-> a, parent |-> b, from |-> from, to |-> to]
  IN  {Moved("HIERARCHY_CHANGE", "HIERARCHY", g1, g2, 1, None),
       Moved("EFFECTIVE_DATED", "IFRS", g1, None, 1, None)}
        \cup {Moved("EFFECTIVE_DATED", "HIERARCHY", g1, g2, from, to) :
                from \in 1..2, to \in {2, None}}

Init ==
  /\ part \in {"receivables", "payables", "chart", "posting"}
  /\ ReceivablesInit /\ PayablesInit /\ ChartInit /\ PostingInit /\ HandlersInit
  /\ part \in {"receivables", "chart"} => ~overlap
  /\ part # "posting" => \A d \in Documents :
       documents[d].kind = "open" /\ documents[d].status = "APPROVED" /\ documents[d].createdBy = u1

Next ==
  /\ UNCHANGED part
  /\ \/ part = "receivables" /\ ReceivablesStep
     \/ part = "payables" /\ PayablesStep
     \/ part = "chart" /\ ChartStep
     \/ part = "posting" /\ PostingStep
  /\ part # "receivables" => UNCHANGED arTables
  /\ part # "payables" => UNCHANGED apTables
  /\ part # "chart" => UNCHANGED chartTables
  /\ part # "posting" => UNCHANGED postingTables

Spec == Init /\ [][Next]_subledgerVars

Rows(table) == Cardinality({x \in DOMAIN table : table[x].status # "NONE"})

(* Bound: three users where it takes three to post, two elsewhere.         *)
FewUsers == part # "posting" => \A r \in Requests : running[r].by # u3

(* Bound: when payables requests overlap, there is one proposal and no     *)
(* payment; when they do not, two proposals and payments.                  *)
FewWhenOverlapping ==
  overlap =>
    /\ Rows(proposals) <= 1
    /\ \A p \in Payments : payments[p].status = "NONE"

(* Bound: the third document is a refund or the second credit note, which  *)
(* meets what a receipt and a first one left; refunds never look at        *)
(* receipts.                                                               *)
FewDocuments ==
  /\ Rows(receipts) = 2 => Rows(creditNotes) = 0
  /\ Rows(refunds) > 0 => Rows(receipts) = 0

(* Bound: one handler stops between a journal and its mark, and meets two  *)
(* receivables documents besides the invoice, or the invoice alone, or no  *)
(* proposal; when payables requests overlap, bills have one journal.       *)
Leftovers(table) == FoldFunction(+, 0, [x \in DOMAIN table |-> table[x].unmarked])

FewStops ==
  /\ Quiet =>
       LET notes == Leftovers(creditNotes) + Leftovers(refunds)
           debts == Leftovers(bills) + Leftovers(payments)
       IN
       /\ Leftovers(invoices) + notes + debts <= 1
       /\ notes > 0 => Created <= 2
       /\ Leftovers(invoices) > 0 => Created = 0
       /\ debts > 0 => Rows(proposals) = 0
  /\ overlap => \A b \in Bills : Len(bills[b].journals) <= 1

(* The chart while it is a tree, with one switch on at most, which only    *)
(* meets two accounts and the first step of a request or a                 *)
(* reclassification;                                                       *)
(* reclassifications of one account while nothing is posted to any and only *)
(* the structure may be frozen; structure change requests on two roots,    *)
(* the second one when the first has opened its window.  The maker is one  *)
(* user.                                                                   *)
FewChanges ==
  /\ Tree
  /\ \A v, w \in DOMAIN switches : switches[v] /\ switches[w] => v = w
  /\ (\E v \in DOMAIN switches : switches[v]) =>
       /\ Cardinality(Known) <= 2
       /\ Quiet \/ Rows(reclassifications) > 0
  /\ \A c \in Reclassifications : reclassifications[c].by \in {u1, None}
  /\ \A c \in ChangeRequests : changes[c].by \in {u1, None}
  /\ Rows(reclassifications) > 0 =>
       /\ ~switches.frozen /\ ~switches.locked
       /\ \A a \in LedgerAccounts : ~chart[a].posting
       /\ \A c \in Reclassifications : reclassifications[c].account \in {g1, None}
       /\ \A c \in Reclassifications : reclassifications[c].parent \in {g2, None}
  /\ Rows(changes) > 0 =>
       /\ Rows(reclassifications) = 0
       /\ \A which \in DOMAIN switches : ~switches[which]
       /\ Known \subseteq {g1, g2} /\ \A a \in Known : chart[a] = Account(None, FALSE)
  /\ Rows(changes) = 2 => \E w \in Windows : windows[w] # NoWindow

(* Requests are alike: when they come one at a time, they are one of them. *)
First == CHOOSE r \in Requests : TRUE
TheFirst == ~overlap => \A r \in Requests \ {First} : running[r] = Idle

Interchangeable ==
  Permutations(Receipts) \cup Permutations(CreditNotes) \cup Permutations(Refunds)
    \cup Permutations(Proposals)

=============================================================================
