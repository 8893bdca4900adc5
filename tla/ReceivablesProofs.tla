------------------------- MODULE ReceivablesProofs -------------------------
(* Proofs about Receivables, one request at a time: what is drawn on an     *)
(* invoice or a credit note stays within it, and the documents agree with  *)
(* the books.  First what the proofs about amounts need of sums.           *)
EXTENDS Receivables, HandlersProofs, FiniteSetTheorems

-----------------------------------------------------------------------------
(* Sums.  SumFunctionOnSet is a recursion over subsets; that the recursion *)
(* has a solution, and that the order does not matter, is shown on a       *)
(* smallest set where it would fail.                                       *)

Chosen(s) == CHOOSE x \in s : TRUE

IsSum(f, S, g) ==
  g = [s \in SUBSET S |-> IF s = {} THEN 0 ELSE f[Chosen(s)] + g[s \ {Chosen(s)}]]

Sums(f, S) == CHOOSE g : IsSum(f, S, g)

LEMMA SumUnfolds ==
  ASSUME NEW f, NEW S
  PROVE  SumFunctionOnSet(f, S) = Sums(f, S)[S]
BY DEF SumFunctionOnSet, FoldFunctionOnSet, MapThenFoldSet, Sums, IsSum, Chosen

LEMMA ChosenIn ==
  ASSUME NEW s, s # {}
  PROVE  Chosen(s) \in s /\ s \ {Chosen(s)} \subseteq s /\ s \ {Chosen(s)} # s
BY DEF Chosen

(* Of the subsets of a finite set that are bad, one has no bad subset.     *)
LEMMA Smallest ==
  ASSUME NEW S, IsFiniteSet(S), NEW bad, bad \subseteq SUBSET S, bad # {}
  PROVE  \E s \in bad : IsFiniteSet(s) /\ \A t : t \subseteq s /\ t # s => t \notin bad
<1>1. IsWellFoundedOn(StrictSubsetOrdering(S), SUBSET S)
  BY FS_StrictSubsetOrderingWellFounded, FS_FiniteSubsetsOfFinite
<1>2. PICK s \in bad : \A y \in bad : ~(<<y, s>> \in StrictSubsetOrdering(S))
  BY <1>1, WFMin
<1>3. IsFiniteSet(s)
  BY FS_Subset
<1> QED BY <1>2, <1>3 DEF StrictSubsetOrdering

LEMMA SumAt ==
  ASSUME NEW f, NEW S, NEW g, IsSum(f, S, g), NEW s \in SUBSET S
  PROVE  g[s] = IF s = {} THEN 0 ELSE f[Chosen(s)] + g[s \ {Chosen(s)}]
BY DEF IsSum

LEMMA SumsAgree ==
  ASSUME NEW f, NEW A, NEW B, NEW S, IsFiniteSet(S), S \subseteq A, S \subseteq B,
         NEW g, NEW h, IsSum(f, A, g), IsSum(f, B, h)
  PROVE  g[S] = h[S]
<1>1. PICK bad : bad = {s \in SUBSET S : g[s] # h[s]}
  OBVIOUS
<1>2. SUFFICES ASSUME bad # {} PROVE FALSE
  BY <1>1
<1>3. PICK s \in bad : \A t : t \subseteq s /\ t # s => t \notin bad
  BY <1>1, <1>2, Smallest
<1>4. s \in SUBSET A /\ s \in SUBSET B /\ g[s] # h[s]
  BY <1>1
<1>5. s # {}
  BY <1>4, SumAt
<1>6. g[s \ {Chosen(s)}] = h[s \ {Chosen(s)}]
  BY <1>1, <1>3, <1>5, ChosenIn
<1> QED BY <1>4, <1>5, <1>6, SumAt

LEMMA SumsExist ==
  ASSUME NEW f, NEW S, IsFiniteSet(S)
  PROVE  IsSum(f, S, Sums(f, S))
<1>1. PICK bad : bad = {s \in SUBSET S : ~IsSum(f, s, Sums(f, s))}
  OBVIOUS
<1>2. SUFFICES ASSUME bad # {} PROVE FALSE
  BY <1>1
<1>3. PICK T \in bad : IsFiniteSet(T) /\ \A t : t \subseteq T /\ t # T => t \notin bad
  BY <1>1, <1>2, Smallest
<1>4. \A s \in SUBSET T : IsFiniteSet(s) /\ (s # T => IsSum(f, s, Sums(f, s)))
  BY <1>1, <1>3, FS_Subset
<1> DEFINE part(s) == IF s = {} THEN 0
                      ELSE f[Chosen(s)] + Sums(f, s \ {Chosen(s)})[s \ {Chosen(s)}]
           g == [s \in SUBSET T |-> part(s)]
<1>5. ASSUME NEW s \in SUBSET T, s # T PROVE g[s] = Sums(f, s)[s]
  <2>1. IsSum(f, s, Sums(f, s))
    BY <1>4, <1>5
  <2>2. CASE s = {}
    BY <2>1, <2>2, SumAt
  <2>3. CASE s # {}
    <3>1. PICK rest : rest = s \ {Chosen(s)}
      OBVIOUS
    <3>2. rest \subseteq T /\ rest # T /\ rest \subseteq s
      BY <2>3, <3>1, ChosenIn
    <3>3. IsSum(f, rest, Sums(f, rest)) /\ IsFiniteSet(rest)
      BY <1>4, <3>2
    <3>4. Sums(f, rest)[rest] = Sums(f, s)[rest]
      BY <2>1, <3>2, <3>3, SumsAgree
    <3>5. Sums(f, s)[s] = f[Chosen(s)] + Sums(f, s)[rest]
      BY <2>1, <2>3, <3>1, SumAt
    <3> QED BY <2>3, <3>1, <3>4, <3>5
  <2> QED BY <2>2, <2>3
<1>6. ASSUME NEW s \in SUBSET T
      PROVE  g[s] = IF s = {} THEN 0 ELSE f[Chosen(s)] + g[s \ {Chosen(s)}]
  <2>1. CASE s = {}
    BY <2>1
  <2>2. CASE s # {}
    <3>1. PICK rest : rest = s \ {Chosen(s)}
      OBVIOUS
    <3>2. rest \in SUBSET T /\ rest # T
      BY <2>2, <3>1, ChosenIn
    <3>3. g[rest] = Sums(f, rest)[rest]
      BY <1>5, <3>2
    <3> QED BY <2>2, <3>1, <3>3
  <2> QED BY <2>1, <2>2
<1>7. g = [s \in SUBSET T |-> g[s]]
  OBVIOUS
<1> HIDE DEF g
<1>8. IsSum(f, T, g)
  BY <1>6, <1>7 DEF IsSum
<1>9. IsSum(f, T, Sums(f, T))
  BY <1>8 DEF Sums
<1> QED BY <1>1, <1>9

LEMMA SumOfNone == ASSUME NEW f PROVE SumFunctionOnSet(f, {}) = 0
<1>1. IsSum(f, {}, Sums(f, {}))
  BY SumsExist, FS_EmptySet
<1> QED BY <1>1, SumAt, SumUnfolds

LEMMA SumOfChosen ==
  ASSUME NEW f, NEW S, IsFiniteSet(S), S # {}
  PROVE  SumFunctionOnSet(f, S) = f[Chosen(S)] + SumFunctionOnSet(f, S \ {Chosen(S)})
<1>1. PICK rest : rest = S \ {Chosen(S)}
  OBVIOUS
<1>2. rest \subseteq S /\ IsFiniteSet(rest)
  BY <1>1, FS_Subset
<1>3. IsSum(f, S, Sums(f, S)) /\ IsSum(f, rest, Sums(f, rest))
  BY <1>2, SumsExist
<1>4. Sums(f, S)[rest] = Sums(f, rest)[rest]
  BY <1>2, <1>3, SumsAgree
<1>5. Sums(f, S)[S] = f[Chosen(S)] + Sums(f, S)[rest]
  <2>1. PICK g : g = Sums(f, S)
    OBVIOUS
  <2>2. g[S] = IF S = {} THEN 0 ELSE f[Chosen(S)] + g[S \ {Chosen(S)}]
    BY <1>3, <2>1, SumAt
  <2> QED BY <1>1, <2>1, <2>2
<1> QED BY <1>1, <1>4, <1>5, SumUnfolds

(* The sums of two functions that agree on a set are the same.             *)
LEMMA SumSame ==
  ASSUME NEW f, NEW g, NEW S, IsFiniteSet(S), \A x \in S : f[x] = g[x]
  PROVE  SumFunctionOnSet(f, S) = SumFunctionOnSet(g, S)
<1>1. PICK bad : bad = {s \in SUBSET S : SumFunctionOnSet(f, s) # SumFunctionOnSet(g, s)}
  OBVIOUS
<1>2. SUFFICES ASSUME bad # {} PROVE FALSE
  BY <1>1
<1>3. PICK s \in bad : IsFiniteSet(s) /\ \A t : t \subseteq s /\ t # s => t \notin bad
  BY <1>1, <1>2, Smallest
<1>4. s # {} /\ s \in SUBSET S /\ SumFunctionOnSet(f, s) # SumFunctionOnSet(g, s)
  BY <1>1, SumOfNone
<1>5. SumFunctionOnSet(f, s \ {Chosen(s)}) = SumFunctionOnSet(g, s \ {Chosen(s)})
  BY <1>1, <1>3, <1>4, ChosenIn
<1>6. f[Chosen(s)] = g[Chosen(s)]
  BY <1>4, ChosenIn
<1> QED BY <1>3, <1>4, <1>5, <1>6, SumOfChosen

LEMMA SumType ==
  ASSUME NEW f, NEW S, IsFiniteSet(S), \A x \in S : f[x] \in Nat
  PROVE  SumFunctionOnSet(f, S) \in Nat
<1>1. PICK bad : bad = {s \in SUBSET S : SumFunctionOnSet(f, s) \notin Nat}
  OBVIOUS
<1>2. SUFFICES ASSUME bad # {} PROVE FALSE
  BY <1>1
<1>3. PICK s \in bad : IsFiniteSet(s) /\ \A t : t \subseteq s /\ t # s => t \notin bad
  BY <1>1, <1>2, Smallest
<1>4. s # {} /\ s \in SUBSET S /\ SumFunctionOnSet(f, s) \notin Nat
  <2>1. SumFunctionOnSet(f, {}) \in Nat
    BY SumOfNone
  <2> QED BY <1>1, <2>1
<1>5. SumFunctionOnSet(f, s \ {Chosen(s)}) \in Nat /\ f[Chosen(s)] \in Nat
  BY <1>1, <1>3, <1>4, ChosenIn
<1> QED BY <1>3, <1>4, <1>5, SumOfChosen

(* The order in which a sum is taken does not matter.                      *)
LEMMA SumOfOne ==
  ASSUME NEW f, NEW S, IsFiniteSet(S), \A y \in S : f[y] \in Nat, NEW x \in S
  PROVE  SumFunctionOnSet(f, S) = f[x] + SumFunctionOnSet(f, S \ {x})
<1>1. PICK bad : bad = {s \in SUBSET S :
              \E e \in s : SumFunctionOnSet(f, s) # f[e] + SumFunctionOnSet(f, s \ {e})}
  OBVIOUS
<1>2. SUFFICES ASSUME bad # {} PROVE FALSE
  BY <1>1
<1>s. bad \subseteq SUBSET S
  BY <1>1
<1>3. PICK s \in bad : IsFiniteSet(s) /\ \A t : t \subseteq s /\ t # s => t \notin bad
  BY <1>s, <1>2, Smallest
<1>4. PICK e \in s : SumFunctionOnSet(f, s) # f[e] + SumFunctionOnSet(f, s \ {e})
  BY <1>1
<1>5. \A t \in SUBSET S : IsFiniteSet(t) /\ SumFunctionOnSet(f, t) \in Nat
  <2>1. ASSUME NEW t \in SUBSET S PROVE IsFiniteSet(t) /\ SumFunctionOnSet(f, t) \in Nat
    BY FS_Subset, SumType
  <2> QED BY <2>1
<1>6. PICK c : c = Chosen(s)
  OBVIOUS
<1>7. c \in s /\ SumFunctionOnSet(f, s) = f[c] + SumFunctionOnSet(f, s \ {c})
  BY <1>3, <1>4, <1>6, ChosenIn, SumOfChosen
<1>8. PICK both : both = s \ {c, e}
  OBVIOUS
<1>9. c # e /\ (s \ {c}) \ {e} = both /\ (s \ {e}) \ {c} = both
  BY <1>4, <1>7, <1>8
<1>10. \A t \in SUBSET S : \A y \in t :
         t \notin bad => SumFunctionOnSet(f, t) = f[y] + SumFunctionOnSet(f, t \ {y})
  BY <1>1
<1>11. s \ {c} \in SUBSET S /\ s \ {c} \notin bad /\ s \ {e} \in SUBSET S /\ s \ {e} \notin bad
  BY <1>s, <1>3, <1>4, <1>7
<1>12. SumFunctionOnSet(f, s \ {c}) = f[e] + SumFunctionOnSet(f, both)
  BY <1>4, <1>9, <1>10, <1>11
<1>13. SumFunctionOnSet(f, s \ {e}) = f[c] + SumFunctionOnSet(f, both)
  BY <1>7, <1>9, <1>10, <1>11
<1>14. f[e] \in Nat /\ f[c] \in Nat /\ SumFunctionOnSet(f, both) \in Nat
  BY <1>s, <1>4, <1>5, <1>7, <1>8
<1> QED BY <1>4, <1>7, <1>12, <1>13, <1>14

(* Summing zeros besides changes nothing.                                  *)
LEMMA SumRestricted ==
  ASSUME NEW D, IsFiniteSet(D), NEW S, S \subseteq D, NEW f, NEW g,
         \A x \in S : f[x] \in Nat, \A x \in D : g[x] = IF x \in S THEN f[x] ELSE 0
  PROVE  SumFunctionOnSet(g, D) = SumFunctionOnSet(f, S)
<1>1. PICK bad : bad = {s \in SUBSET D : SumFunctionOnSet(g, s) # SumFunctionOnSet(f, s \cap S)}
  OBVIOUS
<1>2. SUFFICES ASSUME bad # {} PROVE FALSE
  <2>1. D \in SUBSET D /\ D \cap S = S
    OBVIOUS
  <2> QED BY <1>1, <2>1
<1>s. bad \subseteq SUBSET D
  BY <1>1
<1>3. PICK s \in bad : IsFiniteSet(s) /\ \A t : t \subseteq s /\ t # s => t \notin bad
  BY <1>s, <1>2, Smallest
<1>4. /\ s # {} /\ s \in SUBSET D
      /\ SumFunctionOnSet(g, s) # SumFunctionOnSet(f, s \cap S)
  <2>1. {} \cap S = {} /\ SumFunctionOnSet(g, {}) = SumFunctionOnSet(f, {})
    BY SumOfNone
  <2> QED BY <1>1, <2>1
<1>5. PICK c, rest, part : c = Chosen(s) /\ rest = s \ {c} /\ part = rest \cap S
  OBVIOUS
<1>6. c \in s /\ rest \subseteq s /\ rest # s
  BY <1>4, <1>5, ChosenIn
<1>7. SumFunctionOnSet(g, s) = g[c] + SumFunctionOnSet(g, rest)
  BY <1>3, <1>4, <1>5, SumOfChosen
<1>8. SumFunctionOnSet(g, rest) = SumFunctionOnSet(f, part)
  BY <1>1, <1>3, <1>4, <1>5, <1>6
<1>9. part \subseteq S /\ IsFiniteSet(part) /\ IsFiniteSet(s \cap S)
  <2>1. part \in SUBSET s /\ s \cap S \in SUBSET s /\ part \subseteq S
    BY <1>5, <1>6
  <2> QED BY <1>3, <2>1, FS_Subset
<1>10. SumFunctionOnSet(f, part) \in Nat
  <2>1. \A x \in part : f[x] \in Nat
    BY <1>9
  <2> QED BY <1>9, <2>1, SumType
<1>11. SumFunctionOnSet(f, s \cap S) = g[c] + SumFunctionOnSet(f, part)
  <2>1. CASE c \in S
    <3>1. c \in s \cap S /\ (s \cap S) \ {c} = part /\ g[c] = f[c]
      BY <1>4, <1>5, <1>6, <2>1
    <3>2. \A x \in s \cap S : f[x] \in Nat
      OBVIOUS
    <3>3. SumFunctionOnSet(f, s \cap S) = f[c] + SumFunctionOnSet(f, (s \cap S) \ {c})
      BY <1>9, <3>1, <3>2, SumOfOne
    <3> QED BY <3>1, <3>3
  <2>2. CASE c \notin S
    <3>1. s \cap S = part /\ g[c] = 0
      BY <1>4, <1>5, <1>6, <2>2
    <3> QED BY <1>10, <3>1
  <2> QED BY <2>1, <2>2
<1> QED BY <1>4, <1>7, <1>8, <1>11

(* One element changes its amount, enters or leaves.                       *)
LEMMA SumChanges ==
  ASSUME NEW D, IsFiniteSet(D), NEW f \in [D -> Nat], NEW g \in [D -> Nat],
         NEW S \in SUBSET D, NEW T \in SUBSET D, NEW x \in D,
         \A y \in D \ {x} : f[y] = g[y] /\ (y \in S <=> y \in T)
  PROVE  \E rest \in Nat :
           /\ SumFunctionOnSet(f, S) = rest + (IF x \in S THEN f[x] ELSE 0)
           /\ SumFunctionOnSet(g, T) = rest + (IF x \in T THEN g[x] ELSE 0)
<1>1. PICK others : others = S \ {x}
  OBVIOUS
<1>2. others = T \ {x} /\ others \in SUBSET D
  BY <1>1
<1>3. IsFiniteSet(S) /\ IsFiniteSet(T) /\ IsFiniteSet(others)
  BY <1>2, FS_Subset
<1>4. SumFunctionOnSet(f, others) = SumFunctionOnSet(g, others)
  <2>1. \A y \in others : f[y] = g[y]
    BY <1>1
  <2> QED BY <1>3, <2>1, SumSame
<1>5. SumFunctionOnSet(f, others) \in Nat
  <2>1. \A y \in others : f[y] \in Nat
    BY <1>2
  <2> QED BY <1>3, <2>1, SumType
<1>6. SumFunctionOnSet(f, S) = SumFunctionOnSet(f, others) + (IF x \in S THEN f[x] ELSE 0)
  <2>1. CASE x \in S
    <3>1. SumFunctionOnSet(f, S) = f[x] + SumFunctionOnSet(f, S \ {x})
      BY <1>3, <2>1, SumOfOne
    <3> QED BY <1>1, <1>5, <2>1, <3>1
  <2>2. CASE x \notin S
    <3>1. others = S
      BY <1>1, <2>2
    <3> QED BY <1>5, <2>2, <3>1
  <2> QED BY <2>1, <2>2
<1>7. SumFunctionOnSet(g, T) = SumFunctionOnSet(g, others) + (IF x \in T THEN g[x] ELSE 0)
  <2>1. CASE x \in T
    <3>1. SumFunctionOnSet(g, T) = g[x] + SumFunctionOnSet(g, T \ {x})
      BY <1>3, <2>1, SumOfOne
    <3> QED BY <1>2, <1>4, <1>5, <2>1, <3>1
  <2>2. CASE x \notin T
    <3>1. others = T
      BY <1>2, <2>2
    <3> QED BY <1>4, <1>5, <2>2, <3>1
  <2> QED BY <2>1, <2>2
<1> QED BY <1>4, <1>5, <1>6, <1>7

-----------------------------------------------------------------------------
(* Receivables.                                                            *)
InvoiceRow ==
  [status : {"NONE", "DRAFT", "POSTED"}, total : Nat, journals : Seq(Nat), unmarked : Nat]
ReceiptRow ==
  [status : {"NONE", "DRAFT", "POSTED", "VOIDED"}, total : Nat,
   lines : Lines, journals : Seq(Lines)]
Paper == {"NONE", "DRAFT", "SUBMITTED", "APPROVED", "POSTED", "VOID"}
NoteRow ==
  [status : Paper, invoice : Invoices \cup {None}, amount : Nat,
   journals : Seq({"POSTED", "VOID"}), unmarked : Nat]
RefundRow ==
  [status : Paper, creditNote : CreditNotes \cup {None}, amount : Nat,
   journals : Seq({"POSTED", "VOID"}), unmarked : Nat]

Applied(i) == AppliedByOthers(i, None)

(* An invoice that is not POSTED has nothing applied to it, so its total   *)
(* may still change; before it is POSTED, a credit note has no refunds.    *)
Limit(i) == IF invoices[i].status = "POSTED" THEN invoices[i].total ELSE 0
CreditLimit(c) ==
  IF creditNotes[c].status \in {"POSTED", "VOID"} THEN creditNotes[c].amount ELSE 0

Books ==
  /\ invoices \in [Invoices -> InvoiceRow]
  /\ receipts \in [Receipts -> ReceiptRow]
  /\ creditNotes \in [CreditNotes -> NoteRow]
  /\ refunds \in [Refunds -> RefundRow]
  /\ \A i \in Invoices :
       /\ InvoiceBooked(invoices[i])
       /\ Applied(i) <= Limit(i)
       /\ Credited(i) <= Limit(i)
  /\ \A d \in Receipts : ReceiptBooked(receipts[d])
  /\ \A c \in CreditNotes :
       /\ PaperBooked(creditNotes[c])
       /\ creditNotes[c].invoice # None => invoices[creditNotes[c].invoice].status = "POSTED"
       /\ Refunded(c) <= CreditLimit(c)
  /\ \A f \in Refunds :
       /\ PaperBooked(refunds[f])
       /\ refunds[f].status # "NONE" =>
            /\ refunds[f].creditNote \in CreditNotes
            /\ creditNotes[refunds[f].creditNote].status \in {"POSTED", "VOID"}

LinesFit(lines) ==
  \A i \in Invoices : lines[i] > 0 =>
    invoices[i].status = "POSTED" /\ lines[i] <= invoices[i].total - Applied(i)

RefundFits(f) == refunds[f].amount <= Refundable(refunds[f].creditNote)

(* A journal waits for its mark, after which the document is in order.     *)
Awaits(row, status) == row.unmarked > 0 /\ PaperBooked(Marked(row, status))

(* What a handler that has no company knows of its document.               *)
InvoiceCall(call) ==
  call.step \in {"writeInvoice", "bookInvoice", "markInvoice"} =>
    /\ call.doc \in Invoices
    /\ invoices[call.doc].status = "DRAFT"
    /\ call.step = "writeInvoice" => call.saw \in Nat
    /\ call.step = "bookInvoice" => call.saw = invoices[call.doc].total
    /\ call.step = "markInvoice" =>
         /\ call.saw = "POSTED" /\ invoices[call.doc].unmarked > 0
         /\ InvoiceBooked(Marked(invoices[call.doc], "POSTED"))

ReceiptCall(call) ==
  call.step \in {"writeReceipt", "writeLines", "lockReceipt", "bookReceipt", "voidReceipt"} =>
    /\ call.doc \in Receipts
    /\ call.step # "voidReceipt" => receipts[call.doc].status = "DRAFT"
    /\ call.step = "writeReceipt" => call.saw.total \in Nat /\ call.saw.lines \in Lines \cup {None}
    /\ call.step = "writeLines" => call.saw \in Lines
    /\ call.step \in {"lockReceipt", "bookReceipt"} =>
         call.saw = receipts[call.doc].lines /\ LinesFit(call.saw)

NoteCall(call) ==
  /\ call.step = "bookCreditNote" =>
       /\ call.doc \in CreditNotes
       /\ \/ call.saw = "POSTED" /\ creditNotes[call.doc].status = "APPROVED"
               /\ WithinOutstanding(call.doc)
          \/ call.saw = "VOID" /\ creditNotes[call.doc].status = "POSTED"
  /\ call.step = "markCreditNote" =>
       /\ call.doc \in CreditNotes
       /\ \/ call.saw = "SUBMITTED" /\ creditNotes[call.doc].status = "DRAFT"
          \/ call.saw = "APPROVED" /\ creditNotes[call.doc].status = "SUBMITTED"
          \/ call.saw = "POSTED" /\ creditNotes[call.doc].status = "APPROVED"
               /\ WithinOutstanding(call.doc) /\ Awaits(creditNotes[call.doc], "POSTED")
          \/ call.saw = "VOID" /\ creditNotes[call.doc].status = "POSTED"
               /\ Awaits(creditNotes[call.doc], "VOID")

RefundCall(call) ==
  /\ call.step = "bookRefund" =>
       /\ call.doc \in Refunds
       /\ \/ call.saw = "POSTED" /\ refunds[call.doc].status = "APPROVED" /\ RefundFits(call.doc)
          \/ call.saw = "VOID" /\ refunds[call.doc].status = "POSTED"
  /\ call.step = "markRefund" =>
       /\ call.doc \in Refunds
       /\ \/ call.saw = "SUBMITTED" /\ refunds[call.doc].status = "DRAFT"
          \/ call.saw = "APPROVED" /\ refunds[call.doc].status = "SUBMITTED"
          \/ call.saw = "POSTED" /\ refunds[call.doc].status = "APPROVED"
               /\ RefundFits(call.doc) /\ Awaits(refunds[call.doc], "POSTED")
          \/ call.saw = "VOID" /\ refunds[call.doc].status = "POSTED"
               /\ Awaits(refunds[call.doc], "VOID")

ArCall(call) == InvoiceCall(call) /\ ReceiptCall(call) /\ NoteCall(call) /\ RefundCall(call)

ArInv ==
  /\ HandlersInv
  /\ ~overlap => Books /\ \A r \in Requests : ArCall(running[r])

LEMMA IdsFinite ==
  IsFiniteSet(Receipts) /\ IsFiniteSet(CreditNotes) /\ IsFiniteSet(Refunds)
<1> DEFINE all == Receipts \cup CreditNotes \cup Refunds
<1>1. IsFiniteSet(all) /\ Receipts \in SUBSET all /\ CreditNotes \in SUBSET all
        /\ Refunds \in SUBSET all
  BY ReceivablesAssumption
<1> HIDE DEF all
<1> QED BY <1>1, FS_Subset

(* What the amounts of the tables add up to.                               *)
LEMMA Types ==
  /\ \A lines \in Lines, i \in Invoices : lines[i] \in Nat
  /\ \A row \in ReceiptRow, i \in Invoices : row.lines[i] \in Nat
BY MoneyAssumption DEF Lines, ReceiptRow

(* One receipt changes.                                                    *)
LEMMA AppliedChanges ==
  ASSUME receipts \in [Receipts -> ReceiptRow], receipts' \in [Receipts -> ReceiptRow],
         NEW d \in Receipts, \A e \in Receipts \ {d} : receipts'[e] = receipts[e],
         NEW i \in Invoices
  PROVE  \E rest \in Nat :
           /\ Applied(i) =
                rest + (IF receipts[d].status = "POSTED" THEN receipts[d].lines[i] ELSE 0)
           /\ Applied(i)' =
                rest + (IF receipts'[d].status = "POSTED" THEN receipts'[d].lines[i] ELSE 0)
<1>1. PICK f : f = [e \in Receipts |-> receipts[e].lines[i]]
  OBVIOUS
<1>2. PICK g : g = [e \in Receipts |-> receipts'[e].lines[i]]
  OBVIOUS
<1>3. PICK S : S = {e \in Receipts : receipts[e].status = "POSTED"} \ {None}
  OBVIOUS
<1>4. PICK T : T = {e \in Receipts : receipts'[e].status = "POSTED"} \ {None}
  OBVIOUS
<1>5. Applied(i) = SumFunctionOnSet(f, S)
  BY <1>1, <1>3 DEF Applied, AppliedByOthers, PostedReceipts
<1>6. Applied(i)' = SumFunctionOnSet(g, T)
  BY <1>2, <1>4 DEF Applied, AppliedByOthers, PostedReceipts
<1>7. f \in [Receipts -> Nat] /\ g \in [Receipts -> Nat]
  BY <1>1, <1>2, Types
<1>8. /\ S \in SUBSET Receipts /\ T \in SUBSET Receipts
      /\ d \in S <=> receipts[d].status = "POSTED"
      /\ d \in T <=> receipts'[d].status = "POSTED"
  BY <1>3, <1>4, ReceivablesAssumption
<1>9. \A e \in Receipts \ {d} : f[e] = g[e] /\ (e \in S <=> e \in T)
  BY <1>1, <1>2, <1>3, <1>4
<1>10. f[d] = receipts[d].lines[i] /\ g[d] = receipts'[d].lines[i]
  BY <1>1, <1>2
<1>11. PICK rest \in Nat :
         /\ SumFunctionOnSet(f, S) = rest + (IF d \in S THEN f[d] ELSE 0)
         /\ SumFunctionOnSet(g, T) = rest + (IF d \in T THEN g[d] ELSE 0)
  BY <1>7, <1>8, <1>9, IdsFinite, SumChanges
<1> QED BY <1>5, <1>6, <1>8, <1>10, <1>11

(* One credit note changes.                                                *)
LEMMA CreditedChanges ==
  ASSUME creditNotes \in [CreditNotes -> NoteRow], creditNotes' \in [CreditNotes -> NoteRow],
         NEW c \in CreditNotes, \A e \in CreditNotes \ {c} : creditNotes'[e] = creditNotes[e],
         NEW i \in Invoices
  PROVE  \E rest \in Nat :
           /\ Credited(i) = rest +
                (IF creditNotes[c].status = "POSTED" /\ creditNotes[c].invoice = i
                   THEN creditNotes[c].amount ELSE 0)
           /\ Credited(i)' = rest +
                (IF creditNotes'[c].status = "POSTED" /\ creditNotes'[c].invoice = i
                   THEN creditNotes'[c].amount ELSE 0)
<1>1. PICK f : f = [e \in CreditNotes |-> creditNotes[e].amount]
  OBVIOUS
<1>2. PICK g : g = [e \in CreditNotes |-> creditNotes'[e].amount]
  OBVIOUS
<1>3. PICK S : S = {e \in CreditNotes :
                      creditNotes[e].status = "POSTED" /\ creditNotes[e].invoice = i}
  OBVIOUS
<1>4. PICK T : T = {e \in CreditNotes :
                      creditNotes'[e].status = "POSTED" /\ creditNotes'[e].invoice = i}
  OBVIOUS
<1>5. Credited(i) = SumFunctionOnSet(f, S)
  BY <1>1, <1>3 DEF Credited
<1>6. Credited(i)' = SumFunctionOnSet(g, T)
  BY <1>2, <1>4 DEF Credited
<1>7. f \in [CreditNotes -> Nat] /\ g \in [CreditNotes -> Nat]
  BY <1>1, <1>2 DEF NoteRow
<1>8. /\ S \in SUBSET CreditNotes /\ T \in SUBSET CreditNotes
      /\ c \in S <=> creditNotes[c].status = "POSTED" /\ creditNotes[c].invoice = i
      /\ c \in T <=> creditNotes'[c].status = "POSTED" /\ creditNotes'[c].invoice = i
  BY <1>3, <1>4
<1>9. \A e \in CreditNotes \ {c} : f[e] = g[e] /\ (e \in S <=> e \in T)
  BY <1>1, <1>2, <1>3, <1>4
<1>10. f[c] = creditNotes[c].amount /\ g[c] = creditNotes'[c].amount
  BY <1>1, <1>2
<1>11. PICK rest \in Nat :
         /\ SumFunctionOnSet(f, S) = rest + (IF c \in S THEN f[c] ELSE 0)
         /\ SumFunctionOnSet(g, T) = rest + (IF c \in T THEN g[c] ELSE 0)
  BY <1>7, <1>8, <1>9, IdsFinite, SumChanges
<1> QED BY <1>5, <1>6, <1>8, <1>10, <1>11

(* One refund changes.                                                     *)
LEMMA RefundedChanges ==
  ASSUME refunds \in [Refunds -> RefundRow], refunds' \in [Refunds -> RefundRow],
         NEW x \in Refunds, \A e \in Refunds \ {x} : refunds'[e] = refunds[e],
         NEW c \in CreditNotes
  PROVE  \E rest \in Nat :
           /\ Refunded(c) = rest +
                (IF refunds[x].status = "POSTED" /\ refunds[x].creditNote = c
                   THEN refunds[x].amount ELSE 0)
           /\ Refunded(c)' = rest +
                (IF refunds'[x].status = "POSTED" /\ refunds'[x].creditNote = c
                   THEN refunds'[x].amount ELSE 0)
<1>1. PICK f : f = [e \in Refunds |-> refunds[e].amount]
  OBVIOUS
<1>2. PICK g : g = [e \in Refunds |-> refunds'[e].amount]
  OBVIOUS
<1>3. PICK S : S = {e \in Refunds : refunds[e].status = "POSTED" /\ refunds[e].creditNote = c}
  OBVIOUS
<1>4. PICK T : T = {e \in Refunds : refunds'[e].status = "POSTED" /\ refunds'[e].creditNote = c}
  OBVIOUS
<1>5. Refunded(c) = SumFunctionOnSet(f, S)
  BY <1>1, <1>3 DEF Refunded
<1>6. Refunded(c)' = SumFunctionOnSet(g, T)
  BY <1>2, <1>4 DEF Refunded
<1>7. f \in [Refunds -> Nat] /\ g \in [Refunds -> Nat]
  BY <1>1, <1>2 DEF RefundRow
<1>8. /\ S \in SUBSET Refunds /\ T \in SUBSET Refunds
      /\ x \in S <=> refunds[x].status = "POSTED" /\ refunds[x].creditNote = c
      /\ x \in T <=> refunds'[x].status = "POSTED" /\ refunds'[x].creditNote = c
  BY <1>3, <1>4
<1>9. \A e \in Refunds \ {x} : f[e] = g[e] /\ (e \in S <=> e \in T)
  BY <1>1, <1>2, <1>3, <1>4
<1>10. f[x] = refunds[x].amount /\ g[x] = refunds'[x].amount
  BY <1>1, <1>2
<1>11. PICK rest \in Nat :
         /\ SumFunctionOnSet(f, S) = rest + (IF x \in S THEN f[x] ELSE 0)
         /\ SumFunctionOnSet(g, T) = rest + (IF x \in T THEN g[x] ELSE 0)
  BY <1>7, <1>8, <1>9, IdsFinite, SumChanges
<1> QED BY <1>5, <1>6, <1>8, <1>10, <1>11

(* A table that is left alone adds up to what it added up to.              *)
LEMMA Unchanged ==
  /\ receipts' = receipts => \A i \in Invoices : Applied(i)' = Applied(i)
  /\ creditNotes' = creditNotes => \A i \in Invoices : Credited(i)' = Credited(i)
  /\ refunds' = refunds => \A c \in CreditNotes : Refunded(c)' = Refunded(c)
<1>1. receipts' = receipts => \A i \in Invoices : Applied(i)' = Applied(i)
  BY DEF Applied, AppliedByOthers, PostedReceipts
<1>2. creditNotes' = creditNotes => \A i \in Invoices : Credited(i)' = Credited(i)
  BY DEF Credited
<1>3. refunds' = refunds => \A c \in CreditNotes : Refunded(c)' = Refunded(c)
  BY DEF Refunded
<1> QED BY <1>1, <1>2, <1>3

LEMMA SumsInNat ==
  ASSUME Books
  PROVE  /\ \A i \in Invoices : Applied(i) \in Nat /\ Credited(i) \in Nat
         /\ \A c \in CreditNotes : Refunded(c) \in Nat
<1>1. ASSUME NEW i \in Invoices PROVE Applied(i) \in Nat
  <2>1. PICK f : f = [e \in Receipts |-> receipts[e].lines[i]]
    OBVIOUS
  <2>2. PICK S : S = PostedReceipts \ {None}
    OBVIOUS
  <2>3. S \in SUBSET Receipts /\ IsFiniteSet(S)
    <3>1. S \in SUBSET Receipts
      BY <2>2 DEF PostedReceipts
    <3> QED BY <3>1, IdsFinite, FS_Subset
  <2>4. \A e \in S : f[e] \in Nat
    BY <2>1, <2>3, Types DEF Books
  <2>5. SumFunctionOnSet(f, S) \in Nat
    BY <2>3, <2>4, SumType
  <2> QED BY <2>1, <2>2, <2>5 DEF Applied, AppliedByOthers
<1>2. ASSUME NEW i \in Invoices PROVE Credited(i) \in Nat
  <2>1. PICK f : f = [e \in CreditNotes |-> creditNotes[e].amount]
    OBVIOUS
  <2>2. PICK S : S = {c \in CreditNotes :
                        creditNotes[c].status = "POSTED" /\ creditNotes[c].invoice = i}
    OBVIOUS
  <2>3. S \in SUBSET CreditNotes /\ IsFiniteSet(S)
    <3>1. S \in SUBSET CreditNotes
      BY <2>2
    <3> QED BY <3>1, IdsFinite, FS_Subset
  <2>4. \A e \in S : f[e] \in Nat
    BY <2>1, <2>3 DEF Books, NoteRow
  <2>5. SumFunctionOnSet(f, S) \in Nat
    BY <2>3, <2>4, SumType
  <2> QED BY <2>1, <2>2, <2>5 DEF Credited
<1>3. ASSUME NEW c \in CreditNotes PROVE Refunded(c) \in Nat
  <2>1. PICK f : f = [e \in Refunds |-> refunds[e].amount]
    OBVIOUS
  <2>2. PICK S : S = {x \in Refunds : refunds[x].status = "POSTED" /\ refunds[x].creditNote = c}
    OBVIOUS
  <2>3. S \in SUBSET Refunds /\ IsFiniteSet(S)
    <3>1. S \in SUBSET Refunds
      BY <2>2
    <3> QED BY <3>1, IdsFinite, FS_Subset
  <2>4. \A e \in S : f[e] \in Nat
    BY <2>1, <2>3 DEF Books, RefundRow
  <2>5. SumFunctionOnSet(f, S) \in Nat
    BY <2>3, <2>4, SumType
  <2> QED BY <2>1, <2>2, <2>5 DEF Refunded
<1> QED BY <1>1, <1>2, <1>3

(* Journals.  A posted journal is one more than due, until a mark that     *)
(* makes it due follows.                                                   *)
LEMMA OneMore ==
  ASSUME NEW S, NEW journals \in Seq(S), NEW unmarked \in Nat, NEW due \in Seq(S),
         NEW says \in S,
         unmarked = 0 => journals = due, Len(journals) = unmarked + Len(due)
  PROVE  /\ Len(Append(journals, says)) = unmarked + 1 + Len(due)
         /\ Len(Append(journals, says)) = unmarked + Len(Append(due, says))
         /\ unmarked = 0 => Append(journals, says) = Append(due, says)
         /\ Append(journals, says)[Len(Append(journals, says))] = says
<1>1. /\ Len(Append(journals, says)) = Len(journals) + 1
      /\ Len(Append(due, says)) = Len(due) + 1
      /\ Append(journals, says)[Len(journals) + 1] = says
      /\ Len(due) \in Nat
  OBVIOUS
<1>2. /\ Len(Append(journals, says)) = unmarked + 1 + Len(due)
      /\ Len(Append(journals, says)) = unmarked + Len(Append(due, says))
  BY <1>1
<1>3. Append(journals, says)[Len(Append(journals, says))] = says
  BY <1>1
<1> QED BY <1>2, <1>3

LEMMA InvoiceRowBooked ==
  ASSUME NEW row \in InvoiceRow, NEW says \in Nat, NEW booked, booked = Booked(row, says)
  PROVE  /\ booked \in InvoiceRow
         /\ booked.status = row.status
         /\ booked.total = row.total
         /\ booked.journals = Append(row.journals, says)
         /\ booked.unmarked = row.unmarked + 1
<1>1. row.journals \in Seq(Nat) /\ row.unmarked \in Nat
  BY DEF InvoiceRow
<1>2. Append(row.journals, says) \in Seq(Nat)
  BY <1>1
<1>3. PICK journals \in Seq(Nat) : journals = Append(row.journals, says)
  BY <1>2
<1>4. PICK unmarked \in Nat : unmarked = row.unmarked + 1
  BY <1>1
<1>5. booked = [row EXCEPT !.journals = journals, !.unmarked = unmarked]
  BY <1>3, <1>4 DEF Booked
<1> QED BY <1>3, <1>4, <1>5 DEF InvoiceRow

LEMMA InvoiceRowMarked ==
  ASSUME NEW row \in InvoiceRow, NEW status \in {"POSTED"}, NEW marked, marked = Marked(row, status)
  PROVE  /\ row.unmarked > 0 \/ status \notin {"POSTED", "VOID"} => marked \in InvoiceRow
         /\ marked.status = status
         /\ marked.total = row.total
         /\ marked.journals = row.journals
         /\ marked.unmarked =
              IF status \in {"POSTED", "VOID"} THEN row.unmarked - 1 ELSE row.unmarked
<1>1. row.unmarked \in Nat
  BY DEF InvoiceRow
<1>2. PICK unmarked : unmarked = IF status \in {"POSTED", "VOID"} THEN row.unmarked - 1
                                                                  ELSE row.unmarked
  OBVIOUS
<1>3. marked = [row EXCEPT !.status = status, !.unmarked = unmarked]
  BY <1>2 DEF Marked
<1>4. row.unmarked > 0 \/ status \notin {"POSTED", "VOID"} => unmarked \in Nat
  BY <1>1, <1>2
<1> QED BY <1>2, <1>3, <1>4 DEF InvoiceRow

LEMMA NoteRowBooked ==
  ASSUME NEW row \in NoteRow, NEW says \in {"POSTED", "VOID"}, NEW booked, booked = Booked(row, says)
  PROVE  /\ booked \in NoteRow
         /\ booked.status = row.status
         /\ booked.invoice = row.invoice
         /\ booked.amount = row.amount
         /\ booked.journals = Append(row.journals, says)
         /\ booked.unmarked = row.unmarked + 1
<1>1. row.journals \in Seq({"POSTED", "VOID"}) /\ row.unmarked \in Nat
  BY DEF NoteRow
<1>2. Append(row.journals, says) \in Seq({"POSTED", "VOID"})
  BY <1>1
<1>3. PICK journals \in Seq({"POSTED", "VOID"}) : journals = Append(row.journals, says)
  BY <1>2
<1>4. PICK unmarked \in Nat : unmarked = row.unmarked + 1
  BY <1>1
<1>5. booked = [row EXCEPT !.journals = journals, !.unmarked = unmarked]
  BY <1>3, <1>4 DEF Booked
<1> QED BY <1>3, <1>4, <1>5 DEF NoteRow

LEMMA NoteRowMarked ==
  ASSUME NEW row \in NoteRow, NEW status \in Paper, NEW marked, marked = Marked(row, status)
  PROVE  /\ row.unmarked > 0 \/ status \notin {"POSTED", "VOID"} => marked \in NoteRow
         /\ marked.status = status
         /\ marked.invoice = row.invoice
         /\ marked.amount = row.amount
         /\ marked.journals = row.journals
         /\ marked.unmarked =
              IF status \in {"POSTED", "VOID"} THEN row.unmarked - 1 ELSE row.unmarked
<1>1. row.unmarked \in Nat
  BY DEF NoteRow
<1>2. PICK unmarked : unmarked = IF status \in {"POSTED", "VOID"} THEN row.unmarked - 1
                                                                  ELSE row.unmarked
  OBVIOUS
<1>3. marked = [row EXCEPT !.status = status, !.unmarked = unmarked]
  BY <1>2 DEF Marked
<1>4. row.unmarked > 0 \/ status \notin {"POSTED", "VOID"} => unmarked \in Nat
  BY <1>1, <1>2
<1> QED BY <1>2, <1>3, <1>4 DEF NoteRow, Paper

LEMMA RefundRowBooked ==
  ASSUME NEW row \in RefundRow, NEW says \in {"POSTED", "VOID"}, NEW booked, booked = Booked(row, says)
  PROVE  /\ booked \in RefundRow
         /\ booked.status = row.status
         /\ booked.creditNote = row.creditNote
         /\ booked.amount = row.amount
         /\ booked.journals = Append(row.journals, says)
         /\ booked.unmarked = row.unmarked + 1
<1>1. row.journals \in Seq({"POSTED", "VOID"}) /\ row.unmarked \in Nat
  BY DEF RefundRow
<1>2. Append(row.journals, says) \in Seq({"POSTED", "VOID"})
  BY <1>1
<1>3. PICK journals \in Seq({"POSTED", "VOID"}) : journals = Append(row.journals, says)
  BY <1>2
<1>4. PICK unmarked \in Nat : unmarked = row.unmarked + 1
  BY <1>1
<1>5. booked = [row EXCEPT !.journals = journals, !.unmarked = unmarked]
  BY <1>3, <1>4 DEF Booked
<1> QED BY <1>3, <1>4, <1>5 DEF RefundRow

LEMMA RefundRowMarked ==
  ASSUME NEW row \in RefundRow, NEW status \in Paper, NEW marked, marked = Marked(row, status)
  PROVE  /\ row.unmarked > 0 \/ status \notin {"POSTED", "VOID"} => marked \in RefundRow
         /\ marked.status = status
         /\ marked.creditNote = row.creditNote
         /\ marked.amount = row.amount
         /\ marked.journals = row.journals
         /\ marked.unmarked =
              IF status \in {"POSTED", "VOID"} THEN row.unmarked - 1 ELSE row.unmarked
<1>1. row.unmarked \in Nat
  BY DEF RefundRow
<1>2. PICK unmarked : unmarked = IF status \in {"POSTED", "VOID"} THEN row.unmarked - 1
                                                                  ELSE row.unmarked
  OBVIOUS
<1>3. marked = [row EXCEPT !.status = status, !.unmarked = unmarked]
  BY <1>2 DEF Marked
<1>4. row.unmarked > 0 \/ status \notin {"POSTED", "VOID"} => unmarked \in Nat
  BY <1>1, <1>2
<1> QED BY <1>2, <1>3, <1>4 DEF RefundRow, Paper

(* A posted invoice is in order until it is marked, and then.              *)
LEMMA InvoiceOrder ==
  ASSUME NEW row \in InvoiceRow, row.status = "DRAFT", InvoiceBooked(row),
         NEW booked, booked = Booked(row, row.total)
  PROVE  /\ booked \in InvoiceRow /\ booked.status = "DRAFT" /\ booked.unmarked > 0
         /\ InvoiceBooked(booked) /\ InvoiceBooked(Marked(booked, "POSTED"))
<1>1. row.journals \in Seq(Nat) /\ row.unmarked \in Nat /\ row.total \in Nat
  BY DEF InvoiceRow
<1>2. /\ booked \in InvoiceRow /\ booked.status = "DRAFT" /\ booked.total = row.total
      /\ booked.journals = Append(row.journals, row.total)
      /\ booked.unmarked = row.unmarked + 1
  <2>1. PICK total \in Nat : total = row.total
    BY <1>1
  <2>2. booked = Booked(row, total)
    BY <2>1
  <2>3. row \in InvoiceRow /\ row.status = "DRAFT"
    OBVIOUS
  <2>4. /\ booked \in InvoiceRow /\ booked.status = row.status /\ booked.total = row.total
        /\ booked.journals = Append(row.journals, total)
        /\ booked.unmarked = row.unmarked + 1
    BY ONLY <2>1, <2>2, <2>3, InvoiceRowBooked, ZenonT(40)
  <2> QED BY ONLY <2>1, <2>3, <2>4
<1>3. PICK marked : marked = Marked(booked, "POSTED")
  OBVIOUS
<1>4. /\ marked.status = "POSTED" /\ marked.total = row.total
      /\ marked.journals = booked.journals /\ marked.unmarked = row.unmarked
  <2>1. /\ marked.status = "POSTED" /\ marked.total = booked.total
        /\ marked.journals = booked.journals /\ marked.unmarked = booked.unmarked - 1
    BY <1>2, <1>3, InvoiceRowMarked
  <2> QED BY <1>1, <1>2, <2>1
<1>5. PICK due \in Seq(Nat) : due = <<>> /\ Accounted(row, due)
  <2>1. Accounted(row, <<>>) /\ <<>> \in Seq(Nat)
    BY DEF InvoiceBooked
  <2> QED BY <2>1
<1>6. /\ Accounted(booked, <<>>) /\ booked.journals[Len(booked.journals)] = row.total
      /\ Accounted(marked, Append(<<>>, row.total))
  <2>1. /\ Len(booked.journals) = row.unmarked + 1 + Len(due)
        /\ Len(booked.journals) = row.unmarked + Len(Append(due, row.total))
        /\ row.unmarked = 0 => booked.journals = Append(due, row.total)
        /\ booked.journals[Len(booked.journals)] = row.total
    <3>1. PICK journals \in Seq(Nat), unmarked \in Nat, total \in Nat :
            journals = row.journals /\ unmarked = row.unmarked /\ total = row.total
      BY <1>1
    <3>2. (unmarked = 0 => journals = due) /\ Len(journals) = unmarked + Len(due)
      BY <1>5, <3>1 DEF Accounted
    <3>3. /\ Len(Append(journals, total)) = unmarked + 1 + Len(due)
          /\ Len(Append(journals, total)) = unmarked + Len(Append(due, total))
          /\ unmarked = 0 => Append(journals, total) = Append(due, total)
          /\ Append(journals, total)[Len(Append(journals, total))] = total
      BY <3>2, OneMore
    <3> QED BY <1>2, <3>1, <3>3
  <2>2. Accounted(booked, due)
    BY <1>1, <1>2, <2>1 DEF Accounted
  <2>3. Accounted(marked, Append(due, row.total))
    BY <1>4, <2>1 DEF Accounted
  <2> QED BY <1>5, <2>1, <2>2, <2>3
<1>7. Append(<<>>, row.total) = <<row.total>>
  OBVIOUS
<1>8. InvoiceBooked(booked)
  BY <1>2, <1>6 DEF InvoiceBooked
<1>9. InvoiceBooked(marked)
  BY <1>4, <1>6, <1>7 DEF InvoiceBooked
<1> QED BY <1>1, <1>2, <1>3, <1>8, <1>9

(* Before that, its total may change.                                      *)
LEMMA InvoiceEdited ==
  ASSUME NEW row \in InvoiceRow, row.status # "POSTED", InvoiceBooked(row),
         NEW new \in InvoiceRow, new.status = "DRAFT",
         new.journals = row.journals, new.unmarked = row.unmarked
  PROVE  InvoiceBooked(new)
BY DEF InvoiceBooked, Accounted

(* A credit note or a refund, too, is in order until it is marked, and     *)
(* then; marks that follow no journal change nothing.                      *)
LEMMA PaperMarked ==
  ASSUME NEW row, PaperBooked(row), NEW new,
         \/ row.status = "NONE" /\ new.status = "DRAFT"
         \/ row.status = "DRAFT" /\ new.status = "SUBMITTED"
         \/ row.status = "SUBMITTED" /\ new.status = "APPROVED",
         new.journals = row.journals, new.unmarked = row.unmarked
  PROVE  PaperBooked(new)
<1>1. PaperJournals(row.status) = <<>> /\ PaperJournals(new.status) = <<>>
  BY DEF PaperJournals
<1> QED BY <1>1 DEF PaperBooked, Accounted

(* A journal is posted for an approved one, or to void one.                *)
LEMMA PaperOrder ==
  ASSUME NEW row, row.journals \in Seq({"POSTED", "VOID"}), row.unmarked \in Nat,
         PaperBooked(row), NEW says \in {"POSTED", "VOID"},
         row.status = IF says = "POSTED" THEN "APPROVED" ELSE "POSTED",
         NEW booked, booked.status = row.status,
         booked.journals = Append(row.journals, says), booked.unmarked = row.unmarked + 1,
         NEW marked, marked.status = says,
         marked.journals = booked.journals, marked.unmarked = booked.unmarked - 1
  PROVE  booked.unmarked > 0 /\ PaperBooked(booked) /\ PaperBooked(marked)
<1>1. PICK due : due = PaperJournals(row.status)
  OBVIOUS
<1>2. due \in Seq({"POSTED", "VOID"}) /\ PaperJournals(says) = Append(due, says)
  <2>1. CASE says = "POSTED"
    <3>1. due = <<>> /\ PaperJournals(says) = <<"POSTED">>
      BY <1>1, <2>1 DEF PaperJournals
    <3> QED BY <2>1, <3>1
  <2>2. CASE says = "VOID"
    <3>1. due = <<"POSTED">> /\ PaperJournals(says) = <<"POSTED", "VOID">>
      BY <1>1, <2>2 DEF PaperJournals
    <3> QED BY <2>2, <3>1
  <2> QED BY <2>1, <2>2
<1>3. Accounted(row, due) /\ marked.unmarked = row.unmarked
  BY <1>1 DEF PaperBooked
<1>4. Accounted(booked, due) /\ Accounted(marked, PaperJournals(says))
  <2>1. /\ Len(booked.journals) = row.unmarked + 1 + Len(due)
        /\ Len(booked.journals) = row.unmarked + Len(Append(due, says))
        /\ row.unmarked = 0 => booked.journals = Append(due, says)
    <3>1. PICK journals \in Seq({"POSTED", "VOID"}), unmarked \in Nat :
            journals = row.journals /\ unmarked = row.unmarked
      OBVIOUS
    <3>2. (unmarked = 0 => journals = due) /\ Len(journals) = unmarked + Len(due)
      BY <1>3, <3>1 DEF Accounted
    <3>3. /\ Len(Append(journals, says)) = unmarked + 1 + Len(due)
          /\ Len(Append(journals, says)) = unmarked + Len(Append(due, says))
          /\ unmarked = 0 => Append(journals, says) = Append(due, says)
      BY <1>2, <3>2, OneMore
    <3> QED BY <3>1, <3>3
  <2>2. Accounted(booked, due)
    BY <2>1 DEF Accounted
  <2>3. Accounted(marked, Append(due, says))
    BY <1>3, <2>1 DEF Accounted
  <2> QED BY <1>2, <2>2, <2>3
<1>5. booked.unmarked > 0
  OBVIOUS
<1>6. PaperBooked(booked)
  BY <1>1, <1>4 DEF PaperBooked
<1>7. PaperBooked(marked)
  BY <1>4 DEF PaperBooked
<1> QED BY <1>5, <1>6, <1>7

(* In the words of Drawings: what is left of an invoice and of a credit    *)
(* note, and what a step may do to the limits and to what is drawn.        *)
DocumentsDrawing ==
  /\ ByReceipts!Next \/ UNCHANGED <<Invoiced, Allocated>>
  /\ ByCreditNotes!Next \/ UNCHANGED <<Invoiced, CreditedTo>>
  /\ ByRefunds!Next \/ UNCHANGED <<Noted, RefundedOf>>

BooksStay == Books' /\ DocumentsDrawing
ArStays == ArInv' /\ (~overlap => DocumentsDrawing)

LEMMA LeftForReceipts ==
  ASSUME Books, NEW i \in Invoices
  PROVE  ByReceipts!Left(i) = Limit(i) - Applied(i)
<1>1. PICK f : f = [d \in Receipts |-> receipts[d].lines[i]]
  OBVIOUS
<1>2. PICK g : g = [d \in Receipts |-> Allocated[d][i]]
  OBVIOUS
<1>3. PICK S : S = PostedReceipts \ {None}
  OBVIOUS
<1>4. S \subseteq Receipts /\ \A d \in S : f[d] \in Nat
  BY <1>1, <1>3, Types DEF Books, PostedReceipts
<1>5. \A d \in Receipts : g[d] = IF d \in S THEN f[d] ELSE 0
  BY <1>1, <1>2, <1>3, ReceivablesAssumption
     DEF PostedReceipts, Allocated, NoLines
<1>6. SumFunctionOnSet(g, Receipts) = SumFunctionOnSet(f, S)
  BY <1>4, <1>5, IdsFinite, SumRestricted
<1>7. ByReceipts!Left(i) = Invoiced[i] - SumFunctionOnSet(g, Receipts)
  BY <1>2
     DEF ByReceipts!Left, ByReceipts!SumFunctionOnSet, ByReceipts!FoldFunctionOnSet,
         ByReceipts!MapThenFoldSet, SumFunctionOnSet, FoldFunctionOnSet, MapThenFoldSet
<1>8. Invoiced[i] = Limit(i)
  BY DEF Invoiced, Limit
<1> QED BY <1>1, <1>3, <1>6, <1>7, <1>8 DEF Applied, AppliedByOthers

LEMMA LeftForCreditNotes ==
  ASSUME Books, NEW i \in Invoices
  PROVE  ByCreditNotes!Left(i) = Limit(i) - Credited(i)
<1>1. PICK f : f = [c \in CreditNotes |-> creditNotes[c].amount]
  OBVIOUS
<1>2. PICK g : g = [c \in CreditNotes |-> CreditedTo[c][i]]
  OBVIOUS
<1>3. PICK S : S = {c \in CreditNotes :
                      creditNotes[c].status = "POSTED" /\ creditNotes[c].invoice = i}
  OBVIOUS
<1>4. S \subseteq CreditNotes /\ \A c \in S : f[c] \in Nat
  BY <1>1, <1>3 DEF Books, NoteRow
<1>5. \A c \in CreditNotes : g[c] = IF c \in S THEN f[c] ELSE 0
  BY <1>1, <1>2, <1>3 DEF CreditedTo
<1>6. SumFunctionOnSet(g, CreditNotes) = SumFunctionOnSet(f, S)
  BY <1>4, <1>5, IdsFinite, SumRestricted
<1>7. ByCreditNotes!Left(i) = Invoiced[i] - SumFunctionOnSet(g, CreditNotes)
  BY <1>2
     DEF ByCreditNotes!Left, ByCreditNotes!SumFunctionOnSet, ByCreditNotes!FoldFunctionOnSet,
         ByCreditNotes!MapThenFoldSet, SumFunctionOnSet, FoldFunctionOnSet, MapThenFoldSet
<1>8. Invoiced[i] = Limit(i)
  BY DEF Invoiced, Limit
<1> QED BY <1>1, <1>3, <1>6, <1>7, <1>8 DEF Credited

LEMMA LeftForRefunds ==
  ASSUME Books, NEW c \in CreditNotes
  PROVE  ByRefunds!Left(c) = CreditLimit(c) - Refunded(c)
<1>1. PICK f : f = [x \in Refunds |-> refunds[x].amount]
  OBVIOUS
<1>2. PICK g : g = [x \in Refunds |-> RefundedOf[x][c]]
  OBVIOUS
<1>3. PICK S : S = {x \in Refunds : refunds[x].status = "POSTED" /\ refunds[x].creditNote = c}
  OBVIOUS
<1>4. S \subseteq Refunds /\ \A x \in S : f[x] \in Nat
  BY <1>1, <1>3 DEF Books, RefundRow
<1>5. \A x \in Refunds : g[x] = IF x \in S THEN f[x] ELSE 0
  BY <1>1, <1>2, <1>3 DEF RefundedOf
<1>6. SumFunctionOnSet(g, Refunds) = SumFunctionOnSet(f, S)
  BY <1>4, <1>5, IdsFinite, SumRestricted
<1>7. ByRefunds!Left(c) = Noted[c] - SumFunctionOnSet(g, Refunds)
  BY <1>2
     DEF ByRefunds!Left, ByRefunds!SumFunctionOnSet, ByRefunds!FoldFunctionOnSet,
         ByRefunds!MapThenFoldSet, SumFunctionOnSet, FoldFunctionOnSet, MapThenFoldSet
<1>8. Noted[c] = CreditLimit(c)
  BY DEF Noted, CreditLimit
<1> QED BY <1>1, <1>3, <1>6, <1>7, <1>8 DEF Refunded

(* What may be written to one row of a table.                              *)
LEMMA InvoiceWritten ==
  ASSUME Books, UNCHANGED <<receipts, creditNotes, refunds>>,
         invoices' \in [Invoices -> InvoiceRow],
         NEW i \in Invoices, \A j \in Invoices \ {i} : invoices'[j] = invoices[j],
         invoices[i].status # "POSTED", InvoiceBooked(invoices'[i])
  PROVE  BooksStay
<1>1. \A j \in Invoices : Applied(j)' = Applied(j) /\ Credited(j)' = Credited(j)
  BY Unchanged
<1>2. \A c \in CreditNotes : Refunded(c)' = Refunded(c)
  BY Unchanged
<1>3. \A j \in Invoices : Applied(j) \in Nat /\ Credited(j) \in Nat
  BY SumsInNat
<1>4. /\ \A j \in Invoices : Applied(j) <= Limit(j) /\ Credited(j) <= Limit(j)
      /\ Limit(i) = 0 /\ Limit(i)' \in Nat
      /\ \A j \in Invoices \ {i} : Limit(j)' = Limit(j)
  BY DEF Books, Limit, InvoiceRow
<1>5. \A j \in Invoices : Applied(j)' <= Limit(j)' /\ Credited(j)' <= Limit(j)'
  BY <1>1, <1>3, <1>4
<1>6. \A c \in CreditNotes : CreditLimit(c)' = CreditLimit(c)
  BY DEF CreditLimit
<1>7. ASSUME NEW c \in CreditNotes, creditNotes[c].invoice # None
      PROVE  invoices'[creditNotes[c].invoice].status = "POSTED"
  <2>1. creditNotes[c].invoice \in Invoices \ {i}
    BY <1>7 DEF Books, NoteRow
  <2> QED BY <1>7, <2>1 DEF Books
<1>8. Books'
  BY <1>1, <1>2, <1>5, <1>6, <1>7 DEF Books
<1>9. UNCHANGED <<Allocated, CreditedTo, Noted, RefundedOf>>
  BY DEF Allocated, CreditedTo, Noted, RefundedOf
<1>10. Invoiced' = [Invoiced EXCEPT ![i] = Invoiced'[i]]
  BY DEF Invoiced
<1>11. Invoiced[i] = 0 /\ Invoiced'[i] \in Nat
  BY DEF Invoiced, InvoiceRow
<1>12. ByReceipts!Grant(i) /\ ByCreditNotes!Grant(i)
  BY <1>9, <1>10, <1>11 DEF ByReceipts!Grant, ByCreditNotes!Grant
<1> QED
  BY <1>8, <1>9, <1>12 DEF BooksStay, DocumentsDrawing, ByReceipts!Next, ByCreditNotes!Next

LEMMA ReceiptWritten ==
  ASSUME Books, UNCHANGED <<invoices, creditNotes, refunds>>,
         receipts' \in [Receipts -> ReceiptRow],
         NEW d \in Receipts, \A e \in Receipts \ {d} : receipts'[e] = receipts[e],
         ReceiptBooked(receipts'[d]),
         receipts'[d].status = "POSTED" =>
           /\ receipts[d].status = "DRAFT" /\ LinesFit(receipts'[d].lines)
  PROVE  BooksStay
<1>1. \A j \in Invoices : Credited(j)' = Credited(j) /\ Limit(j)' = Limit(j)
  BY Unchanged DEF Limit
<1>2. \A c \in CreditNotes : Refunded(c)' = Refunded(c) /\ CreditLimit(c)' = CreditLimit(c)
  BY Unchanged DEF CreditLimit
<1>3. ASSUME NEW i \in Invoices PROVE Applied(i)' <= Limit(i)'
  <2>1. Applied(i) \in Nat /\ Applied(i) <= Limit(i) /\ Limit(i) \in Nat /\ invoices[i].total \in Nat
    BY SumsInNat DEF Books, Limit, InvoiceRow
  <2>2. PICK rest \in Nat :
          /\ Applied(i) =
               rest + (IF receipts[d].status = "POSTED" THEN receipts[d].lines[i] ELSE 0)
          /\ Applied(i)' =
               rest + (IF receipts'[d].status = "POSTED" THEN receipts'[d].lines[i] ELSE 0)
    BY AppliedChanges DEF Books
  <2>3. receipts[d].lines[i] \in Nat /\ receipts'[d].lines[i] \in Nat
    BY Types DEF Books
  <2>4. CASE receipts'[d].status # "POSTED"
    BY <1>1, <2>1, <2>2, <2>3, <2>4
  <2>5. CASE receipts'[d].status = "POSTED"
    <3>1. /\ Applied(i) = rest /\ Applied(i)' = rest + receipts'[d].lines[i]
          /\ receipts'[d].lines[i] > 0 =>
               invoices[i].status = "POSTED"
                 /\ receipts'[d].lines[i] <= invoices[i].total - Applied(i)
      BY <2>2, <2>5 DEF LinesFit
    <3>2. CASE receipts'[d].lines[i] > 0
      BY <1>1, <2>1, <2>3, <3>1, <3>2 DEF Limit
    <3>3. CASE receipts'[d].lines[i] = 0
      BY <1>1, <2>1, <3>1, <3>3
    <3> QED BY <2>3, <3>2, <3>3
  <2> QED BY <2>4, <2>5
<1>4. Books'
  BY <1>1, <1>2, <1>3 DEF Books
<1>5. UNCHANGED <<Invoiced, CreditedTo, Noted, RefundedOf>>
  BY DEF Invoiced, CreditedTo, Noted, RefundedOf
<1>6. /\ Allocated' = [Allocated EXCEPT ![d] = Allocated'[d]]
      /\ Allocated[d] = IF receipts[d].status = "POSTED" THEN receipts[d].lines ELSE NoLines
      /\ Allocated'[d] = IF receipts'[d].status = "POSTED" THEN receipts'[d].lines ELSE NoLines
  BY DEF Allocated
<1>7. ByReceipts!Nothing = NoLines
  BY DEF ByReceipts!Nothing, NoLines
<1>8. ByReceipts!Next
  <2>1. CASE receipts'[d].status # "POSTED"
    <3>1. ByReceipts!GiveBack(d)
      BY <1>5, <1>6, <1>7, <2>1 DEF ByReceipts!GiveBack
    <3> QED BY <3>1 DEF ByReceipts!Next
  <2>2. CASE receipts'[d].status = "POSTED"
    <3>1. ASSUME NEW i \in Invoices PROVE receipts'[d].lines[i] \in 0..ByReceipts!Left(i)
      <4>1. ByReceipts!Left(i) = Limit(i) - Applied(i)
        BY LeftForReceipts
      <4>2. /\ Applied(i) \in Nat /\ Limit(i) \in Nat /\ Applied(i) <= Limit(i)
            /\ receipts'[d].lines[i] \in Nat
        <5>1. Applied(i) \in Nat /\ Applied(i) <= Limit(i)
          BY SumsInNat DEF Books
        <5>2. Limit(i) \in Nat
          BY DEF Books, Limit, InvoiceRow
        <5>3. receipts'[d].lines[i] \in Nat
          BY Types DEF Books
        <5> QED BY <5>1, <5>2, <5>3
      <4>3. receipts'[d].lines[i] > 0 =>
              /\ invoices[i].status = "POSTED"
              /\ receipts'[d].lines[i] <= invoices[i].total - Applied(i)
        BY <2>2 DEF LinesFit
      <4> QED BY <4>1, <4>2, <4>3 DEF Limit
    <3>2. receipts[d].status # "POSTED"
      BY <2>2
    <3>3. ByReceipts!Draw(d)
      BY <1>5, <1>6, <1>7, <2>2, <3>1, <3>2 DEF ByReceipts!Draw
    <3> QED BY <3>3 DEF ByReceipts!Next
  <2> QED BY <2>1, <2>2
<1> QED BY <1>4, <1>5, <1>8 DEF BooksStay, DocumentsDrawing

LEMMA NoteWritten ==
  ASSUME Books, UNCHANGED <<invoices, receipts, refunds>>,
         creditNotes' \in [CreditNotes -> NoteRow],
         NEW c \in CreditNotes, \A e \in CreditNotes \ {c} : creditNotes'[e] = creditNotes[e],
         creditNotes'[c].status # "NONE",
         creditNotes[c].status \in {"POSTED", "VOID"} =>
           creditNotes'[c].status \in {"POSTED", "VOID"},
         PaperBooked(creditNotes'[c]),
         creditNotes'[c].invoice # None => invoices[creditNotes'[c].invoice].status = "POSTED",
         creditNotes[c].status = "NONE" \/ creditNotes'[c].amount = creditNotes[c].amount,
         creditNotes'[c].status = "POSTED" =>
           /\ creditNotes'[c].invoice = creditNotes[c].invoice
           /\ creditNotes'[c].amount = creditNotes[c].amount
           /\ creditNotes[c].status # "POSTED" => WithinOutstanding(c)
  PROVE  BooksStay
<1>1. \A j \in Invoices : Applied(j)' = Applied(j) /\ Limit(j)' = Limit(j)
  BY Unchanged DEF Limit
<1>2. ASSUME NEW e \in CreditNotes PROVE Refunded(e)' <= CreditLimit(e)'
  <2>1. Refunded(e)' = Refunded(e) /\ Refunded(e) <= CreditLimit(e) /\ Refunded(e) \in Nat
    BY Unchanged, SumsInNat DEF Books
  <2>2. e # c => CreditLimit(e)' = CreditLimit(e)
    BY DEF CreditLimit
  <2>3. CreditLimit(c) = 0 \/ CreditLimit(c)' = CreditLimit(c)
    BY DEF CreditLimit
  <2>4. CreditLimit(c)' \in Nat
    BY DEF CreditLimit, NoteRow
  <2> QED BY <2>1, <2>2, <2>3, <2>4
<1>3. ASSUME NEW i \in Invoices PROVE Credited(i)' <= Limit(i)'
  <2>1. /\ Applied(i) \in Nat /\ Credited(i) \in Nat /\ Credited(i) <= Limit(i)
        /\ Limit(i) \in Nat /\ invoices[i].total \in Nat
    BY SumsInNat DEF Books, Limit, InvoiceRow
  <2>2. PICK rest \in Nat :
          /\ Credited(i) = rest +
               (IF creditNotes[c].status = "POSTED" /\ creditNotes[c].invoice = i
                  THEN creditNotes[c].amount ELSE 0)
          /\ Credited(i)' = rest +
               (IF creditNotes'[c].status = "POSTED" /\ creditNotes'[c].invoice = i
                  THEN creditNotes'[c].amount ELSE 0)
    BY CreditedChanges DEF Books
  <2>3. creditNotes[c].amount \in Nat /\ creditNotes'[c].amount \in Nat
    BY DEF Books, NoteRow
  <2>4. CASE ~(creditNotes'[c].status = "POSTED" /\ creditNotes'[c].invoice = i)
    BY <1>1, <2>1, <2>2, <2>3, <2>4
  <2>5. CASE /\ creditNotes'[c].status = "POSTED" /\ creditNotes'[c].invoice = i
             /\ creditNotes[c].status = "POSTED"
    BY <1>1, <2>1, <2>2, <2>5
  <2>6. CASE /\ creditNotes'[c].status = "POSTED" /\ creditNotes'[c].invoice = i
             /\ creditNotes[c].status # "POSTED"
    <3>1. Credited(i) = rest /\ Credited(i)' = rest + creditNotes[c].amount
      BY <2>2, <2>6
    <3>2. i # None
      BY ReceivablesAssumption
    <3>3. creditNotes[c].amount <= invoices[i].total - Applied(i) - Credited(i)
      BY <2>6, <3>2 DEF WithinOutstanding, Outstanding, Applied
    <3>4. invoices[i].status = "POSTED"
      BY <2>6, <3>2
    <3> QED BY <1>1, <2>1, <2>3, <3>1, <3>3, <3>4 DEF Limit
  <2> QED BY <2>4, <2>5, <2>6
<1>4. ASSUME NEW x \in Refunds, refunds[x].status # "NONE"
      PROVE  /\ refunds[x].creditNote \in CreditNotes
             /\ creditNotes'[refunds[x].creditNote].status \in {"POSTED", "VOID"}
  <2>1. /\ refunds[x].creditNote \in CreditNotes
        /\ creditNotes[refunds[x].creditNote].status \in {"POSTED", "VOID"}
    BY <1>4 DEF Books
  <2> QED BY <2>1
<1>5. Books'
  BY <1>1, <1>2, <1>3, <1>4 DEF Books
<1>6. UNCHANGED <<Invoiced, Allocated, RefundedOf>>
  BY DEF Invoiced, Allocated, RefundedOf
<1>7. ByRefunds!Next \/ UNCHANGED <<Noted, RefundedOf>>
  <2>1. Noted' = [Noted EXCEPT ![c] = Noted'[c]]
    BY DEF Noted
  <2>2. CASE creditNotes[c].status \in {"POSTED", "VOID"}
    <3>1. Noted'[c] = Noted[c]
      BY <2>2 DEF Noted
    <3>2. Noted' = Noted
      BY <2>1, <3>1 DEF Noted
    <3> QED BY <1>6, <3>2
  <2>3. CASE creditNotes[c].status \notin {"POSTED", "VOID"}
    <3>1. Noted[c] = 0 /\ Noted'[c] \in Nat
      BY <2>3 DEF Noted, NoteRow
    <3>2. ByRefunds!Grant(c)
      BY <1>6, <2>1, <3>1 DEF ByRefunds!Grant
    <3> QED BY <3>2 DEF ByRefunds!Next
  <2> QED BY <2>2, <2>3
<1>8. CreditedTo' = [CreditedTo EXCEPT ![c] = CreditedTo'[c]]
  <2>1. ASSUME NEW e \in CreditNotes, e # c PROVE CreditedTo'[e] = CreditedTo[e]
    BY <2>1 DEF CreditedTo
  <2>2. /\ CreditedTo = [e \in CreditNotes |-> CreditedTo[e]]
        /\ CreditedTo' = [e \in CreditNotes |-> CreditedTo'[e]]
    BY Zenon DEF CreditedTo
  <2> QED BY <2>1, <2>2
<1>9. /\ CreditedTo[c] = [i \in Invoices |->
           IF creditNotes[c].status = "POSTED" /\ creditNotes[c].invoice = i
             THEN creditNotes[c].amount ELSE 0]
      /\ CreditedTo'[c] = [i \in Invoices |->
           IF creditNotes'[c].status = "POSTED" /\ creditNotes'[c].invoice = i
             THEN creditNotes'[c].amount ELSE 0]
  BY DEF CreditedTo
<1>10. ByCreditNotes!Next \/ UNCHANGED <<Invoiced, CreditedTo>>
  <2>1. CASE creditNotes'[c].status # "POSTED"
    <3>1. CreditedTo'[c] = ByCreditNotes!Nothing
      BY <1>9, <2>1 DEF ByCreditNotes!Nothing
    <3>2. ByCreditNotes!GiveBack(c)
      BY <1>6, <1>8, <3>1 DEF ByCreditNotes!GiveBack
    <3> QED BY <3>2 DEF ByCreditNotes!Next
  <2>2. CASE creditNotes'[c].status = "POSTED" /\ creditNotes[c].status = "POSTED"
    <3>1. CreditedTo'[c] = CreditedTo[c]
      BY <1>9, <2>2
    <3>2. CreditedTo' = CreditedTo
      BY <1>8, <3>1 DEF CreditedTo
    <3> QED BY <1>6, <3>2
  <2>3. CASE creditNotes'[c].status = "POSTED" /\ creditNotes[c].status # "POSTED"
    <3>1. ASSUME NEW i \in Invoices PROVE CreditedTo'[c][i] \in 0..ByCreditNotes!Left(i)
      <4>1. ByCreditNotes!Left(i) = Limit(i) - Credited(i)
        BY LeftForCreditNotes
      <4>2. /\ Applied(i) \in Nat /\ Credited(i) \in Nat /\ Limit(i) \in Nat
            /\ Credited(i) <= Limit(i) /\ creditNotes[c].amount \in Nat
        BY SumsInNat DEF Books, Limit, InvoiceRow, NoteRow
      <4>3. CASE creditNotes[c].invoice # i
        <5>1. CreditedTo'[c][i] = 0
          BY <1>9, <2>3, <4>3
        <5> QED BY <4>1, <4>2, <5>1
      <4>4. CASE creditNotes[c].invoice = i
        <5>1. i # None
          BY ReceivablesAssumption
        <5>2. creditNotes[c].amount <= invoices[i].total - Applied(i) - Credited(i)
          BY <2>3, <4>4, <5>1 DEF WithinOutstanding, Outstanding, Applied
        <5>3. invoices[i].status = "POSTED"
          BY <2>3, <4>4, <5>1
        <5>4. Limit(i) = invoices[i].total
          BY <5>3 DEF Limit
        <5>5. CreditedTo'[c][i] = creditNotes[c].amount
          BY <1>9, <2>3, <4>4
        <5> QED BY <4>1, <4>2, <5>2, <5>4, <5>5
      <4> QED BY <4>3, <4>4
    <3>2. CreditedTo[c] = ByCreditNotes!Nothing
      BY <1>9, <2>3 DEF ByCreditNotes!Nothing
    <3>3. ByCreditNotes!Draw(c)
      BY <1>6, <1>8, <3>1, <3>2 DEF ByCreditNotes!Draw
    <3> QED BY <3>3 DEF ByCreditNotes!Next
  <2> QED BY <2>1, <2>2, <2>3
<1> QED BY <1>5, <1>6, <1>7, <1>10 DEF BooksStay, DocumentsDrawing

LEMMA RefundWritten ==
  ASSUME Books, UNCHANGED <<invoices, receipts, creditNotes>>,
         refunds' \in [Refunds -> RefundRow],
         NEW x \in Refunds, \A e \in Refunds \ {x} : refunds'[e] = refunds[e],
         PaperBooked(refunds'[x]),
         refunds'[x].creditNote \in CreditNotes,
         creditNotes[refunds'[x].creditNote].status \in {"POSTED", "VOID"},
         refunds'[x].status = "POSTED" =>
           /\ refunds'[x].creditNote = refunds[x].creditNote
           /\ refunds'[x].amount = refunds[x].amount
           /\ refunds[x].status # "POSTED" => RefundFits(x)
  PROVE  BooksStay
<1>1. \A j \in Invoices : /\ Applied(j)' = Applied(j) /\ Limit(j)' = Limit(j)
                          /\ Credited(j)' = Credited(j)
  BY Unchanged DEF Limit
<1>2. \A c \in CreditNotes : CreditLimit(c)' = CreditLimit(c)
  BY DEF CreditLimit
<1>3. ASSUME NEW c \in CreditNotes PROVE Refunded(c)' <= CreditLimit(c)'
  <2>1. /\ Refunded(c) \in Nat /\ Refunded(c) <= CreditLimit(c)
        /\ CreditLimit(c) \in Nat /\ creditNotes[c].amount \in Nat
    BY SumsInNat DEF Books, CreditLimit, NoteRow
  <2>2. PICK rest \in Nat :
          /\ Refunded(c) = rest +
               (IF refunds[x].status = "POSTED" /\ refunds[x].creditNote = c
                  THEN refunds[x].amount ELSE 0)
          /\ Refunded(c)' = rest +
               (IF refunds'[x].status = "POSTED" /\ refunds'[x].creditNote = c
                  THEN refunds'[x].amount ELSE 0)
    BY RefundedChanges DEF Books
  <2>3. refunds[x].amount \in Nat /\ refunds'[x].amount \in Nat
    BY DEF Books, RefundRow
  <2>4. CASE ~(refunds'[x].status = "POSTED" /\ refunds'[x].creditNote = c)
    BY <1>2, <2>1, <2>2, <2>3, <2>4
  <2>5. CASE /\ refunds'[x].status = "POSTED" /\ refunds'[x].creditNote = c
             /\ refunds[x].status = "POSTED"
    BY <1>2, <2>1, <2>2, <2>5
  <2>6. CASE /\ refunds'[x].status = "POSTED" /\ refunds'[x].creditNote = c
             /\ refunds[x].status # "POSTED"
    <3>1. Refunded(c) = rest /\ Refunded(c)' = rest + refunds[x].amount
      BY <2>2, <2>6
    <3>2. refunds[x].amount <= creditNotes[c].amount - Refunded(c)
      BY <2>6 DEF RefundFits, Refundable
    <3>3. creditNotes[c].status \in {"POSTED", "VOID"}
      BY <2>6
    <3> QED BY <1>2, <2>1, <2>3, <3>1, <3>2, <3>3 DEF CreditLimit
  <2> QED BY <2>4, <2>5, <2>6
<1>4. ASSUME NEW e \in Refunds
      PROVE  /\ PaperBooked(refunds'[e])
             /\ refunds'[e].status # "NONE" =>
                  /\ refunds'[e].creditNote \in CreditNotes
                  /\ creditNotes[refunds'[e].creditNote].status \in {"POSTED", "VOID"}
  <2>1. CASE e = x
    BY <2>1
  <2>2. CASE e # x
    BY <2>2 DEF Books
  <2> QED BY <2>1, <2>2
<1>5. Books'
  BY <1>1, <1>2, <1>3, <1>4 DEF Books
<1>6. UNCHANGED <<Invoiced, Allocated, CreditedTo, Noted>>
  BY DEF Invoiced, Allocated, CreditedTo, Noted
<1>7. RefundedOf' = [RefundedOf EXCEPT ![x] = RefundedOf'[x]]
  <2>1. ASSUME NEW y \in Refunds, y # x PROVE RefundedOf'[y] = RefundedOf[y]
    BY <2>1 DEF RefundedOf
  <2>2. /\ RefundedOf = [y \in Refunds |-> RefundedOf[y]]
        /\ RefundedOf' = [y \in Refunds |-> RefundedOf'[y]]
    BY Zenon DEF RefundedOf
  <2> QED BY <2>1, <2>2
<1>8. /\ RefundedOf[x] = [c \in CreditNotes |->
           IF refunds[x].status = "POSTED" /\ refunds[x].creditNote = c
             THEN refunds[x].amount ELSE 0]
      /\ RefundedOf'[x] = [c \in CreditNotes |->
           IF refunds'[x].status = "POSTED" /\ refunds'[x].creditNote = c
             THEN refunds'[x].amount ELSE 0]
  BY DEF RefundedOf
<1>9. ByRefunds!Next \/ UNCHANGED <<Noted, RefundedOf>>
  <2>1. CASE refunds'[x].status # "POSTED"
    <3>1. RefundedOf'[x] = ByRefunds!Nothing
      BY <1>8, <2>1 DEF ByRefunds!Nothing
    <3>2. ByRefunds!GiveBack(x)
      BY <1>6, <1>7, <3>1 DEF ByRefunds!GiveBack
    <3> QED BY <3>2 DEF ByRefunds!Next
  <2>2. CASE refunds'[x].status = "POSTED" /\ refunds[x].status = "POSTED"
    <3>1. RefundedOf'[x] = RefundedOf[x]
      BY <1>8, <2>2
    <3>2. RefundedOf' = RefundedOf
      BY <1>7, <3>1 DEF RefundedOf
    <3> QED BY <1>6, <3>2
  <2>3. CASE refunds'[x].status = "POSTED" /\ refunds[x].status # "POSTED"
    <3>1. ASSUME NEW c \in CreditNotes PROVE RefundedOf'[x][c] \in 0..ByRefunds!Left(c)
      <4>1. ByRefunds!Left(c) = CreditLimit(c) - Refunded(c)
        BY LeftForRefunds
      <4>2. /\ Refunded(c) \in Nat /\ CreditLimit(c) \in Nat /\ Refunded(c) <= CreditLimit(c)
            /\ refunds[x].amount \in Nat
        BY SumsInNat DEF Books, CreditLimit, NoteRow, RefundRow
      <4>3. CASE refunds[x].creditNote # c
        <5>1. RefundedOf'[x][c] = 0
          BY <1>8, <2>3, <4>3
        <5> QED BY <4>1, <4>2, <5>1
      <4>4. CASE refunds[x].creditNote = c
        <5>1. refunds[x].amount <= creditNotes[c].amount - Refunded(c)
          BY <2>3, <4>4 DEF RefundFits, Refundable
        <5>2. CreditLimit(c) = creditNotes[c].amount
          BY <2>3, <4>4 DEF CreditLimit
        <5>3. RefundedOf'[x][c] = refunds[x].amount
          BY <1>8, <2>3, <4>4
        <5> QED BY <4>1, <4>2, <5>1, <5>2, <5>3
      <4> QED BY <4>3, <4>4
    <3>2. RefundedOf[x] = ByRefunds!Nothing
      BY <1>8, <2>3 DEF ByRefunds!Nothing
    <3>3. ByRefunds!Draw(x)
      BY <1>6, <1>7, <3>1, <3>2 DEF ByRefunds!Draw
    <3> QED BY <3>3 DEF ByRefunds!Next
  <2> QED BY <2>1, <2>2, <2>3
<1> QED BY <1>5, <1>6, <1>9 DEF BooksStay, DocumentsDrawing

(* Nothing is written.                                                     *)
LEMMA ReadOnly ==
  ASSUME UNCHANGED arTables
  PROVE  (Books => BooksStay) /\ DocumentsDrawing /\ \A call : ArCall(call) => ArCall(call)'
<1>1. \A j \in Invoices : /\ Applied(j)' = Applied(j) /\ Limit(j)' = Limit(j)
                          /\ Credited(j)' = Credited(j)
  BY Unchanged DEF Limit, arTables
<1>2. \A c \in CreditNotes : Refunded(c)' = Refunded(c) /\ CreditLimit(c)' = CreditLimit(c)
  BY Unchanged DEF CreditLimit, arTables
<1>3. Books => Books'
  BY <1>1, <1>2 DEF Books, arTables
<1>4. ASSUME NEW call, ArCall(call) PROVE ArCall(call)'
  <2>1. InvoiceCall(call)'
    BY <1>4 DEF ArCall, InvoiceCall, arTables
  <2>2. ReceiptCall(call)'
    <3>1. \A lines : LinesFit(lines) => LinesFit(lines)'
      BY <1>1 DEF LinesFit, arTables
    <3> QED BY <1>4, <3>1 DEF ArCall, ReceiptCall, arTables
  <2>3. NoteCall(call)'
    <3>1. \A c : WithinOutstanding(c) => WithinOutstanding(c)'
      BY DEF WithinOutstanding, Outstanding, AppliedByOthers, PostedReceipts, Credited, arTables
    <3> QED BY <1>4, <3>1 DEF ArCall, NoteCall, arTables
  <2>4. RefundCall(call)'
    <3>1. \A x : RefundFits(x) => RefundFits(x)'
      BY DEF RefundFits, Refundable, Refunded, arTables
    <3> QED BY <1>4, <3>1 DEF ArCall, RefundCall, arTables
  <2> QED BY <2>1, <2>2, <2>3, <2>4 DEF ArCall
<1>5. DocumentsDrawing
  BY DEF arTables, DocumentsDrawing, Invoiced, Allocated, CreditedTo, Noted, RefundedOf
<1> QED BY <1>3, <1>4, <1>5 DEF BooksStay

LEMMA NoCall == ArCall(Idle)
BY DEF ArCall, InvoiceCall, ReceiptCall, NoteCall, RefundCall, Idle, Call

LEMMA Accompanied ==
  ASSUME HandlersInv, ~overlap, NEW r \in Requests, running[r] # Idle \/ Quiet,
         NEW call, Only(r, call), ArCall(call)'
  PROVE  \A q \in Requests : ArCall(running[q])'
<1>1. ASSUME NEW q \in Requests PROVE ArCall(running[q])'
  <2>1. running'[q] = call \/ running'[q] = Idle
    BY Alone DEF Only
  <2>2. ArCall(Idle)'
    BY DEF ArCall, InvoiceCall, ReceiptCall, NoteCall, RefundCall, Idle, Call
  <2>3. \A c : ArCall(c)' /\ running'[q] = c => ArCall(running[q])'
    BY DEF ArCall, InvoiceCall, ReceiptCall, NoteCall, RefundCall
  <2> QED BY <2>1, <2>2, <2>3
<1> QED BY <1>1

(* A handler begins, goes on, ends; or does everything at once.            *)
LEMMA ArBegins ==
  ASSUME ArInv, NEW r \in Requests, NEW step, NEW doc, NEW by, NEW saw,
         Begin(r, step, doc, by, saw), UNCHANGED arTables,
         ~overlap /\ Books => ArCall(Call(step, doc, by, saw))
  PROVE  ArStays
<1>1. PICK call : call = Call(step, doc, by, saw)
  OBVIOUS
<1>2. HandlersInv' /\ Only(r, call) /\ (~overlap => Quiet)
  BY <1>1, Begins DEF ArInv
<1>3. overlap' = overlap
  BY <1>2 DEF Only
<1>4. ASSUME ~overlap PROVE BooksStay /\ \A q \in Requests : ArCall(running[q])'
  <2>1. Books /\ ArCall(call)
    BY <1>1, <1>4 DEF ArInv
  <2>2. (Books => BooksStay) /\ \A c : ArCall(c) => ArCall(c)'
    BY ReadOnly
  <2>3. BooksStay /\ ArCall(call)'
    BY <2>1, <2>2
  <2> QED BY <1>2, <1>4, <2>3, Accompanied DEF ArInv
<1> QED BY <1>2, <1>3, <1>4 DEF ArInv, BooksStay, ArStays

LEMMA ArGoes ==
  ASSUME ArInv, NEW r \in Requests, NEW step, NEW saw, Goto(r, step, saw), running[r] # Idle,
         ~overlap /\ Books /\ ArCall(running[r]) =>
           /\ BooksStay
           /\ \A call : call = Call(step, running[r].doc, running[r].by, saw) => ArCall(call)'
  PROVE  ArStays
<1>1. PICK call : call = Call(step, running[r].doc, running[r].by, saw)
  OBVIOUS
<1>2. HandlersInv' /\ Only(r, call)
  BY <1>1, Goes DEF ArInv
<1>3. overlap' = overlap
  BY <1>2 DEF Only
<1>4. ASSUME ~overlap PROVE BooksStay /\ \A q \in Requests : ArCall(running[q])'
  <2>1. BooksStay /\ ArCall(call)'
    BY <1>1, <1>4 DEF ArInv
  <2> QED BY <1>2, <1>4, <2>1, Accompanied DEF ArInv
<1> QED BY <1>2, <1>3, <1>4 DEF ArInv, BooksStay, ArStays

LEMMA ArFinishes ==
  ASSUME ArInv, NEW r \in Requests, Finish(r), running[r] # Idle,
         ~overlap /\ Books /\ ArCall(running[r]) => BooksStay
  PROVE  ArStays
<1>1. HandlersInv' /\ Only(r, Idle)
  BY Finishes DEF ArInv
<1>2. overlap' = overlap
  BY <1>1 DEF Only
<1>3. ASSUME ~overlap PROVE BooksStay /\ \A q \in Requests : ArCall(running[q])'
  <2>1. BooksStay
    BY <1>3 DEF ArInv
  <2>2. PICK call : call = Idle
    OBVIOUS
  <2>3. ArCall(call)'
    BY <2>2 DEF ArCall, InvoiceCall, ReceiptCall, NoteCall, RefundCall, Idle, Call
  <2> QED BY <1>1, <1>3, <2>1, <2>2, <2>3, Accompanied DEF ArInv
<1> QED BY <1>1, <1>2, <1>3 DEF ArInv, BooksStay, ArStays

LEMMA ArAtOnce ==
  ASSUME ArInv, NEW r \in Requests, AtOnce(r), ~overlap /\ Books => BooksStay
  PROVE  ArStays
<1>1. HandlersInv' /\ overlap' = overlap /\ \A q \in Requests : running'[q] = running[q]
  BY StaysPut DEF ArInv, AtOnce
<1>2. ASSUME ~overlap PROVE BooksStay /\ \A q \in Requests : ArCall(running[q])'
  <2>1. \A q \in Requests : running'[q] = Idle
    BY <1>1, <1>2, Alone DEF AtOnce, Quiet
  <2>2. ASSUME NEW q \in Requests PROVE ArCall(running[q])'
    BY <2>1 DEF ArCall, InvoiceCall, ReceiptCall, NoteCall, RefundCall, Idle, Call
  <2> QED BY <1>2, <2>2 DEF ArInv
<1> QED BY <1>1, <1>2 DEF ArInv, BooksStay, ArStays

(* A call knows of the document it names by the step it is about to take.  *)
LEMMA InvoiceStepOnly ==
  ASSUME NEW step \in {"writeInvoice", "bookInvoice", "markInvoice"}, NEW doc, NEW by, NEW saw,
         InvoiceCall(Call(step, doc, by, saw))
  PROVE  ArCall(Call(step, doc, by, saw))
BY DEF ArCall, ReceiptCall, NoteCall, RefundCall, Call

LEMMA ReceiptStepOnly ==
  ASSUME NEW step \in {"writeReceipt", "writeLines", "lockReceipt", "bookReceipt", "voidReceipt"},
         NEW doc, NEW by, NEW saw,
         ReceiptCall(Call(step, doc, by, saw))
  PROVE  ArCall(Call(step, doc, by, saw))
BY DEF ArCall, InvoiceCall, NoteCall, RefundCall, Call

LEMMA NoteStepOnly ==
  ASSUME NEW step \in {"bookCreditNote", "markCreditNote"}, NEW doc, NEW by, NEW saw,
         NoteCall(Call(step, doc, by, saw))
  PROVE  ArCall(Call(step, doc, by, saw))
BY DEF ArCall, InvoiceCall, ReceiptCall, RefundCall, Call

LEMMA RefundStepOnly ==
  ASSUME NEW step \in {"bookRefund", "markRefund"}, NEW doc, NEW by, NEW saw,
         RefundCall(Call(step, doc, by, saw))
  PROVE  ArCall(Call(step, doc, by, saw))
BY DEF ArCall, InvoiceCall, ReceiptCall, NoteCall, Call

(* Invoices.                                                               *)
LEMMA InvoicesKeep ==
  ASSUME ArInv, NEW r \in Requests, InvoiceStep(r)
  PROVE  ArStays
<1>a. Amounts \subseteq Nat
  BY MoneyAssumption DEF Amounts
<1>b. Books => invoices \in [Invoices -> InvoiceRow]
  BY DEF Books
<1>1. ASSUME NEW i \in Invoices, NEW amount \in Amounts, CreateInvoice(r, i, amount)
      PROVE  ArStays
  <2>1. ASSUME Books PROVE BooksStay
    <3>1. /\ invoices' \in [Invoices -> InvoiceRow] /\ invoices'[i].status = "DRAFT"
          /\ invoices'[i].journals = invoices[i].journals
          /\ invoices'[i].unmarked = invoices[i].unmarked
          /\ \A j \in Invoices \ {i} : invoices'[j] = invoices[j]
          /\ invoices[i].status = "NONE"
      BY <1>a, <1>b, <1>1, <2>1 DEF CreateInvoice, InvoiceRow
    <3>3. InvoiceBooked(invoices'[i])
      <4>1. invoices[i] \in InvoiceRow /\ invoices'[i] \in InvoiceRow /\ InvoiceBooked(invoices[i])
        BY <2>1, <3>1 DEF Books
      <4> QED BY <3>1, <4>1, InvoiceEdited
    <3>2. UNCHANGED <<receipts, creditNotes, refunds>>
      BY <1>1 DEF CreateInvoice
    <3> QED BY <2>1, <3>1, <3>2, <3>3, InvoiceWritten
  <2> QED BY <1>1, <2>1, ArAtOnce DEF CreateInvoice
<1>2. ASSUME NEW i \in Invoices, NEW amount \in Amounts, UpdateInvoice(r, i, amount)
      PROVE  ArStays
  <2>1. ArCall(Call("writeInvoice", i, None, amount))
    <3>1. InvoiceCall(Call("writeInvoice", i, None, amount))
      BY <1>a, <1>2 DEF UpdateInvoice, EditableInvoice, InvoiceCall, Call
    <3> QED BY <3>1, InvoiceStepOnly
  <2> QED BY <1>2, <2>1, ArBegins DEF UpdateInvoice
<1>3. ASSUME NEW i \in Invoices, PostInvoice(r, i)
      PROVE  ArStays
  <2>1. ArCall(Call("bookInvoice", i, None, invoices[i].total))
    <3>1. InvoiceCall(Call("bookInvoice", i, None, invoices[i].total))
      BY <1>3 DEF PostInvoice, InvoiceCall, Call
    <3> QED BY <3>1, InvoiceStepOnly
  <2> QED BY <1>3, <2>1, ArBegins DEF PostInvoice
<1> DEFINE i == running[r].doc
<1>4. CASE WriteInvoice(r)
  <2>1. running[r] # Idle
    BY <1>4, Busy DEF WriteInvoice
  <2>2. ASSUME Books, ArCall(running[r]) PROVE BooksStay
    <3>1. i \in Invoices /\ invoices[i].status = "DRAFT" /\ running[r].saw \in Nat
      BY <1>4, <2>2 DEF WriteInvoice, At, ArCall, InvoiceCall
    <3>2. /\ invoices' \in [Invoices -> InvoiceRow] /\ invoices'[i].status = "DRAFT"
          /\ invoices'[i].journals = invoices[i].journals
          /\ invoices'[i].unmarked = invoices[i].unmarked
          /\ \A j \in Invoices \ {i} : invoices'[j] = invoices[j]
      BY <1>b, <1>4, <2>2, <3>1 DEF WriteInvoice, InvoiceRow
    <3>3. UNCHANGED <<receipts, creditNotes, refunds>>
      BY <1>4 DEF WriteInvoice
    <3> HIDE DEF i
    <3>4. InvoiceBooked(invoices'[i])
      <4>1. invoices[i] \in InvoiceRow /\ invoices'[i] \in InvoiceRow /\ InvoiceBooked(invoices[i])
        BY <2>2, <3>1, <3>2 DEF Books
      <4> QED BY <3>1, <3>2, <4>1, InvoiceEdited
    <3> QED BY <2>2, <3>1, <3>2, <3>3, <3>4, InvoiceWritten
  <2> QED BY <1>4, <2>1, <2>2, ArFinishes DEF WriteInvoice
<1>5. CASE BookInvoice(r)
  <2>1. running[r] # Idle
    BY <1>5, Busy DEF BookInvoice
  <2>2. ASSUME Books, ArCall(running[r])
        PROVE  /\ BooksStay
               /\ \A call : call = Call("markInvoice", i, running[r].by, "POSTED")
                    => ArCall(call)'
    <3>1. i \in Invoices /\ invoices[i].status = "DRAFT" /\ running[r].saw = invoices[i].total
      BY <1>5, <2>2 DEF BookInvoice, At, ArCall, InvoiceCall
    <3>2. PICK row : row = Booked(invoices[i], invoices[i].total)
      OBVIOUS
    <3>3. /\ row \in InvoiceRow /\ row.status = "DRAFT" /\ row.unmarked > 0
          /\ InvoiceBooked(row) /\ InvoiceBooked(Marked(row, "POSTED"))
      <4>1. invoices[i] \in InvoiceRow /\ InvoiceBooked(invoices[i])
        BY <2>2, <3>1 DEF Books
      <4> HIDE DEF i
      <4> QED BY <3>1, <3>2, <4>1, InvoiceOrder
    <3>4. invoices' = [invoices EXCEPT ![i] = row]
      BY <1>b, <1>5, <2>2, <3>1, <3>2 DEF BookInvoice
    <3>5. UNCHANGED <<receipts, creditNotes, refunds>>
      BY <1>5 DEF BookInvoice
    <3>6. PICK k : k = i
      OBVIOUS
    <3> HIDE DEF i
    <3>7. /\ invoices' \in [Invoices -> InvoiceRow] /\ invoices'[i] = row
          /\ \A j \in Invoices \ {i} : invoices'[j] = invoices[j]
      BY <1>b, <2>2, <3>1, <3>3, <3>4
    <3>8. BooksStay
      BY <2>2, <3>1, <3>3, <3>5, <3>7, InvoiceWritten
    <3>9. ASSUME NEW call, call = Call("markInvoice", k, running[r].by, "POSTED")
          PROVE  ArCall(call)'
      <4>1. call.step = "markInvoice" /\ call.doc = k /\ call.saw = "POSTED"
        BY <3>9 DEF Call
      <4>2. k \in Invoices /\ invoices'[k] = row
        BY <3>1, <3>6, <3>7
      <4>3. InvoiceCall(call)'
        BY <3>3, <4>1, <4>2 DEF InvoiceCall
      <4> QED BY <4>1, <4>3 DEF ArCall, ReceiptCall, NoteCall, RefundCall
    <3> QED BY <3>6, <3>8, <3>9
  <2> QED BY <1>5, <2>1, <2>2, ArGoes DEF BookInvoice
<1>6. CASE MarkInvoice(r)
  <2>1. running[r] # Idle
    BY <1>6, Busy DEF MarkInvoice
  <2>2. ASSUME Books, ArCall(running[r]) PROVE BooksStay
    <3>1. /\ i \in Invoices /\ invoices[i].status = "DRAFT" /\ running[r].saw = "POSTED"
          /\ invoices[i].unmarked > 0 /\ InvoiceBooked(Marked(invoices[i], "POSTED"))
      BY <1>6, <2>2 DEF MarkInvoice, At, ArCall, InvoiceCall
    <3>2. PICK row : row = Marked(invoices[i], "POSTED")
      OBVIOUS
    <3>3. invoices' = [invoices EXCEPT ![i] = row]
      BY <1>b, <1>6, <2>2, <3>1, <3>2 DEF MarkInvoice
    <3>4. UNCHANGED <<receipts, creditNotes, refunds>>
      BY <1>6 DEF MarkInvoice
    <3> HIDE DEF i
    <3>5. row \in InvoiceRow /\ InvoiceBooked(row)
      <4>1. invoices[i] \in InvoiceRow
        BY <1>b, <2>2, <3>1
      <4> QED BY <3>1, <3>2, <4>1, InvoiceRowMarked
    <3>6. /\ invoices' \in [Invoices -> InvoiceRow] /\ invoices'[i] = row
          /\ \A j \in Invoices \ {i} : invoices'[j] = invoices[j]
      BY <1>b, <2>2, <3>1, <3>3, <3>5
    <3> QED BY <2>2, <3>1, <3>4, <3>5, <3>6, InvoiceWritten
  <2> QED BY <1>6, <2>1, <2>2, ArFinishes DEF MarkInvoice
<1> QED BY <1>1, <1>2, <1>3, <1>4, <1>5, <1>6 DEF InvoiceStep

(* Receipts.                                                               *)
LEMMA ReceiptsKeep ==
  ASSUME ArInv, NEW r \in Requests, ReceiptStep(r)
  PROVE  ArStays
<1>a. Amounts \subseteq Nat
  BY MoneyAssumption DEF Amounts
<1>b. Books => receipts \in [Receipts -> ReceiptRow]
  BY DEF Books
<1>1. ASSUME NEW d \in Receipts, NEW total \in Amounts, NEW lines \in Lines,
             CreateReceipt(r, d, total, lines)
      PROVE  ArStays
  <2>1. ASSUME Books PROVE BooksStay
    <3>1. /\ receipts' \in [Receipts -> ReceiptRow] /\ receipts'[d].status = "DRAFT"
          /\ ReceiptBooked(receipts'[d])
          /\ \A e \in Receipts \ {d} : receipts'[e] = receipts[e]
      <4>1. PICK row : row = [receipts[d] EXCEPT !.status = "DRAFT", !.total = total,
                                                 !.lines = lines]
        OBVIOUS
      <4>2. /\ row \in ReceiptRow /\ row.status = "DRAFT"
            /\ row.journals = receipts[d].journals
        BY <1>a, <1>b, <2>1, <4>1 DEF ReceiptRow
      <4>3. receipts' = [receipts EXCEPT ![d] = row] /\ receipts[d].status = "NONE"
        BY <1>b, <2>1, <1>1, <4>1 DEF CreateReceipt
      <4>4. ReceiptBooked(row)
        BY <2>1, <4>2, <4>3 DEF Books, ReceiptBooked
      <4> QED BY <1>b, <2>1, <4>2, <4>3, <4>4
    <3>2. UNCHANGED <<invoices, creditNotes, refunds>>
      BY <1>1 DEF CreateReceipt
    <3> QED BY <2>1, <3>1, <3>2, ReceiptWritten
  <2> QED BY <1>1, <2>1, ArAtOnce DEF CreateReceipt
<1>2. ASSUME NEW d \in Receipts, NEW total \in Amounts, NEW lines \in Lines \cup {None},
             UpdateReceipt(r, d, total, lines)
      PROVE  ArStays
  <2>1. ArCall(Call("writeReceipt", d, None, [total |-> total, lines |-> lines]))
    <3>1. ReceiptCall(Call("writeReceipt", d, None, [total |-> total, lines |-> lines]))
      BY <1>a, <1>2 DEF UpdateReceipt, EditableReceipt, ReceiptCall, Call
    <3> QED BY <3>1, ReceiptStepOnly
  <2> QED BY <1>2, <2>1, ArBegins DEF UpdateReceipt
<1>3. ASSUME NEW d \in Receipts, NEW lines \in Lines, SetAllocations(r, d, lines)
      PROVE  ArStays
  <2>1. ArCall(Call("writeLines", d, None, lines))
    <3>1. ReceiptCall(Call("writeLines", d, None, lines))
      BY <1>3 DEF SetAllocations, EditableReceipt, ReceiptCall, Call
    <3> QED BY <3>1, ReceiptStepOnly
  <2> QED BY <1>3, <2>1, ArBegins DEF SetAllocations
<1>4. ASSUME NEW d \in Receipts, PostReceipt(r, d)
      PROVE  ArStays
  <2>1. ArCall(Call("lockReceipt", d, None, receipts[d].lines))
    <3>1. LinesFit(receipts[d].lines)
      BY <1>4 DEF PostReceipt, ValidLines, LinesFit, Applied
    <3>2. ReceiptCall(Call("lockReceipt", d, None, receipts[d].lines))
      BY <1>4, <3>1 DEF PostReceipt, ReceiptCall, Call
    <3> QED BY <3>2, ReceiptStepOnly
  <2> QED BY <1>4, <2>1, ArBegins DEF PostReceipt
<1>5. ASSUME NEW d \in Receipts, VoidReceipt(r, d)
      PROVE  ArStays
  <2>1. ArCall(Call("voidReceipt", d, None, None))
    <3>1. ReceiptCall(Call("voidReceipt", d, None, None))
      BY <1>5 DEF VoidReceipt, ReceiptCall, Call
    <3> QED BY <3>1, ReceiptStepOnly
  <2> QED BY <1>5, <2>1, ArBegins DEF VoidReceipt
<1> DEFINE d == running[r].doc
<1>6. CASE WriteReceipt(r)
  <2>1. running[r] # Idle
    BY <1>6, Busy DEF WriteReceipt
  <2>2. ASSUME Books, ArCall(running[r]) PROVE BooksStay
    <3> DEFINE saw == running[r].saw
               lines == IF saw.lines = None THEN receipts[d].lines ELSE saw.lines
    <3>1. /\ d \in Receipts /\ receipts[d].status = "DRAFT"
          /\ saw.total \in Nat /\ saw.lines \in Lines \cup {None}
      BY <1>6, <2>2 DEF WriteReceipt, At, ArCall, ReceiptCall
    <3>2. lines \in Lines
      BY <1>b, <2>2, <3>1 DEF ReceiptRow
    <3>3. receipts' = [receipts EXCEPT ![d].total = saw.total, ![d].lines = lines]
      BY <1>b, <1>6, <2>2, <3>1 DEF WriteReceipt
    <3> HIDE DEF lines
    <3>4. /\ receipts' \in [Receipts -> ReceiptRow] /\ receipts'[d].status = "DRAFT"
          /\ ReceiptBooked(receipts'[d])
          /\ \A e \in Receipts \ {d} : receipts'[e] = receipts[e]
      <4>1. PICK row : row = [receipts[d] EXCEPT !.total = saw.total, !.lines = lines]
        OBVIOUS
      <4>2. /\ row \in ReceiptRow /\ row.status = "DRAFT"
            /\ row.journals = receipts[d].journals
        <5>1. receipts[d] \in ReceiptRow /\ saw.total \in Nat
          BY <1>b, <2>2, <3>1
        <5> HIDE DEF d, saw
        <5> QED BY <3>1, <3>2, <4>1, <5>1 DEF ReceiptRow
      <4>3. receipts' = [receipts EXCEPT ![d] = row]
        BY <1>b, <2>2, <3>1, <3>3, <4>1
      <4>4. ReceiptBooked(row)
        BY <2>2, <3>1, <4>2 DEF Books, ReceiptBooked
      <4> QED BY <1>b, <2>2, <3>1, <4>2, <4>3, <4>4
    <3>5. UNCHANGED <<invoices, creditNotes, refunds>>
      BY <1>6 DEF WriteReceipt
    <3> HIDE DEF d
    <3> QED BY <2>2, <3>1, <3>4, <3>5, ReceiptWritten
  <2> QED BY <1>6, <2>1, <2>2, ArFinishes DEF WriteReceipt
<1>7. CASE WriteLines(r)
  <2>1. running[r] # Idle
    BY <1>7, Busy DEF WriteLines
  <2>2. ASSUME Books, ArCall(running[r]) PROVE BooksStay
    <3>1. d \in Receipts /\ receipts[d].status = "DRAFT" /\ running[r].saw \in Lines
      BY <1>7, <2>2 DEF WriteLines, At, ArCall, ReceiptCall
    <3>2. /\ receipts' \in [Receipts -> ReceiptRow] /\ receipts'[d].status = "DRAFT"
          /\ receipts'[d].journals = receipts[d].journals
          /\ \A e \in Receipts \ {d} : receipts'[e] = receipts[e]
      BY <1>b, <1>7, <2>2, <3>1 DEF WriteLines, ReceiptRow
    <3>3. UNCHANGED <<invoices, creditNotes, refunds>>
      BY <1>7 DEF WriteLines
    <3> HIDE DEF d
    <3>4. ReceiptBooked(receipts'[d])
      BY <2>2, <3>1, <3>2 DEF Books, ReceiptBooked
    <3> QED BY <2>2, <3>1, <3>2, <3>3, <3>4, ReceiptWritten
  <2> QED BY <1>7, <2>1, <2>2, ArFinishes DEF WriteLines
<1>8. CASE RecheckReceipt(r)
  <2>1. running[r] # Idle /\ UNCHANGED arTables
    BY <1>8, Busy DEF RecheckReceipt
  <2>2. (Books => BooksStay) /\ \A c : ArCall(c) => ArCall(c)'
    BY <2>1, ReadOnly
  <2>3. CASE receipts[d].status # "DRAFT"
    <3>1. Finish(r)
      BY <1>8, <2>3 DEF RecheckReceipt
    <3> QED BY <2>1, <2>2, <3>1, ArFinishes
  <2>4. CASE receipts[d].status = "DRAFT"
    <3>1. PICK saw : saw = running[r].saw
      OBVIOUS
    <3>2. Goto(r, "bookReceipt", saw)
      BY <1>8, <2>4, <3>1 DEF RecheckReceipt
    <3>3. ASSUME Books, ArCall(running[r])
          PROVE  \A call : call = Call("bookReceipt", d, running[r].by, saw) => ArCall(call)'
      <4>1. /\ d \in Receipts /\ receipts[d].status = "DRAFT"
            /\ saw = receipts[d].lines /\ LinesFit(saw)
        BY <1>8, <3>1, <3>3 DEF RecheckReceipt, At, ArCall, ReceiptCall
      <4>2. ReceiptCall(Call("bookReceipt", d, running[r].by, saw))
        BY <4>1 DEF ReceiptCall, Call
      <4>3. ArCall(Call("bookReceipt", d, running[r].by, saw))
        BY <4>2, ReceiptStepOnly
      <4> QED BY <2>2, <4>3
    <3> QED BY <2>1, <2>2, <3>2, <3>3, ArGoes
  <2> QED BY <2>3, <2>4
<1>9. CASE BookReceipt(r)
  <2>1. running[r] # Idle
    BY <1>9, Busy DEF BookReceipt
  <2>2. ASSUME Books, ArCall(running[r]) PROVE BooksStay
    <3>1. /\ d \in Receipts /\ receipts[d].status = "DRAFT"
          /\ running[r].saw = receipts[d].lines /\ LinesFit(running[r].saw)
      BY <1>9, <2>2 DEF BookReceipt, At, ArCall, ReceiptCall
    <3>2. /\ receipts' \in [Receipts -> ReceiptRow]
          /\ receipts'[d].lines = receipts[d].lines
          /\ ReceiptBooked(receipts'[d])
          /\ \A e \in Receipts \ {d} : receipts'[e] = receipts[e]
      <4>1. PICK row : row = [receipts[d] EXCEPT !.status = "POSTED",
                                                 !.journals = <<receipts[d].lines>>]
        OBVIOUS
      <4>2. row \in ReceiptRow /\ row.lines = receipts[d].lines /\ ReceiptBooked(row)
        <5>1. receipts[d] \in ReceiptRow /\ <<receipts[d].lines>> \in Seq(Lines)
          BY <1>b, <2>2, <3>1 DEF ReceiptRow
        <5> HIDE DEF d
        <5> QED BY <3>1, <4>1, <5>1 DEF ReceiptRow, ReceiptBooked
      <4>3. receipts' = [receipts EXCEPT ![d] = row]
        <5>1. receipts[d].journals = <<>>
          BY <2>2, <3>1 DEF Books, ReceiptBooked
        <5>2. Append(receipts[d].journals, running[r].saw) = <<receipts[d].lines>>
          BY <3>1, <5>1
        <5> QED BY <1>b, <1>9, <2>2, <3>1, <4>1, <5>2 DEF BookReceipt
      <4> QED BY <1>b, <2>2, <3>1, <4>2, <4>3
    <3>3. UNCHANGED <<invoices, creditNotes, refunds>>
      BY <1>9 DEF BookReceipt
    <3> HIDE DEF d
    <3> QED BY <2>2, <3>1, <3>2, <3>3, ReceiptWritten
  <2> QED BY <1>9, <2>1, <2>2, ArFinishes DEF BookReceipt
<1>10. CASE WriteVoidReceipt(r)
  <2>1. running[r] # Idle
    BY <1>10, Busy DEF WriteVoidReceipt
  <2>2. ASSUME Books, ArCall(running[r]) PROVE BooksStay
    <3>1. d \in Receipts
      BY <1>10, <2>2 DEF WriteVoidReceipt, At, ArCall, ReceiptCall
    <3>2. /\ receipts' \in [Receipts -> ReceiptRow] /\ receipts'[d].status = "VOIDED"
          /\ ReceiptBooked(receipts'[d])
          /\ \A e \in Receipts \ {d} : receipts'[e] = receipts[e]
      BY <1>b, <1>10, <2>2, <3>1 DEF WriteVoidReceipt, ReceiptRow, ReceiptBooked
    <3>3. UNCHANGED <<invoices, creditNotes, refunds>>
      BY <1>10 DEF WriteVoidReceipt
    <3> HIDE DEF d
    <3> QED BY <2>2, <3>1, <3>2, <3>3, ReceiptWritten
  <2> QED BY <1>10, <2>1, <2>2, ArFinishes DEF WriteVoidReceipt
<1> QED
  BY <1>1, <1>2, <1>3, <1>4, <1>5, <1>6, <1>7, <1>8, <1>9, <1>10 DEF ReceiptStep

(* Credit notes.                                                           *)
LEMMA NotesKeep ==
  ASSUME ArInv, NEW r \in Requests, CreditNoteStep(r)
  PROVE  ArStays
<1>a. Amounts \subseteq Nat
  BY MoneyAssumption DEF Amounts
<1>b. Books => creditNotes \in [CreditNotes -> NoteRow]
  BY DEF Books
<1>1. ASSUME NEW c \in CreditNotes, NEW i \in Invoices \cup {None}, NEW amount \in Amounts,
             CreateCreditNote(r, c, i, amount)
      PROVE  ArStays
  <2>1. ASSUME Books PROVE BooksStay
    <3>1. /\ creditNotes' \in [CreditNotes -> NoteRow]
          /\ creditNotes[c].status = "NONE" /\ creditNotes'[c].status = "DRAFT"
          /\ PaperBooked(creditNotes'[c]) /\ creditNotes'[c].invoice = i
          /\ \A e \in CreditNotes \ {c} : creditNotes'[e] = creditNotes[e]
      <4>1. PICK row : row = [creditNotes[c] EXCEPT !.status = "DRAFT", !.invoice = i,
                                                    !.amount = amount]
        OBVIOUS
      <4>2. /\ row \in NoteRow /\ row.status = "DRAFT" /\ row.invoice = i
            /\ row.journals = creditNotes[c].journals /\ row.unmarked = creditNotes[c].unmarked
        BY <1>a, <1>b, <2>1, <4>1 DEF NoteRow, Paper
      <4>3. creditNotes' = [creditNotes EXCEPT ![c] = row] /\ creditNotes[c].status = "NONE"
        BY <1>b, <2>1, <1>1, <4>1 DEF CreateCreditNote
      <4>4. PaperBooked(row)
        <5>1. PaperBooked(creditNotes[c])
          BY <2>1 DEF Books
        <5> QED BY <4>2, <4>3, <5>1, PaperMarked
      <4> QED BY <1>b, <2>1, <4>2, <4>3, <4>4
    <3>3. UNCHANGED <<invoices, receipts, refunds>> /\ (i # None => invoices[i].status = "POSTED")
      BY <1>1 DEF CreateCreditNote
    <3> QED BY <2>1, <3>1, <3>3, NoteWritten
  <2> QED BY <1>1, <2>1, ArAtOnce DEF CreateCreditNote
<1>2. ASSUME NEW c \in CreditNotes, SubmitCreditNote(r, c)
      PROVE  ArStays
  <2>1. ArCall(Call("markCreditNote", c, None, "SUBMITTED"))
    <3>1. NoteCall(Call("markCreditNote", c, None, "SUBMITTED"))
      BY <1>2 DEF SubmitCreditNote, NoteCall, Call
    <3> QED BY <3>1, NoteStepOnly
  <2> QED BY <1>2, <2>1, ArBegins DEF SubmitCreditNote
<1>3. ASSUME NEW c \in CreditNotes, ApproveCreditNote(r, c)
      PROVE  ArStays
  <2>1. ArCall(Call("markCreditNote", c, None, "APPROVED"))
    <3>1. NoteCall(Call("markCreditNote", c, None, "APPROVED"))
      BY <1>3 DEF ApproveCreditNote, NoteCall, Call
    <3> QED BY <3>1, NoteStepOnly
  <2> QED BY <1>3, <2>1, ArBegins DEF ApproveCreditNote
<1>4. ASSUME NEW c \in CreditNotes, PostCreditNote(r, c)
      PROVE  ArStays
  <2>1. ArCall(Call("bookCreditNote", c, None, "POSTED"))
    <3>1. NoteCall(Call("bookCreditNote", c, None, "POSTED"))
      BY <1>4 DEF PostCreditNote, NoteCall, Call
    <3> QED BY <3>1, NoteStepOnly
  <2> QED BY <1>4, <2>1, ArBegins DEF PostCreditNote
<1>5. ASSUME NEW c \in CreditNotes, VoidCreditNote(r, c)
      PROVE  ArStays
  <2>1. ArCall(Call("bookCreditNote", c, None, "VOID"))
    <3>1. NoteCall(Call("bookCreditNote", c, None, "VOID"))
      BY <1>5 DEF VoidCreditNote, NoteCall, Call
    <3> QED BY <3>1, NoteStepOnly
  <2> QED BY <1>5, <2>1, ArBegins DEF VoidCreditNote
<1> DEFINE c == running[r].doc
<1>6. CASE BookCreditNote(r)
  <2>1. running[r] # Idle
    BY <1>6, Busy DEF BookCreditNote
  <2>2. PICK saw : saw = running[r].saw
    OBVIOUS
  <2>3. ASSUME Books, ArCall(running[r])
        PROVE  /\ BooksStay
               /\ \A call : call = Call("markCreditNote", c, running[r].by, saw) => ArCall(call)'
    <3>1. /\ c \in CreditNotes
          /\ \/ saw = "POSTED" /\ creditNotes[c].status = "APPROVED" /\ WithinOutstanding(c)
             \/ saw = "VOID" /\ creditNotes[c].status = "POSTED"
      BY <1>6, <2>2, <2>3 DEF BookCreditNote, At, ArCall, NoteCall
    <3>2. PICK row, marked : row = Booked(creditNotes[c], saw) /\ marked = Marked(row, saw)
      OBVIOUS
    <3>3. creditNotes' = [creditNotes EXCEPT ![c] = row]
      BY <1>b, <1>6, <2>2, <2>3, <3>1, <3>2 DEF BookCreditNote
    <3>r. /\ row \in NoteRow /\ row.status = creditNotes[c].status
          /\ row.invoice = creditNotes[c].invoice /\ row.amount = creditNotes[c].amount
          /\ row.unmarked > 0 /\ PaperBooked(row) /\ PaperBooked(marked)
      <4>1. /\ creditNotes[c] \in NoteRow /\ PaperBooked(creditNotes[c]) /\ saw \in {"POSTED", "VOID"}
            /\ creditNotes[c].status = IF saw = "POSTED" THEN "APPROVED" ELSE "POSTED"
        BY <2>3, <3>1 DEF Books
      <4>2. PICK old : old = creditNotes[c]
        OBVIOUS
      <4>3. /\ row \in NoteRow /\ row.status = old.status
            /\ row.invoice = old.invoice /\ row.amount = old.amount
            /\ row.journals = Append(old.journals, saw) /\ row.unmarked = old.unmarked + 1
        BY ONLY <3>2, <4>1, <4>2, NoteRowBooked, ZenonT(40)
      <4>4. /\ marked.status = saw /\ marked.journals = row.journals
            /\ marked.unmarked = row.unmarked - 1
        <5>1. saw \in Paper
          BY <4>1 DEF Paper
        <5>2. row \in NoteRow /\ marked = Marked(row, saw)
          BY <3>2, <4>3
        <5>3. saw \in {"POSTED", "VOID"}
          BY <4>1
        <5> QED BY ONLY <5>1, <5>2, <5>3, NoteRowMarked
      <4>5. old.journals \in Seq({"POSTED", "VOID"}) /\ old.unmarked \in Nat
        BY <4>1, <4>2 DEF NoteRow
      <4> QED BY <4>1, <4>2, <4>3, <4>4, <4>5, PaperOrder
    <3>4. /\ creditNotes' \in [CreditNotes -> NoteRow]
          /\ creditNotes'[c] = row
          /\ creditNotes'[c].status = creditNotes[c].status
          /\ creditNotes'[c].invoice = creditNotes[c].invoice
          /\ creditNotes'[c].amount = creditNotes[c].amount
          /\ \A e \in CreditNotes \ {c} : creditNotes'[e] = creditNotes[e]
      BY <1>b, <2>3, <3>1, <3>3, <3>r
    <3>5. UNCHANGED <<invoices, receipts, refunds>>
      BY <1>6 DEF BookCreditNote
    <3>6. PICK k : k = c
      OBVIOUS
    <3> HIDE DEF c
    <3>7. BooksStay
      <4>1. creditNotes[c].invoice # None => invoices[creditNotes[c].invoice].status = "POSTED"
        BY <2>3, <3>1 DEF Books
      <4> QED BY <2>3, <3>1, <3>4, <3>5, <3>r, <4>1, NoteWritten
    <3>8. WithinOutstanding(k)' <=> WithinOutstanding(k)
      <4>1. \A i \in Invoices : Credited(i)' = Credited(i)
        <5>1. ASSUME NEW i \in Invoices PROVE Credited(i)' = Credited(i)
          <6>1. PICK rest \in Nat :
                  /\ Credited(i) = rest +
                       (IF creditNotes[c].status = "POSTED" /\ creditNotes[c].invoice = i
                          THEN creditNotes[c].amount ELSE 0)
                  /\ Credited(i)' = rest +
                       (IF creditNotes'[c].status = "POSTED" /\ creditNotes'[c].invoice = i
                          THEN creditNotes'[c].amount ELSE 0)
            BY <1>b, <2>3, <3>1, <3>4, CreditedChanges
          <6> QED BY <3>4, <6>1
        <5> QED BY <5>1
      <4>2. \A i \in Invoices : Applied(i)' = Applied(i)
        BY <3>5, Unchanged
      <4>3. creditNotes[k].invoice # None => creditNotes[k].invoice \in Invoices
        BY <1>b, <2>3, <3>1, <3>6 DEF NoteRow
      <4> QED
        BY <3>4, <3>5, <3>6, <4>1, <4>2, <4>3 DEF WithinOutstanding, Outstanding, Applied
    <3>9. ASSUME NEW call, call = Call("markCreditNote", k, running[r].by, saw)
          PROVE  ArCall(call)'
      <4>1. call.step = "markCreditNote" /\ call.doc = k /\ call.saw = saw
        BY <3>9 DEF Call
      <4>2. creditNotes'[k] = row /\ Awaits(row, saw)
        BY <3>2, <3>4, <3>6, <3>r DEF Awaits
      <4>3. /\ k \in CreditNotes
            /\ \/ saw = "POSTED" /\ creditNotes'[k].status = "APPROVED"
                    /\ WithinOutstanding(k)' /\ Awaits(creditNotes'[k], "POSTED")
               \/ saw = "VOID" /\ creditNotes'[k].status = "POSTED" /\ Awaits(creditNotes'[k], "VOID")
        BY <3>1, <3>4, <3>6, <3>8, <4>2
      <4>4. NoteCall(call)'
        BY <4>1, <4>3 DEF NoteCall
      <4> QED BY <4>1, <4>4 DEF ArCall, InvoiceCall, ReceiptCall, NoteCall, RefundCall
    <3> QED BY <3>6, <3>7, <3>9
  <2>4. Goto(r, "markCreditNote", saw)
    BY <1>6, <2>2 DEF BookCreditNote
  <2> QED BY <2>1, <2>3, <2>4, ArGoes
<1>7. CASE MarkCreditNote(r)
  <2>1. running[r] # Idle
    BY <1>7, Busy DEF MarkCreditNote
  <2>2. ASSUME Books, ArCall(running[r]) PROVE BooksStay
    <3>1. PICK saw : saw = running[r].saw
      OBVIOUS
    <3>2. /\ c \in CreditNotes
          /\ \/ saw = "SUBMITTED" /\ creditNotes[c].status = "DRAFT"
             \/ saw = "APPROVED" /\ creditNotes[c].status = "SUBMITTED"
             \/ saw = "POSTED" /\ creditNotes[c].status = "APPROVED" /\ WithinOutstanding(c)
                  /\ Awaits(creditNotes[c], "POSTED")
             \/ saw = "VOID" /\ creditNotes[c].status = "POSTED" /\ Awaits(creditNotes[c], "VOID")
      BY <1>7, <2>2, <3>1 DEF MarkCreditNote, At, ArCall, NoteCall
    <3>3. saw \in Paper \ {"NONE"}
      BY <3>2 DEF Paper
    <3>4. PICK row : row = Marked(creditNotes[c], saw)
      OBVIOUS
    <3>5. creditNotes' = [creditNotes EXCEPT ![c] = row]
      BY <1>b, <1>7, <2>2, <3>1, <3>2, <3>4 DEF MarkCreditNote
    <3>6. UNCHANGED <<invoices, receipts, refunds>>
      BY <1>7 DEF MarkCreditNote
    <3> HIDE DEF c
    <3>7. PICK old : old = creditNotes[c]
      OBVIOUS
    <3>8. old \in NoteRow /\ PaperBooked(old)
      BY <2>2, <3>2, <3>7 DEF Books
    <3>9. /\ row.status = saw /\ row.invoice = old.invoice /\ row.amount = old.amount
          /\ row.journals = old.journals
          /\ row.unmarked = IF saw \in {"POSTED", "VOID"} THEN old.unmarked - 1 ELSE old.unmarked
          /\ old.unmarked > 0 \/ saw \notin {"POSTED", "VOID"} => row \in NoteRow
      BY <3>3, <3>4, <3>7, <3>8, NoteRowMarked
    <3>10. row \in NoteRow /\ PaperBooked(row)
      <4>1. CASE saw \in {"POSTED", "VOID"}
        BY <3>2, <3>4, <3>7, <3>9, <4>1 DEF Awaits
      <4>2. CASE saw \notin {"POSTED", "VOID"}
        <5>1. \/ old.status = "DRAFT" /\ row.status = "SUBMITTED"
              \/ old.status = "SUBMITTED" /\ row.status = "APPROVED"
          BY <3>2, <3>7, <3>9, <4>2
        <5>2. PaperBooked(row)
          BY <3>8, <3>9, <4>2, <5>1, PaperMarked
        <5> QED BY <3>9, <4>2, <5>2
      <4> QED BY <4>1, <4>2
    <3>11. /\ creditNotes' \in [CreditNotes -> NoteRow] /\ creditNotes'[c] = row
           /\ \A e \in CreditNotes \ {c} : creditNotes'[e] = creditNotes[e]
      BY <1>b, <2>2, <3>2, <3>5, <3>10
    <3>12. creditNotes[c].invoice # None => invoices[creditNotes[c].invoice].status = "POSTED"
      BY <2>2, <3>2 DEF Books
    <3>13. /\ creditNotes'[c].status # "NONE" /\ PaperBooked(creditNotes'[c])
           /\ creditNotes'[c].invoice = creditNotes[c].invoice
           /\ creditNotes'[c].amount = creditNotes[c].amount
           /\ creditNotes[c].status \in {"POSTED", "VOID"} =>
                creditNotes'[c].status \in {"POSTED", "VOID"}
           /\ creditNotes'[c].status = "POSTED" => WithinOutstanding(c)
      BY <3>2, <3>3, <3>7, <3>9, <3>10, <3>11
    <3> QED BY <2>2, <3>2, <3>6, <3>11, <3>12, <3>13, NoteWritten
  <2> QED BY <1>7, <2>1, <2>2, ArFinishes DEF MarkCreditNote
<1> QED BY <1>1, <1>2, <1>3, <1>4, <1>5, <1>6, <1>7 DEF CreditNoteStep

(* Refunds.                                                                *)
LEMMA RefundsKeep ==
  ASSUME ArInv, NEW r \in Requests, RefundStep(r)
  PROVE  ArStays
<1>a. Amounts \subseteq Nat
  BY MoneyAssumption DEF Amounts
<1>b. Books => refunds \in [Refunds -> RefundRow]
  BY DEF Books
<1>1. ASSUME NEW f \in Refunds, NEW c \in CreditNotes, NEW amount \in Amounts,
             CreateRefund(r, f, c, amount)
      PROVE  ArStays
  <2>1. ASSUME Books PROVE BooksStay
    <3>1. /\ refunds' \in [Refunds -> RefundRow]
          /\ refunds[f].status = "NONE" /\ refunds'[f].status = "DRAFT"
          /\ PaperBooked(refunds'[f]) /\ refunds'[f].creditNote = c
          /\ \A e \in Refunds \ {f} : refunds'[e] = refunds[e]
      <4>1. PICK row : row = [refunds[f] EXCEPT !.status = "DRAFT", !.creditNote = c,
                                                !.amount = amount]
        OBVIOUS
      <4>2. /\ row \in RefundRow /\ row.status = "DRAFT" /\ row.creditNote = c
            /\ row.journals = refunds[f].journals /\ row.unmarked = refunds[f].unmarked
        BY <1>a, <1>b, <2>1, <4>1 DEF RefundRow, Paper
      <4>3. refunds' = [refunds EXCEPT ![f] = row] /\ refunds[f].status = "NONE"
        BY <1>b, <2>1, <1>1, <4>1 DEF CreateRefund
      <4>4. PaperBooked(row)
        <5>1. PaperBooked(refunds[f])
          BY <2>1 DEF Books
        <5> QED BY <4>2, <4>3, <5>1, PaperMarked
      <4> QED BY <1>b, <2>1, <4>2, <4>3, <4>4
    <3>3. UNCHANGED <<invoices, receipts, creditNotes>> /\ creditNotes[c].status = "POSTED"
      BY <1>1 DEF CreateRefund
    <3> QED BY <2>1, <3>1, <3>3, RefundWritten
  <2> QED BY <1>1, <2>1, ArAtOnce DEF CreateRefund
<1>2. ASSUME NEW f \in Refunds, SubmitRefund(r, f)
      PROVE  ArStays
  <2>1. ArCall(Call("markRefund", f, None, "SUBMITTED"))
    <3>1. RefundCall(Call("markRefund", f, None, "SUBMITTED"))
      BY <1>2 DEF SubmitRefund, RefundCall, Call
    <3> QED BY <3>1, RefundStepOnly
  <2> QED BY <1>2, <2>1, ArBegins DEF SubmitRefund
<1>3. ASSUME NEW f \in Refunds, ApproveRefund(r, f)
      PROVE  ArStays
  <2>1. ArCall(Call("markRefund", f, None, "APPROVED"))
    <3>1. RefundCall(Call("markRefund", f, None, "APPROVED"))
      BY <1>3 DEF ApproveRefund, RefundCall, Call
    <3> QED BY <3>1, RefundStepOnly
  <2> QED BY <1>3, <2>1, ArBegins DEF ApproveRefund
<1>4. ASSUME NEW f \in Refunds, PostRefund(r, f)
      PROVE  ArStays
  <2>1. ArCall(Call("bookRefund", f, None, "POSTED"))
    <3>1. RefundCall(Call("bookRefund", f, None, "POSTED"))
      BY <1>4 DEF PostRefund, RefundCall, RefundFits, Call
    <3> QED BY <3>1, RefundStepOnly
  <2> QED BY <1>4, <2>1, ArBegins DEF PostRefund
<1>5. ASSUME NEW f \in Refunds, VoidRefund(r, f)
      PROVE  ArStays
  <2>1. ArCall(Call("bookRefund", f, None, "VOID"))
    <3>1. RefundCall(Call("bookRefund", f, None, "VOID"))
      BY <1>5 DEF VoidRefund, RefundCall, Call
    <3> QED BY <3>1, RefundStepOnly
  <2> QED BY <1>5, <2>1, ArBegins DEF VoidRefund
<1> DEFINE f == running[r].doc
<1>6. CASE BookRefund(r)
  <2>1. running[r] # Idle
    BY <1>6, Busy DEF BookRefund
  <2>2. PICK saw : saw = running[r].saw
    OBVIOUS
  <2>3. ASSUME Books, ArCall(running[r])
        PROVE  /\ BooksStay
               /\ \A call : call = Call("markRefund", f, running[r].by, saw) => ArCall(call)'
    <3>1. /\ f \in Refunds
          /\ \/ saw = "POSTED" /\ refunds[f].status = "APPROVED" /\ RefundFits(f)
             \/ saw = "VOID" /\ refunds[f].status = "POSTED"
      BY <1>6, <2>2, <2>3 DEF BookRefund, At, ArCall, RefundCall
    <3>2. PICK row, marked : row = Booked(refunds[f], saw) /\ marked = Marked(row, saw)
      OBVIOUS
    <3>3. refunds' = [refunds EXCEPT ![f] = row]
      BY <1>b, <1>6, <2>2, <2>3, <3>1, <3>2 DEF BookRefund
    <3>r. /\ row \in RefundRow /\ row.status = refunds[f].status
          /\ row.creditNote = refunds[f].creditNote /\ row.amount = refunds[f].amount
          /\ row.unmarked > 0 /\ PaperBooked(row) /\ PaperBooked(marked)
      <4>1. /\ refunds[f] \in RefundRow /\ PaperBooked(refunds[f]) /\ saw \in {"POSTED", "VOID"}
            /\ refunds[f].status = IF saw = "POSTED" THEN "APPROVED" ELSE "POSTED"
        BY <2>3, <3>1 DEF Books
      <4>2. PICK old : old = refunds[f]
        OBVIOUS
      <4>3. /\ row \in RefundRow /\ row.status = old.status
            /\ row.creditNote = old.creditNote /\ row.amount = old.amount
            /\ row.journals = Append(old.journals, saw) /\ row.unmarked = old.unmarked + 1
        BY ONLY <3>2, <4>1, <4>2, RefundRowBooked, ZenonT(40)
      <4>4. /\ marked.status = saw /\ marked.journals = row.journals
            /\ marked.unmarked = row.unmarked - 1
        <5>1. saw \in Paper
          BY <4>1 DEF Paper
        <5>2. row \in RefundRow /\ marked = Marked(row, saw)
          BY <3>2, <4>3
        <5>3. saw \in {"POSTED", "VOID"}
          BY <4>1
        <5> QED BY ONLY <5>1, <5>2, <5>3, RefundRowMarked
      <4>5. old.journals \in Seq({"POSTED", "VOID"}) /\ old.unmarked \in Nat
        BY <4>1, <4>2 DEF RefundRow
      <4> QED BY <4>1, <4>2, <4>3, <4>4, <4>5, PaperOrder
    <3>4. /\ refunds' \in [Refunds -> RefundRow]
          /\ refunds'[f] = row
          /\ refunds'[f].status = refunds[f].status
          /\ refunds'[f].creditNote = refunds[f].creditNote
          /\ refunds'[f].amount = refunds[f].amount
          /\ \A e \in Refunds \ {f} : refunds'[e] = refunds[e]
      BY <1>b, <2>3, <3>1, <3>3, <3>r
    <3>5. UNCHANGED <<invoices, receipts, creditNotes>>
      BY <1>6 DEF BookRefund
    <3>6. PICK k : k = f
      OBVIOUS
    <3> HIDE DEF f
    <3>m. /\ refunds[f].creditNote \in CreditNotes
          /\ creditNotes[refunds[f].creditNote].status \in {"POSTED", "VOID"}
      BY <2>3, <3>1 DEF Books
    <3>7. BooksStay
      BY <2>3, <3>1, <3>4, <3>5, <3>r, <3>m, RefundWritten
    <3>8. RefundFits(k)' <=> RefundFits(k)
      <4>1. \A c \in CreditNotes : Refunded(c)' = Refunded(c)
        <5>1. ASSUME NEW c \in CreditNotes PROVE Refunded(c)' = Refunded(c)
          <6>1. PICK rest \in Nat :
                  /\ Refunded(c) = rest +
                       (IF refunds[f].status = "POSTED" /\ refunds[f].creditNote = c
                          THEN refunds[f].amount ELSE 0)
                  /\ Refunded(c)' = rest +
                       (IF refunds'[f].status = "POSTED" /\ refunds'[f].creditNote = c
                          THEN refunds'[f].amount ELSE 0)
            BY <1>b, <2>3, <3>1, <3>4, RefundedChanges
          <6> QED BY <3>4, <6>1
        <5> QED BY <5>1
      <4> QED BY <3>4, <3>5, <3>6, <3>m, <4>1 DEF RefundFits, Refundable
    <3>9. ASSUME NEW call, call = Call("markRefund", k, running[r].by, saw)
          PROVE  ArCall(call)'
      <4>1. call.step = "markRefund" /\ call.doc = k /\ call.saw = saw
        BY <3>9 DEF Call
      <4>2. refunds'[k] = row /\ Awaits(row, saw)
        BY <3>2, <3>4, <3>6, <3>r DEF Awaits
      <4>3. /\ k \in Refunds
            /\ \/ saw = "POSTED" /\ refunds'[k].status = "APPROVED"
                    /\ RefundFits(k)' /\ Awaits(refunds'[k], "POSTED")
               \/ saw = "VOID" /\ refunds'[k].status = "POSTED" /\ Awaits(refunds'[k], "VOID")
        BY <3>1, <3>4, <3>6, <3>8, <4>2
      <4>4. RefundCall(call)'
        BY <4>1, <4>3 DEF RefundCall
      <4> QED BY <4>1, <4>4 DEF ArCall, InvoiceCall, ReceiptCall, NoteCall, RefundCall
    <3> QED BY <3>6, <3>7, <3>9
  <2>4. Goto(r, "markRefund", saw)
    BY <1>6, <2>2 DEF BookRefund
  <2> QED BY <2>1, <2>3, <2>4, ArGoes
<1>7. CASE MarkRefund(r)
  <2>1. running[r] # Idle
    BY <1>7, Busy DEF MarkRefund
  <2>2. ASSUME Books, ArCall(running[r]) PROVE BooksStay
    <3>1. PICK saw : saw = running[r].saw
      OBVIOUS
    <3>2. /\ f \in Refunds
          /\ \/ saw = "SUBMITTED" /\ refunds[f].status = "DRAFT"
             \/ saw = "APPROVED" /\ refunds[f].status = "SUBMITTED"
             \/ saw = "POSTED" /\ refunds[f].status = "APPROVED" /\ RefundFits(f)
                  /\ Awaits(refunds[f], "POSTED")
             \/ saw = "VOID" /\ refunds[f].status = "POSTED" /\ Awaits(refunds[f], "VOID")
      BY <1>7, <2>2, <3>1 DEF MarkRefund, At, ArCall, RefundCall
    <3>3. saw \in Paper \ {"NONE"}
      BY <3>2 DEF Paper
    <3>4. PICK row : row = Marked(refunds[f], saw)
      OBVIOUS
    <3>5. refunds' = [refunds EXCEPT ![f] = row]
      BY <1>b, <1>7, <2>2, <3>1, <3>2, <3>4 DEF MarkRefund
    <3>6. UNCHANGED <<invoices, receipts, creditNotes>>
      BY <1>7 DEF MarkRefund
    <3> HIDE DEF f
    <3>7. PICK old : old = refunds[f]
      OBVIOUS
    <3>8. old \in RefundRow /\ PaperBooked(old)
      BY <2>2, <3>2, <3>7 DEF Books
    <3>9. /\ row.status = saw /\ row.creditNote = old.creditNote /\ row.amount = old.amount
          /\ row.journals = old.journals
          /\ row.unmarked = IF saw \in {"POSTED", "VOID"} THEN old.unmarked - 1 ELSE old.unmarked
          /\ old.unmarked > 0 \/ saw \notin {"POSTED", "VOID"} => row \in RefundRow
      BY <3>3, <3>4, <3>7, <3>8, RefundRowMarked
    <3>10. row \in RefundRow /\ PaperBooked(row)
      <4>1. CASE saw \in {"POSTED", "VOID"}
        BY <3>2, <3>4, <3>7, <3>9, <4>1 DEF Awaits
      <4>2. CASE saw \notin {"POSTED", "VOID"}
        <5>1. \/ old.status = "DRAFT" /\ row.status = "SUBMITTED"
              \/ old.status = "SUBMITTED" /\ row.status = "APPROVED"
          BY <3>2, <3>7, <3>9, <4>2
        <5>2. PaperBooked(row)
          BY <3>8, <3>9, <4>2, <5>1, PaperMarked
        <5> QED BY <3>9, <4>2, <5>2
      <4> QED BY <4>1, <4>2
    <3>11. /\ refunds' \in [Refunds -> RefundRow] /\ refunds'[f] = row
           /\ \A e \in Refunds \ {f} : refunds'[e] = refunds[e]
      BY <1>b, <2>2, <3>2, <3>5, <3>10
    <3>12. /\ refunds[f].creditNote \in CreditNotes
           /\ creditNotes[refunds[f].creditNote].status \in {"POSTED", "VOID"}
      BY <2>2, <3>2 DEF Books
    <3>13. /\ PaperBooked(refunds'[f])
           /\ refunds'[f].creditNote = refunds[f].creditNote
           /\ refunds'[f].amount = refunds[f].amount
           /\ refunds'[f].status = "POSTED" => RefundFits(f)
      BY <3>2, <3>7, <3>9, <3>10, <3>11
    <3> QED BY <2>2, <3>2, <3>6, <3>11, <3>12, <3>13, RefundWritten
  <2> QED BY <1>7, <2>1, <2>2, ArFinishes DEF MarkRefund
<1> QED BY <1>1, <1>2, <1>3, <1>4, <1>5, <1>6, <1>7 DEF RefundStep

LEMMA ArInitially == ReceivablesInit /\ HandlersInit => ArInv
<1> SUFFICES ASSUME ReceivablesInit, HandlersInit PROVE ArInv
  OBVIOUS
<1>1. HandlersInv /\ \A r \in Requests : running[r] = Idle
  BY InitiallyIdle
<1>2. \A r \in Requests : ArCall(running[r])
  BY <1>1 DEF ArCall, InvoiceCall, ReceiptCall, NoteCall, RefundCall, Idle, Call
<1>3. \A i \in Invoices : Applied(i) = 0 /\ Credited(i) = 0
  <2>1. ASSUME NEW i \in Invoices PROVE Applied(i) = 0 /\ Credited(i) = 0
    <3>1. PostedReceipts \ {None} = {}
      BY DEF ReceivablesInit, PostedReceipts, NoReceipt
    <3>2. {c \in CreditNotes :
             creditNotes[c].status = "POSTED" /\ creditNotes[c].invoice = i} = {}
      BY DEF ReceivablesInit, NoCreditNote
    <3> QED BY <3>1, <3>2, SumOfNone DEF Applied, AppliedByOthers, Credited
  <2> QED BY <2>1
<1>4. \A c \in CreditNotes : Refunded(c) = 0
  <2>1. ASSUME NEW c \in CreditNotes PROVE Refunded(c) = 0
    <3>1. {x \in Refunds : refunds[x].status = "POSTED" /\ refunds[x].creditNote = c} = {}
      BY DEF ReceivablesInit, NoRefund
    <3> QED BY <3>1, SumOfNone DEF Refunded
  <2> QED BY <2>1
<1>5. NoInvoice \in InvoiceRow /\ NoReceipt \in ReceiptRow
  BY MoneyAssumption DEF NoInvoice, InvoiceRow, NoReceipt, ReceiptRow, NoLines, Lines
<1>6. NoCreditNote \in NoteRow /\ NoRefund \in RefundRow
  BY DEF NoCreditNote, NoteRow, NoRefund, RefundRow, Paper
<1>7. /\ \A i \in Invoices : invoices[i] = NoInvoice
      /\ \A d \in Receipts : receipts[d] = NoReceipt
      /\ \A c \in CreditNotes : creditNotes[c] = NoCreditNote
      /\ \A x \in Refunds : refunds[x] = NoRefund
  BY DEF ReceivablesInit
<1>8. /\ invoices \in [Invoices -> InvoiceRow] /\ receipts \in [Receipts -> ReceiptRow]
      /\ creditNotes \in [CreditNotes -> NoteRow] /\ refunds \in [Refunds -> RefundRow]
  BY <1>5, <1>6 DEF ReceivablesInit
<1>9. (\A i \in Invoices : Limit(i) = 0) /\ \A c \in CreditNotes : CreditLimit(c) = 0
  BY <1>7 DEF Limit, CreditLimit, NoInvoice, NoCreditNote
<1>10. /\ InvoiceBooked(NoInvoice) /\ ReceiptBooked(NoReceipt)
       /\ PaperBooked(NoCreditNote) /\ PaperBooked(NoRefund)
  BY DEF NoInvoice, InvoiceBooked, NoReceipt, ReceiptBooked, NoCreditNote, NoRefund,
         PaperBooked, PaperJournals, Accounted
<1>11. /\ NoInvoice.status # "POSTED" /\ NoReceipt.status # "POSTED"
       /\ NoCreditNote.invoice = None /\ NoRefund.status = "NONE"
  BY DEF NoInvoice, NoReceipt, NoCreditNote, NoRefund
<1>12. \A i \in Invoices : /\ InvoiceBooked(invoices[i])
                           /\ Applied(i) <= Limit(i) /\ Credited(i) <= Limit(i)
  BY <1>3, <1>7, <1>9, <1>10
<1>13. \A d \in Receipts : ReceiptBooked(receipts[d])
  BY <1>7, <1>10
<1>14. \A c \in CreditNotes : /\ PaperBooked(creditNotes[c]) /\ creditNotes[c].invoice = None
                              /\ Refunded(c) <= CreditLimit(c)
  <2>1. \A c \in CreditNotes : Refunded(c) <= CreditLimit(c)
    BY <1>4, <1>9
  <2>2. \A c \in CreditNotes : PaperBooked(creditNotes[c]) /\ creditNotes[c].invoice = None
    BY Zenon, <1>7, <1>10, <1>11
  <2> QED BY <2>1, <2>2
<1>15. \A x \in Refunds : PaperBooked(refunds[x]) /\ refunds[x].status = "NONE"
  BY <1>7, <1>10, <1>11
<1>16. Books
  BY <1>8, <1>12, <1>13, <1>14, <1>15 DEF Books
<1> QED BY <1>1, <1>2, <1>16 DEF ArInv

LEMMA ArInductive == ArInv /\ [ReceivablesStep]_arVars => ArStays
<1> SUFFICES ASSUME ArInv, [ReceivablesStep]_arVars PROVE ArStays
  OBVIOUS
<1>1. ASSUME NEW r \in Requests, Fail(r), UNCHANGED arTables
      PROVE  ArStays
  <2>1. Books => BooksStay
    BY <1>1, ReadOnly
  <2> QED BY <1>1, <2>1, ArFinishes DEF Fail
<1>2. CASE UNCHANGED arVars
  <2>1. (Books => BooksStay) /\ DocumentsDrawing /\ \A call : ArCall(call) => ArCall(call)'
    BY <1>2, ReadOnly DEF arVars
  <2>2. HandlersInv' /\ overlap' = overlap /\ \A r \in Requests : running'[r] = running[r]
    BY <1>2, StaysPut DEF ArInv, arVars
  <2>3. ASSUME ~overlap, NEW r \in Requests PROVE ArCall(running[r])'
    <3>1. PICK call : call = running[r]
      OBVIOUS
    <3>2. ArCall(call)'
      BY <2>1, <2>3, <3>1 DEF ArInv
    <3> QED BY <2>2, <3>1, <3>2
            DEF ArCall, InvoiceCall, ReceiptCall, NoteCall, RefundCall
  <2> QED BY <2>1, <2>2, <2>3 DEF ArInv, BooksStay, ArStays
<1> QED
  BY <1>1, <1>2, InvoicesKeep, ReceiptsKeep, NotesKeep, RefundsKeep DEF ReceivablesStep

LEMMA ArInvImplies ==
  ArInv => /\ ReceiptsWithinInvoice /\ CreditsWithinInvoice
           /\ RefundsWithinCreditNote /\ BooksAgree
<1> SUFFICES ASSUME ArInv, ~overlap
             PROVE  /\ ReceiptsWithinInvoice /\ CreditsWithinInvoice
                    /\ RefundsWithinCreditNote /\ BooksAgree
  BY DEF ReceiptsWithinInvoice, CreditsWithinInvoice, RefundsWithinCreditNote, BooksAgree
<1>1. Books
  BY DEF ArInv
<1>2. ASSUME NEW i \in Invoices
      PROVE  Applied(i) <= invoices[i].total /\ Credited(i) <= invoices[i].total
  <2>1. /\ Applied(i) \in Nat /\ Credited(i) \in Nat /\ invoices[i].total \in Nat
        /\ Applied(i) <= Limit(i) /\ Credited(i) <= Limit(i)
    BY <1>1, SumsInNat DEF Books, InvoiceRow
  <2> QED BY <2>1 DEF Limit
<1>3. ASSUME NEW c \in CreditNotes PROVE Refunded(c) <= creditNotes[c].amount
  <2>1. /\ Refunded(c) \in Nat /\ creditNotes[c].amount \in Nat /\ Refunded(c) <= CreditLimit(c)
    BY <1>1, SumsInNat DEF Books, NoteRow
  <2> QED BY <2>1 DEF CreditLimit
<1>4. BooksAgree
  BY <1>1 DEF Books, BooksAgree
<1> QED
  BY <1>2, <1>3, <1>4
     DEF ReceiptsWithinInvoice, CreditsWithinInvoice, RefundsWithinCreditNote, Applied

LEMMA ArInvariant == ReceivablesSpec => []ArInv
<1>1. ArInv /\ [ReceivablesStep]_arVars => ArInv'
  BY ArInductive DEF ArStays
<1> QED BY <1>1, ArInitially, PTL DEF ReceivablesSpec

(* One request at a time, whatever was edited, reallocated, posted and     *)
(* voided: the receipts POSTED against an invoice stay within its total    *)
(* (validateLines, ar-receipts.service.ts), so do the credit notes POSTED  *)
(* against it (computeInvoiceOutstanding, credit-notes.service.ts), and    *)
(* the refunds POSTED of a credit note stay within its amount.             *)
THEOREM LimitsKept == ReceivablesSpec => []NothingOverdrawn
BY ArInvariant, ArInvImplies, PTL DEF NothingOverdrawn

(* One request at a time, documents have the journals they are due, and    *)
(* as many more as handlers stopped between a journal and its mark; what a *)
(* POSTED invoice says is what its last journal says, what a POSTED        *)
(* receipt says is what its only one says.                                 *)
THEOREM DocumentsMatchJournals == ReceivablesSpec => []BooksAgree
BY ArInvariant, ArInvImplies, PTL

(* One request at a time, receipts and credit notes implement Drawings on  *)
(* POSTED invoices, and refunds on credit notes: to post takes only what   *)
(* the others leave, to void gives all of it back, nothing else changes    *)
(* what is taken, and no limit changes while anything is drawn on it.      *)
THEOREM DocumentsImplementDrawings == ReceivablesSpec => DocumentsDraw
<1>1. ReceivablesInit => ByReceipts!Init /\ ByCreditNotes!Init /\ ByRefunds!Init
  <2> SUFFICES ASSUME ReceivablesInit
               PROVE  ByReceipts!Init /\ ByCreditNotes!Init /\ ByRefunds!Init
    OBVIOUS
  <2>1. /\ Invoiced = [i \in Invoices |-> 0] /\ Noted = [c \in CreditNotes |-> 0]
        /\ Allocated = [d \in Receipts |-> [i \in Invoices |-> 0]]
        /\ CreditedTo = [c \in CreditNotes |-> [i \in Invoices |-> 0]]
        /\ RefundedOf = [x \in Refunds |-> [c \in CreditNotes |-> 0]]
    BY DEF ReceivablesInit, Invoiced, Noted, Allocated, CreditedTo, RefundedOf,
         NoInvoice, NoReceipt, NoCreditNote, NoRefund, NoLines
  <2> QED BY <2>1 DEF ByReceipts!Init, ByReceipts!Nothing, ByCreditNotes!Init,
             ByCreditNotes!Nothing, ByRefunds!Init, ByRefunds!Nothing
<1>2. ArInv /\ [ReceivablesStep]_arVars
        => /\ [~overlap => ByReceipts!Next]_<<Invoiced, Allocated>>
           /\ [~overlap => ByCreditNotes!Next]_<<Invoiced, CreditedTo>>
           /\ [~overlap => ByRefunds!Next]_<<Noted, RefundedOf>>
  BY ArInductive DEF ArStays, DocumentsDrawing
<1> QED BY <1>1, <1>2, ArInvariant, PTL DEF ReceivablesSpec, DocumentsDraw

=============================================================================
