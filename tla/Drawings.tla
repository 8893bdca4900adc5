------------------------------ MODULE Drawings ------------------------------
(* What the services promise of amounts that are drawn on limited ones     *)
(* (receipts and credit notes on an invoice, refunds on a credit note,     *)
(* payment proposals on a bill), in steps that happen at one instant: a    *)
(* source gets its limit once and keeps it; a claim takes, from all its    *)
(* sources at once, no more than all claims have left of them; what it     *)
(* took it keeps unchanged until it gives everything back.                 *)
EXTENDS Integers, Functions

CONSTANTS Sources, Claims

VARIABLES limit, drawn

Nothing == [s \in Sources |-> 0]

Left(s) == limit[s] - SumFunctionOnSet([c \in Claims |-> drawn[c][s]], Claims)

Init ==
  /\ limit = Nothing
  /\ drawn = [c \in Claims |-> Nothing]

Grant(s) ==
  /\ limit[s] = 0
  /\ limit'[s] \in Nat
  /\ limit' = [limit EXCEPT ![s] = limit'[s]]
  /\ UNCHANGED drawn

Draw(c) ==
  /\ drawn[c] = Nothing
  /\ \A s \in Sources : drawn'[c][s] \in 0..Left(s)
  /\ drawn' = [drawn EXCEPT ![c] = drawn'[c]]
  /\ UNCHANGED limit

GiveBack(c) ==
  /\ drawn' = [drawn EXCEPT ![c] = Nothing]
  /\ UNCHANGED limit

Next ==
  \/ \E s \in Sources : Grant(s)
  \/ \E c \in Claims : Draw(c) \/ GiveBack(c)

Spec == Init /\ [][Next]_<<limit, drawn>>

=============================================================================
