------------------------------ MODULE Bookings ------------------------------
(* How the documents of the subledgers reach the ledger when that takes    *)
(* two transactions: postJournal posts the journal in the first one, the   *)
(* document is marked in the second.  Every attempt creates a journal of   *)
(* its own: no handler looks for one of an earlier attempt, and            *)
(* JournalEntry has no unique key on its source.                           *)
EXTENDS Handlers, Sequences

CONSTANT MaxJournals   \* bound: a document with so many journals gets no further one

ASSUME BookingsAssumption == MaxJournals \in Nat

(* A row has two columns for this.  journals: what the posted journals of  *)
(* its document say, in their order; unmarked (history, not in the code):  *)
(* how many of them no mark has followed.                                  *)
MayBook(row) == Len(row.journals) < MaxJournals

(* postJournal commits: one journal more.                                  *)
Booked(row, says) ==
  [row EXCEPT !.journals = Append(row.journals, says), !.unmarked = row.unmarked + 1]

(* The document gets a new status; POSTED and VOID follow a journal.       *)
Marked(row, status) ==
  [row EXCEPT
     !.status = status,
     !.unmarked = IF status \in {"POSTED", "VOID"} THEN row.unmarked - 1 ELSE row.unmarked]

(* The journals of a document are the ones due; where handlers ended       *)
(* before their mark, there are that many more.                            *)
Accounted(row, due) ==
  /\ row.unmarked = 0 => row.journals = due
  /\ Len(row.journals) = row.unmarked + Len(due)

=============================================================================
