------------------------- MODULE BankReconciliation -------------------------
(* Bank statements of one bank account (src/.../bank-recon).  The lines of *)
(* a statement are matched one to one with posted journal lines of the     *)
(* bank's GL account, which become cleared; a statement whose difference   *)
(* is zero is reconciled, photographed and locked.                         *)
EXTENDS Handlers, Money, Integers, FiniteSetsExt

CONSTANTS
  Statements, StatementLines, JournalLines,   \* ids
  MaxDay                                      \* bound: dates are 1..MaxDay

ASSUME BankAssumption ==
  MaxDay \in Nat /\ None \notin Statements \cup StatementLines \cup JournalLines

VARIABLES
  statements,
  lines,          \* BankStatementLine
  journalLines    \* posted lines of the bank's GL account

bankTables == <<statements, lines, journalLines>>
bankVars == <<bankTables, handlerVars>>

Days == 1..MaxDay
Signed == Amounts \cup {-n : n \in Amounts}   \* money in is positive

NoStatement == [status |-> "NONE", from |-> 0, to |-> 0, closing |-> 0, snapshot |-> None]
NoLine == [statement |-> None, amount |-> 0, match |-> None]
NotPosted == [day |-> 0, amount |-> 0, clearedBy |-> None]

BankInit ==
  /\ statements = [s \in Statements |-> NoStatement]
  /\ lines = [l \in StatementLines |-> NoLine]
  /\ journalLines = [j \in JournalLines |-> NotPosted]

-----------------------------------------------------------------------------
(* Mutant: any statement there is can be changed.                          *)
MutableUnlessMissing(s) == statements[s].status # "NONE"

(* assertStatementMutable                                                  *)
StatementMutable(s) == statements[s].status = "DRAFT"

Unmatched(l) == lines[l].match = None
Eligible(j) == journalLines[j].amount # 0 /\ journalLines[j].clearedBy = None

(* assertNoOverlap                                                         *)
ApartFromOthers(from, to) ==
  \A s \in Statements : statements[s].status # "NONE" =>
    statements[s].to < from \/ to < statements[s].from

(* The unique index on account and end date.                               *)
EndDateFree(to) == \A s \in Statements : statements[s].to # to

(* The reconciliation: closing balance, deposits in transit and            *)
(* outstanding payments against the GL balance up to the end date.  What   *)
(* is not cleared is on both sides, so the cleared lines decide.           *)
PostedUpTo(day) == {j \in JournalLines : journalLines[j].amount # 0 /\ journalLines[j].day <= day}

Total(js) == MapThenSumSet(LAMBDA j : journalLines[j].amount, js)

Difference(s) ==
  LET posted == PostedUpTo(statements[s].to)
      inTransit == {j \in posted : journalLines[j].clearedBy = None}
  IN statements[s].closing + Total(inTransit) - Total(posted)

-----------------------------------------------------------------------------
CreateStatement(r, s, from, to, closing) ==
  /\ statements[s] = NoStatement
  /\ from <= to /\ ApartFromOthers(from, to)
  /\ Begin(r, "insertStatement", s, None,
           [status |-> "DRAFT", from |-> from, to |-> to, closing |-> closing, snapshot |-> None])
  /\ UNCHANGED bankTables

InsertStatement(r) ==
  LET row == running[r].saw IN
  /\ At(r, "insertStatement")
  /\ statements[running[r].doc] = NoStatement
  /\ IF EndDateFree(row.to)
       THEN statements' = [statements EXCEPT ![running[r].doc] = row]
       ELSE UNCHANGED statements
  /\ Finish(r)
  /\ UNCHANGED <<lines, journalLines>>

AddLine(r, s, l, amount) ==
  /\ StatementMutable(s)
  /\ lines[l] = NoLine
  /\ Begin(r, "insertLine", l, None, [statement |-> s, amount |-> amount, match |-> None])
  /\ UNCHANGED bankTables

InsertLine(r) ==
  /\ At(r, "insertLine")
  /\ lines[running[r].doc] = NoLine
  /\ lines' = [lines EXCEPT ![running[r].doc] = running[r].saw]
  /\ Finish(r)
  /\ UNCHANGED <<statements, journalLines>>

LineExists(l) == lines[l] # NoLine

DeleteLine(r, l) ==
  /\ LineExists(l) /\ StatementMutable(lines[l].statement) /\ Unmatched(l)
  /\ Begin(r, "removeLine", l, None, None)
  /\ UNCHANGED bankTables

(* Mutant: the foreign key of JournalLine does not restrict deletes.       *)
NothingRefersTo(l) == TRUE

(* onDelete: Restrict on JournalLine.bankStatementLineId                   *)
Unreferenced(l) == \A j \in JournalLines : journalLines[j].clearedBy # l

RemoveLine(r) ==
  /\ At(r, "removeLine")
  /\ IF Unreferenced(running[r].doc)
       THEN lines' = [lines EXCEPT ![running[r].doc] = NoLine]
       ELSE UNCHANGED lines
  /\ Finish(r)
  /\ UNCHANGED <<statements, journalLines>>

(* matchStatementLine: the reads of its transaction, then its two updates, *)
(* each of which a unique index can refuse.                                *)
Match(r, l, j) ==
  /\ LineExists(l) /\ StatementMutable(lines[l].statement) /\ Unmatched(l)
  /\ Eligible(j) /\ journalLines[j].amount = lines[l].amount
  /\ Begin(r, "link", l, None, j)
  /\ UNCHANGED bankTables

Link(r) ==
  LET l == running[r].doc
      j == running[r].saw
      unique == /\ \A k \in StatementLines \ {l} : lines[k].match # j
                /\ \A i \in JournalLines \ {j} : journalLines[i].clearedBy # l
  IN
  /\ At(r, "link")
  /\ IF LineExists(l) /\ unique
       THEN /\ lines' = [lines EXCEPT ![l].match = j]
            /\ journalLines' = [journalLines EXCEPT ![j].clearedBy = l]
       ELSE UNCHANGED <<lines, journalLines>>
  /\ Finish(r)
  /\ UNCHANGED statements

Unmatch(r, l) ==
  /\ LineExists(l) /\ StatementMutable(lines[l].statement)
  /\ \E j \in JournalLines :
       /\ lines[l].match = j /\ journalLines[j].clearedBy = l
       /\ Begin(r, "unlink", l, None, j)
  /\ UNCHANGED bankTables

(* Mutant: the journal line stays cleared.                                 *)
UnlinkLineOnly(r) ==
  /\ At(r, "unlink")
  /\ lines' = [lines EXCEPT ![running[r].doc].match = None]
  /\ Finish(r)
  /\ UNCHANGED <<statements, journalLines>>

Unlink(r) ==
  /\ At(r, "unlink")
  /\ IF LineExists(running[r].doc)
       THEN /\ lines' = [lines EXCEPT ![running[r].doc].match = None]
            /\ journalLines' = [journalLines EXCEPT ![running[r].saw].clearedBy = None]
       ELSE UNCHANGED <<lines, journalLines>>
  /\ Finish(r)
  /\ UNCHANGED statements

(* reconcileAndLockStatement: the snapshot keeps the balance that was read. *)
Reconcile(r, s) ==
  /\ StatementMutable(s)
  /\ Difference(s) = 0
  /\ Begin(r, "lock", s, None, Total(PostedUpTo(statements[s].to)))
  /\ UNCHANGED bankTables

(* The unique index on the statement of a snapshot rolls a second one back. *)
Lock(r) ==
  LET s == running[r].doc IN
  /\ At(r, "lock")
  /\ IF statements[s].snapshot = None
       THEN statements' = [statements EXCEPT ![s].status = "LOCKED", ![s].snapshot = running[r].saw]
       ELSE UNCHANGED statements
  /\ Finish(r)
  /\ UNCHANGED <<lines, journalLines>>

(* A journal of the bank's account is posted (GlJournals).                 *)
PostJournalLine(r, j, day, amount) ==
  /\ journalLines[j] = NotPosted
  /\ AtOnce(r)
  /\ journalLines' = [journalLines EXCEPT
       ![j] = [day |-> day, amount |-> amount, clearedBy |-> None]]
  /\ UNCHANGED <<statements, lines>>

StatementStep(r) ==
  \/ \E s \in Statements :
       \/ \E from, to \in Days, closing \in Signed \cup {0} :
            CreateStatement(r, s, from, to, closing)
       \/ \E l \in StatementLines, amount \in Signed : AddLine(r, s, l, amount)
       \/ Reconcile(r, s)
  \/ InsertStatement(r) \/ InsertLine(r) \/ Lock(r)

LineStep(r) ==
  \/ \E l \in StatementLines :
       \/ DeleteLine(r, l) \/ Unmatch(r, l)
       \/ \E j \in JournalLines : Match(r, l, j)
  \/ RemoveLine(r) \/ Link(r) \/ Unlink(r)
  \/ \E j \in JournalLines, day \in Days, amount \in Signed : PostJournalLine(r, j, day, amount)

BankStep ==
  \E r \in Requests :
    \/ StatementStep(r) \/ LineStep(r)
    \/ Fail(r) /\ UNCHANGED bankTables

BankSpec == BankInit /\ HandlersInit /\ [][BankStep]_bankVars

-----------------------------------------------------------------------------
(* One request at a time: line and journal line name each other, so what   *)
(* is cleared in the ledger is what a statement shows.                     *)
MatchesAgree ==
  ~overlap => \A l \in StatementLines, j \in JournalLines :
    lines[l].match = j <=> journalLines[j].clearedBy = l

(* However requests overlap, a journal line is never cleared by a          *)
(* statement line that was deleted.                                        *)
ClearedByExisting ==
  \A j \in JournalLines : journalLines[j].clearedBy # None =>
    LineExists(journalLines[j].clearedBy)

(* One request at a time: the lines of a locked statement and what they    *)
(* are matched with stay as they were.                                     *)
LockedIsFrozen ==
  [][~overlap => \A l \in StatementLines :
       LineExists(l) /\ statements[lines[l].statement].status = "LOCKED" =>
         /\ lines'[l] = lines[l]
         /\ \A j \in JournalLines : lines[l].match = j => journalLines'[j] = journalLines[j]]_bankVars

=============================================================================
