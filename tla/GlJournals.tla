---------------------------- MODULE GlJournals ----------------------------
(* The journal lifecycle of gl/gl.service.ts.                              *)
(*                                                                         *)
(* Every HTTP handler reads the journal, checks what it read, reads the    *)
(* accounting period, and only then updates the row BY ITS ID, with no     *)
(* status in the WHERE clause and (posting excepted) outside any           *)
(* transaction.  A handler is therefore a request that moves through       *)
(*    load -> period -> bump -> guard -> write                             *)
(* and other requests may run between any two of those steps:              *)
(*    load    findFirst, status / ownership / SoD / balance checks         *)
(*    period  findFirst on accountingPeriod, assertPeriodAllowsPosting     *)
(*    bump    posting only: the row lock on the tenant's number sequence   *)
(*    guard   the Prisma immutability guard re-reads the row's status      *)
(*    write   the UPDATE or INSERT commits                                 *)
(* A handler whose code skips a step skips it here.  A request may end at  *)
(* any point (Abort): a refused check the model abstracts (budget,         *)
(* evidence, dimensions, cutover), a database error, or a crash.           *)
EXTENDS Naturals, FiniteSets, SodPolicy

CONSTANTS
  Journals,          \* journal ids
  Users,             \* users of one tenant
  Delegations,       \* <<real, acting>>: real may act as acting
  Contents,          \* what the lines of a journal can be
  BalancedContents,  \* those of them assertBalanced accepts
  Periods,           \* accounting period ids
  Slots,             \* months, in order: a journal's date, a period's range
  Requests,          \* HTTP requests that can be in flight at once
  None,              \* a NULL column
  MaxNumber,         \* the largest value of the sequence column
  SerialPerJournal   \* TRUE: no two requests on one journal overlap

ASSUME NoneAssumption ==
  /\ None \notin Users \cup Journals \cup Contents \cup Periods \cup Slots \cup Requests
ASSUME DelegationAssumption == Delegations \subseteq Users \X Users
ASSUME ContentAssumption == BalancedContents \subseteq Contents
ASSUME SlotAssumption == Slots \subseteq Nat
ASSUME NumberAssumption == MaxNumber \in Nat
ASSUME SerialAssumption == SerialPerJournal \in BOOLEAN

VARIABLES
  journals,   \* the JournalEntry table
  counter,    \* tenantSequenceCounter.value of the journal sequence
  seqLock,    \* the request holding that row's lock, or None
  periods,    \* the AccountingPeriod table: status and months covered
  requests,   \* the requests in flight
  history     \* what the audit trail would say of the last review and post

tableVars == <<journals, counter, seqLock, history>>
vars == <<journals, counter, seqLock, periods, requests, history>>

-----------------------------------------------------------------------------
(* Data *)

Statuses == {"NONE", "DRAFT", "PARKED", "SUBMITTED", "REVIEWED", "POSTED",
             "REJECTED", "VOIDED"}

(* A period covers one month ("NONE" is no row yet).                       *)
Period == [status: {"NONE", "OPEN", "HARD_CLOSED"}, slot: Slots]

(* The columns of a journal the lifecycle reads.  "NONE" is no row yet;    *)
(* number 0 is a NULL journalNumber; date is the month of journalDate.      *)
Journal ==
  [status: Statuses, createdBy: Users \cup {None},
   submittedBy: Users \cup {None}, reviewedBy: Users \cup {None},
   postedBy: Users \cup {None}, initiatedBy: Users \cup {None},
   reversalOf: Journals \cup {None}, content: Contents \cup {None},
   date: Slots \cup {None}, periodId: Periods \cup {None}, number: 0..MaxNumber]

NoJournal ==
  [status |-> "NONE", createdBy |-> None, submittedBy |-> None,
   reviewedBy |-> None, postedBy |-> None, initiatedBy |-> None,
   reversalOf |-> None, content |-> None, date |-> None, periodId |-> None,
   number |-> 0]

(* The row an INSERT makes.                                                *)
Draft(creator, initiator, original, content, date) ==
  [status |-> "DRAFT", createdBy |-> creator, submittedBy |-> None,
   reviewedBy |-> None, postedBy |-> None, initiatedBy |-> initiator,
   reversalOf |-> original, content |-> content, date |-> date,
   periodId |-> None, number |-> 0]

(* History of a journal: the real users behind its last review and its     *)
(* last post, the content that review saw, whether the post used the       *)
(* override path.  No handler reads it.                                    *)
Trail == [reviewer: Users \cup {None}, poster: Users \cup {None},
          reviewed: Contents \cup {None}, override: BOOLEAN]
NoTrail == [reviewer |-> None, poster |-> None, reviewed |-> None,
            override |-> FALSE]

PostOps == {"post", "postOverride"}
InPlaceOps == {"update", "park", "void", "submit", "review", "reject",
               "return"} \cup PostOps
CreateOps == {"create", "reverse"}
Ops == InPlaceOps \cup CreateOps

(* A request in flight: what the handler still holds after its checks.     *)
Request ==
  [op: Ops \cup {"idle"}, pc: {"done", "period", "bump", "guard", "write"},
   j: Journals \cup {None}, real: Users \cup {None}, by: Users \cup {None},
   date: Slots \cup {None}, period: Periods \cup {None},
   content: Contents \cup {None}, number: 0..MaxNumber]
Idle == [op |-> "idle", pc |-> "done", j |-> None, real |-> None, by |-> None,
         date |-> None, period |-> None, content |-> None, number |-> 0]

(* getUserAuthz: the real user, and the user he acts as (himself unless a  *)
(* delegation is in force).                                                *)
Actors == {[real |-> u, id |-> u] : u \in Users}
            \cup {[real |-> d[1], id |-> d[2]] : d \in Delegations}

(* Mutant: any period that exists will do.                                 *)
AnyPeriodAllows(p) == periods[p].status # "NONE"

(* assertPeriodAllowsPosting.  No handler ever sets SOFT_CLOSED, so its    *)
(* override branch has no state to start from.                             *)
AllowsPosting(p) == periods[p].status = "OPEN"

(* accountingPeriod.findFirst by date *)
PeriodsOf(slot) == {p \in Periods : periods[p].status # "NONE" /\ periods[p].slot = slot}

(* Mutant: lines are not checked.                                          *)
BalanceUnchecked(content) == TRUE

(* assertBalanced and assertLinesBasicValid *)
Balanced(content) == content \in BalancedContents

IsReversal(entry) == entry.reversalOf # None

(* The initiator postJournalCore hands to the policy.                      *)
PostEntry(entry) ==
  [entry EXCEPT !.initiatedBy =
     IF ~IsReversal(entry) THEN None
     ELSE IF entry.initiatedBy # None THEN entry.initiatedBy
     ELSE entry.createdBy]

(* reversePostedJournal: a reversal that is not REJECTED blocks another.   *)
LiveReversals(j) ==
  {k \in Journals : journals[k].reversalOf = j /\ journals[k].status # "REJECTED"}

-----------------------------------------------------------------------------
(* Steps every handler is made of *)

(* A handler may start on j: always, or, when SerialPerJournal, only while *)
(* no other request on j is in flight.                                     *)
Free(j) == SerialPerJournal => \A q \in Requests : requests[q].j # j

(* What the handler holds from here on.                                    *)
Become(r, req) == requests' = [requests EXCEPT ![r] = req]

Continue(r, pc) == Become(r, [requests[r] EXCEPT !.pc = pc])

Finish(r) == Become(r, Idle)

(* The handler has passed its checks on the row it loaded and goes on.     *)
Start(r, req) ==
  /\ requests[r] = Idle
  /\ Become(r, req)
  /\ UNCHANGED <<tableVars, periods>>

(* UPDATE "JournalEntry" SET ... WHERE id = j *)
Commit(r, row) ==
  /\ journals' = [journals EXCEPT ![requests[r].j] = row]
  /\ Finish(r)

AtWrite(r, op) == requests[r].op = op /\ requests[r].pc = "write"

(* The row as it is when the UPDATE runs, not as the handler loaded it.    *)
Row(r) == journals[requests[r].j]

SetHistory(r, trail) == history' = [history EXCEPT ![requests[r].j] = trail]

(* Review columns cleared: the review is forgotten.                        *)
ForgetReview(r) ==
  SetHistory(r, [history[requests[r].j] EXCEPT !.reviewer = None, !.reviewed = None])

AfterPeriod(op) == IF op = "create" THEN "write"
                   ELSE IF op \in PostOps THEN "bump" ELSE "guard"

(* findFirst on accountingPeriod, then assertPeriodAllowsPosting, which    *)
(* ends the request unless the period is open.  The reversal handler picks *)
(* its date here and has its own step below.                               *)
CheckPeriod(r) ==
  /\ requests[r].pc = "period"
  /\ requests[r].op # "reverse"
  /\ \/ \E p \in PeriodsOf(requests[r].date) :
          IF AllowsPosting(p)
            THEN Become(r, [requests[r] EXCEPT !.pc = AfterPeriod(requests[r].op),
                                               !.period = p])
            ELSE Finish(r)
     \/ PeriodsOf(requests[r].date) = {} /\ Finish(r)
  /\ UNCHANGED <<tableVars, periods>>

(* The Prisma guard, before any update of a JournalEntry: a target it      *)
(* reads as POSTED is refused.  The read and the UPDATE that follows are   *)
(* two statements.  A refused post rolls its transaction back.             *)
ReadGuard(r) ==
  /\ requests[r].pc = "guard"
  /\ IF Row(r).status = "POSTED"
       THEN /\ Finish(r)
            /\ seqLock' = IF seqLock = r THEN None ELSE seqLock
       ELSE /\ Continue(r, "write")
            /\ UNCHANGED seqLock
  /\ UNCHANGED <<journals, counter, periods, history>>

(* Mutant: a request that dies leaves its transaction open.                *)
AbortKeepsLock(r) ==
  /\ requests[r] # Idle
  /\ Finish(r)
  /\ UNCHANGED <<journals, counter, seqLock, periods, history>>

(* Any exception, or the process dying: nothing is written, and an open    *)
(* transaction is rolled back with its lock.                               *)
Abort(r) ==
  /\ requests[r] # Idle
  /\ Finish(r)
  /\ seqLock' = IF seqLock = r THEN None ELSE seqLock
  /\ UNCHANGED <<journals, counter, periods, history>>

-----------------------------------------------------------------------------
(* createDraftJournal *)

CreateLoad(r) ==
  \E a \in Actors, c \in Contents, d \in Slots :
    Start(r, [Idle EXCEPT !.op = "create", !.pc = "period", !.by = a.real,
                          !.content = c, !.date = d])

CreateWrite(r) ==
  /\ AtWrite(r, "create")
  /\ \E j \in Journals :
       /\ journals[j].status = "NONE"
       /\ journals' = [journals EXCEPT ![j] =
            Draft(requests[r].by, None, None, requests[r].content, requests[r].date)]
  /\ Finish(r)
  /\ UNCHANGED <<counter, seqLock, periods, history>>

(* Mutant: a journal can be edited until it is posted.                     *)
EditableUntilPosted == {"DRAFT", "SUBMITTED", "REVIEWED", "REJECTED"}

(* The statuses updateDraftJournal accepts.                                *)
Editable == {"DRAFT", "REJECTED"}

(* updateDraftJournal: the lines are replaced, the status is not touched.  *)
(* A reversal draft only takes a new date.                                 *)
UpdateLoad(r) ==
  \E a \in Actors, j \in Journals, c \in Contents, d \in Slots :
    /\ Free(j)
    /\ journals[j].status \in Editable
    /\ journals[j].createdBy = a.real
    /\ Start(r, [Idle EXCEPT !.op = "update", !.pc = "period", !.j = j, !.date = d,
                 !.content = IF IsReversal(journals[j]) THEN None ELSE c])

NewContent(r) ==
  IF requests[r].content = None THEN Row(r).content ELSE requests[r].content

UpdateWrite(r) ==
  /\ AtWrite(r, "update")
  /\ Commit(r, [Row(r) EXCEPT !.date = requests[r].date, !.content = NewContent(r)])
  /\ UNCHANGED <<counter, seqLock, periods, history>>

(* parkJournal: ownership is checked against the user acted for.           *)
ParkLoad(r) ==
  \E a \in Actors, j \in Journals :
    /\ Free(j)
    /\ journals[j].status = "DRAFT"
    /\ journals[j].createdBy = a.id
    /\ Balanced(journals[j].content)
    /\ Start(r, [Idle EXCEPT !.op = "park", !.pc = "guard", !.j = j])

ParkWrite(r) ==
  /\ AtWrite(r, "park")
  /\ Commit(r, [Row(r) EXCEPT !.status = "PARKED"])
  /\ UNCHANGED <<counter, seqLock, periods, history>>

(* voidJournal *)
VoidLoad(r) ==
  \E a \in Actors, j \in Journals :
    /\ Free(j)
    /\ journals[j].status \in {"DRAFT", "PARKED", "SUBMITTED", "REVIEWED", "REJECTED"}
    /\ EvaluateSoD("GL_JOURNAL_VOID", a.real, journals[j])
    /\ Start(r, [Idle EXCEPT !.op = "void", !.pc = "guard", !.j = j])

VoidWrite(r) ==
  /\ AtWrite(r, "void")
  /\ Commit(r, [Row(r) EXCEPT !.status = "VOIDED"])
  /\ UNCHANGED <<counter, seqLock, periods, history>>

-----------------------------------------------------------------------------
(* submitJournal *)

SubmitLoad(r) ==
  \E a \in Actors, j \in Journals :
    /\ Free(j)
    /\ journals[j].status \in {"DRAFT", "REJECTED"}
    /\ journals[j].createdBy = a.real
    /\ Balanced(journals[j].content)
    /\ Start(r, [Idle EXCEPT !.op = "submit", !.pc = "period", !.j = j,
                             !.by = a.real, !.date = journals[j].date])

(* Mutant: the review columns are not cleared.                             *)
SubmitKeepsReview(r) ==
  /\ AtWrite(r, "submit")
  /\ Commit(r, [Row(r) EXCEPT !.status = "SUBMITTED", !.submittedBy = requests[r].by])
  /\ ForgetReview(r)
  /\ UNCHANGED <<counter, seqLock, periods>>

SubmitWrite(r) ==
  /\ AtWrite(r, "submit")
  /\ Commit(r, [Row(r) EXCEPT !.status = "SUBMITTED",
                              !.submittedBy = requests[r].by,
                              !.reviewedBy = None])
  /\ ForgetReview(r)
  /\ UNCHANGED <<counter, seqLock, periods>>

(* reviewJournal: the policy judges the real user, the row keeps the user  *)
(* he acts for.                                                            *)
ReviewLoad(r) ==
  \E a \in Actors, j \in Journals :
    /\ Free(j)
    /\ journals[j].status = "SUBMITTED"
    /\ EvaluateSoD("GL_JOURNAL_REVIEW", a.real, journals[j])
    /\ journals[j].submittedBy # None
    /\ journals[j].reviewedBy = None
    /\ Start(r, [Idle EXCEPT !.op = "review", !.pc = "period", !.j = j,
                 !.real = a.real, !.by = a.id, !.date = journals[j].date])

ReviewWrite(r) ==
  /\ AtWrite(r, "review")
  /\ Commit(r, [Row(r) EXCEPT !.status = "REVIEWED", !.reviewedBy = requests[r].by])
  /\ SetHistory(r, [history[requests[r].j] EXCEPT !.reviewer = requests[r].real,
                                                  !.reviewed = Row(r).content])
  /\ UNCHANGED <<counter, seqLock, periods>>

(* rejectJournal *)
RejectLoad(r) ==
  \E a \in Actors, j \in Journals :
    /\ Free(j)
    /\ journals[j].status = "SUBMITTED"
    /\ EvaluateSoD("GL_JOURNAL_REJECT", a.real, journals[j])
    /\ journals[j].submittedBy # None
    /\ Start(r, [Idle EXCEPT !.op = "reject", !.pc = "guard", !.j = j])

RejectWrite(r) ==
  /\ AtWrite(r, "reject")
  /\ Commit(r, [Row(r) EXCEPT !.status = "REJECTED", !.reviewedBy = None])
  /\ ForgetReview(r)
  /\ UNCHANGED <<counter, seqLock, periods>>

(* returnJournalToReview *)
ReturnLoad(r) ==
  \E a \in Actors, j \in Journals :
    /\ Free(j)
    /\ journals[j].status = "REVIEWED"
    /\ EvaluateSoD("GL_JOURNAL_RETURN_TO_REVIEW", a.real, journals[j])
    /\ Start(r, [Idle EXCEPT !.op = "return", !.pc = "guard", !.j = j])

ReturnWrite(r) ==
  /\ AtWrite(r, "return")
  /\ Commit(r, [Row(r) EXCEPT !.status = "SUBMITTED", !.reviewedBy = None])
  /\ ForgetReview(r)
  /\ UNCHANGED <<counter, seqLock, periods>>

-----------------------------------------------------------------------------
(* postJournalCore, reached by postJournal and by postJournalOverride: the *)
(* override path tolerates a policy conflict.                              *)
PostLoad(r) ==
  \E op \in PostOps, a \in Actors, j \in Journals :
    /\ Free(j)
    /\ journals[j].status = "REVIEWED"
    /\ op = "post" => EvaluateSoD("GL_JOURNAL_POST", a.real, PostEntry(journals[j]))
    /\ Balanced(journals[j].content)
    /\ Start(r, [Idle EXCEPT !.op = op, !.pc = "period", !.j = j, !.real = a.real,
                             !.by = a.id, !.date = journals[j].date])

(* Mutant: the limit of the column is off by one.                          *)
TakeNumberPastLimit(r) ==
  /\ IF counter <= MaxNumber
       THEN /\ seqLock' = r
            /\ Become(r, [requests[r] EXCEPT !.pc = "guard", !.number = counter + 1])
       ELSE UNCHANGED seqLock /\ Finish(r)
  /\ UNCHANGED <<journals, counter, periods, history>>

(* The transaction starts: incrementing the sequence row waits for its     *)
(* lock and takes it, and returns the number.  Past the largest value of   *)
(* the column the increment raises.                                        *)
TakeNumber(r) ==
  /\ IF counter < MaxNumber
       THEN /\ seqLock' = r
            /\ Become(r, [requests[r] EXCEPT !.pc = "guard", !.number = counter + 1])
       ELSE UNCHANGED seqLock /\ Finish(r)
  /\ UNCHANGED <<journals, counter, periods, history>>

(* Mutant: the number is read without waiting for the row's lock.          *)
BumpWithoutLock(r) ==
  /\ requests[r].pc = "bump"
  /\ TakeNumber(r)

PostBump(r) ==
  /\ requests[r].pc = "bump"
  /\ seqLock = None
  /\ TakeNumber(r)

(* The transaction commits: the incremented sequence row and the POSTED    *)
(* journal appear together, and the lock is released.                      *)
PostWrite(r) ==
  /\ requests[r].op \in PostOps
  /\ requests[r].pc = "write"
  /\ counter' = requests[r].number
  /\ Commit(r, [Row(r) EXCEPT !.status = "POSTED", !.postedBy = requests[r].by,
                              !.periodId = requests[r].period,
                              !.number = requests[r].number])
  /\ SetHistory(r, [history[requests[r].j] EXCEPT !.poster = requests[r].real,
                                !.override = requests[r].op = "postOverride"])
  /\ seqLock' = None
  /\ UNCHANGED periods

-----------------------------------------------------------------------------
(* reversePostedJournal: the draft belongs to the creator of the original; *)
(* the user acted for is recorded as the initiator.                        *)
ReverseLoad(r) ==
  \E a \in Actors, j \in Journals, d \in Slots :
    /\ Free(j)
    /\ journals[j].status = "POSTED"
    /\ EvaluateSoD("GL_JOURNAL_REVERSE", a.real, journals[j])
    /\ LiveReversals(j) = {}
    /\ Balanced(journals[j].content)
    /\ Start(r, [Idle EXCEPT !.op = "reverse", !.pc = "period", !.j = j,
                 !.by = a.id, !.date = d, !.content = journals[j].content])

(* The date asked for if its period allows posting, else the start of the  *)
(* first later period that does.                                           *)
ReversePickDate(r) ==
  /\ requests[r].pc = "period"
  /\ requests[r].op = "reverse"
  /\ LET later == {d \in Slots : /\ d >= requests[r].date
                                 /\ \E p \in PeriodsOf(d) : AllowsPosting(p)}
     IN  IF later = {} THEN Finish(r)
         ELSE \E d \in later :
                /\ \A e \in later : d <= e
                /\ Become(r, [requests[r] EXCEPT !.date = d, !.pc = "write"])
  /\ UNCHANGED <<tableVars, periods>>

(* Mutant: the original is voided with the reversal.                       *)
ReverseVoidsOriginal(r) ==
  /\ AtWrite(r, "reverse")
  /\ \E k \in Journals :
       /\ journals[k].status = "NONE"
       /\ journals' = [journals EXCEPT
            ![k] = Draft(Row(r).createdBy, requests[r].by, requests[r].j,
                         requests[r].content, requests[r].date),
            ![requests[r].j].status = "VOIDED"]
  /\ Finish(r)
  /\ UNCHANGED <<counter, seqLock, periods, history>>

ReverseWrite(r) ==
  /\ AtWrite(r, "reverse")
  /\ \E k \in Journals :
       /\ journals[k].status = "NONE"
       /\ journals' = [journals EXCEPT ![k] =
            Draft(Row(r).createdBy, requests[r].by, requests[r].j,
                  requests[r].content, requests[r].date)]
  /\ Finish(r)
  /\ UNCHANGED <<counter, seqLock, periods, history>>

-----------------------------------------------------------------------------
(* The period calendar moves on its own: AccountingPeriods says how.       *)
PeriodMoves ==
  /\ periods' \in [Periods -> Period]
  /\ UNCHANGED <<tableVars, requests>>

Init ==
  /\ journals = [j \in Journals |-> NoJournal]
  /\ counter = 0
  /\ seqLock = None
  /\ periods \in [Periods -> Period]
  /\ requests = [r \in Requests |-> Idle]
  /\ history = [j \in Journals |-> NoTrail]

Load(r) ==
  \/ CreateLoad(r) \/ UpdateLoad(r) \/ ParkLoad(r) \/ VoidLoad(r) \/ SubmitLoad(r)
  \/ ReviewLoad(r) \/ RejectLoad(r) \/ ReturnLoad(r) \/ PostLoad(r) \/ ReverseLoad(r)

Check(r) == CheckPeriod(r) \/ ReversePickDate(r) \/ PostBump(r) \/ ReadGuard(r)

Write(r) ==
  \/ CreateWrite(r) \/ UpdateWrite(r) \/ ParkWrite(r) \/ VoidWrite(r) \/ SubmitWrite(r)
  \/ ReviewWrite(r) \/ RejectWrite(r) \/ ReturnWrite(r) \/ PostWrite(r) \/ ReverseWrite(r)

Step(r) == Load(r) \/ Check(r) \/ Write(r) \/ Abort(r)

Next == (\E r \in Requests : Step(r)) \/ PeriodMoves

Spec == Init /\ [][Next]_vars

(* The server runs every request it has accepted, and the database hands   *)
(* the lock of a row to its waiters in the order they came.  Nothing makes *)
(* a user send a request.                                                  *)
Fairness ==
  \A r \in Requests : /\ WF_vars(Check(r) \/ Write(r))
                      /\ SF_vars(PostBump(r))
FairSpec == Spec /\ Fairness

-----------------------------------------------------------------------------
(* Properties that hold however requests overlap *)

TypeOK ==
  /\ journals \in [Journals -> Journal]
  /\ counter \in 0..MaxNumber
  /\ seqLock \in Requests \cup {None}
  /\ periods \in [Periods -> Period]
  /\ requests \in [Requests -> Request]
  /\ history \in [Journals -> Trail]

(* reviewJournal treats a SUBMITTED journal without submission metadata,   *)
(* or with review metadata left over, as a "Corrupted workflow state" and  *)
(* refuses it for good.  No interleaving of handlers produces one, and a   *)
(* REVIEWED journal always names its reviewer, so posting has somebody to  *)
(* compare the poster with.                                                *)
NoCorruptedWorkflow ==
  \A j \in Journals :
    /\ journals[j].status = "SUBMITTED" =>
         journals[j].submittedBy # None /\ journals[j].reviewedBy = None
    /\ journals[j].status = "REVIEWED" => journals[j].reviewedBy # None

(* Maker and checker: whatever delegations are in force and however the    *)
(* requests overlap, the person behind a review is neither the creator of  *)
(* the journal nor the recorded initiator of the reversal, and neither is  *)
(* the person behind a post made without the override.                     *)
MakerIsNotChecker ==
  \A j \in Journals :
    LET makers == {journals[j].createdBy, journals[j].initiatedBy} \ {None} IN
    /\ history[j].reviewer \notin makers
    /\ ~history[j].override => history[j].poster \notin makers

(* Every journal that was ever posted carries a number, a period and a     *)
(* poster, no two carry the same number, and none carries a number the     *)
(* sequence has not given out: the unique index on (tenantId,              *)
(* journalNumber) never has to refuse a post.                              *)
LedgerNumbering ==
  \A j \in Journals :
    /\ journals[j].status = "POSTED" => journals[j].number # 0
    /\ journals[j].number # 0 <=> journals[j].periodId # None
    /\ journals[j].number # 0 <=> journals[j].postedBy # None
    /\ journals[j].number <= counter
    /\ \A k \in Journals \ {j} :
         journals[j].number # 0 => journals[k].number # journals[j].number

-----------------------------------------------------------------------------
(* Properties that hold when requests on one journal do not overlap *)

(* The workflow of JournalLifecycle: as long as requests on one journal do *)
(* not overlap and nobody holds a delegation, every multi-step handler     *)
(* behaves as one atomic step of it.                                       *)
PathOf(trail) == IF trail.override THEN "override" ELSE "policy"
Book == [j \in Journals |->
           [status |-> journals[j].status, maker |-> journals[j].createdBy,
            content |-> journals[j].content, reviewer |-> history[j].reviewer,
            poster |-> history[j].poster, path |-> PathOf(history[j])]]
Lifecycle == INSTANCE JournalLifecycle WITH book <- Book
FollowsLifecycle == Lifecycle!Spec

(* A POSTED journal is never changed again: header, lines, number.  Two    *)
(* guards stand for it, the status each handler loads and the Prisma       *)
(* guard, and neither is one statement with the UPDATE.                    *)
PostedIsImmutable ==
  [][\A j \in Journals :
       journals[j].status = "POSTED" => journals'[j] = journals[j]]_vars

(* The lines of a journal change only while it is DRAFT or REJECTED.       *)
EditsOnlyDraftOrRejected ==
  [][\A j \in Journals :
       journals'[j].content # journals[j].content
         => journals[j].status \in {"NONE", "DRAFT", "REJECTED"}]_vars

(* What is in the ledger balances and is exactly what its reviewer saw.    *)
PostedAsReviewed ==
  \A j \in Journals : journals[j].status = "POSTED" =>
    /\ Balanced(journals[j].content)
    /\ journals[j].content = history[j].reviewed

(* Three pairs of eyes: a journal posted without the override was          *)
(* prepared, reviewed and posted by three different people.                *)
ThreeEyes ==
  \A j \in Journals :
    journals[j].status = "POSTED" /\ ~history[j].override =>
      /\ history[j].reviewer # journals[j].createdBy
      /\ history[j].poster \notin {journals[j].createdBy, history[j].reviewer}

(* A post that has begun ends: it never waits for ever on the row lock of  *)
(* the number sequence, whatever the other posts do.                       *)
PostsEnd ==
  \A r \in Requests : requests[r].op \in PostOps ~> requests[r] = Idle

-----------------------------------------------------------------------------
(* Claims of the code's own messages and documents *)

(* "This journal already has a reversal journal": a posted journal is      *)
(* reversed at most once in the ledger.                                    *)
ReversedOnce ==
  \A original \in Journals :
    Cardinality({j \in Journals : /\ journals[j].reversalOf = original
                                  /\ journals[j].status = "POSTED"}) <= 1

=============================================================================
