# USPIRE ERP: a TLA+ model of its backend

This directory holds TLA+ specifications of the backend of USPIRE ERP
(`backend/uspire-erp-backend`), the configurations TLC checks them with, and
theorems about them that TLAPS checks. Paths below are relative to the
repository; `gl.service.ts` and the other `.ts` files are under
`backend/uspire-erp-backend/src`.

The backend is a NestJS server over PostgreSQL (through Prisma). It keeps all
its state in the database: a handler reads rows, checks them, and writes. Most
handlers do this in several database calls that are *not* one transaction, and
write rows by id only. What is hard in this program is therefore what happens
between the check and the write: another user's request, a crash, a rule that is
enforced on one route and not on the next, a long sequence of legal calls.

## 1. Inventory

| component | code | state | operations | what makes it correct |
|---|---|---|---|---|
| Journal lifecycle | `gl/gl.service.ts` | `JournalEntry`, `JournalLine` | create, update, park, void, submit, review, reject, return, post, post with override, reverse | only a reviewed, balanced journal is posted, as it was reviewed; maker, reviewer and poster differ; POSTED is final; a journal is reversed once |
| Period calendar | `gl/gl.service.ts`, `periods/*.ts` | `AccountingPeriod`, its checklist items | create, complete an item, close, reopen, correct | periods do not overlap; the opening period comes first; a closed period is signed off, stays where it is and receives nothing |
| Number sequence | `gl/gl.service.ts` (posting), `settings/settings.service.ts` | `TenantSequenceCounter` | upsert and increment inside the posting transaction | numbers are given once; posts do not wait for ever |
| Segregation of duties | `rbac/sod-policy.ts`, `sod/sod.service.ts`, `rbac/permissions.guard.ts` | none (pure), audit rows | `evaluateSoD`, guard checks per route | the rule is asked with the right row and the right user on every route |
| Immutability guard | `prisma/prisma.service.ts` | none | re-reads the status before an update | no update of a posted row |
| Override sessions | `governance/governance-override-session.service.ts` | `GovernanceOverrideSession` | request, approve, reject, revoke, execute | a post against the policy names a session somebody approved |
| Posting of subledger documents | `gl/gl.service.ts` and the services below | documents and their journals | create a journal, system review, post, mark the document; or all in one transaction | a posted document has its journal; preparer, approver and poster differ |
| Opening balances | `gl/gl.service.ts` | journals and periods | upsert, post | the calendar's and the workflow's rules hold here too |
| Recurring templates | `gl/gl.service.ts` | templates, the dates they generated for | create, edit, submit, approve, suspend, archive, reactivate, generate | a journal comes from lines that were submitted and approved, once per date |
| Automation schedules | `governance/governance-automation-*.ts` | schedules, execution sessions | activate, run | (rows around the handlers above) |
| Chart of accounts | `finance/coa*.ts` | accounts, freeze switches, reclassifications, change requests, dated windows | create, edit, import, clean up, freeze, request, approve, implement | the accounts are a tree under accounts nothing is posted to; dated changes do not overlap |
| AR: invoices, receipts, credit notes, refunds | `finance/ar`, `ar`, `ar-receipts` | invoices, receipts, allocations, credit notes, refunds | create, submit, post, allocate, void | no invoice is settled, no credit refunded, beyond its balance |
| AP: bills, proposals, runs, payments | `ap`, `payments` | bills, proposals, runs, payments | create, approve, propose, run, post | proposals reserve no more than a bill; what was approved is what was checked, by another user |
| Bank reconciliation | `bank-recon` | statements, lines, matches | create, match, unmatch, reconcile | both sides of a match agree; a locked statement keeps what was photographed |
| Imprest | `imprest` | facilities, cases, settlements | request, approve, disburse, settle | a case is settled once, for what was advanced |
| Fixed assets | `fa` | assets, depreciation runs | capitalise, depreciate, dispose | one depreciation per asset and month; a disposal takes off what was depreciated |
| Budgets, forecasts | `budgets`, `forecasts` | budgets, forecasts, lines | draft, submit, approve | one active budget a year; a forecast is approved as submitted |
| Authentication | `auth`, `rbac/jwt-auth.guard.ts` | users, sessions, challenges, reset tokens | login, lock, unlock, reset, revoke | the lock follows the failures; a revoked session stays so; one live session |
| User administration | `settings/settings.service.ts` | users, role sets | create, activate, deactivate, set roles | an administrator is left; no forbidden pair of roles |
| Delegations | `delegations` | delegations | grant, revoke, activate in a session | acting for another user leaves a trace of both |
| Audit trail | `audit/audit-writer.ts` | audit events | append | what happened is recorded |
| Settings, master data, governance registries, reports, frontend | `settings`, `master-data`, `governance`, `reports`, `frontend` | single rows, or none | edit, decide, read, show | (row edits, pure, read-only, or user interface) |

How they interact: the journal handlers read the periods table the calendar
handlers write; a close and a correction read the journals table; posting
increments the tenant's number sequence under its row lock; every handler asks
the policy with the REAL user of the request and then stores, depending on the
handler, either that user or the one a delegation lets him act for; every update
of a journal passes the immutability guard; the subledgers (AR, AP, imprest,
fixed assets, bank) create journals that go through the same posting code, and
mark their own row in another transaction. Beyond that the subledgers, the
accounts and the planning services share no table with each other.

`PROJECT.json` lists the hazards of this code, each at its line, with the
properties that would catch it going wrong.

## 2. Modules

| module | models | depends on |
|---|---|---|
| `SodPolicy` | `evaluateSoD`, as the set of users an action is closed to | - |
| `GlJournals` | the journal handlers, the immutability guard, the number sequence and its lock; the periods table moves freely | `SodPolicy` |
| `JournalLifecycle` | abstract: what the ledger promises of one journal, in atomic steps; a post is by three people or by the override path | - |
| `AccountingPeriods` | the calendar handlers and the guard's checks before them; the journals move freely | `SodPolicy` |
| `GlLedger` | both over one database | `GlJournals`, instance of `AccountingPeriods` |
| `Handlers` | how requests run handlers: steps, overlap, stops | - |
| `Money` | bounded amounts | - |
| `Drawings` | abstract: amounts drawn on limited ones, in atomic steps | - |
| `Bookings` | the journal of a document and its mark, in two transactions | `Handlers` |
| `Receivables` | invoices, receipts, credit notes, refunds | `Bookings`, `Money`, instances of `Drawings` |
| `Payables` | bills, payment proposals, direct payments | `Bookings`, `Money`, instance of `Drawings` |
| `SourcePosting` | how a document of a subledger reaches the ledger, and by whom | `Handlers` |
| `OverrideSessions` | override sessions and the post that uses one | `Handlers`, `SodPolicy` |
| `BankReconciliation` | statements, lines, matches, the lock | `Handlers`, `Money` |
| `FixedAssets` | assets, depreciation runs, disposal | `Handlers` |
| `Planning` | budgets and forecasts | `Handlers` |
| `Accounts` | login, second factor, lock, sessions, reset, delegations in a session | `Handlers` |
| `Administration` | users and roles of a tenant | `Handlers` |
| `ChartOfAccounts` | the tree of accounts and everything that changes it | `Handlers` |
| `RecurringTemplates` | templates and the journals they generate | `Handlers` |
| `MC...` | bounds, symmetry sets and delegations for TLC | the modules named in them |
| `...Proofs` | theorems | the modules named in them, `TLAPS` |

### GlJournals

A handler is a *request* that moves through its database calls:

    load -> period -> bump -> guard -> write

`load` is the `findFirst` on the journal with all checks made on that row
(status, ownership, policy, balance, period lookup by the row's date follows in
`period`); `bump` exists in posting only: the transaction opens and increments
the sequence row, waiting for its lock; `guard` is the status re-read of the
Prisma middleware; `write` is the UPDATE or INSERT that commits. A handler whose
code has no such step skips it. Between two steps of a request any other request
may move. `Abort` ends a request anywhere without a write: it stands for a
database error, for the process dying, and for the refusals whose data the model
leaves out (budget, evidence, cutover, dimensions, intercompany, risk). The row
an UPDATE changes is the row as it is then: only the columns the handler sets are
overwritten, which is what Prisma's `update({where: {id}})` does.

| in the model | in the code |
|---|---|
| `journals[j]` | a row of `JournalEntry`; `status = "NONE"`: no row; `number = 0`: `journalNumber` is NULL; `content`: its lines, of which only "balanced or not" and identity matter |
| `counter`, `seqLock` | the sequence row of `TENANT_GLOBAL` numbering, the transaction that holds it |
| `periods[p]` | an `AccountingPeriod` row: status and the month it covers |
| `requests[r]` | what an HTTP handler holds in local variables |
| `history[j]` | no code: the real people behind the last review and post, for the properties |
| `Actors` | `getUserAuthz`: real user and the user he acts for |

### AccountingPeriods

A *call* moves through guard and start, `load` (reads and checks) and `write`.
Periods cover whole months: `period-validation.ts` accepts for a NORMAL period
exactly one calendar month and for an OPENING period a single day, and the
overlap check keeps that day's month from having a NORMAL period too, so one
month number stands for a date range. The close is possible on two routes:
`POST /gl/periods/:id/close`, where the guard asks the policy rule
PERIOD_CLOSE_APPROVE, and `POST /periods/:id/close`, where nothing does. The
close requires later periods to be closed first, as `closeAccountingPeriod`
does. `posted` and `unposted` are what a close and a correction see of the
journals.

### GlLedger

The two together: `PostedMonths` and `UnpostedPeriods` are the queries of
`correctPeriod` and `closeAccountingPeriod` over the journals table.

### Handlers

All modules below it are built from the steps of `Handlers`. A request runs one
handler; `running[r]` is its next step, the row it works on (`doc`), the user
(`by`) and what it has read and carries along (`saw`). `Begin` is the read with
its checks, `Goto` goes on to the next database call, `Finish` ends the handler
and `Fail` ends it anywhere, leaving what it has written: the process stops, the
database fails, or a check that is not modelled refuses. `AtOnce` is a handler
that is one statement. Between two steps any other request may move, if
`overlap` is TRUE; behaviours with `overlap` FALSE run one request at a time,
the stops included. A row is one record of a function from ids to records;
`NONE` is a row that does not exist. An UPDATE by id is `EXCEPT` on the row as it
is when the write comes, with the values the request carries.

### Receivables and Payables

Amounts are whole units without tax in one currency; `invoices`, `receipts`,
`creditNotes`, `refunds`, `bills`, `proposals` and `payments` are the tables, one
customer or supplier each. A handler that validates against a balance reads it in
one step and writes in another, as `ar-receipts.service.ts`,
`credit-notes.service.ts`, `refunds.service.ts` and `payment-proposals.service.ts`
do. Posting or voiding a document takes two transactions, the journal's and the
mark's (`Booked` and `Marked` of `Bookings`), a step of its own each. Every attempt
creates a journal of its own: no handler looks for one an earlier attempt has left,
and `JournalEntry` has no unique key on its source. So `journals`, a column of each
document row, is the sequence of what its posted journals say (the total of an
invoice or bill, the allocations of a payment, "POSTED" or "VOID" for a credit note
or refund), and a retry after a stop appends a further one, of an edited invoice
with the new total. `unmarked` is history: how many of them no mark has followed.
Receipts are the exception: journal and mark commit together. `postReceipt` has a
branch that takes over a posted journal of the receipt; since a DRAFT receipt never
has one, it is left out. A
proposal's lines are deleted and inserted again by an edit; `edition` tells the
rows of one edit from those of another, because an approval updates the lines it
read and fails when they are gone.

`Drawings` says in three actions what these handlers are for. A source gets its limit
once; a claim takes from all its sources at once, never more than the claims
together have left of them, keeps what it took unchanged, and gives all of it
back. It is instantiated four times, with state functions of the tables:

| | source and its limit | claim and what it draws |
|---|---|---|
| `ByReceipts` | POSTED invoice: its total | POSTED receipt: its lines |
| `ByCreditNotes` | POSTED invoice: its total | POSTED credit note: its amount, of its invoice |
| `ByRefunds` | POSTED or VOID credit note: its amount | POSTED refund: its amount, of its credit note |
| `OnBills` | POSTED bill: its total | SUBMITTED or APPROVED proposal: its lines |

Receipts and credit notes are two instances because the code does not add them up:
`validateLines` leaves credit notes out, so an invoice can be paid and credited
beyond its total.

### SourcePosting

Who takes a document to the ledger. A document has a `kind`: *checked* (its
approval is guarded, staged posting), *open* (staged, no guard on the approval),
*receipt* and *own* (one transaction). Staged posting creates a SUBMITTED
journal, `systemReviewJournal` makes it REVIEWED in the name of the caller,
`postJournal` asks the policy and posts it, and the document is marked, each in a
transaction of its own. The policy refuses the reviewer, so a caller who acts for
himself never gets through (`source_post`) and leaves a REVIEWED journal that the
journal routes can post. `Delegations` says who acts for whom.

### OverrideSessions

Request, approve, reject, revoke, expiry of a session and the override post of
an entry, whose mark EXECUTED follows the commit. The service writes the status
without looking at it; the post asks for an APPROVED session of its entry.

### BankReconciliation, FixedAssets, Planning

A match links a statement line and a posted journal line in a transaction, after
they were read outside it; a statement locks when its difference is zero, with a
photograph of what it counted. A depreciation run is a row that makes its period
unique, its lines and its journal, in that order and separately; a disposal reads
what was depreciated up to its date. `Planning` has the two approvals.

### Accounts and Administration

Whether a password, a code or a token is the right one is a choice of the
request, expiry is an action. `Accounts` keeps the counters as the code does:
computed from the row that was read, written later. `MaxAttempts` is the
threshold. `Administration` has the two checks that range over the tenant
(somebody must remain who can administer) and over a role set (`Conflicts` are
the pairs of roles whose permissions a rule forbids together).

### ChartOfAccounts

`chart[a]` is the parent and the posting flag of an account; `switches` are the
two freezes and the lock; `reclassifications` carry their approval request with
them; `windows` are the dated structural changes. Every route that adds or moves
an account has its own checks: `create` and `update` ask for the freezes and for
a valid parent, `update` walks from the new parent to the root, one read for each
account on the way (`Walk`); the imports ask for fewer switches and drop or refuse
parents; the approval of a reclassification asks for the structure freeze only.
Two handlers never get through and are modelled so: a HIERARCHY_CHANGE times out
on the row its own transaction has locked (`HierarchyChangeTimesOut`), and
ADD_ACCOUNT calls `create` without a field it requires (no action).

### RecurringTemplates

A template's lines are one value, and `submitted` remembers the value its
submission was made with. A generation is one transaction: a draft, the row that
makes the date unique (`generations`), and the template, which gets back the
status that was read.

### MCSubledgers and MCBackOffice

Services that share no table are checked in one run each of several *parts*: an
initial state takes one `part`, and the others stand still. Their state spaces
add up instead of multiplying.

## 3. What TLC checks

Runs that must pass:

| run | question | bound |
|---|---|---|
| `gl_races` | Do workflow columns, maker-checker and numbering survive any overlap of two requests and crashes? | 2 journals, 2 users, 2 requests, 1 period, numbers to 2 |
| `gl_serial` | One request at a time per journal, nobody delegating: do the handlers implement `JournalLifecycle`? Is what is posted what was reviewed, by three people, and does it stay as it is? | 2 journals, 3 users, 2 requests (on different journals they overlap), a balanced and an unbalanced content |
| `gl_fair` | Does every post end, although posts wait for each other's lock? | 1 journal, 2 posts, numbers to 1, so the sequence also overflows |
| `periods_races` | However two calendar calls overlap, is a closed period signed off and does it name who closed it? | 2 periods, 2 months, 1 user, 1 item, 2 calls |
| `ledger_serial` | Journal requests and calendar calls one at a time: do periods stay apart, do closed periods and ticks stay put, are journals posted into open periods that keep covering their date? | 1 journal, 2 users, 2 periods, 2 months, 1 request, 1 call |
| `subledgers` | Do receipts, credit notes and refunds stay within what they draw on and implement `Drawings`? Do proposals reserve no more than a bill, as `Drawings` says, and is what was approved what was checked? Do documents agree with the ledger, up to the journals a stop leaves over? Has a posted document its journal, and who took it there? Does the chart stay a tree, and do dated changes stay apart? | amounts to 2; 1 invoice, 2 of each document on it, 3 in all; 1 bill, 2 proposals, 1 payment, 1 edit; 3 journals a document, 1 stop between a journal and its mark; 1 document of each kind to post, 2 journals, 3 users, 1 delegation; 3 accounts, 1 reclassification, 2 change requests; 2 requests |
| `backoffice` | Override sessions, bank reconciliation, fixed assets, planning, administration, templates: each workflow in the interleavings it survives. Does the lock of an account follow the count and hold until an administrator or a new password opens it? Does a revoked session stay revoked, and has an account one live session? | 1 override and entry; 2 statements and lines on either side, 2 days; 1 asset, 2 runs, 2 months; 2 budgets and forecasts; 3 staff, 3 roles, 1 conflict; 1 template, 2 dates; 1 account, 2 sessions, 1 challenge, token and grant, 2 attempts; 2 requests |

Runs that show a statement of the code or its tests is not kept (the findings of
`PROJECT.json` quote each statement):

| run | statement | what happens |
|---|---|---|
| `gl_void_post` | posted journals are immutable | a void whose guard read REVIEWED commits after a post: the posted, numbered journal becomes VOIDED |
| `gl_double_reversal` | a journal has one reversal | a REJECTED reversal does not block a second one and can be submitted again |
| `credit_double_post` | posting creates one journal, and the document cannot be posted again | the handler stops between the journal and the mark; the repeated request posts a second journal |
| `source_post` | a third user can post what two others prepared and approved | the system review names the caller as reviewer, and the policy refuses the reviewer |
| `chart_cycle` | no circular account hierarchy | the approval of a reclassification moves an account under itself |

**Overlap.** Properties that survive any overlap of requests: those of `gl_races`
and `periods_races`, `ApprovedByAnother` (a theorem), `ApprovesWhatWasChecked`,
`LockMatchesCount`, `RevokedStays`, `PostedHasJournal`, `PreparerNeverPosts`,
`ConflictNeedsApproval`, `ClearedByExisting` and the first half of
`DepreciatedOnce` (one depreciation a month). They hold because something in the
database holds them: a unique index, a foreign key, a row that is gone, a
transaction, a condition in the WHERE clause, or two columns written together.

The others begin with `~overlap`, or are checked with `SerialPerJournal` and
`SerialLedger`, because they do not hold when requests overlap. The races that
break them:

* an edit that loaded a DRAFT journal commits after its review (`PostedAsReviewed`),
  a void after its post (`PostedIsImmutable`, `gl_void_post`); a correction moves a
  period while a post into it is under way (`PostedInItsPeriod`), a close commits
  while one is (`PostsIntoOpenPeriods`); two creations each see the month free
  (`NoOverlap`);
* two posts of one document each book it, a post books an invoice that was edited
  meanwhile (`BooksAgree`, `PayablesAgree`);
* two receipts, or a receipt and a credit note, are validated against the same
  balance and both posted; two proposals against the same reservations;
* two logins each see no live session and insert one; a failed login that read
  the row before an unlock puts the lock back, or before another failure
  opens it again (`LockHolds`);
* a match and an unmatch of one line leave one side linked; a line is added while
  the statement locks; a disposal overtakes a depreciation run;
* two budgets of a year are approved, each seeing none active; an edit of a
  forecast or a template commits after its submission;
* two administrators deactivate each other; two role changes add one half of a
  forbidden pair each;
* two moves in the chart cross and make a circle; two implementations open
  windows on the same days.

The serial runs say what the handlers promise in sequence, stops included; the
list says what the code would need (a status in the WHERE clause, a
transaction with a lock, a constraint) to promise it always.

**Bounds.** A race needs one request that overtakes another on one row, so two
requests and one or two rows show it; uniqueness needs two of a kind; separation
of three people needs three users; a double reversal needs the original and two
reversals (`gl_double_reversal` has three journals). In `subledgers` three
documents on one invoice are a first that takes part of it, a second that takes
the rest, and one too many; three accounts are the shortest detour between an
account and its descendant. The constraints (`CONSTRAINT` in the .cfg, named and
commented in the MC modules) cut products that ask nothing new: `FewWhenOverlapping`
and `Few` keep fewer rows where requests overlap; `FewLogins` does so for accounts,
whose two counters of failures do not read each other either; `FewUsers` keeps the
third user where it takes three to post; `FewDocuments` keeps
receipts and refunds apart, which never read each other; `FewStops` lets one handler
stop between a journal and its mark, next to two documents besides the invoice (the
three journals of a document are then the one left over, its repetition and the
reversal); `FewChanges` lets the
chart grow only while it is a tree, lets one switch be on at a time, and has
reclassifications and change requests meet small charts; `TheFirst` says that,
one at a time, requests are the same request. Receivables, chart,
administration and templates promise nothing under overlap and run without it.
Theorems cover more rows, users and requests for the properties they prove.

In `subledgers`, `backoffice`, `credit_double_post` and `source_post` a behaviour ends when
its tables are full and everything else is refused, so deadlock is not checked
there; no handler waits for another one in these modules. In the ledger runs,
where posts wait for a lock, it is checked: TLC finds none.

**Fairness** (`gl_fair`): weak fairness of each request's checks and writes, since
the server runs what it accepted; strong fairness of taking the sequence's lock,
since PostgreSQL queues the waiters of a row lock and serves them in order.
Nothing is assumed of users: no fairness of loading, none of aborting. With
`Abort` leaving the lock behind, or without strong fairness, the property fails.

`SYMMETRY` is used for ids in runs without liveness, and not where a delegation,
a bound or a role tells them apart.

Every property of a passing run has a mutant in `PROJECT.json`: a plausible bug in
one mapped definition under which TLC finds the property violated. Mutants stand
before the definition they stand in for, under the word "Mutant".

## 4. What TLAPS proves

The theorems hold for every value of the constants under the named assumptions:
`None` is not an id, `Delegations` is a relation on users, balanced contents are
contents, months, amounts, thresholds and bounds are numbers, and the ids whose
amounts are added up are finitely many. `OneCall` (`Calls` has one element),
`SerialPerJournal` and `SerialLedger` are hypotheses of the theorems that name
them; what holds only while requests do not overlap begins with `~overlap` in the
property itself.

### The ledger

* `GlJournalsProofs`
  * `TypeCorrect`: types, and `Targets`: a handler past loading works on a row
    that exists, and a row that does not exist is empty. Types are not inductive
    without it: a reversal copies the creator of the row it holds.
  * `WorkflowSound`: `NoCorruptedWorkflow`. A review or a return writes without
    looking again, so the invariant (`Workflow`) adds that the submission
    metadata it saw is still there: no handler removes it.
  * `MakerChecker`: `MakerIsNotChecker`, with any delegations. The invariant
    (`Makers`) adds that a review or post under way was judged against makers
    that cannot change, and that only reversals have an initiator, without which
    `PostEntry`, which hides the initiator of other journals from the policy,
    would not be sound.
  * `NumbersUnique`: `LedgerNumbering`. The invariant (`Numbering`) adds that a
    post that has a number holds the sequence's lock and its number is the next.
  * `PostedReviewed`, `PostedStays`, `EditsDrafts`, for any number of requests in
    flight, one per journal at a time (`SerialPerJournal`): `PostedAsReviewed`,
    `PostedIsImmutable` and `EditsOnlyDraftOrRejected`. The invariant (`Serial`)
    says that a journal is held by one request (`Alone`), that the status and the
    balance a handler checked are still so when it writes (`StillHolds`), and that
    a REVIEWED journal's lines are those its reviewer saw (`RowSound`).
  * `ThreePeople`: `ThreeEyes`, when moreover no delegation is in force. The
    invariant (`OwnHands`) says that the reviewer on the row is the person who
    reviewed. A review under a delegation names the user acted for, and the same
    person can then post, which is why that hypothesis is needed; `gl_void_post`
    shows why `SerialPerJournal` is.
  * `ImplementsLifecycle`: `FollowsLifecycle`, under the same two hypotheses. Every
    write is one action of `JournalLifecycle` on `Book`, every other step a
    stutter.
* `AccountingPeriodsProofs`
  * `PeriodsTyped`, and `ClosedSignedOff`, for any number of overlapping calls:
    `ClosedIsSignedOff` holds although the checklist is read in one call and the
    status written in another, because ticks are never removed and periods never
    deleted (`CallTargets`).
  * `MonthsApart`, `ClosedStay`, with one call at a time (`OneCall`): the invariant
    (`Apart`) says that the month a creation or a correction is about to write is
    still free of other periods, that the period to be corrected is not closed,
    and that the item to be ticked is not ticked. Nothing but the absence of a
    second call keeps it so.
* `GlLedgerProofs`
  * `JournalsOfLedger` and `CalendarOfLedger`: the composed ledger implements
    `GlJournals` and `AccountingPeriods`: each was checked with the other moving
    freely, and the other does move that way; the calendar side needs that a
    posted journal has a date (`Dated`). Hence `LedgerSafe` and
    `LedgerImplementsLifecycle`: what was proved of the journals holds of the whole.
  * `LedgerMonthsApart`, `LedgerClosedStay` (`OneCall`, whatever the journals do):
    `NoOverlap` and `ClosedPeriodsStay` of the composition.
  * `PostsOnlyOpen` (`SerialLedger`: journal requests and calendar calls do not
    overlap): `PostsIntoOpenPeriods`. The invariant (`TakesTurns`) says that one of
    the two sides is idle, and that the period a post has found is still open and
    still covers the date the post carries.
  * `PostedFiled` (`SerialLedger` and `SerialPerJournal`): `PostedInItsPeriod`. The
    invariant (`Filed`) adds that the date a post carries is the date of its row
    and that a correction about to write found nothing posted in the period it
    moves. `SerialPerJournal` is needed: an edit that overtakes a post changes the
    date under it.

The proofs about journals share one argument. Three lemmas say what a step can be: `LoadStarts`
(what a handler knows when it goes on), `CheckKeeps` (what it keeps until it
writes) and `WriteShape` (what a write does to one row and its history); each
invariant is then preserved by those three shapes instead of by twenty-odd
actions. TLC found no violation of the strengthened invariants on the bounds of
`gl_races` and `gl_serial` before they were proved.

### The other modules

These proofs are about a module's own specification, with any number of
requests, and share another argument (`HandlersProofs`). A step of a request
changes `running` in one place (`Only`), and without overlap the others are idle
(`OneAtATime`, `Alone`). The inductive invariant of a module is a condition on its
tables and a predicate `...Call` on the step a request is at, which says what its
reads promise its write: that the row exists, that the status it saw is still
there, that the balance still has room. Each write preserves the tables because
of the predicate of its step; a read establishes the predicate; a table that is
written keeps the predicates of the others, either because they are idle or, in
the properties that survive overlap, because of what the database itself keeps.

* `AccountsProofs`: `LockCounted` and `RevokedForGood` under any overlap (the count
  and the lock are written together; every late write to a session asks for it
  to be live); one request at a time, `LockHoldsOn` and `LogsInOnce`. The invariant
  of the latter (`LiveInv`) adds that a login about to insert its session leaves
  the account no other live one, and that a request whose session is about to be
  written came in by the only live session of its account.
* `ReceivablesProofs`, one request at a time: `LimitsKept`, `DocumentsMatchJournals`
  and `DocumentsImplementDrawings`, all from one invariant (`ArInv`). Its tables
  (`Books`) say that nothing is drawn on an invoice or a credit note before it is
  POSTED (`Limit`, `CreditLimit`), so that totals change only while nothing is drawn
  on them; its calls (`ArCall`) say that what is about to be marked POSTED is booked
  as it stands and still fits. That documents match their journals is a count: a row
  has the journals its status calls for and `unmarked` more (`Accounted`), and a
  handler between journal and mark holds one of those, so that the row would be in
  order with the mark (`Awaits`); a stop there only ends the handler. The refinement is proved along with the invariant
  (`ArStays`): each write that keeps `Books` is one step of each instance of
  `Drawings` or a stutter of it (`DocumentsDrawing`): marking an invoice or a credit
  note grants, posting draws, voiding gives back.
* `SubledgersProofs`
  * `ApproverDiffers`, `ApprovalMatches`, under any overlap: an approval carries the
    edition it read and a user who did not create the proposal, and editions only
    grow (`Continues`).
  * `ReservationsFit`, one request at a time: the invariant (`PayAlone`) says that
    nothing is held of a bill that is not POSTED (`Purse`, `BillLimit`), so that a
    bill may change its total while it is a draft, and that the lines of a proposal
    about to be submitted still fit beside what is held (`PayCall`).
    `ProposalsImplementDrawings` comes with it (`PurseStays`): posting a bill grants,
    submitting a proposal draws, rejecting it gives back, and everything else,
    approvals and edits of drafts included, changes nothing that is held.
    `PayablesMatchJournals` comes with it too, by the same count as for receivables
    (`AwaitsMark`); here all journals of a row say the same, because nothing approved is
    edited and nothing is posted before the approval.
  * `TreesAreKept`, one request at a time: the accounts a walk has seen are closed
    under `parent` up to where it stands and do not contain the account that moves
    (`Walked`). After the move a set of accounts that meets those seen has a root
    among them, and one that does not has one by the old tree or by the account
    that moved (`AccountMoved`). New accounts hang from old ones (`AccountsAdded`),
    deleted ones have no children (`AccountsDeleted`). Reclassifications are
    excluded by the property, and `chart_cycle` shows why.
  * `WindowsLieApart`, one request at a time: a window that is opened has none in
    the way, and the two halves of `InTheWay` are what lying apart denies.
* `BackOfficeProofs`
  * Any overlap: `PostedIsInLedger`, `PreparersDoNotPost` (any delegations too),
    `OverridesAreApproved`, `ClearedLinesExist`, the first half of
    `DepreciatesOnce`.
  * One request at a time: `TakesThreePeople`, for any delegations. The invariant
    (`PeopleInv`) says that whoever stands behind a handler past its guard is neither
    the preparer nor, when it posts, the approver on the row, and that the row
    still has the status the handler saw.
  * One request at a time: `LinesNameEachOther` and `LockedStays` from `MatchInv` (a
    link about to be written finds both sides free and the statement open), and
    `DisposesAtCarryingAmount` from `DisposalInv` (a run about to take its lines
    takes only assets not disposed of, a disposal about to be written carries the
    sum as it is).
  * One request at a time: `ForecastsAsSubmitted`, `BudgetsApart`,
    `JournalsAsSubmitted`, `AdminRemains`, `RolesStayApart`. The last two need that the
    administrator's role is in no conflict with itself, `{Admin} \notin Conflicts`:
    a rule between two permissions of one role would refuse the first user.

**Sums.** What is drawn on an invoice, a credit note or a bill is a
`SumFunctionOnSet` of the community modules, a recursive function over the subsets
of a set. That such a function exists and that the order of summation does not
matter are facts about every finite set, which one would show by induction;
instead, `ReceivablesProofs` takes a smallest set on which they fail (`Smallest`,
from the well-foundedness of the natural numbers) and finds that one element less
already fails. `SumAt` is the recursion, `SumsExist` the existence, `SumOfOne` the
independence of the order, and `SumChanges` is what the proofs about tables cite:
when one element changes its amount, enters or leaves, the rest of the sum stays.
`Drawings` adds up what all claims draw, the handlers what the POSTED ones say;
`SumRestricted` is why these are the same number.

`PeriodsTyped`, `EditsDrafts`, `BudgetsApart` and `ApproverDiffers` are about
properties no run checks: their theorems cover every instance a run could.

Every invariant and action property of the passing runs is stated by a theorem.
Model-checked only: liveness (`PostsEnd`) and the absence of deadlock, which speaks
of ENABLED; both are out of this prover's reach. The theorem `ThreePeople` of
`GlJournalsProofs` is about `ThreeEyes` of the journals; the property `ThreePeople`
of `SourcePosting` is the subject of `TakesThreePeople`.

## 5. Not modelled, and why

* Numbering scopes other than TENANT_GLOBAL: the settings handler that would
  select one writes a column `TenantJournalNumberingConfig` does not have
  (`settings.service.ts:2003`, `schema.prisma:215`), so it always fails.
* SOFT_CLOSED and the legacy CLOSED: read by the code, written by none of it.
* The immutability guard is taken to fire, as `prisma-immutability.middleware.spec.ts`
  expects; permissions are not modelled (anybody may try anything).
* `journalNumber`'s 32-bit limit is `MaxNumber`, small in the runs; a post past it fails.
* Lines of journals, dimensions, budgets, evidence, risk scores: refusals only.
  Tax, currencies and rounding of amounts.
* Opening balances: a single user's setup; its hazards are listed.
* The imprest workflow before posting: a case is issued and settled only by a
  posting whose policy refuses its creator, so nothing after it is reached. The
  same holds of what a payment run selects.
* Automation schedules: rows around handlers that are modelled.
* Of the chart: hierarchy paths (`hierarchyPath`, `resetTenantCoa`), account
  statuses, approvals of creations and status changes, approvals of import
  batches, root categories, mappings.
* Audit rows, except as hazards: some are written after the commit they record.
* Settings, master data, reports: edits of single rows, imports, reads.
* The frontend, the seed, DTOs and modules make up most of the repository's
  lines and keep no state the services do not check; the share of lines the map
  covers stays low for that reason.

Gaps of the code that no statement of the repository denies, so that no property
is stated: a voided receipt has no reversal journal; invoices, bills, payments and
refunds, like the credit notes of `credit_double_post`, get a second journal when a
post is repeated after a stop, and a void that is repeated a second reversal; direct payments check a
bill's total, not what is paid already; a disposal may be dated before
depreciation that follows; a depreciation run that is refused or stops blocks
its period; a password reset that stops before the revocations leaves sessions
alive; reopening a period keeps its ticks; an override is audited before the
checks that may refuse it; the creator of a template may reactivate it to
APPROVED; a generation undoes an archive; a void of a taxable credit note uses a
variable that is not defined (`credit-notes.service.ts:1096`); a credit note with a
posted refund can be voided; a reclassification clears the parent when it was
about something else; imports ignore the structure freeze, and the canonical one
drops the parents it has validated; `postOpeningBalances` reviews and posts as one
user, which the policy refuses.

## 6. Plan

Done: the ledger (journals, calendar, their composition, the abstract
lifecycle), the subledgers with what they promise of limits (`Drawings`), posting, overrides, bank, assets, planning, accounts,
administration, the chart of accounts and templates, and a theorem for every
safety property the runs check.

Left, in this order:

1. The journal theorems with a weaker hypothesis than `SerialPerJournal`: which
   pairs of handlers may overlap on one journal.
2. Opening balances on top of `GlLedger`: edits of reviewed journals, a calendar
   entry without the calendar's checks.
3. Account statuses and approvals of the chart; import batches.
