------------------------- MODULE AccountingPeriods -------------------------
(* The period calendar: createAccountingPeriod,                            *)
(* completeAccountingPeriodChecklistItem, closeAccountingPeriod and        *)
(* reopenAccountingPeriod of gl/gl.service.ts, correctPeriod of            *)
(* periods/periods.service.ts, and the checks rbac/permissions.guard.ts    *)
(* makes before them.                                                      *)
(*                                                                         *)
(* As in the journal handlers, the checks and the write that follows them  *)
(* are separate database calls: a call moves through                       *)
(*    guard (its start) -> load -> write                                   *)
(* and other calls, and the ledger, may move between two of those steps.   *)
(* Nothing in the database itself keeps two periods apart: the only unique *)
(* key is (tenantId, code), and each create is taken to use a new code.    *)
EXTENDS Naturals, FiniteSets, SodPolicy

CONSTANTS
  Periods,        \* accounting period ids
  Slots,          \* months, in order
  Users,
  Items,          \* the required items of a period's checklist
  Calls,          \* requests to the calendar that can be in flight at once
  None            \* a NULL column

ASSUME PeriodSlotAssumption == Slots \subseteq Nat
ASSUME PeriodNoneAssumption == None \notin Users \cup Periods \cup Slots \cup Items

VARIABLES
  periods,   \* the AccountingPeriod table: status and month covered
  info,      \* its other columns, and the period's checklist rows
  calls,     \* the calls in flight
  posted,    \* months in which a POSTED journal is dated (read only)
  unposted   \* periods a DRAFT or PARKED journal names (read only)

ledger == <<posted, unposted>>
pvars == <<periods, info, calls, posted, unposted>>

(* "NONE" is no row yet.  A NORMAL period is exactly one month and an      *)
(* OPENING period one day, which keeps its month to itself.                *)
PeriodRow == [status: {"NONE", "OPEN", "HARD_CLOSED"}, slot: Slots]
InfoRow == [type: {"NONE", "OPENING", "NORMAL"}, createdBy: Users \cup {None},
            closedBy: Users \cup {None}, completedBy: [Items -> Users \cup {None}]]
NoInfo == [type |-> "NONE", createdBy |-> None, closedBy |-> None,
           completedBy |-> [i \in Items |-> None]]

CallOps == {"create", "complete", "close", "reopen", "correct"}
Call == [op: CallOps \cup {"idle"}, pc: {"done", "load", "write"},
         by: Users \cup {None}, p: Periods \cup {None},
         slot: Slots \cup {None}, type: {"NONE", "OPENING", "NORMAL"},
         item: Items \cup {None}]
NoCall == [op |-> "idle", pc |-> "done", by |-> None, p |-> None, slot |-> None,
           type |-> "NONE", item |-> None]

Existing == {p \in Periods : periods[p].status # "NONE"}
IsClosed(p) == periods[p].status = "HARD_CLOSED"
Later(p) == {e \in Existing : periods[e].slot > periods[p].slot}
Openings == {p \in Existing : info[p].type = "OPENING"}
(* Mutant: only an open period counts as taking its month.                 *)
MonthTakenByOpen(slot, others) ==
  \E p \in others : periods[p].slot = slot /\ periods[p].status = "OPEN"
MonthTaken(slot, others) == \E p \in others : periods[p].slot = slot
(* Mutant: the items are counted, not whether they are completed.          *)
ItemsConfigured(p) == Items # {}
SignedOff(p) == Items # {} /\ \A i \in Items : info[p].completedBy[i] # None
Completers(p) == {info[p].completedBy[i] : i \in Items} \ {None}

-----------------------------------------------------------------------------
Begin(q, call) ==
  /\ calls[q] = NoCall
  /\ calls' = [calls EXCEPT ![q] = call]
  /\ UNCHANGED <<periods, info, ledger>>

At(q, op, pc) == calls[q].op = op /\ calls[q].pc = pc

(* The checks passed, or the call was refused and ends.                    *)
Checked(q, ok) ==
  /\ calls' = [calls EXCEPT ![q] = IF ok THEN [@ EXCEPT !.pc = "write"] ELSE NoCall]
  /\ UNCHANGED <<periods, info, ledger>>

Done(q) ==
  /\ calls' = [calls EXCEPT ![q] = NoCall]
  /\ UNCHANGED ledger

GiveUp(q) ==
  /\ calls[q] # NoCall
  /\ Done(q)
  /\ UNCHANGED <<periods, info>>

(* createAccountingPeriod *)
CreateBegin(q) ==
  \E u \in Users, s \in Slots, t \in {"OPENING", "NORMAL"} :
    Begin(q, [NoCall EXCEPT !.op = "create", !.pc = "load", !.by = u,
                            !.slot = s, !.type = t])

CreateCheck(q) ==
  /\ At(q, "create", "load")
  /\ Checked(q,
       LET slot == calls[q].slot IN
       /\ calls[q].type = "OPENING" =>
            Openings = {} /\ \A p \in Existing : periods[p].slot >= slot
       /\ calls[q].type = "NORMAL" => \E p \in Openings : periods[p].slot <= slot
       /\ ~MonthTaken(slot, Existing))

CreateInsert(q) ==
  /\ At(q, "create", "write")
  /\ \E p \in Periods \ Existing :
       /\ periods' = [periods EXCEPT ![p] = [status |-> "OPEN", slot |-> calls[q].slot]]
       /\ info' = [info EXCEPT ![p] = [NoInfo EXCEPT !.type = calls[q].type,
                                                     !.createdBy = calls[q].by]]
  /\ Done(q)

(* completeAccountingPeriodChecklistItem *)
CompleteBegin(q) ==
  \E u \in Users, p \in Existing, i \in Items :
    Begin(q, [NoCall EXCEPT !.op = "complete", !.pc = "load", !.by = u, !.p = p,
                            !.item = i])

(* Mutant: an item that is already completed can be completed again.       *)
CompleteAgain(q) ==
  /\ At(q, "complete", "load")
  /\ Checked(q, periods[calls[q].p].status = "OPEN")

CompleteCheck(q) ==
  /\ At(q, "complete", "load")
  /\ Checked(q, /\ periods[calls[q].p].status = "OPEN"
                /\ info[calls[q].p].completedBy[calls[q].item] = None)

CompleteUpdate(q) ==
  /\ At(q, "complete", "write")
  /\ info' = [info EXCEPT ![calls[q].p].completedBy[calls[q].item] = calls[q].by]
  /\ UNCHANGED periods
  /\ Done(q)

(* closeAccountingPeriod.  The guard asks the policy only on the route     *)
(* POST /gl/periods/:id/close; POST /periods/:id/close has no such check,  *)
(* and the service computes completedByThisUser and drops it.              *)
CloseBegin(q) ==
  \E route \in {"/gl", "/periods"}, u \in Users, p \in Existing :
    /\ route = "/gl" => PeriodCloseAllowed(u, Completers(p))
    /\ Begin(q, [NoCall EXCEPT !.op = "close", !.pc = "load", !.by = u, !.p = p])

CloseCheck(q) ==
  /\ At(q, "close", "load")
  /\ Checked(q, LET p == calls[q].p IN
                /\ ~IsClosed(p)
                /\ \A e \in Later(p) : IsClosed(e)
                /\ p \notin unposted
                /\ SignedOff(p))

(* Mutant: the legacy status.                                              *)
LegacyClosed == "CLOSED"

(* The status a close writes; CLOSED is only read, as a legacy value.      *)
ClosedAs == "HARD_CLOSED"

CloseUpdate(q) ==
  /\ At(q, "close", "write")
  /\ periods' = [periods EXCEPT ![calls[q].p].status = ClosedAs]
  /\ info' = [info EXCEPT ![calls[q].p].closedBy = calls[q].by]
  /\ Done(q)

(* reopenAccountingPeriod: the checklist is left as it was.                *)
ReopenBegin(q) ==
  \E u \in Users, p \in Existing :
    Begin(q, [NoCall EXCEPT !.op = "reopen", !.pc = "load", !.by = u, !.p = p])

ReopenCheck(q) ==
  /\ At(q, "reopen", "load")
  /\ Checked(q, /\ IsClosed(calls[q].p)
                /\ \A e \in Later(calls[q].p) : ~IsClosed(e))

ReopenUpdate(q) ==
  /\ At(q, "reopen", "write")
  /\ periods' = [periods EXCEPT ![calls[q].p].status = "OPEN"]
  /\ info' = [info EXCEPT ![calls[q].p].closedBy = None]
  /\ Done(q)

(* correctPeriod: once a journal is posted in the period, the guard closes *)
(* it to the period's creator; the service refuses to leave one behind.    *)
CorrectBegin(q) ==
  \E u \in Users, p \in Existing, s \in Slots :
    /\ periods[p].slot \in posted => info[p].createdBy # u
    /\ Begin(q, [NoCall EXCEPT !.op = "correct", !.pc = "load", !.by = u, !.p = p,
                               !.slot = s])

CorrectCheck(q) ==
  /\ At(q, "correct", "load")
  /\ Checked(q, LET p == calls[q].p
                    slot == calls[q].slot IN
                /\ ~IsClosed(p)
                /\ slot # periods[p].slot
                /\ ~MonthTaken(slot, Existing \ {p})
                /\ periods[p].slot \notin posted)

CorrectUpdate(q) ==
  /\ At(q, "correct", "write")
  /\ periods' = [periods EXCEPT ![calls[q].p].slot = calls[q].slot]
  /\ UNCHANGED info
  /\ Done(q)

-----------------------------------------------------------------------------
(* The journals move on their own: GlJournals says how.                    *)
LedgerMoves ==
  /\ posted' \in SUBSET Slots
  /\ unposted' \in SUBSET Periods
  /\ UNCHANGED <<periods, info, calls>>

Init ==
  /\ periods \in [Periods -> {[status |-> "NONE", slot |-> s] : s \in Slots}]
  /\ info = [p \in Periods |-> NoInfo]
  /\ calls = [q \in Calls |-> NoCall]
  /\ posted = {}
  /\ unposted = {}

CallStep(q) ==
  \/ CreateBegin(q) \/ CompleteBegin(q) \/ CloseBegin(q) \/ ReopenBegin(q)
  \/ CorrectBegin(q)
  \/ CreateCheck(q) \/ CompleteCheck(q) \/ CloseCheck(q) \/ ReopenCheck(q)
  \/ CorrectCheck(q)
  \/ CreateInsert(q) \/ CompleteUpdate(q) \/ CloseUpdate(q) \/ ReopenUpdate(q)
  \/ CorrectUpdate(q)
  \/ GiveUp(q)

Next == (\E q \in Calls : CallStep(q)) \/ LedgerMoves

Spec == Init /\ [][Next]_pvars

-----------------------------------------------------------------------------
PeriodTypeOK ==
  /\ periods \in [Periods -> PeriodRow]
  /\ info \in [Periods -> InfoRow]
  /\ calls \in [Calls -> Call]
  /\ posted \subseteq Slots
  /\ unposted \subseteq Periods

(* Whatever calls overlap, a closed period has its whole checklist ticked, *)
(* although the check and the close are two calls, and a period names who  *)
(* closed it exactly while it is closed.                                   *)
ClosedIsSignedOff ==
  \A p \in Existing :
    /\ IsClosed(p) => \A i \in Items : info[p].completedBy[i] # None
    /\ IsClosed(p) <=> info[p].closedBy # None

(* When calls do not overlap (Calls is a singleton), two periods never     *)
(* cover the same month: the period of a journal's date is unambiguous.    *)
NoOverlap ==
  \A p, e \in Existing : periods[p].slot = periods[e].slot => p = e

(* When calls do not overlap, a closed period keeps its month (correcting  *)
(* takes reopening first), and a ticked checklist item keeps the user who  *)
(* ticked it: nobody can take over somebody else's tick.                   *)
ClosedPeriodsStay ==
  [][\A p \in Existing :
       /\ IsClosed(p) => periods'[p].slot = periods[p].slot
       /\ \A i \in Items : info[p].completedBy[i] # None =>
            info'[p].completedBy[i] = info[p].completedBy[i]]_pvars

=============================================================================
