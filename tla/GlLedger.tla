----------------------------- MODULE GlLedger -----------------------------
(* The general ledger of one tenant: the journal handlers of GlJournals    *)
(* and the calendar handlers of AccountingPeriods over the same database.  *)
(* The journals see the periods table the calendar writes; the calendar    *)
(* sees in which months journals are POSTED and which periods DRAFT or     *)
(* PARKED journals name.                                                   *)
EXTENDS GlJournals

CONSTANTS
  Items,         \* as in AccountingPeriods
  Calls,
  SerialLedger   \* TRUE: a journal request and a calendar call never overlap

ASSUME LedgerAssumption == SerialLedger \in BOOLEAN /\ None \notin Items

VARIABLES info, calls   \* as in AccountingPeriods

ledgerVars == <<vars, info, calls>>

(* Mutant: the months of the journals that are REVIEWED.                   *)
ReviewedMonths ==
  {journals[j].date : j \in {k \in Journals : journals[k].status = "REVIEWED"}}

(* journalEntry.findFirst({status: POSTED, journalDate in the period})     *)
PostedMonths == {journals[j].date : j \in {k \in Journals : journals[k].status = "POSTED"}}

(* journalEntry.groupBy(status) where periodId = the period.  A journal    *)
(* has no periodId before it is posted.                                    *)
UnpostedPeriods ==
  {journals[j].periodId : j \in {k \in Journals : journals[k].status \in {"DRAFT", "PARKED"}}}
    \ {None}

Calendar == INSTANCE AccountingPeriods WITH posted <- PostedMonths,
                                            unposted <- UnpostedPeriods

Quiet == \A r \in Requests : requests[r] = Idle
CalendarQuiet == \A q \in Calls : calls[q] = Calendar!NoCall

JournalStep(r) ==
  /\ SerialLedger => CalendarQuiet
  /\ Step(r)
  /\ UNCHANGED <<info, calls>>

CalendarStep(q) ==
  /\ SerialLedger => Quiet
  /\ UNCHANGED <<tableVars, requests>>
  /\ Calendar!CallStep(q)

LedgerInit == Init /\ Calendar!Init

LedgerNext ==
  \/ \E r \in Requests : JournalStep(r)
  \/ \E q \in Calls : CalendarStep(q)

LedgerSpec == LedgerInit /\ [][LedgerNext]_ledgerVars

-----------------------------------------------------------------------------
(* When journal requests and calendar calls do not overlap, posting into a *)
(* period that is not open is blocked.                                     *)
PostsIntoOpenPeriods ==
  [][\A j \in Journals :
       journals[j].status # "POSTED" /\ journals'[j].status = "POSTED"
         => periods[journals'[j].periodId].status = "OPEN"]_ledgerVars

(* When they do not overlap, the period a POSTED journal was counted in    *)
(* still covers its date, whatever corrections were made: reports by       *)
(* period and reports by date agree.                                       *)
PostedInItsPeriod ==
  \A j \in Journals : journals[j].status = "POSTED" =>
    /\ periods[journals[j].periodId].status # "NONE"
    /\ periods[journals[j].periodId].slot = journals[j].date

(* The calendar properties that hold when calls do not overlap.            *)
NoOverlap == Calendar!NoOverlap
ClosedPeriodsStay == Calendar!ClosedPeriodsStay

=============================================================================
