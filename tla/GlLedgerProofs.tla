-------------------------- MODULE GlLedgerProofs --------------------------
(* The composed ledger is an instance of both of its parts: each part was  *)
(* checked and proved with the other one moving arbitrarily, and the other *)
(* one does move that way.  What is proved of a part holds of the whole.   *)
EXTENDS GlLedger, GlJournalsProofs

CalendarProofs == INSTANCE AccountingPeriodsProofs WITH posted <- PostedMonths,
                                                        unposted <- UnpostedPeriods

(* Calendar, the instance GlLedger is built from, and CalendarProofs, the  *)
(* instance its theorems come from, are one module.                        *)
LEMMA SameCallStep ==
  ASSUME NEW q \in Calls, Calendar!CallStep(q)
  PROVE  CalendarProofs!CallStep(q)
BY DEF Calendar!CallStep, CalendarProofs!CallStep, Calendar!CreateBegin,
       CalendarProofs!CreateBegin, Calendar!CompleteBegin,
       CalendarProofs!CompleteBegin, Calendar!CloseBegin,
       CalendarProofs!CloseBegin, Calendar!ReopenBegin,
       CalendarProofs!ReopenBegin, Calendar!CorrectBegin,
       CalendarProofs!CorrectBegin, Calendar!CreateCheck,
       CalendarProofs!CreateCheck, Calendar!CompleteCheck,
       CalendarProofs!CompleteCheck, Calendar!CloseCheck,
       CalendarProofs!CloseCheck, Calendar!ReopenCheck,
       CalendarProofs!ReopenCheck, Calendar!CorrectCheck,
       CalendarProofs!CorrectCheck, Calendar!CreateInsert,
       CalendarProofs!CreateInsert, Calendar!CompleteUpdate,
       CalendarProofs!CompleteUpdate, Calendar!CloseUpdate,
       CalendarProofs!CloseUpdate, Calendar!ReopenUpdate,
       CalendarProofs!ReopenUpdate, Calendar!CorrectUpdate,
       CalendarProofs!CorrectUpdate, Calendar!GiveUp, CalendarProofs!GiveUp,
       Calendar!Begin, CalendarProofs!Begin, Calendar!Checked,
       CalendarProofs!Checked, Calendar!Done, CalendarProofs!Done, Calendar!At,
       CalendarProofs!At, Calendar!ledger, CalendarProofs!ledger, Calendar!NoCall,
       CalendarProofs!NoCall, Calendar!NoInfo, CalendarProofs!NoInfo,
       Calendar!Existing, CalendarProofs!Existing, Calendar!IsClosed,
       CalendarProofs!IsClosed, Calendar!Later, CalendarProofs!Later,
       Calendar!Openings, CalendarProofs!Openings, Calendar!MonthTaken,
       CalendarProofs!MonthTaken, Calendar!SignedOff, CalendarProofs!SignedOff,
       Calendar!Completers, CalendarProofs!Completers, Calendar!ClosedAs,
       CalendarProofs!ClosedAs, Calendar!EvaluateSoD, CalendarProofs!EvaluateSoD,
       Calendar!PeriodCloseAllowed, CalendarProofs!PeriodCloseAllowed

LEMMA SameInit == Calendar!Init <=> CalendarProofs!Init
BY DEF Calendar!Init, CalendarProofs!Init, Calendar!NoInfo, CalendarProofs!NoInfo,
       Calendar!NoCall, CalendarProofs!NoCall

LEMMA SameClosed == CalendarProofs!ClosedIsSignedOff => Calendar!ClosedIsSignedOff
BY DEF Calendar!ClosedIsSignedOff, CalendarProofs!ClosedIsSignedOff,
       Calendar!Existing, CalendarProofs!Existing, Calendar!IsClosed,
       CalendarProofs!IsClosed

(* What the calendar sees of the journals has the type it expects.         *)
LEMMA SeenTypedNext ==
  ASSUME TypeOK', Dated'
  PROVE  PostedMonths' \subseteq Slots /\ UnpostedPeriods' \subseteq Periods
<1>1. \A j \in Journals :
        /\ journals'[j].periodId \in Periods \cup {None}
        /\ journals'[j].status = "POSTED" => journals'[j].date \in Slots
  BY DEF TypeOK, Dated, Journal
<1> QED BY <1>1 DEF PostedMonths, UnpostedPeriods

(* No journal handler writes the periods table.                            *)
LEMMA StepKeepsPeriods ==
  ASSUME TypeOK, Targets, NEW r \in Requests, Step(r)
  PROVE  UNCHANGED periods
<1>1. CASE Load(r)
  BY <1>1, LoadStarts DEF Start
<1>2. CASE Check(r) \/ Abort(r)
  BY <1>2, CheckKeeps
<1>3. CASE Write(r)
  BY <1>3, WriteShape
<1> QED BY <1>1, <1>2, <1>3 DEF Step

(* Both inductive invariants at once.                                      *)
LedgerInv ==
  /\ TypeOK /\ Targets /\ Dated
  /\ CalendarProofs!PeriodTypeOK /\ CalendarProofs!CallTargets
  /\ CalendarProofs!ClosedIsSignedOff

LEMMA LedgerStep ==
  ASSUME LedgerInv, [LedgerNext]_ledgerVars
  PROVE  LedgerInv' /\ [Next]_vars /\ [Calendar!Next]_(Calendar!pvars)
<1>1. ASSUME NEW r \in Requests, JournalStep(r)
      PROVE  LedgerInv' /\ [Next]_vars /\ [Calendar!Next]_(Calendar!pvars)
  <2>1. Step(r) /\ UNCHANGED <<info, calls>>
    BY <1>1 DEF JournalStep
  <2>2. UNCHANGED periods
    BY <2>1, StepKeepsPeriods DEF LedgerInv
  <2>3. [Next]_vars
    BY <2>1 DEF Next
  <2>4. TypeOK' /\ Targets' /\ Dated'
    BY <2>3, TypeStep, TargetsStep, DatedStep DEF LedgerInv
  <2>5. PostedMonths' \subseteq Slots /\ UnpostedPeriods' \subseteq Periods
    BY <2>4, SeenTypedNext
  <2>6. Calendar!LedgerMoves
    BY <2>1, <2>2, <2>5 DEF Calendar!LedgerMoves
  <2>7. /\ CalendarProofs!PeriodTypeOK' /\ CalendarProofs!CallTargets'
        /\ CalendarProofs!ClosedIsSignedOff'
    BY <2>1, <2>2, <2>5
       DEF LedgerInv, CalendarProofs!PeriodTypeOK, CalendarProofs!CallTargets,
           CalendarProofs!ClosedIsSignedOff, CalendarProofs!Existing,
           CalendarProofs!IsClosed
  <2> QED BY <2>3, <2>4, <2>6, <2>7 DEF LedgerInv, Calendar!Next
<1>2. ASSUME NEW q \in Calls, CalendarStep(q)
      PROVE  LedgerInv' /\ [Next]_vars /\ [Calendar!Next]_(Calendar!pvars)
  <2>1. UNCHANGED <<tableVars, requests>> /\ Calendar!CallStep(q)
    BY <1>2 DEF CalendarStep
  <2>2. CalendarProofs!PeriodInv
    BY DEF LedgerInv, CalendarProofs!PeriodInv
  <2>3. /\ periods' \in [Periods -> CalendarProofs!PeriodRow]
        /\ info' \in [Periods -> CalendarProofs!InfoRow]
        /\ calls' \in [Calls -> CalendarProofs!Call]
        /\ CalendarProofs!CallTargets' /\ CalendarProofs!ClosedIsSignedOff'
    BY <2>1, <2>2, SameCallStep, CalendarProofs!CallStepKeeps,
       NoneAssumption, SlotAssumption, LedgerAssumption
  <2>4. PeriodMoves
    BY <2>1, <2>3 DEF PeriodMoves, Period, CalendarProofs!PeriodRow
  <2>5. TypeOK' /\ Targets' /\ Dated'
    BY <2>4, TypeStep, TargetsStep, DatedStep DEF LedgerInv, Next
  <2>6. PostedMonths' \subseteq Slots /\ UnpostedPeriods' \subseteq Periods
    BY <2>5, SeenTypedNext
  <2> QED
    BY <2>1, <2>3, <2>4, <2>5, <2>6
       DEF LedgerInv, Next, Calendar!Next, CalendarProofs!PeriodTypeOK
<1>3. CASE UNCHANGED ledgerVars
  BY <1>3
     DEF ledgerVars, vars, LedgerInv, TypeOK, Targets, Dated, PostedMonths,
         UnpostedPeriods, CalendarProofs!PeriodTypeOK, CalendarProofs!CallTargets,
         CalendarProofs!ClosedIsSignedOff, CalendarProofs!Existing,
         CalendarProofs!IsClosed, Calendar!pvars
<1> QED BY <1>1, <1>2, <1>3 DEF LedgerNext

LEMMA LedgerInvInit == LedgerInit => LedgerInv
BY InitTyped, InitTargets, InitDated, SameInit, CalendarProofs!PeriodInvInit,
   NoneAssumption, SlotAssumption, LedgerAssumption
   DEF LedgerInit, LedgerInv, CalendarProofs!PeriodInv

(* The journals of the composed ledger behave as GlJournals says: its free *)
(* calendar leaves out no move the real calendar makes.                    *)
THEOREM JournalsOfLedger == LedgerSpec => Spec
<1>1. LedgerInit => Init
  BY DEF LedgerInit
<1> QED BY <1>1, LedgerInvInit, LedgerStep, PTL DEF LedgerSpec, Spec

(* Its calendar behaves as AccountingPeriods says: the journals it sees    *)
(* move as freely there as the real ones do.                               *)
THEOREM CalendarOfLedger == LedgerSpec => Calendar!Spec
<1>1. LedgerInit => Calendar!Init
  BY DEF LedgerInit
<1> QED BY <1>1, LedgerInvInit, LedgerStep, PTL DEF LedgerSpec, Calendar!Spec

(* So what is proved of the parts holds of the whole.                      *)
THEOREM LedgerSafe ==
  LedgerSpec => [](/\ NoCorruptedWorkflow /\ MakerIsNotChecker /\ LedgerNumbering
                   /\ Calendar!ClosedIsSignedOff)
<1>1. LedgerInv => Calendar!ClosedIsSignedOff
  BY SameClosed DEF LedgerInv
<1> QED
  BY <1>1, LedgerInvInit, LedgerStep, JournalsOfLedger, WorkflowSound, MakerChecker,
     NumbersUnique, PTL DEF LedgerSpec

(* One request at a time on a journal and nobody delegating, the journals  *)
(* of the composed ledger, whose calendar moves freely, are posted as they *)
(* were reviewed, by three people, stay as they are, and implement         *)
(* JournalLifecycle.                                                       *)
THEOREM LedgerImplementsLifecycle ==
  ASSUME SerialPerJournal, Delegations = {}
  PROVE  LedgerSpec => /\ [](PostedAsReviewed /\ ThreeEyes)
                       /\ PostedIsImmutable
                       /\ FollowsLifecycle
BY JournalsOfLedger, PostedReviewed, ThreePeople, PostedStays, ImplementsLifecycle, PTL

-----------------------------------------------------------------------------
(* Journal requests and calendar calls do not overlap: while a request is  *)
(* in flight the calendar stands still, so the period a post found open    *)
(* and covering its date is so until it writes.                            *)
PastPeriod(req) == req.op \in PostOps /\ req.pc \in {"bump", "guard", "write"}

SeesOpen(req) ==
  PastPeriod(req) => /\ req.period \in Periods
                     /\ periods[req.period].status = "OPEN"
                     /\ periods[req.period].slot = req.date

TakesTurns ==
  /\ Quiet \/ CalendarQuiet
  /\ \A r \in Requests : SeesOpen(requests[r])

(* The checks of a post after it has loaded its row.                       *)
LEMMA CheckSees ==
  ASSUME TypeOK, NEW r \in Requests, SeesOpen(requests[r]), Check(r) \/ Abort(r)
  PROVE  /\ UNCHANGED <<journals, periods>>
         /\ \E req : /\ requests' = [requests EXCEPT ![r] = req]
                     /\ SeesOpen(req)
                     /\ \/ req = Idle
                        \/ /\ req.op = requests[r].op /\ req.j = requests[r].j
                           /\ req.op \in PostOps => req.date = requests[r].date
<1>0. requests[r] \in Request /\ SeesOpen(Idle)
  BY DEF TypeOK, SeesOpen, PastPeriod, PostOps, Idle
<1>1. CASE CheckPeriod(r)
  <2>1. CASE Finish(r)
    BY <1>0, <1>1, <2>1 DEF CheckPeriod, Finish, Become, tableVars
  <2>2. ASSUME NEW p \in PeriodsOf(requests[r].date), AllowsPosting(p),
               Become(r, [requests[r] EXCEPT !.pc = AfterPeriod(requests[r].op),
                                             !.period = p])
        PROVE  \E req : /\ requests' = [requests EXCEPT ![r] = req]
                        /\ SeesOpen(req)
                        /\ req.op = requests[r].op /\ req.j = requests[r].j
                        /\ req.date = requests[r].date
    <3> DEFINE req == [requests[r] EXCEPT !.pc = AfterPeriod(requests[r].op), !.period = p]
    <3>1. /\ req.op = requests[r].op /\ req.j = requests[r].j
          /\ req.date = requests[r].date /\ req.period = p
      BY <1>0 DEF Request
    <3>2. p \in Periods /\ periods[p].status = "OPEN" /\ periods[p].slot = requests[r].date
      BY <2>2 DEF PeriodsOf, AllowsPosting
    <3>3. requests' = [requests EXCEPT ![r] = req]
      BY <2>2 DEF Become
    <3> HIDE DEF req
    <3> QED BY <3>1, <3>2, <3>3 DEF SeesOpen
  <2> QED BY <1>1, <2>1, <2>2 DEF CheckPeriod, tableVars
<1>2. CASE ReversePickDate(r)
  <2>1. CASE Finish(r)
    BY <1>0, <1>2, <2>1 DEF ReversePickDate, Finish, Become, tableVars
  <2>2. ASSUME NEW d \in Slots,
               Become(r, [requests[r] EXCEPT !.date = d, !.pc = "write"])
        PROVE  \E req : /\ requests' = [requests EXCEPT ![r] = req]
                        /\ SeesOpen(req)
                        /\ req.op = requests[r].op /\ req.j = requests[r].j
                        /\ req.op \notin PostOps
    <3> DEFINE req == [requests[r] EXCEPT !.date = d, !.pc = "write"]
    <3>1. req.op = requests[r].op /\ req.j = requests[r].j
      BY <1>0 DEF Request
    <3>2. req.op \notin PostOps
      BY <1>2, <3>1 DEF ReversePickDate, PostOps
    <3>3. requests' = [requests EXCEPT ![r] = req]
      BY <2>2 DEF Become
    <3> HIDE DEF req
    <3> QED BY <3>1, <3>2, <3>3 DEF SeesOpen, PastPeriod
  <2>3. \/ Finish(r)
        \/ \E d \in Slots : Become(r, [requests[r] EXCEPT !.date = d, !.pc = "write"])
    BY <1>2 DEF ReversePickDate
  <2> QED BY <1>2, <2>1, <2>2, <2>3 DEF ReversePickDate, tableVars
<1>3. CASE PostBump(r) \/ ReadGuard(r)
  <2>1. CASE Finish(r)
    BY <1>0, <1>3, <2>1 DEF PostBump, TakeNumber, ReadGuard, Finish, Become
  <2>2. ASSUME NEW pc, NEW number,
               \/ pc = "guard" /\ requests[r].pc = "bump"
               \/ pc = "write" /\ requests[r].pc = "guard",
               Become(r, [requests[r] EXCEPT !.pc = pc, !.number = number])
        PROVE  \E req : /\ requests' = [requests EXCEPT ![r] = req]
                        /\ SeesOpen(req)
                        /\ req.op = requests[r].op /\ req.j = requests[r].j
                        /\ req.date = requests[r].date
    <3> DEFINE req == [requests[r] EXCEPT !.pc = pc, !.number = number]
    <3>1. /\ req.op = requests[r].op /\ req.j = requests[r].j
          /\ req.date = requests[r].date /\ req.period = requests[r].period
      BY <1>0 DEF Request
    <3>2. requests' = [requests EXCEPT ![r] = req]
      BY <2>2 DEF Become
    <3> HIDE DEF req
    <3> QED BY <2>2, <3>1, <3>2 DEF SeesOpen, PastPeriod
  <2>3. \/ Finish(r)
        \/ /\ requests[r].pc = "bump"
           /\ Become(r, [requests[r] EXCEPT !.pc = "guard", !.number = counter + 1])
        \/ /\ requests[r].pc = "guard"
           /\ Become(r, [requests[r] EXCEPT !.pc = "write",
                                            !.number = requests[r].number])
    <3>1. [requests[r] EXCEPT !.pc = "write"]
            = [requests[r] EXCEPT !.pc = "write", !.number = requests[r].number]
      BY <1>0 DEF Request
    <3> QED BY <1>3, <3>1 DEF PostBump, TakeNumber, ReadGuard, Continue
  <2> QED BY <1>3, <2>1, <2>2, <2>3 DEF PostBump, TakeNumber, ReadGuard
<1>4. CASE Abort(r)
  BY <1>0, <1>4 DEF Abort, Finish, Become
<1> QED BY <1>1, <1>2, <1>3, <1>4 DEF Check

LEMMA TurnsStep ==
  ASSUME SerialLedger, LedgerInv, TakesTurns, [LedgerNext]_ledgerVars
  PROVE  TakesTurns'
<1>0. SeesOpen(Idle) /\ requests \in [Requests -> Request]
  BY DEF LedgerInv, TypeOK, SeesOpen, PastPeriod, PostOps, Idle
<1>1. ASSUME NEW r \in Requests, JournalStep(r) PROVE TakesTurns'
  <2>1. Step(r) /\ CalendarQuiet /\ UNCHANGED <<info, calls>>
    BY <1>1 DEF JournalStep
  <2>2. CalendarQuiet' /\ UNCHANGED periods
    BY <2>1, StepKeepsPeriods DEF LedgerInv, CalendarQuiet
  <2>3. \E req : requests' = [requests EXCEPT ![r] = req] /\ SeesOpen(req)
    <3>1. CASE Load(r)
      <4>1. PICK req \in Request : Start(r, req) /\ Loaded(req)
        BY <3>1, LoadStarts DEF LedgerInv
      <4>2. requests' = [requests EXCEPT ![r] = req]
        BY <4>1 DEF Start, Become
      <4>3. ~PastPeriod(req)
        BY <4>1 DEF Loaded, PastPeriod
      <4> QED BY <4>2, <4>3 DEF SeesOpen
    <3>2. CASE Check(r) \/ Abort(r)
      BY <3>2, CheckSees DEF LedgerInv, TakesTurns
    <3>3. CASE Write(r)
      BY <1>0, <3>3, WriteShape DEF LedgerInv, Become
    <3> QED BY <2>1, <3>1, <3>2, <3>3 DEF Step
  <2>4. \A q \in Requests : SeesOpen(requests[q])'
    BY <1>0, <2>2, <2>3 DEF TakesTurns, SeesOpen
  <2> QED BY <2>2, <2>4 DEF TakesTurns
<1>2. ASSUME NEW q \in Calls, CalendarStep(q) PROVE TakesTurns'
  <2>1. Quiet /\ UNCHANGED requests
    BY <1>2 DEF CalendarStep
  <2>2. \A r \in Requests : SeesOpen(requests[r])'
    BY <2>1 DEF Quiet, SeesOpen, PastPeriod, PostOps, Idle
  <2> QED BY <2>1, <2>2 DEF TakesTurns, Quiet
<1>3. CASE UNCHANGED ledgerVars
  BY <1>3 DEF ledgerVars, vars, TakesTurns, Quiet, CalendarQuiet, SeesOpen
<1> QED BY <1>1, <1>2, <1>3 DEF LedgerNext

LEMMA TurnsInit == LedgerInit => TakesTurns
BY DEF LedgerInit, Init, TakesTurns, Quiet, SeesOpen, PastPeriod, PostOps, Idle

(* One post.                                                               *)
LEMMA PostsOpen ==
  ASSUME LedgerInv, TakesTurns, [LedgerNext]_ledgerVars, NEW j \in Journals,
         journals[j].status # "POSTED", journals'[j].status = "POSTED"
  PROVE  /\ journals'[j].periodId \in Periods
         /\ periods[journals'[j].periodId].status = "OPEN"
         /\ \E r \in Requests : /\ Write(r) /\ requests[r].op \in PostOps
                               /\ requests[r].j = j
                               /\ journals'[j].date = journals[j].date
                               /\ requests[r].date
                                    = periods[journals'[j].periodId].slot
<1>1. PICK r \in Requests : Write(r)
  <2>1. TypeOK /\ [Next]_vars /\ journals' # journals
    BY LedgerStep DEF LedgerInv
  <2>2. PICK r \in Requests : Load(r) \/ (Check(r) \/ Abort(r)) \/ Write(r)
    BY <2>1, StepCases
  <2>3. ~Load(r) /\ ~(Check(r) \/ Abort(r))
    BY <2>1, LoadStarts, CheckKeeps DEF Start, tableVars
  <2> QED BY <2>2, <2>3
<1>2. PICK k \in Journals, row \in Journal, trail \in Trail :
        /\ Inserted(r, k, row, trail) \/ Updated(r, k, row, trail)
        /\ journals'[k] = row
        /\ \A i \in Journals : i # k => journals'[i] = journals[i]
  BY <1>1, WriteEffect DEF LedgerInv
<1>3. k = j
  BY <1>2
<1>4. Updated(r, j, row, trail) /\ row.status = "POSTED"
  BY <1>2, <1>3 DEF Inserted
<1>5. /\ requests[r].op \in PostOps /\ requests[r].pc = "write" /\ requests[r].j = j
      /\ row.periodId = requests[r].period
  BY <1>4 DEF Updated, Posting
<1>6. row.date = journals[j].date
  BY <1>4, <1>5 DEF Updated, PostOps
<1>7. SeesOpen(requests[r])
  BY DEF TakesTurns
<1> QED BY <1>1, <1>2, <1>3, <1>5, <1>6, <1>7 DEF SeesOpen, PastPeriod

LEMMA TurnsHold ==
  ASSUME SerialLedger
  PROVE  LedgerSpec => [](LedgerInv /\ TakesTurns)
<1>1. LedgerInit => LedgerInv /\ TakesTurns
  BY LedgerInvInit, TurnsInit
<1>2. LedgerInv /\ TakesTurns /\ [LedgerNext]_ledgerVars => (LedgerInv /\ TakesTurns)'
  BY LedgerStep, TurnsStep
<1> QED BY <1>1, <1>2, PTL DEF LedgerSpec

(* As long as calendar calls do not run between the steps of a journal     *)
(* request, a journal is only ever posted into an open period.             *)
THEOREM PostsOnlyOpen ==
  ASSUME SerialLedger
  PROVE  LedgerSpec => PostsIntoOpenPeriods
<1>1. LedgerInv /\ TakesTurns /\ [LedgerNext]_ledgerVars =>
        [\A j \in Journals :
           journals[j].status # "POSTED" /\ journals'[j].status = "POSTED"
             => periods[journals'[j].periodId].status = "OPEN"]_ledgerVars
  BY PostsOpen
<1> QED BY <1>1, TurnsHold, PTL DEF LedgerSpec, PostsIntoOpenPeriods

-----------------------------------------------------------------------------
(* Requests on one journal do not overlap either: a post writes the date   *)
(* its period was looked up for, a POSTED journal is not written again,    *)
(* and a correction that is about to write found no journal posted in the  *)
(* period it moves.                                                        *)
Filed ==
  /\ PostedInItsPeriod
  /\ \A j \in Journals : journals[j].status = "POSTED" => journals[j].periodId \in Periods
  /\ \A r \in Requests : requests[r].op \in PostOps =>
       requests[r].date = journals[requests[r].j].date
  /\ \A q \in Calls : CalendarProofs!At(q, "correct", "write") =>
       \A j \in Journals : journals[j].status = "POSTED" =>
         journals[j].periodId # calls[q].p

LEMMA FiledRequests ==
  ASSUME SerialPerJournal, LedgerInv, TakesTurns, Serial, Filed, NEW r \in Requests, Step(r)
  PROVE  \A q \in Requests : requests'[q].op \in PostOps =>
           requests'[q].date = journals'[requests'[q].j].date
<1>0. /\ Idle.op \notin PostOps /\ requests \in [Requests -> Request]
      /\ TypeOK /\ Targets /\ SeesOpen(requests[r])
      /\ \A q \in Requests : requests[q].op \in PostOps =>
           requests[q].date = journals[requests[q].j].date
  BY DEF Idle, PostOps, LedgerInv, TypeOK, TakesTurns, Filed
<1>1. CASE Load(r)
  <2>1. PICK req \in Request : Start(r, req) /\ Loaded(req)
    BY <1>0, <1>1, LoadStarts
  <2>2. UNCHANGED journals /\ requests' = [requests EXCEPT ![r] = req]
    BY <2>1 DEF Start, Become, tableVars
  <2>3. req.op \in PostOps => req.date = journals[req.j].date
    BY <2>1 DEF Loaded
  <2> QED BY <1>0, <2>2, <2>3
<1>2. CASE Check(r) \/ Abort(r)
  <2>1. PICK req : /\ requests' = [requests EXCEPT ![r] = req]
                   /\ \/ req = Idle
                      \/ /\ req.op = requests[r].op /\ req.j = requests[r].j
                         /\ req.op \in PostOps => req.date = requests[r].date
    BY <1>0, <1>2, CheckSees
  <2>2. UNCHANGED journals
    BY <1>0, <1>2, CheckSees
  <2>3. req.op \in PostOps => req.date = journals[req.j].date
    BY <1>0, <2>1
  <2> QED BY <1>0, <2>1, <2>2, <2>3
<1>3. CASE Write(r)
  <2>1. PICK j \in Journals, row \in Journal, trail \in Trail :
          /\ Inserted(r, j, row, trail) \/ Updated(r, j, row, trail)
          /\ \A k \in Journals : k # j => journals'[k] = journals[k]
          /\ requests'[r] = Idle
          /\ \A q \in Requests : q # r => requests'[q] = requests[q]
    BY <1>0, <1>3, WriteEffect
  <2>2. ASSUME NEW q \in Requests, requests'[q].op \in PostOps
        PROVE  requests'[q].date = journals'[requests'[q].j].date
    <3>1. q # r /\ requests'[q] = requests[q] /\ requests[q].op \in InPlaceOps
      BY <1>0, <2>1, <2>2 DEF InPlaceOps
    <3>2. requests[q].j \in Journals /\ requests[q].j # j
      BY <1>0, <2>1, <3>1, OthersUndisturbed DEF Serial
    <3> QED BY <1>0, <2>1, <2>2, <3>1, <3>2
  <2> QED BY <2>2
<1> QED BY <1>1, <1>2, <1>3 DEF Step

LEMMA FiledStep ==
  ASSUME SerialLedger, SerialPerJournal, LedgerInv, TakesTurns, Serial, Filed,
         [LedgerNext]_ledgerVars
  PROVE  Filed'
<1>0. TypeOK /\ Targets /\ [Next]_vars
  BY LedgerStep DEF LedgerInv
<1>1. ASSUME NEW r \in Requests, JournalStep(r) PROVE Filed'
  <2>1. Step(r) /\ CalendarQuiet /\ UNCHANGED <<info, calls, periods>>
    BY <1>0, <1>1, StepKeepsPeriods DEF JournalStep
  <2>2. ASSUME NEW j \in Journals, journals'[j].status = "POSTED"
        PROVE  /\ journals'[j].periodId \in Periods
               /\ periods[journals'[j].periodId].status # "NONE"
               /\ periods[journals'[j].periodId].slot = journals'[j].date
    <3>1. CASE journals[j].status = "POSTED"
      <4>1. journals'[j] = journals[j]
        BY <1>0, <3>1, PostedUnwritten
      <4> QED BY <3>1, <4>1 DEF Filed, PostedInItsPeriod
    <3>2. CASE journals[j].status # "POSTED"
      <4>1. /\ journals'[j].periodId \in Periods
            /\ periods[journals'[j].periodId].status = "OPEN"
        BY <2>2, <3>2, PostsOpen
      <4>2. PICK q \in Requests : /\ requests[q].op \in PostOps /\ requests[q].j = j
                                  /\ journals'[j].date = journals[j].date
                                  /\ requests[q].date = periods[journals'[j].periodId].slot
        BY <2>2, <3>2, PostsOpen
      <4> QED BY <4>1, <4>2 DEF Filed
    <3> QED BY <3>1, <3>2
  <2>3. \A q \in Calls : ~CalendarProofs!At(q, "correct", "write")'
    BY <2>1 DEF CalendarQuiet, CalendarProofs!At, Calendar!NoCall
  <2>4. \A q \in Requests : requests'[q].op \in PostOps =>
          requests'[q].date = journals'[requests'[q].j].date
    BY <2>1, FiledRequests
  <2> QED BY <2>1, <2>2, <2>3, <2>4 DEF Filed, PostedInItsPeriod
<1>2. ASSUME NEW q \in Calls, CalendarStep(q) PROVE Filed'
  <2>1. UNCHANGED <<journals, requests>> /\ CalendarProofs!CallStep(q)
    BY <1>2, SameCallStep DEF CalendarStep, tableVars
  <2>2. CalendarProofs!PeriodInv
    BY DEF LedgerInv, CalendarProofs!PeriodInv
  <2>3. /\ \A p \in CalendarProofs!Existing :
             /\ periods'[p].status # "NONE"
             /\ \/ periods'[p].slot = periods[p].slot
                \/ CalendarProofs!At(q, "correct", "write") /\ calls[q].p = p
        /\ \A k \in Calls : CalendarProofs!At(k, "correct", "write")' =>
             /\ calls'[k].p = calls[k].p
             /\ CalendarProofs!At(k, "correct", "write")
                  \/ periods[calls[k].p].slot \notin PostedMonths
    BY <2>1, <2>2, CalendarProofs!OnlyCorrectMoves, NoneAssumption, SlotAssumption,
       LedgerAssumption
  <2>4. ASSUME NEW j \in Journals, journals[j].status = "POSTED"
        PROVE  /\ journals[j].periodId \in Periods
               /\ periods'[journals[j].periodId].status # "NONE"
               /\ periods'[journals[j].periodId].slot = journals[j].date
               /\ \A k \in Calls : CalendarProofs!At(k, "correct", "write")' =>
                    journals[j].periodId # calls'[k].p
    <3>1. /\ journals[j].periodId \in CalendarProofs!Existing
          /\ periods[journals[j].periodId].slot = journals[j].date
          /\ \A k \in Calls : CalendarProofs!At(k, "correct", "write") =>
               journals[j].periodId # calls[k].p
      BY <2>4 DEF Filed, PostedInItsPeriod, CalendarProofs!Existing
    <3>2. journals[j].date \in PostedMonths
      BY <2>4 DEF PostedMonths
    <3> QED BY <2>3, <3>1, <3>2 DEF CalendarProofs!Existing
  <2> QED BY <2>1, <2>4 DEF Filed, PostedInItsPeriod
<1>3. CASE UNCHANGED ledgerVars
  BY <1>3 DEF ledgerVars, vars, Filed, PostedInItsPeriod, CalendarProofs!At
<1> QED BY <1>1, <1>2, <1>3 DEF LedgerNext

LEMMA FiledInit == LedgerInit => Filed
BY SameInit
   DEF LedgerInit, Init, Filed, PostedInItsPeriod, NoJournal, Idle, PostOps,
       CalendarProofs!Init, CalendarProofs!At, CalendarProofs!NoCall

(* As long as journal requests and calendar calls do not overlap, and      *)
(* requests on one journal do not either, the period a journal was posted  *)
(* into covers its date for ever, however many calendar calls overlap.     *)
THEOREM PostedFiled ==
  ASSUME SerialLedger, SerialPerJournal
  PROVE  LedgerSpec => []PostedInItsPeriod
<1>1. LedgerSpec => [](LedgerInv /\ TakesTurns /\ Serial)
  BY TurnsHold, JournalsOfLedger, SerialHolds, PTL
<1>2. LedgerInv /\ TakesTurns /\ Serial /\ Filed /\ [LedgerNext]_ledgerVars => Filed'
  BY FiledStep
<1>3. Filed => PostedInItsPeriod
  BY DEF Filed
<1> QED BY <1>1, <1>2, <1>3, FiledInit, PTL DEF LedgerSpec

-----------------------------------------------------------------------------
(* One calendar call at a time: what is proved of the calendar alone.      *)
LEMMA OneCallStep ==
  ASSUME CalendarProofs!OneCall, LedgerInv, CalendarProofs!Apart, [LedgerNext]_ledgerVars
  PROVE  /\ CalendarProofs!Apart'
         /\ \A p \in CalendarProofs!Existing :
              /\ CalendarProofs!IsClosed(p) => periods'[p].slot = periods[p].slot
              /\ \A i \in Items : info[p].completedBy[i] # None =>
                   info'[p].completedBy[i] = info[p].completedBy[i]
<1>1. ASSUME NEW q \in Calls, CalendarStep(q)
      PROVE  CalendarProofs!CallStep(q) /\ CalendarProofs!PeriodInv
  BY <1>1, SameCallStep DEF CalendarStep, LedgerInv, CalendarProofs!PeriodInv
<1>2. CASE \E q \in Calls : CalendarStep(q)
  BY <1>1, <1>2, CalendarProofs!ApartStep, NoneAssumption, SlotAssumption,
     LedgerAssumption
<1>3. CASE (\E r \in Requests : JournalStep(r)) \/ UNCHANGED ledgerVars
  <2>1. UNCHANGED <<periods, info, calls>>
    BY <1>3, StepKeepsPeriods DEF JournalStep, ledgerVars, vars, LedgerInv
  <2> QED BY <2>1, CalendarProofs!ApartSame, NoneAssumption, SlotAssumption,
             LedgerAssumption
<1> QED BY <1>2, <1>3 DEF LedgerNext

LEMMA OneCallHolds ==
  ASSUME CalendarProofs!OneCall
  PROVE  LedgerSpec => [](LedgerInv /\ CalendarProofs!Apart)
<1>1. LedgerInit => LedgerInv /\ CalendarProofs!Apart
  BY LedgerInvInit, SameInit, CalendarProofs!ApartInit, NoneAssumption, SlotAssumption,
     LedgerAssumption DEF LedgerInit
<1>2. LedgerInv /\ CalendarProofs!Apart /\ [LedgerNext]_ledgerVars =>
        (LedgerInv /\ CalendarProofs!Apart)'
  BY LedgerStep, OneCallStep
<1> QED BY <1>1, <1>2, PTL DEF LedgerSpec

(* One calendar call at a time, whatever the journals do meanwhile, no two *)
(* periods of the ledger cover the same month.                             *)
THEOREM LedgerMonthsApart ==
  ASSUME CalendarProofs!OneCall
  PROVE  LedgerSpec => []NoOverlap
<1>1. CalendarProofs!Apart => NoOverlap
  BY DEF CalendarProofs!Apart, CalendarProofs!NoOverlap, CalendarProofs!Existing,
         NoOverlap, Calendar!NoOverlap, Calendar!Existing
<1> QED BY <1>1, OneCallHolds, PTL

(* And a closed period of the ledger keeps its month, a ticked item the    *)
(* user who ticked it.                                                     *)
THEOREM LedgerClosedStay ==
  ASSUME CalendarProofs!OneCall
  PROVE  LedgerSpec => ClosedPeriodsStay
<1>1. LedgerInv /\ CalendarProofs!Apart /\ [LedgerNext]_ledgerVars =>
        [\A p \in Calendar!Existing :
           /\ Calendar!IsClosed(p) => periods'[p].slot = periods[p].slot
           /\ \A i \in Items : info[p].completedBy[i] # None =>
                info'[p].completedBy[i] = info[p].completedBy[i]]_(Calendar!pvars)
  <2>1. ASSUME LedgerInv, CalendarProofs!Apart, [LedgerNext]_ledgerVars
        PROVE  \A p \in Calendar!Existing :
                 /\ Calendar!IsClosed(p) => periods'[p].slot = periods[p].slot
                 /\ \A i \in Items : info[p].completedBy[i] # None =>
                      info'[p].completedBy[i] = info[p].completedBy[i]
    BY <2>1, OneCallStep
       DEF Calendar!Existing, CalendarProofs!Existing, Calendar!IsClosed,
           CalendarProofs!IsClosed
  <2> QED BY <2>1
<1> QED BY <1>1, OneCallHolds, PTL
        DEF LedgerSpec, ClosedPeriodsStay, Calendar!ClosedPeriodsStay

=============================================================================
