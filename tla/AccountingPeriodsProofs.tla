---------------------- MODULE AccountingPeriodsProofs ----------------------
(* Theorems about AccountingPeriods for every set of periods, months,      *)
(* users, checklist items and overlapping calls.                           *)
EXTENDS AccountingPeriods, TLAPS

(* A call in flight works on a period that exists and knows its caller,    *)
(* and a close about to write found every item ticked; periods are never   *)
(* deleted and ticks never removed, so they still are.                     *)
CallTargets ==
  \A q \in Calls :
    /\ calls[q].op \in {"complete", "close", "reopen", "correct"} =>
         calls[q].p \in Periods /\ periods[calls[q].p].status # "NONE"
    /\ calls[q].op \in {"create", "correct"} => calls[q].slot \in Slots
    /\ calls[q].op = "complete" => calls[q].item \in Items
    /\ calls[q].op \in CallOps => calls[q].by \in Users
    /\ calls[q].op = "close" /\ calls[q].pc = "write" =>
         \A i \in Items : info[calls[q].p].completedBy[i] # None

PeriodInv == PeriodTypeOK /\ CallTargets /\ ClosedIsSignedOff

(* What the four kinds of step do to the calls.                            *)
LEMMA NoCallTyped == NoCall \in Call /\ NoCall.op \notin CallOps
BY DEF NoCall, Call, CallOps

LEMMA NoInfoTyped == NoInfo \in InfoRow
BY DEF NoInfo, InfoRow

(* A call that begins works on a period that exists.                       *)
Begun(call) ==
  /\ call \in Call
  /\ call.op \in CallOps /\ call.pc = "load" /\ call.by \in Users
  /\ call.op \in {"complete", "close", "reopen", "correct"} => call.p \in Existing
  /\ call.op \in {"create", "correct"} => call.slot \in Slots
  /\ call.op = "complete" => call.item \in Items

LEMMA BeginShape ==
  ASSUME PeriodInv, NEW q \in Calls,
         CreateBegin(q) \/ CompleteBegin(q) \/ CloseBegin(q) \/ ReopenBegin(q)
           \/ CorrectBegin(q)
  PROVE  \E call : Begun(call) /\ Begin(q, call)
<1>0. \A p \in Existing : p \in Periods
  BY DEF Existing
<1>1. CASE CreateBegin(q)
  <2>1. PICK u \in Users, s \in Slots, t \in {"OPENING", "NORMAL"} :
          Begin(q, [NoCall EXCEPT !.op = "create", !.pc = "load", !.by = u,
                                  !.slot = s, !.type = t])
    BY <1>1 DEF CreateBegin
  <2>2. Begun([NoCall EXCEPT !.op = "create", !.pc = "load", !.by = u,
                             !.slot = s, !.type = t])
    BY DEF Begun, NoCall, Call, CallOps
  <2> QED BY <2>1, <2>2
<1>2. CASE CompleteBegin(q)
  <2>1. PICK u \in Users, p \in Existing, i \in Items :
          Begin(q, [NoCall EXCEPT !.op = "complete", !.pc = "load", !.by = u,
                                  !.p = p, !.item = i])
    BY <1>2 DEF CompleteBegin
  <2>2. Begun([NoCall EXCEPT !.op = "complete", !.pc = "load", !.by = u,
                             !.p = p, !.item = i])
    BY <1>0 DEF Begun, NoCall, Call, CallOps
  <2> QED BY <2>1, <2>2
<1>3. CASE CloseBegin(q)
  <2>1. PICK u \in Users, p \in Existing :
          Begin(q, [NoCall EXCEPT !.op = "close", !.pc = "load", !.by = u, !.p = p])
    BY <1>3 DEF CloseBegin
  <2>2. Begun([NoCall EXCEPT !.op = "close", !.pc = "load", !.by = u, !.p = p])
    BY <1>0 DEF Begun, NoCall, Call, CallOps
  <2> QED BY <2>1, <2>2
<1>4. CASE ReopenBegin(q)
  <2>1. PICK u \in Users, p \in Existing :
          Begin(q, [NoCall EXCEPT !.op = "reopen", !.pc = "load", !.by = u, !.p = p])
    BY <1>4 DEF ReopenBegin
  <2>2. Begun([NoCall EXCEPT !.op = "reopen", !.pc = "load", !.by = u, !.p = p])
    BY <1>0 DEF Begun, NoCall, Call, CallOps
  <2> QED BY <2>1, <2>2
<1>5. CASE CorrectBegin(q)
  <2>1. PICK u \in Users, p \in Existing, s \in Slots :
          Begin(q, [NoCall EXCEPT !.op = "correct", !.pc = "load", !.by = u,
                                  !.p = p, !.slot = s])
    BY <1>5 DEF CorrectBegin
  <2>2. Begun([NoCall EXCEPT !.op = "correct", !.pc = "load", !.by = u,
                             !.p = p, !.slot = s])
    BY <1>0 DEF Begun, NoCall, Call, CallOps
  <2> QED BY <2>1, <2>2
<1> QED BY <1>1, <1>2, <1>3, <1>4, <1>5

LEMMA BeginStep ==
  ASSUME PeriodInv, NEW q \in Calls, NEW call, Begun(call), Begin(q, call)
  PROVE  periods' = periods /\ info' = info /\ calls' \in [Calls -> Call]
         /\ CallTargets' /\ ClosedIsSignedOff'
<1>1. /\ periods' = periods /\ info' = info
      /\ calls' = [calls EXCEPT ![q] = call] /\ calls \in [Calls -> Call]
  BY DEF Begin, PeriodInv, PeriodTypeOK
<1>2. calls'[q] = call /\ \A k \in Calls : k # q => calls'[k] = calls[k]
  BY <1>1
<1>3. calls' \in [Calls -> Call]
  BY <1>1 DEF Begun
<1>4. call.p \in Existing => call.p \in Periods /\ periods[call.p].status # "NONE"
  BY DEF Existing
<1>5. CallTargets'
  BY <1>1, <1>2, <1>4 DEF PeriodInv, CallTargets, Begun
<1>6. ClosedIsSignedOff'
  BY <1>1 DEF PeriodInv, ClosedIsSignedOff, Existing, IsClosed
<1> QED BY <1>1, <1>3, <1>5, <1>6

(* A call whose checks pass goes on to its write, the others end.           *)
LEMMA CheckedStep ==
  ASSUME PeriodInv, NEW q \in Calls,
         \/ CreateCheck(q) \/ CompleteCheck(q) \/ CloseCheck(q) \/ ReopenCheck(q)
         \/ CorrectCheck(q) \/ GiveUp(q)
  PROVE  periods' = periods /\ info' = info /\ calls' \in [Calls -> Call]
         /\ CallTargets' /\ ClosedIsSignedOff'
<1>1. periods' = periods /\ info' = info
  BY DEF CreateCheck, CompleteCheck, CloseCheck, ReopenCheck, CorrectCheck, GiveUp, Checked
<1>2. calls[q] \in Call /\ calls \in [Calls -> Call]
  BY DEF PeriodInv, PeriodTypeOK
<1> DEFINE next == [calls[q] EXCEPT !.pc = "write"]
<1>3. \/ calls' = [calls EXCEPT ![q] = NoCall]
      \/ /\ calls' = [calls EXCEPT ![q] = next]
         /\ calls[q].op = "close" => SignedOff(calls[q].p)
  BY DEF CreateCheck, CompleteCheck, CloseCheck, ReopenCheck, CorrectCheck, GiveUp,
         Checked, Done, At
<1>4. /\ next \in Call /\ next.op = calls[q].op /\ next.p = calls[q].p
      /\ next.slot = calls[q].slot /\ next.item = calls[q].item
      /\ next.by = calls[q].by
  BY <1>2 DEF Call
<1>5. ClosedIsSignedOff'
  BY <1>1 DEF PeriodInv, ClosedIsSignedOff, Existing, IsClosed
<1> HIDE DEF next
<1>6. CASE calls' = [calls EXCEPT ![q] = NoCall]
  <2>1. calls'[q] = NoCall /\ \A k \in Calls : k # q => calls'[k] = calls[k]
    BY <1>2, <1>6
  <2>2. CallTargets'
    BY <1>1, <2>1, NoCallTyped DEF PeriodInv, CallTargets, CallOps
  <2> QED BY <1>1, <1>2, <1>5, <1>6, <2>2, NoCallTyped
<1>7. CASE /\ calls' = [calls EXCEPT ![q] = next]
           /\ calls[q].op = "close" => SignedOff(calls[q].p)
  <2>1. calls'[q] = next /\ \A k \in Calls : k # q => calls'[k] = calls[k]
    BY <1>2, <1>7
  <2>2. next.op = "close" => \A i \in Items : info[next.p].completedBy[i] # None
    BY <1>4, <1>7 DEF SignedOff
  <2>3. CallTargets'
    BY <1>1, <1>4, <2>1, <2>2 DEF PeriodInv, CallTargets
  <2> QED BY <1>1, <1>2, <1>4, <1>5, <1>7, <2>3
<1> QED BY <1>3, <1>6, <1>7

(* What a write does to one period: it never deletes one, never removes a   *)
(* tick, and closes only a period whose ticks are all there.                *)
Wrote(p, row, inf) ==
  /\ row.status # "NONE"
  /\ periods[p].status # "NONE" =>
       \A i \in Items : info[p].completedBy[i] # None => inf.completedBy[i] # None
  /\ row.status = "HARD_CLOSED" => \A i \in Items : inf.completedBy[i] # None
  /\ row.status = "HARD_CLOSED" <=> inf.closedBy # None

LEMMA WriteShape ==
  ASSUME PeriodInv, NEW q \in Calls,
         \/ CreateInsert(q) \/ CompleteUpdate(q) \/ CloseUpdate(q) \/ ReopenUpdate(q)
         \/ CorrectUpdate(q)
  PROVE  /\ calls' = [calls EXCEPT ![q] = NoCall]
         /\ \E p \in Periods, row \in PeriodRow, inf \in InfoRow :
              /\ periods' = [periods EXCEPT ![p] = row]
              /\ info' = [info EXCEPT ![p] = inf]
              /\ Wrote(p, row, inf)
<1>1. calls' = [calls EXCEPT ![q] = NoCall]
  BY DEF CreateInsert, CompleteUpdate, CloseUpdate, ReopenUpdate, CorrectUpdate, Done
<1>2. /\ periods \in [Periods -> PeriodRow] /\ info \in [Periods -> InfoRow]
      /\ \A p \in Periods : periods = [periods EXCEPT ![p] = periods[p]]
      /\ \A p \in Periods : info = [info EXCEPT ![p] = info[p]]
  BY DEF PeriodInv, PeriodTypeOK
<1>3. /\ calls[q].op \in CallOps => calls[q].by \in Users
      /\ calls[q].op \in {"create", "correct"} => calls[q].slot \in Slots
      /\ calls[q].type \in {"NONE", "OPENING", "NORMAL"}
  BY DEF PeriodInv, PeriodTypeOK, CallTargets, Call
<1>4. \A u \in Users : u # None
  BY PeriodNoneAssumption
<1> DEFINE p == calls[q].p
<1>5. calls[q].op \in {"complete", "close", "reopen", "correct"} =>
        /\ p \in Periods /\ periods[p].status # "NONE"
        /\ periods[p] \in PeriodRow /\ info[p] \in InfoRow
        /\ periods[p].status = "HARD_CLOSED" =>
             \A i \in Items : info[p].completedBy[i] # None
        /\ periods[p].status = "HARD_CLOSED" <=> info[p].closedBy # None
  BY <1>2 DEF PeriodInv, CallTargets, ClosedIsSignedOff, Existing, IsClosed
<1>6. CASE CreateInsert(q)
  <2> DEFINE row == [status |-> "OPEN", slot |-> calls[q].slot]
             inf == [NoInfo EXCEPT !.type = calls[q].type, !.createdBy = calls[q].by]
  <2>1. PICK e \in Periods \ Existing :
          /\ periods' = [periods EXCEPT ![e] = row]
          /\ info' = [info EXCEPT ![e] = inf]
    BY <1>6 DEF CreateInsert
  <2>2. row \in PeriodRow /\ inf \in InfoRow
    BY <1>3, <1>6 DEF CreateInsert, At, CallOps, PeriodRow, NoInfo, InfoRow
  <2>3. Wrote(e, row, inf)
    BY <2>1 DEF Wrote, NoInfo, Existing
  <2> HIDE DEF row, inf
  <2> QED BY <1>1, <2>1, <2>2, <2>3
<1>7. CASE CompleteUpdate(q)
  <2> DEFINE ticks == [info[p].completedBy EXCEPT ![calls[q].item] = calls[q].by]
             inf == [info[p] EXCEPT !.completedBy = ticks]
  <2>1. /\ calls[q].op = "complete" /\ p \in Periods /\ periods[p].status # "NONE"
        /\ periods[p] \in PeriodRow /\ info[p] \in InfoRow /\ calls[q].by \in Users
    BY <1>3, <1>5, <1>7 DEF CompleteUpdate, At, CallOps
  <2>2. info' = [info EXCEPT ![p] = inf] /\ periods' = [periods EXCEPT ![p] = periods[p]]
    BY <1>2, <1>7, <2>1 DEF CompleteUpdate
  <2>3. info[p].completedBy \in [Items -> Users \cup {None}]
    BY <2>1 DEF InfoRow
  <2>4. /\ ticks \in [Items -> Users \cup {None}]
        /\ \A i \in Items : info[p].completedBy[i] # None => ticks[i] # None
    BY <1>4, <2>1, <2>3
  <2> HIDE DEF ticks
  <2>5. inf \in InfoRow /\ inf.completedBy = ticks /\ inf.closedBy = info[p].closedBy
    BY <2>1, <2>4 DEF InfoRow
  <2>6. Wrote(p, periods[p], inf)
    BY <1>5, <2>1, <2>4, <2>5 DEF Wrote
  <2> HIDE DEF inf, p
  <2> QED BY <1>1, <2>1, <2>2, <2>5, <2>6
<1>8. CASE CloseUpdate(q)
  <2> DEFINE row == [periods[p] EXCEPT !.status = "HARD_CLOSED"]
             inf == [info[p] EXCEPT !.closedBy = calls[q].by]
  <2>1. /\ calls[q].op = "close" /\ calls[q].pc = "write" /\ p \in Periods
        /\ periods[p] \in PeriodRow /\ info[p] \in InfoRow /\ calls[q].by \in Users
    BY <1>3, <1>5, <1>8 DEF CloseUpdate, At, CallOps
  <2>2. info' = [info EXCEPT ![p] = inf] /\ periods' = [periods EXCEPT ![p] = row]
    BY <1>2, <1>8, <2>1 DEF CloseUpdate, ClosedAs
  <2>3. row \in PeriodRow /\ inf \in InfoRow /\ inf.completedBy = info[p].completedBy
    BY <2>1 DEF PeriodRow, InfoRow
  <2>4. \A i \in Items : info[p].completedBy[i] # None
    BY <2>1 DEF PeriodInv, CallTargets
  <2>5. row.status = "HARD_CLOSED" /\ inf.closedBy # None
    BY <1>4, <2>1 DEF PeriodRow, InfoRow
  <2>6. Wrote(p, row, inf)
    BY <2>3, <2>4, <2>5 DEF Wrote
  <2> HIDE DEF row, inf, p
  <2> QED BY <1>1, <2>1, <2>2, <2>3, <2>6
<1>9. CASE ReopenUpdate(q)
  <2> DEFINE row == [periods[p] EXCEPT !.status = "OPEN"]
             inf == [info[p] EXCEPT !.closedBy = None]
  <2>1. /\ calls[q].op = "reopen" /\ p \in Periods
        /\ periods[p] \in PeriodRow /\ info[p] \in InfoRow
    BY <1>5, <1>9 DEF ReopenUpdate, At
  <2>2. info' = [info EXCEPT ![p] = inf] /\ periods' = [periods EXCEPT ![p] = row]
    BY <1>2, <1>9, <2>1 DEF ReopenUpdate
  <2>3. row \in PeriodRow /\ inf \in InfoRow /\ inf.completedBy = info[p].completedBy
    BY <2>1 DEF PeriodRow, InfoRow
  <2>4. row.status = "OPEN" /\ inf.closedBy = None
    BY <2>1 DEF PeriodRow, InfoRow
  <2>5. Wrote(p, row, inf)
    BY <2>3, <2>4 DEF Wrote
  <2> HIDE DEF row, inf, p
  <2> QED BY <1>1, <2>1, <2>2, <2>3, <2>5
<1>10. CASE CorrectUpdate(q)
  <2> DEFINE row == [periods[p] EXCEPT !.slot = calls[q].slot]
  <2>1. /\ calls[q].op = "correct" /\ p \in Periods /\ calls[q].slot \in Slots
        /\ periods[p] \in PeriodRow /\ info[p] \in InfoRow
    BY <1>3, <1>5, <1>10 DEF CorrectUpdate, At
  <2>2. info' = [info EXCEPT ![p] = info[p]] /\ periods' = [periods EXCEPT ![p] = row]
    BY <1>2, <1>10, <2>1 DEF CorrectUpdate
  <2>3. row \in PeriodRow /\ row.status = periods[p].status
    BY <2>1 DEF PeriodRow
  <2>4. Wrote(p, row, info[p])
    BY <1>5, <2>1, <2>3 DEF Wrote
  <2> HIDE DEF row, p
  <2> QED BY <1>1, <2>1, <2>2, <2>3, <2>4
<1> QED BY <1>6, <1>7, <1>8, <1>9, <1>10

LEMMA WriteStep ==
  ASSUME PeriodInv, NEW q \in Calls,
         \/ CreateInsert(q) \/ CompleteUpdate(q) \/ CloseUpdate(q) \/ ReopenUpdate(q)
         \/ CorrectUpdate(q)
  PROVE  /\ periods' \in [Periods -> PeriodRow] /\ info' \in [Periods -> InfoRow]
         /\ calls' \in [Calls -> Call] /\ CallTargets' /\ ClosedIsSignedOff'
<1>1. PICK p \in Periods, row \in PeriodRow, inf \in InfoRow :
        /\ periods' = [periods EXCEPT ![p] = row]
        /\ info' = [info EXCEPT ![p] = inf]
        /\ Wrote(p, row, inf)
  BY WriteShape
<1>2. calls' = [calls EXCEPT ![q] = NoCall]
  BY WriteShape
<1>3. /\ periods \in [Periods -> PeriodRow] /\ info \in [Periods -> InfoRow]
      /\ calls \in [Calls -> Call]
  BY DEF PeriodInv, PeriodTypeOK
<1>4. /\ periods'[p] = row /\ info'[p] = inf
      /\ \A e \in Periods : e # p => periods'[e] = periods[e] /\ info'[e] = info[e]
      /\ calls'[q] = NoCall /\ \A k \in Calls : k # q => calls'[k] = calls[k]
  BY <1>1, <1>2, <1>3
<1>5. /\ periods' \in [Periods -> PeriodRow] /\ info' \in [Periods -> InfoRow]
      /\ calls' \in [Calls -> Call]
  BY <1>1, <1>2, <1>3, NoCallTyped
<1>6. CallTargets'
  BY <1>1, <1>4, NoCallTyped DEF Wrote, PeriodInv, CallTargets, CallOps
<1>7. ClosedIsSignedOff'
  BY <1>1, <1>4 DEF Wrote, PeriodInv, ClosedIsSignedOff, Existing, IsClosed
<1> QED BY <1>5, <1>6, <1>7

(* One call of the calendar, whatever the ledger shows it.                  *)
LEMMA CallStepKeeps ==
  ASSUME PeriodInv, NEW q \in Calls, CallStep(q)
  PROVE  /\ periods' \in [Periods -> PeriodRow] /\ info' \in [Periods -> InfoRow]
         /\ calls' \in [Calls -> Call] /\ CallTargets' /\ ClosedIsSignedOff'
<1>1. periods \in [Periods -> PeriodRow] /\ info \in [Periods -> InfoRow]
  BY DEF PeriodInv, PeriodTypeOK
<1>2. CASE CreateBegin(q) \/ CompleteBegin(q) \/ CloseBegin(q) \/ ReopenBegin(q)
             \/ CorrectBegin(q)
  BY <1>1, <1>2, BeginShape, BeginStep
<1>3. CASE \/ CreateCheck(q) \/ CompleteCheck(q) \/ CloseCheck(q) \/ ReopenCheck(q)
           \/ CorrectCheck(q) \/ GiveUp(q)
  BY <1>1, <1>3, CheckedStep
<1>4. CASE \/ CreateInsert(q) \/ CompleteUpdate(q) \/ CloseUpdate(q) \/ ReopenUpdate(q)
           \/ CorrectUpdate(q)
  BY <1>4, WriteStep
<1> QED BY <1>2, <1>3, <1>4 DEF CallStep

LEMMA PeriodInvStep ==
  ASSUME PeriodInv, [Next]_pvars
  PROVE  PeriodInv'
<1>1. ASSUME NEW q \in Calls, CallStep(q) PROVE PeriodInv'
  <2>1. posted' = posted /\ unposted' = unposted
    BY <1>1 DEF CallStep, CreateBegin, CompleteBegin, CloseBegin, ReopenBegin,
       CorrectBegin, CreateCheck, CompleteCheck, CloseCheck, ReopenCheck, CorrectCheck,
       CreateInsert, CompleteUpdate, CloseUpdate, ReopenUpdate, CorrectUpdate, GiveUp,
       Begin, Checked, Done, ledger
  <2> QED BY <1>1, <2>1, CallStepKeeps DEF PeriodInv, PeriodTypeOK
<1>2. CASE LedgerMoves
  BY <1>2 DEF LedgerMoves, PeriodInv, PeriodTypeOK, CallTargets, ClosedIsSignedOff,
              Existing, IsClosed
<1>3. CASE UNCHANGED pvars
  BY <1>3 DEF pvars, PeriodInv, PeriodTypeOK, CallTargets, ClosedIsSignedOff,
              Existing, IsClosed
<1> QED BY <1>1, <1>2, <1>3 DEF Next

LEMMA PeriodInvInit == Init => PeriodInv
BY NoCallTyped, NoInfoTyped
   DEF Init, PeriodInv, PeriodTypeOK, CallTargets, ClosedIsSignedOff, Existing, IsClosed,
       PeriodRow, CallOps

(* The calendar's tables and calls keep their types, and a period has only  *)
(* the statuses OPEN and HARD_CLOSED.                                       *)
THEOREM PeriodsTyped == Spec => []PeriodTypeOK
<1>1. PeriodInv => PeriodTypeOK
  BY DEF PeriodInv
<1> QED BY <1>1, PeriodInvInit, PeriodInvStep, PTL DEF Spec

(* However calendar calls overlap, a closed period has its checklist ticked *)
(* and names who closed it.                                                 *)
THEOREM ClosedSignedOff == Spec => []ClosedIsSignedOff
<1>1. PeriodInv => ClosedIsSignedOff
  BY DEF PeriodInv
<1> QED BY <1>1, PeriodInvInit, PeriodInvStep, PTL DEF Spec

-----------------------------------------------------------------------------
(* Only a correction moves a period to another month, no call removes a    *)
(* period, and a correction starts writing only if no journal was posted   *)
(* in the month it takes its period out of.                                *)
LEMMA OnlyCorrectMoves ==
  ASSUME PeriodInv, NEW q \in Calls, CallStep(q)
  PROVE  /\ \A p \in Existing :
              /\ periods'[p].status # "NONE"
              /\ \/ periods'[p].slot = periods[p].slot
                 \/ At(q, "correct", "write") /\ calls[q].p = p
         /\ \A k \in Calls : At(k, "correct", "write")' =>
              /\ calls'[k].p = calls[k].p
              /\ At(k, "correct", "write") \/ periods[calls[k].p].slot \notin posted
<1>1. /\ periods \in [Periods -> PeriodRow] /\ info \in [Periods -> InfoRow]
      /\ calls \in [Calls -> Call] /\ calls[q] \in Call
      /\ \A e \in Periods : periods[e] \in PeriodRow
  BY DEF PeriodInv, PeriodTypeOK
<1>2. calls[q].op \in {"complete", "close", "reopen", "correct"} =>
        calls[q].p \in Periods /\ periods[calls[q].p].status # "NONE"
  BY DEF PeriodInv, CallTargets
<1>3. CASE CreateBegin(q) \/ CompleteBegin(q) \/ CloseBegin(q) \/ ReopenBegin(q)
             \/ CorrectBegin(q)
  <2>1. PICK call : Begun(call) /\ Begin(q, call)
    BY <1>1, <1>3, BeginShape
  <2>2. calls' = [calls EXCEPT ![q] = call] /\ UNCHANGED periods /\ call.pc = "load"
    BY <2>1 DEF Begin, Begun
  <2> QED BY <1>1, <2>2 DEF At, Existing
<1>4. CASE \/ CreateCheck(q) \/ CompleteCheck(q) \/ CloseCheck(q) \/ ReopenCheck(q)
           \/ CorrectCheck(q) \/ GiveUp(q)
  <2> DEFINE next == [calls[q] EXCEPT !.pc = "write"]
  <2>1. next.op = calls[q].op /\ next.p = calls[q].p
    BY <1>1 DEF Call
  <2>2. \/ calls' = [calls EXCEPT ![q] = NoCall]
        \/ /\ calls' = [calls EXCEPT ![q] = next]
           /\ calls[q].op = "correct" => periods[calls[q].p].slot \notin posted
    BY <1>4 DEF CreateCheck, CompleteCheck, CloseCheck, ReopenCheck, CorrectCheck, GiveUp,
                Checked, Done, At
  <2>3. UNCHANGED periods
    BY <1>4 DEF CreateCheck, CompleteCheck, CloseCheck, ReopenCheck, CorrectCheck, GiveUp,
                Checked
  <2> HIDE DEF next
  <2>4. \A k \in Calls \ {q} : calls'[k] = calls[k]
    BY <1>1, <2>2
  <2>5. \/ calls'[q] = NoCall
        \/ /\ calls'[q] = next
           /\ calls[q].op = "correct" => periods[calls[q].p].slot \notin posted
    BY <1>1, <2>2
  <2> QED BY <2>1, <2>3, <2>4, <2>5 DEF At, Existing, NoCall
<1>5. CASE \/ CreateInsert(q) \/ CompleteUpdate(q) \/ CloseUpdate(q) \/ ReopenUpdate(q)
           \/ CorrectUpdate(q)
  <2>1. calls' = [calls EXCEPT ![q] = NoCall]
    BY <1>5, WriteShape
  <2>2. \A k \in Calls : At(k, "correct", "write")' => calls'[k] = calls[k]
    BY <1>1, <2>1 DEF At, NoCall
  <2>3. PICK p \in Periods, row \in PeriodRow, inf \in InfoRow :
          periods' = [periods EXCEPT ![p] = row] /\ Wrote(p, row, inf)
    BY <1>5, WriteShape
  <2>4. \A e \in Periods : /\ e # p => periods'[e] = periods[e]
                           /\ periods'[p] = row /\ row.status # "NONE"
    BY <1>1, <2>3 DEF Wrote
  <2>5. ASSUME NEW e \in Existing
        PROVE  periods'[e].slot = periods[e].slot
                 \/ (At(q, "correct", "write") /\ calls[q].p = e)
    <3>0. e \in Periods /\ e \in Existing /\ periods[e] \in PeriodRow
      BY <1>1 DEF Existing
    <3>1. CASE CreateInsert(q)
      BY <1>1, <3>0, <3>1 DEF CreateInsert
    <3>2. CASE CompleteUpdate(q)
      BY <3>2 DEF CompleteUpdate
    <3>3. CASE CloseUpdate(q)
      <4>1. periods' = [periods EXCEPT ![calls[q].p].status = ClosedAs]
        BY <3>3 DEF CloseUpdate
      <4> QED BY <1>1, <3>0, <4>1 DEF PeriodRow
    <3>4. CASE ReopenUpdate(q)
      <4>1. periods' = [periods EXCEPT ![calls[q].p].status = "OPEN"]
        BY <3>4 DEF ReopenUpdate
      <4> QED BY <1>1, <3>0, <4>1 DEF PeriodRow
    <3>5. CASE CorrectUpdate(q)
      BY <1>1, <3>0, <3>5 DEF CorrectUpdate
    <3> QED BY <1>5, <3>1, <3>2, <3>3, <3>4, <3>5
  <2> QED BY <2>2, <2>4, <2>5 DEF Existing, At
<1> QED BY <1>3, <1>4, <1>5 DEF CallStep

-----------------------------------------------------------------------------
(* One call at a time: nothing in the database keeps two periods apart, so *)
(* what follows holds only when no second call runs between the checks of  *)
(* the first and its write.                                                *)
OneCall == \A q, k \in Calls : q = k

(* What the checks of a call saw is still so when it writes: the month it  *)
(* is about to take is free, the period it corrects is not closed, the     *)
(* item it ticks is not ticked.                                            *)
StillSo(call) ==
  call.pc = "write" =>
    /\ call.op = "create" => ~MonthTaken(call.slot, Existing)
    /\ call.op = "correct" => /\ ~IsClosed(call.p)
                              /\ ~MonthTaken(call.slot, Existing \ {call.p})
    /\ call.op = "complete" => info[call.p].completedBy[call.item] = None

Apart == NoOverlap /\ \A q \in Calls : StillSo(calls[q])

(* The checks establish it.                                                *)
LEMMA ChecksSee ==
  ASSUME PeriodInv, OneCall, Apart, NEW q \in Calls,
         \/ CreateCheck(q) \/ CompleteCheck(q) \/ CloseCheck(q) \/ ReopenCheck(q)
         \/ CorrectCheck(q) \/ GiveUp(q)
  PROVE  Apart' /\ UNCHANGED <<periods, info>>
<1>1. UNCHANGED <<periods, info>>
  BY DEF CreateCheck, CompleteCheck, CloseCheck, ReopenCheck, CorrectCheck, GiveUp, Checked
<1>2. calls[q] \in Call /\ calls \in [Calls -> Call]
  BY DEF PeriodInv, PeriodTypeOK
<1> DEFINE next == [calls[q] EXCEPT !.pc = "write"]
<1>3. /\ next.op = calls[q].op /\ next.p = calls[q].p
      /\ next.slot = calls[q].slot /\ next.item = calls[q].item
  BY <1>2 DEF Call
<1>4. \/ calls' = [calls EXCEPT ![q] = NoCall]
      \/ calls' = [calls EXCEPT ![q] = next] /\ StillSo(next)
  <2>1. CASE CreateCheck(q)
    BY <1>3, <2>1 DEF CreateCheck, Checked, At, StillSo
  <2>2. CASE CompleteCheck(q)
    BY <1>3, <2>2 DEF CompleteCheck, Checked, At, StillSo
  <2>3. CASE CloseCheck(q)
    BY <1>3, <2>3 DEF CloseCheck, Checked, At, StillSo
  <2>4. CASE ReopenCheck(q)
    BY <1>3, <2>4 DEF ReopenCheck, Checked, At, StillSo
  <2>5. CASE CorrectCheck(q)
    BY <1>3, <2>5 DEF CorrectCheck, Checked, At, StillSo
  <2>6. CASE GiveUp(q)
    BY <2>6 DEF GiveUp, Done
  <2> QED BY <2>1, <2>2, <2>3, <2>4, <2>5, <2>6
<1> HIDE DEF next
<1>5. StillSo(NoCall)
  BY DEF StillSo, NoCall
<1>6. \/ calls'[q] = NoCall
      \/ calls'[q] = next /\ StillSo(next)
  BY <1>2, <1>4
<1>7. StillSo(calls'[q])
  BY <1>5, <1>6
<1>8. \A k \in Calls : StillSo(calls[k])'
  BY <1>1, <1>7 DEF OneCall, StillSo, MonthTaken, Existing, IsClosed
<1> QED BY <1>1, <1>8 DEF Apart, NoOverlap, Existing

(* What a write does to the months, the closed periods and the ticks.      *)
LEMMA WritesApart ==
  ASSUME PeriodInv, OneCall, Apart, NEW q \in Calls,
         \/ CreateInsert(q) \/ CompleteUpdate(q) \/ CloseUpdate(q) \/ ReopenUpdate(q)
         \/ CorrectUpdate(q)
  PROVE  /\ Apart'
         /\ \A p \in Existing :
              /\ IsClosed(p) => periods'[p].slot = periods[p].slot
              /\ \A i \in Items : info[p].completedBy[i] # None =>
                   info'[p].completedBy[i] = info[p].completedBy[i]
<1> DEFINE Kept == \A p \in Existing :
              /\ IsClosed(p) => periods'[p].slot = periods[p].slot
              /\ \A i \in Items : info[p].completedBy[i] # None =>
                   info'[p].completedBy[i] = info[p].completedBy[i]
           call == calls[q]
           p == call.p
<1>1. /\ periods \in [Periods -> PeriodRow] /\ info \in [Periods -> InfoRow]
      /\ calls \in [Calls -> Call] /\ NoOverlap /\ StillSo(call)
      /\ \A e \in Periods : periods[e] \in PeriodRow /\ info[e] \in InfoRow
  BY DEF PeriodInv, PeriodTypeOK, Apart
<1>2. calls' = [calls EXCEPT ![q] = NoCall]
  BY DEF CreateInsert, CompleteUpdate, CloseUpdate, ReopenUpdate, CorrectUpdate, Done
<1>3. calls'[q] = NoCall
  BY <1>1, <1>2
<1>4. \A k \in Calls : StillSo(calls[k])'
  BY <1>3 DEF OneCall, StillSo, NoCall
<1>5. call.op \in {"complete", "close", "reopen", "correct"} =>
        p \in Periods /\ periods[p].status # "NONE"
  BY DEF PeriodInv, CallTargets
<1>6. CASE CreateInsert(q)
  <2>1. PICK e \in Periods \ Existing :
          /\ periods' = [periods EXCEPT ![e] = [status |-> "OPEN", slot |-> call.slot]]
          /\ info' = [info EXCEPT ![e] = [NoInfo EXCEPT !.type = call.type,
                                                        !.createdBy = call.by]]
    BY <1>6 DEF CreateInsert
  <2>2. /\ periods'[e].slot = call.slot
        /\ \A k \in Periods \ {e} : periods'[k] = periods[k] /\ info'[k] = info[k]
    BY <1>1, <2>1
  <2>3. \A k \in Existing : periods[k].slot # call.slot
    BY <1>1, <1>6 DEF CreateInsert, At, StillSo, MonthTaken
  <2>4. \A k \in Existing' : k = e \/ k \in Existing
    BY <2>2 DEF Existing
  <2>5. NoOverlap'
    BY <1>1, <2>2, <2>3, <2>4 DEF NoOverlap, Existing
  <2>6. Kept
    BY <2>1, <2>2 DEF Existing
  <2> QED BY <1>4, <2>5, <2>6 DEF Apart
<1>7. CASE CompleteUpdate(q)
  <2>1. /\ UNCHANGED periods
        /\ info' = [info EXCEPT ![p].completedBy[call.item] = call.by]
        /\ call.op = "complete" /\ call.pc = "write"
    BY <1>7 DEF CompleteUpdate, At
  <2>2. info[p].completedBy[call.item] = None
    BY <1>1, <2>1 DEF StillSo
  <2>3. \A k \in Periods, i \in Items :
          k # p \/ i # call.item => info'[k].completedBy[i] = info[k].completedBy[i]
    BY <1>1, <2>1 DEF InfoRow
  <2>4. Kept
    BY <2>1, <2>2, <2>3 DEF Existing
  <2>5. NoOverlap'
    BY <1>1, <2>1 DEF NoOverlap, Existing
  <2> QED BY <1>4, <2>4, <2>5 DEF Apart
<1>8. CASE CloseUpdate(q) \/ ReopenUpdate(q)
  <2>0. PICK status, by : /\ periods' = [periods EXCEPT ![p].status = status]
                          /\ info' = [info EXCEPT ![p].closedBy = by]
                          /\ p \in Periods /\ periods[p].status # "NONE"
    BY <1>5, <1>8 DEF CloseUpdate, ReopenUpdate, At
  <2>1. \A k \in Periods : /\ periods'[k].slot = periods[k].slot
                           /\ periods'[k].status # "NONE" => periods[k].status # "NONE"
                           /\ info'[k].completedBy = info[k].completedBy
    <3>1. /\ periods'[p].slot = periods[p].slot
          /\ info'[p].completedBy = info[p].completedBy
      BY <1>1, <2>0 DEF PeriodRow, InfoRow
    <3>2. \A k \in Periods \ {p} : periods'[k] = periods[k] /\ info'[k] = info[k]
      BY <1>1, <2>0
    <3> QED BY <2>0, <3>1, <3>2
  <2>2. Kept
    BY <2>1 DEF Existing
  <2>3. NoOverlap'
    BY <1>1, <2>1 DEF NoOverlap, Existing
  <2> QED BY <1>4, <2>2, <2>3 DEF Apart
<1>9. CASE CorrectUpdate(q)
  <2>1. /\ periods' = [periods EXCEPT ![p].slot = call.slot] /\ UNCHANGED info
        /\ call.op = "correct" /\ call.pc = "write"
    BY <1>9 DEF CorrectUpdate, At
  <2>2. ~IsClosed(p) /\ \A k \in Existing \ {p} : periods[k].slot # call.slot
    BY <1>1, <2>1 DEF StillSo, MonthTaken
  <2>3. /\ periods'[p].slot = call.slot /\ p \in Existing
        /\ \A k \in Periods : periods'[k].status = periods[k].status
        /\ \A k \in Periods \ {p} : periods'[k] = periods[k]
    BY <1>1, <1>5, <2>1 DEF PeriodRow, Existing
  <2>4. Kept
    BY <2>1, <2>2, <2>3 DEF Existing
  <2>5. NoOverlap'
    BY <1>1, <2>2, <2>3 DEF NoOverlap, Existing
  <2> QED BY <1>4, <2>4, <2>5 DEF Apart
<1> QED BY <1>6, <1>7, <1>8, <1>9

LEMMA ApartStep ==
  ASSUME PeriodInv, OneCall, Apart, NEW q \in Calls, CallStep(q)
  PROVE  /\ Apart'
         /\ \A p \in Existing :
              /\ IsClosed(p) => periods'[p].slot = periods[p].slot
              /\ \A i \in Items : info[p].completedBy[i] # None =>
                   info'[p].completedBy[i] = info[p].completedBy[i]
<1>1. CASE CreateBegin(q) \/ CompleteBegin(q) \/ CloseBegin(q) \/ ReopenBegin(q)
             \/ CorrectBegin(q)
  <2>1. PICK call : Begun(call) /\ Begin(q, call)
    BY <1>1, BeginShape DEF PeriodInv, PeriodTypeOK
  <2>2. calls' = [calls EXCEPT ![q] = call] /\ UNCHANGED <<periods, info>>
    BY <2>1 DEF Begin
  <2>3. calls'[q].pc = "load"
    BY <2>1, <2>2 DEF Begun, PeriodInv, PeriodTypeOK
  <2>4. \A k \in Calls : StillSo(calls[k])'
    BY <2>3 DEF OneCall, StillSo
  <2> QED BY <2>2, <2>4 DEF Apart, NoOverlap, Existing
<1>2. CASE \/ CreateCheck(q) \/ CompleteCheck(q) \/ CloseCheck(q) \/ ReopenCheck(q)
           \/ CorrectCheck(q) \/ GiveUp(q)
  BY <1>2, ChecksSee
<1>3. CASE \/ CreateInsert(q) \/ CompleteUpdate(q) \/ CloseUpdate(q) \/ ReopenUpdate(q)
           \/ CorrectUpdate(q)
  BY <1>3, WritesApart
<1> QED BY <1>1, <1>2, <1>3 DEF CallStep

LEMMA ApartInit == Init => Apart
BY DEF Init, Apart, NoOverlap, Existing, StillSo, NoCall

LEMMA ApartSame ==
  ASSUME Apart, UNCHANGED <<periods, info, calls>>
  PROVE  Apart'
BY DEF Apart, NoOverlap, StillSo, MonthTaken, Existing, IsClosed

LEMMA ApartNext ==
  ASSUME OneCall, PeriodInv, Apart, [Next]_pvars
  PROVE  /\ Apart'
         /\ \A p \in Existing :
              /\ IsClosed(p) => periods'[p].slot = periods[p].slot
              /\ \A i \in Items : info[p].completedBy[i] # None =>
                   info'[p].completedBy[i] = info[p].completedBy[i]
<1>1. CASE \E q \in Calls : CallStep(q)
  BY <1>1, ApartStep
<1>2. CASE LedgerMoves \/ UNCHANGED pvars
  <2>1. UNCHANGED <<periods, info, calls>>
    BY <1>2 DEF LedgerMoves, pvars
  <2> QED BY <2>1, ApartSame
<1> QED BY <1>1, <1>2 DEF Next

LEMMA ApartHolds ==
  ASSUME OneCall
  PROVE  Spec => [](PeriodInv /\ Apart)
<1>1. Init => PeriodInv /\ Apart
  BY PeriodInvInit, ApartInit
<1>2. PeriodInv /\ Apart /\ [Next]_pvars => (PeriodInv /\ Apart)'
  BY PeriodInvStep, ApartNext
<1> QED BY <1>1, <1>2, PTL DEF Spec

(* One calendar call at a time, two periods never cover the same month,    *)
(* although create and correct only look before they write.                *)
THEOREM MonthsApart ==
  ASSUME OneCall
  PROVE  Spec => []NoOverlap
<1>1. Apart => NoOverlap
  BY DEF Apart
<1> QED BY <1>1, ApartHolds, PTL

(* One calendar call at a time, a closed period keeps its month and a      *)
(* ticked item the user who ticked it.                                     *)
THEOREM ClosedStay ==
  ASSUME OneCall
  PROVE  Spec => ClosedPeriodsStay
<1>1. ASSUME PeriodInv, Apart, [Next]_pvars
      PROVE  [\A p \in Existing :
                /\ IsClosed(p) => periods'[p].slot = periods[p].slot
                /\ \A i \in Items : info[p].completedBy[i] # None =>
                     info'[p].completedBy[i] = info[p].completedBy[i]]_pvars
  BY <1>1, ApartNext
<1> QED BY <1>1, ApartHolds, PTL DEF Spec, ClosedPeriodsStay

=============================================================================
