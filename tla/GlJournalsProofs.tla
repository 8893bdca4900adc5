------------------------- MODULE GlJournalsProofs -------------------------
(* Theorems about GlJournals for every set of journals, users, delegations *)
(* and requests.                                                           *)
EXTENDS GlJournals, TLAPS

LEMMA IdleTyped == Idle \in Request
BY NumberAssumption DEF Idle, Request, Ops

LEMMA NoJournalTyped == NoJournal \in Journal
BY NumberAssumption DEF NoJournal, Journal, Statuses

LEMMA DraftTyped ==
  ASSUME NEW creator \in Users \cup {None}, NEW initiator \in Users \cup {None},
         NEW original \in Journals \cup {None}, NEW content \in Contents \cup {None},
         NEW date \in Slots \cup {None}
  PROVE  Draft(creator, initiator, original, content, date) \in Journal
BY NumberAssumption DEF Draft, Journal, Statuses

(* A request that ends, or goes on, stays a request.                        *)
LEMMA BecomeTyped ==
  ASSUME requests \in [Requests -> Request], NEW r \in Requests,
         NEW req \in Request, Become(r, req)
  PROVE  requests' \in [Requests -> Request]
BY DEF Become

LEMMA StartTyped ==
  ASSUME TypeOK, NEW r \in Requests, NEW req \in Request, Start(r, req)
  PROVE  TypeOK'
BY BecomeTyped DEF TypeOK, Start, tableVars

(* What Init says of the types.                                            *)
LEMMA InitTyped == Init => TypeOK
BY IdleTyped, NoJournalTyped, NumberAssumption
   DEF Init, TypeOK, NoTrail, Trail

LEMMA ActorsAreUsers ==
  \A a \in Actors : /\ a.real \in Users /\ a.id \in Users
                    /\ a.id = a.real \/ <<a.real, a.id>> \in Delegations
BY DelegationAssumption DEF Actors

(* The statuses a handler accepts.                                          *)
HeldStatuses(op) ==
  CASE op \in {"update", "submit"} -> {"DRAFT", "REJECTED"}
    [] op = "park" -> {"DRAFT"}
    [] op = "void" -> {"DRAFT", "PARKED", "SUBMITTED", "REVIEWED", "REJECTED"}
    [] op \in {"review", "reject"} -> {"SUBMITTED"}
    [] op \in {"return"} \cup PostOps -> {"REVIEWED"}
    [] op = "reverse" -> {"POSTED"}
    [] OTHER -> {}

(* What a handler knows when its checks are done and it goes on: the row it  *)
(* works on exists, and the policy has judged the real user against it.     *)
Loaded(req) ==
  /\ req.op \in Ops
  /\ req.pc \in {"period", "guard"}
  /\ req.op \in PostOps => req.pc = "period"
  /\ req.op # "create" => req.j \in Journals /\ journals[req.j].status # "NONE"
  /\ req.op \in {"submit", "review"} \cup PostOps => req.by # None
  /\ req.op \in {"review", "post"} => req.real # None
  /\ req.op \in {"create", "update", "reverse"} => req.date \in Slots
  /\ req.op = "review" =>
       /\ journals[req.j].submittedBy # None
       /\ req.real \notin {journals[req.j].createdBy, journals[req.j].initiatedBy}
  /\ req.j # None => Free(req.j) /\ journals[req.j].status \in HeldStatuses(req.op)
  /\ req.op \in {"submit"} \cup PostOps => Balanced(journals[req.j].content)
  /\ req.op = "create" => req.j = None /\ req.by \in Users /\ req.content \in Contents
  /\ req.op = "reverse" => req.content = journals[req.j].content
  /\ req.op \in {"review"} \cup PostOps =>
       req.real \in Users /\ (req.by = req.real \/ <<req.real, req.by>> \in Delegations)
  /\ req.op \in PostOps => req.date = journals[req.j].date
  /\ req.op = "post" => req.real # journals[req.j].reviewedBy
  /\ req.op = "return" => journals[req.j].status = "REVIEWED"
  /\ req.op = "post" =>
       req.real \notin {journals[req.j].createdBy,
                        PostEntry(journals[req.j]).initiatedBy}

(* PostEntry changes nothing but the initiator.                             *)
LEMMA PostEntryMakers ==
  ASSUME NEW entry \in Journal, NEW u,
         EvaluateSoD("GL_JOURNAL_POST", u, PostEntry(entry))
  PROVE  u \notin {entry.createdBy, PostEntry(entry).initiatedBy, entry.reviewedBy}
<1>1. /\ PostEntry(entry).createdBy = entry.createdBy
      /\ PostEntry(entry).reviewedBy = entry.reviewedBy
  BY DEF PostEntry, Journal
<1>2. ConflictedUsers("GL_JOURNAL_POST", PostEntry(entry))
        = {PostEntry(entry).initiatedBy, PostEntry(entry).createdBy,
           PostEntry(entry).reviewedBy}
  BY DEF ConflictedUsers
<1> QED BY <1>1, <1>2 DEF EvaluateSoD

LEMMA ReviewMakers ==
  ASSUME NEW entry, NEW u, EvaluateSoD("GL_JOURNAL_REVIEW", u, entry)
  PROVE  u \notin {entry.createdBy, entry.initiatedBy}
BY DEF EvaluateSoD, ConflictedUsers

(* Every handler starts that way.                                           *)
LEMMA LoadStarts ==
  ASSUME TypeOK, NEW r \in Requests, Load(r)
  PROVE  \E req \in Request : Start(r, req) /\ Loaded(req)
<1>0. \A j \in Journals : /\ journals[j] \in Journal
                          /\ journals[j].date \in Slots \cup {None}
                          /\ journals[j].content \in Contents \cup {None}
  BY DEF TypeOK, Journal
<1>a. \A u \in Users : u # None
  BY NoneAssumption
<1>1. CASE CreateLoad(r)
  <2>1. PICK a \in Actors, c \in Contents, d \in Slots :
            /\ Start(r, [Idle EXCEPT !.op = "create", !.pc = "period", !.by = a.real,
                !.content = c, !.date = d])
            /\ TRUE
    BY <1>1 DEF CreateLoad
  <2> DEFINE req == [Idle EXCEPT !.op = "create", !.pc = "period", !.by = a.real,
                !.content = c, !.date = d]
  <2>2. req \in Request
    BY <1>0, <2>1, ActorsAreUsers, IdleTyped
       DEF Idle, Request, Ops, CreateOps, InPlaceOps, PostOps
  <2>3. Loaded(req)
    BY <1>0, <1>a, <2>1, ActorsAreUsers
       DEF Loaded, Idle, Ops, CreateOps, InPlaceOps, PostOps
  <2> QED BY <2>1, <2>2, <2>3
<1>2. CASE UpdateLoad(r)
  <2>1. PICK a \in Actors, j \in Journals, c \in Contents, d \in Slots :
            /\ Start(r, [Idle EXCEPT !.op = "update", !.pc = "period", !.j = j, !.date = d,
                !.content = IF IsReversal(journals[j]) THEN None ELSE c])
            /\ journals[j].status # "NONE"
            /\ Free(j) /\ journals[j].status \in HeldStatuses("update")
    BY <1>2 DEF UpdateLoad, HeldStatuses, PostOps, Editable
  <2> DEFINE req == [Idle EXCEPT !.op = "update", !.pc = "period", !.j = j, !.date = d,
                !.content = IF IsReversal(journals[j]) THEN None ELSE c]
  <2>2. req \in Request
    BY <1>0, <2>1, ActorsAreUsers, IdleTyped, ZenonT(40)
       DEF Idle, Request, Ops, CreateOps, InPlaceOps, PostOps
  <2>3. Loaded(req)
    BY <1>0, <1>a, <2>1, ActorsAreUsers, NoneAssumption
       DEF Loaded, Idle, Ops, CreateOps, InPlaceOps, PostOps
  <2> QED BY <2>1, <2>2, <2>3
<1>3. CASE ParkLoad(r)
  <2>1. PICK j \in Journals :
            /\ Start(r, [Idle EXCEPT !.op = "park", !.pc = "guard", !.j = j])
            /\ journals[j].status # "NONE"
            /\ Free(j) /\ journals[j].status \in HeldStatuses("park")
    BY <1>3 DEF ParkLoad, HeldStatuses, PostOps
  <2> DEFINE req == [Idle EXCEPT !.op = "park", !.pc = "guard", !.j = j]
  <2>2. req \in Request
    BY <1>0, <2>1, ActorsAreUsers, IdleTyped
       DEF Idle, Request, Ops, CreateOps, InPlaceOps, PostOps
  <2>3. Loaded(req)
    BY <1>0, <1>a, <2>1, ActorsAreUsers, NoneAssumption
       DEF Loaded, Idle, Ops, CreateOps, InPlaceOps, PostOps
  <2> QED BY <2>1, <2>2, <2>3
<1>4. CASE VoidLoad(r)
  <2>1. PICK j \in Journals :
            /\ Start(r, [Idle EXCEPT !.op = "void", !.pc = "guard", !.j = j])
            /\ journals[j].status # "NONE"
            /\ Free(j) /\ journals[j].status \in HeldStatuses("void")
    BY <1>4 DEF VoidLoad, HeldStatuses, PostOps
  <2> DEFINE req == [Idle EXCEPT !.op = "void", !.pc = "guard", !.j = j]
  <2>2. req \in Request
    BY <1>0, <2>1, ActorsAreUsers, IdleTyped
       DEF Idle, Request, Ops, CreateOps, InPlaceOps, PostOps
  <2>3. Loaded(req)
    BY <1>0, <1>a, <2>1, ActorsAreUsers, NoneAssumption
       DEF Loaded, Idle, Ops, CreateOps, InPlaceOps, PostOps
  <2> QED BY <2>1, <2>2, <2>3
<1>5. CASE SubmitLoad(r)
  <2>1. PICK a \in Actors, j \in Journals :
            /\ Start(r, [Idle EXCEPT !.op = "submit", !.pc = "period", !.j = j,
                !.by = a.real, !.date = journals[j].date])
            /\ journals[j].status # "NONE"
            /\ Free(j) /\ journals[j].status \in HeldStatuses("submit")
            /\ Balanced(journals[j].content)
    BY <1>5 DEF SubmitLoad, HeldStatuses, PostOps
  <2> DEFINE req == [Idle EXCEPT !.op = "submit", !.pc = "period", !.j = j,
                !.by = a.real, !.date = journals[j].date]
  <2>2. req \in Request
    BY <1>0, <2>1, ActorsAreUsers, IdleTyped
       DEF Idle, Request, Ops, CreateOps, InPlaceOps, PostOps
  <2>3. Loaded(req)
    BY <1>0, <1>a, <2>1, ActorsAreUsers, NoneAssumption
       DEF Loaded, Idle, Ops, CreateOps, InPlaceOps, PostOps
  <2> QED BY <2>1, <2>2, <2>3
<1>6. CASE ReviewLoad(r)
  <2>1. PICK a \in Actors, j \in Journals :
            /\ Start(r, [Idle EXCEPT !.op = "review", !.pc = "period", !.j = j,
                !.real = a.real, !.by = a.id, !.date = journals[j].date])
            /\ journals[j].status # "NONE"
            /\ Free(j) /\ journals[j].status \in HeldStatuses("review")
            /\ journals[j].submittedBy # None
            /\ EvaluateSoD("GL_JOURNAL_REVIEW", a.real, journals[j])
    BY <1>6 DEF ReviewLoad, HeldStatuses, PostOps
  <2> DEFINE req == [Idle EXCEPT !.op = "review", !.pc = "period", !.j = j,
                !.real = a.real, !.by = a.id, !.date = journals[j].date]
  <2>2. req \in Request
    BY <1>0, <2>1, ActorsAreUsers, IdleTyped
       DEF Idle, Request, Ops, CreateOps, InPlaceOps, PostOps
  <2>3. Loaded(req)
    BY <1>0, <1>a, <2>1, ActorsAreUsers, NoneAssumption, ReviewMakers
       DEF Loaded, Idle, Ops, CreateOps, InPlaceOps, PostOps
  <2> QED BY <2>1, <2>2, <2>3
<1>7. CASE RejectLoad(r)
  <2>1. PICK j \in Journals :
            /\ Start(r, [Idle EXCEPT !.op = "reject", !.pc = "guard", !.j = j])
            /\ journals[j].status # "NONE"
            /\ Free(j) /\ journals[j].status \in HeldStatuses("reject")
    BY <1>7 DEF RejectLoad, HeldStatuses, PostOps
  <2> DEFINE req == [Idle EXCEPT !.op = "reject", !.pc = "guard", !.j = j]
  <2>2. req \in Request
    BY <1>0, <2>1, ActorsAreUsers, IdleTyped
       DEF Idle, Request, Ops, CreateOps, InPlaceOps, PostOps
  <2>3. Loaded(req)
    BY <1>0, <1>a, <2>1, ActorsAreUsers, NoneAssumption
       DEF Loaded, Idle, Ops, CreateOps, InPlaceOps, PostOps
  <2> QED BY <2>1, <2>2, <2>3
<1>8. CASE ReturnLoad(r)
  <2>1. PICK j \in Journals :
            /\ journals[j].status = "REVIEWED"
            /\ Start(r, [Idle EXCEPT !.op = "return", !.pc = "guard", !.j = j])
            /\ journals[j].status # "NONE"
            /\ Free(j) /\ journals[j].status \in HeldStatuses("return")
    BY <1>8 DEF ReturnLoad, HeldStatuses, PostOps
  <2> DEFINE req == [Idle EXCEPT !.op = "return", !.pc = "guard", !.j = j]
  <2>2. req \in Request
    BY <1>0, <2>1, ActorsAreUsers, IdleTyped
       DEF Idle, Request, Ops, CreateOps, InPlaceOps, PostOps
  <2>3. Loaded(req)
    BY <1>0, <1>a, <2>1, ActorsAreUsers, NoneAssumption
       DEF Loaded, Idle, Ops, CreateOps, InPlaceOps, PostOps
  <2> QED BY <2>1, <2>2, <2>3
<1>9. CASE PostLoad(r)
  <2>1. PICK op \in PostOps, a \in Actors, j \in Journals :
            /\ Start(r, [Idle EXCEPT !.op = op, !.pc = "period", !.j = j, !.real = a.real,
                !.by = a.id, !.date = journals[j].date])
            /\ journals[j].status # "NONE"
            /\ Free(j) /\ journals[j].status \in HeldStatuses(op)
            /\ Balanced(journals[j].content)
            /\ op = "post" =>
                 EvaluateSoD("GL_JOURNAL_POST", a.real, PostEntry(journals[j]))
    BY <1>9 DEF PostLoad, HeldStatuses, PostOps
  <2> DEFINE req == [Idle EXCEPT !.op = op, !.pc = "period", !.j = j, !.real = a.real,
                !.by = a.id, !.date = journals[j].date]
  <2>2. req \in Request
    BY <1>0, <2>1, ActorsAreUsers, IdleTyped
       DEF Idle, Request, Ops, CreateOps, InPlaceOps, PostOps
  <2>3. Loaded(req)
    BY <1>0, <1>a, <2>1, ActorsAreUsers, NoneAssumption, PostEntryMakers
       DEF Loaded, Idle, Ops, CreateOps, InPlaceOps, PostOps
  <2> QED BY <2>1, <2>2, <2>3
<1>10. CASE ReverseLoad(r)
  <2>1. PICK a \in Actors, j \in Journals, d \in Slots :
            /\ Start(r, [Idle EXCEPT !.op = "reverse", !.pc = "period", !.j = j,
                !.by = a.id, !.date = d, !.content = journals[j].content])
            /\ journals[j].status # "NONE"
            /\ Free(j) /\ journals[j].status \in HeldStatuses("reverse")
    BY <1>10 DEF ReverseLoad, HeldStatuses, PostOps
  <2> DEFINE req == [Idle EXCEPT !.op = "reverse", !.pc = "period", !.j = j,
                !.by = a.id, !.date = d, !.content = journals[j].content]
  <2>2. req \in Request
    BY <1>0, <2>1, ActorsAreUsers, IdleTyped
       DEF Idle, Request, Ops, CreateOps, InPlaceOps, PostOps
  <2>3. Loaded(req)
    BY <1>0, <1>a, <2>1, ActorsAreUsers, NoneAssumption
       DEF Loaded, Idle, Ops, CreateOps, InPlaceOps, PostOps
  <2> QED BY <2>1, <2>2, <2>3
<1> QED
  BY <1>1, <1>2, <1>3, <1>4, <1>5, <1>6, <1>7, <1>8, <1>9, <1>10 DEF Load

(* A handler that starts leaves the state well typed.                       *)
LEMMA LoadTyped ==
  ASSUME TypeOK, NEW r \in Requests, Load(r)
  PROVE  TypeOK'
BY LoadStarts, StartTyped

(* Between loading and writing, and when it aborts, a handler only changes  *)
(* what it holds and the lock: it keeps its operation, its journal and its  *)
(* users, or ends.  Numbered says when it holds the lock of the sequence    *)
(* row and a number.                                                        *)
Numbered(r, req) ==
  \/ req = Idle /\ seqLock' \in {seqLock, IF seqLock = r THEN None ELSE seqLock}
  \/ requests[r].op \notin PostOps /\ seqLock' = seqLock
  \/ /\ requests[r].op \in PostOps
     /\ req.pc = "bump" /\ req.period # None /\ seqLock' = seqLock
  \/ /\ requests[r].pc = "bump" /\ req.pc = "guard" /\ req.period = requests[r].period
     /\ seqLock = None /\ seqLock' = r /\ req.number = counter + 1
  \/ /\ requests[r].pc = "guard" /\ req.pc = "write" /\ seqLock' = seqLock
     /\ req.period = requests[r].period /\ req.number = requests[r].number

LEMMA CheckKeeps ==
  ASSUME TypeOK, NEW r \in Requests, Check(r) \/ Abort(r)
  PROVE  /\ UNCHANGED <<journals, counter, periods, history>>
         /\ seqLock' \in Requests \cup {None}
         /\ \E req \in Request :
              /\ Become(r, req)
              /\ \/ req = Idle
                 \/ /\ req.op = requests[r].op
                    /\ req.j = requests[r].j
                    /\ req.real = requests[r].real
                    /\ req.by = requests[r].by
                    /\ req.content = requests[r].content
                    /\ req.date = requests[r].date \/ req.date \in Slots
              /\ Numbered(r, req)
<1>0. requests[r] \in Request /\ seqLock \in Requests \cup {None}
  BY DEF TypeOK
<1> DEFINE Kept(req) == /\ req.op = requests[r].op
                        /\ req.j = requests[r].j
                        /\ req.real = requests[r].real
                        /\ req.by = requests[r].by
                        /\ req.content = requests[r].content
                        /\ req.date = requests[r].date \/ req.date \in Slots
<1>1. CASE CheckPeriod(r)
  <2>1. CASE Finish(r)
    BY <1>0, <1>1, <2>1, IdleTyped DEF CheckPeriod, Finish, tableVars, Numbered
  <2>2. CASE ~Finish(r)
    <3>1. PICK p \in Periods :
            Become(r, [requests[r] EXCEPT !.pc = AfterPeriod(requests[r].op),
                                          !.period = p])
      BY <1>1, <2>2 DEF CheckPeriod, PeriodsOf
    <3> DEFINE req == [requests[r] EXCEPT !.pc = AfterPeriod(requests[r].op),
                                          !.period = p]
    <3>2. AfterPeriod(requests[r].op) \in {"write", "bump", "guard"}
      BY DEF AfterPeriod
    <3>3. req \in Request /\ Kept(req)
      BY <1>0, <3>2, ZenonT(40) DEF Request
    <3>4. UNCHANGED <<journals, counter, seqLock, periods, history>>
      BY <1>1 DEF CheckPeriod, tableVars
    <3>5. Numbered(r, req)
      BY <1>0, <3>4, NoneAssumption DEF Numbered, Request, AfterPeriod, PostOps
    <3> HIDE DEF req
    <3> QED BY <1>0, <3>1, <3>3, <3>4, <3>5 DEF req
  <2> QED BY <2>1, <2>2
<1>2. CASE ReversePickDate(r)
  <2>1. CASE Finish(r)
    BY <1>0, <1>2, <2>1, IdleTyped DEF ReversePickDate, Finish, tableVars, Numbered
  <2>2. CASE ~Finish(r)
    <3>1. PICK d \in Slots : Become(r, [requests[r] EXCEPT !.date = d, !.pc = "write"])
      BY <1>2, <2>2 DEF ReversePickDate
    <3> DEFINE req == [requests[r] EXCEPT !.date = d, !.pc = "write"]
    <3>2. req \in Request /\ Kept(req)
      BY <1>0 DEF Request
    <3>3. Numbered(r, req)
      BY <1>2 DEF Numbered, ReversePickDate, tableVars, PostOps
    <3> QED BY <1>0, <1>2, <3>1, <3>2, <3>3 DEF ReversePickDate, tableVars
  <2> QED BY <2>1, <2>2
<1>3. CASE PostBump(r)
  <2>1. CASE counter < MaxNumber
    <3> DEFINE req == [requests[r] EXCEPT !.pc = "guard", !.number = counter + 1]
    <3>1. Become(r, req) /\ seqLock' = r
      BY <1>3, <2>1 DEF PostBump, TakeNumber
    <3>2. counter + 1 \in 0..MaxNumber
      BY <2>1, NumberAssumption DEF TypeOK
    <3>3. req \in Request /\ Kept(req)
      BY <1>0, <3>2 DEF Request
    <3>4. Numbered(r, req)
      BY <1>0, <1>3, <3>1 DEF PostBump, Numbered, Request
    <3> QED BY <1>3, <3>1, <3>3, <3>4 DEF PostBump, TakeNumber
  <2>2. CASE ~(counter < MaxNumber)
    BY <1>0, <1>3, <2>2, IdleTyped DEF PostBump, TakeNumber, Finish, Numbered
  <2> QED BY <2>1, <2>2
<1>4. CASE ReadGuard(r)
  <2>1. CASE Row(r).status = "POSTED"
    BY <1>0, <1>4, <2>1, IdleTyped DEF ReadGuard, Finish, Numbered
  <2>2. CASE Row(r).status # "POSTED"
    <3> DEFINE req == [requests[r] EXCEPT !.pc = "write"]
    <3>1. req \in Request /\ Kept(req)
      BY <1>0 DEF Request
    <3>2. Numbered(r, req)
      BY <1>0, <1>4, <2>2 DEF ReadGuard, Numbered, Request
    <3> QED BY <1>0, <1>4, <2>2, <3>1, <3>2 DEF ReadGuard, Continue
  <2> QED BY <2>1, <2>2
<1>5. CASE Abort(r)
  BY <1>0, <1>5, IdleTyped DEF Abort, Finish, Numbered
<1> QED BY <1>1, <1>2, <1>3, <1>4, <1>5 DEF Check

LEMMA CheckTyped ==
  ASSUME TypeOK, NEW r \in Requests, Check(r) \/ Abort(r)
  PROVE  TypeOK'
BY CheckKeeps, BecomeTyped DEF TypeOK

(* A row and a request are related: a row that is not there yet holds       *)
(* nothing, and a handler past loading works on a row that is.              *)
Targets ==
  /\ \A j \in Journals : journals[j].status = "NONE" =>
       journals[j] = NoJournal /\ history[j] = NoTrail
  /\ \A r \in Requests : requests[r].op \in InPlaceOps \cup {"reverse"} =>
       requests[r].j \in Journals /\ journals[requests[r].j].status # "NONE"

(* What a write does to the row it writes and to its trail.                 *)
Inserted(r, j, row, trail) ==
  /\ journals[j].status = "NONE"
  /\ row.status = "DRAFT" /\ row.date = requests[r].date
  /\ requests[r].op \in {"create", "reverse"}
  /\ row.number = 0 /\ row.periodId = None /\ row.postedBy = None
  /\ row.initiatedBy # None => row.reversalOf # None
  /\ row.createdBy = IF requests[r].op = "create" THEN requests[r].by
                     ELSE journals[requests[r].j].createdBy
  /\ row.content = requests[r].content
  /\ trail = NoTrail
  /\ UNCHANGED <<counter, seqLock>>

SameMakers(row, old) == /\ row.createdBy = old.createdBy
                        /\ row.initiatedBy = old.initiatedBy
                        /\ row.reversalOf = old.reversalOf

(* The posting columns, the sequence and its lock after such a write.       *)
Posting(req, row, old) ==
  \/ /\ row.status = "POSTED" => old.status = "POSTED"
     /\ row.number = old.number /\ row.periodId = old.periodId
     /\ row.postedBy = old.postedBy
     /\ UNCHANGED <<counter, seqLock>>
  \/ /\ req.op \in PostOps /\ req.pc = "write"
     /\ row.number = req.number /\ row.periodId = req.period
     /\ row.postedBy = req.by
     /\ counter' = req.number /\ seqLock' = None

(* The workflow columns, the lines and the history after such a write.      *)
Forgotten(trail, past) ==
  trail.reviewer = None /\ trail.poster = past.poster /\ trail.override = past.override

Outcome(r, row, trail) ==
  LET req == requests[r]
      old == journals[req.j]
      past == history[req.j]
  IN
  /\ row.submittedBy = (IF req.op = "submit" THEN req.by ELSE old.submittedBy)
  /\ row.content = (IF req.op = "update" THEN NewContent(r) ELSE old.content)
  /\ \/ /\ req.op = "update" /\ row.status = old.status
        /\ row.reviewedBy = old.reviewedBy /\ trail = past
     \/ req.op = "park" /\ row.status = "PARKED" /\ trail = past
     \/ req.op = "void" /\ row.status = "VOIDED" /\ trail = past
     \/ /\ req.op \in {"submit", "return"} /\ row.status = "SUBMITTED"
        /\ row.reviewedBy = None /\ Forgotten(trail, past)
     \/ req.op = "reject" /\ row.status = "REJECTED" /\ Forgotten(trail, past)
     \/ /\ req.op = "review" /\ row.status = "REVIEWED" /\ row.reviewedBy = req.by
        /\ trail.reviewer = req.real /\ trail.reviewed = old.content
        /\ trail.poster = past.poster /\ trail.override = past.override
     \/ /\ req.op \in PostOps /\ row.status = "POSTED"
        /\ trail.reviewer = past.reviewer /\ trail.reviewed = past.reviewed
        /\ trail.poster = req.real /\ trail.override = (req.op = "postOverride")

Updated(r, j, row, trail) ==
  /\ j = requests[r].j
  /\ requests[r].op \in InPlaceOps
  /\ SameMakers(row, journals[j])
  /\ row.date = journals[j].date \/ (requests[r].op = "update" /\ row.date = requests[r].date)
  /\ Posting(requests[r], row, journals[j])
  /\ Outcome(r, row, trail)

(* Every write ends the request and is an insert or an update of one row.   *)
LEMMA WriteShape ==
  ASSUME TypeOK, Targets, NEW r \in Requests, Write(r)
  PROVE  /\ Become(r, Idle)
         /\ UNCHANGED periods
         /\ counter' \in 0..MaxNumber /\ seqLock' \in Requests \cup {None}
         /\ \E j \in Journals, row \in Journal, trail \in Trail :
              /\ journals' = [journals EXCEPT ![j] = row]
              /\ history' = [history EXCEPT ![j] = trail]
              /\ Inserted(r, j, row, trail) \/ Updated(r, j, row, trail)
<1>1. /\ requests[r].by \in Users \cup {None}
      /\ requests[r].real \in Users \cup {None}
      /\ requests[r].j \in Journals \cup {None}
      /\ requests[r].date \in Slots \cup {None}
      /\ requests[r].period \in Periods \cup {None}
      /\ requests[r].content \in Contents \cup {None}
      /\ requests[r].number \in 0..MaxNumber
      /\ counter \in 0..MaxNumber /\ seqLock \in Requests \cup {None}
  BY DEF TypeOK, Request
<1>2. /\ requests[r].op \in InPlaceOps \cup {"reverse"} =>
           /\ requests[r].j \in Journals
           /\ Row(r) \in Journal /\ history[requests[r].j] \in Trail
           /\ Row(r).status # "NONE"
      /\ \A j \in Journals : journals[j].status = "NONE" => history[j] = NoTrail
      /\ \A j \in Journals : history[j] \in Trail
                          /\ history = [history EXCEPT ![j] = history[j]]
  BY DEF TypeOK, Row, Targets
<1>3. CASE CreateWrite(r)
  <2>1. PICK j \in Journals :
          /\ journals[j].status = "NONE"
          /\ journals' = [journals EXCEPT ![j] = Draft(requests[r].by, None, None, requests[r].content,
                requests[r].date)]
    BY <1>3 DEF CreateWrite
  <2> DEFINE row == Draft(requests[r].by, None, None, requests[r].content,
                requests[r].date)
  <2>2. row \in Journal
    BY <1>1, <1>2, <1>3, DraftTyped DEF CreateWrite, AtWrite, Journal
  <2>3. history' = [history EXCEPT ![j] = NoTrail] /\ NoTrail \in Trail
    BY <1>2, <1>3, <2>1 DEF CreateWrite
  <2>4. /\ Become(r, Idle) /\ UNCHANGED <<counter, seqLock, periods>>
        /\ journals' = [journals EXCEPT ![j] = row]
        /\ requests[r].op = "create"
    BY <1>2, <1>3, <2>1, NoneAssumption DEF CreateWrite, AtWrite, Finish
  <2>5. Inserted(r, j, row, NoTrail)
    BY <2>1, <2>4 DEF Inserted, Draft
  <2> HIDE DEF row
  <2> QED BY <1>1, <2>1, <2>2, <2>3, <2>4, <2>5
<1>4. CASE UpdateWrite(r)
  <2> DEFINE j == requests[r].j
             row == [Row(r) EXCEPT !.date = requests[r].date, !.content = NewContent(r)]
             trail == history[j]
  <2>1. /\ requests[r].op = "update"
        /\ j \in Journals /\ Row(r).status # "NONE"
    BY <1>2, <1>4 DEF UpdateWrite, AtWrite, InPlaceOps, PostOps
  <2>2. Row(r) \in Journal /\ history[j] \in Trail
    BY <1>2, <2>1 DEF InPlaceOps
  <2>3. /\ NewContent(r) \in Contents \cup {None}
        /\ requests[r].date \in Slots \cup {None}
    BY <1>1, <2>2 DEF Journal, NewContent
  <2>4. row \in Journal
    BY <2>2, <2>3, ZenonT(40) DEF Journal
  <2>5. trail \in Trail
    BY <1>1, <2>2 DEF Trail
  <2>6. /\ Become(r, Idle) /\ UNCHANGED periods
        /\ UNCHANGED <<counter, seqLock>>
        /\ journals' = [journals EXCEPT ![j] = row]
        /\ history' = [history EXCEPT ![j] = trail]
    BY <1>2, <1>4, <2>1 DEF UpdateWrite, Commit, Finish
  <2>7. Updated(r, j, row, trail)
    BY <1>1, <2>1, <2>2, <2>6
       DEF Updated, SameMakers, Posting, Outcome, Forgotten, Row, InPlaceOps, PostOps,
           Journal, Trail
  <2> HIDE DEF j, row, trail
  <2> QED BY <1>1, <2>1, <2>4, <2>5, <2>6, <2>7
<1>5. CASE ParkWrite(r)
  <2> DEFINE j == requests[r].j
             row == [Row(r) EXCEPT !.status = "PARKED"]
             trail == history[j]
  <2>1. /\ requests[r].op = "park"
        /\ j \in Journals /\ Row(r).status # "NONE"
    BY <1>2, <1>5 DEF ParkWrite, AtWrite, InPlaceOps, PostOps
  <2>2. Row(r) \in Journal /\ history[j] \in Trail
    BY <1>2, <2>1 DEF InPlaceOps
  <2>3. "PARKED" \in Statuses
    BY DEF Statuses
  <2>4. row \in Journal
    BY <2>2, <2>3 DEF Journal
  <2>5. trail \in Trail
    BY <1>1, <2>2 DEF Trail
  <2>6. /\ Become(r, Idle) /\ UNCHANGED periods
        /\ UNCHANGED <<counter, seqLock>>
        /\ journals' = [journals EXCEPT ![j] = row]
        /\ history' = [history EXCEPT ![j] = trail]
    BY <1>2, <1>5, <2>1 DEF ParkWrite, Commit, Finish
  <2>7. Updated(r, j, row, trail)
    BY <1>1, <2>1, <2>2, <2>6
       DEF Updated, SameMakers, Posting, Outcome, Forgotten, Row, InPlaceOps, PostOps,
           Journal, Trail
  <2> HIDE DEF j, row, trail
  <2> QED BY <1>1, <2>1, <2>4, <2>5, <2>6, <2>7
<1>6. CASE VoidWrite(r)
  <2> DEFINE j == requests[r].j
             row == [Row(r) EXCEPT !.status = "VOIDED"]
             trail == history[j]
  <2>1. /\ requests[r].op = "void"
        /\ j \in Journals /\ Row(r).status # "NONE"
    BY <1>2, <1>6 DEF VoidWrite, AtWrite, InPlaceOps, PostOps
  <2>2. Row(r) \in Journal /\ history[j] \in Trail
    BY <1>2, <2>1 DEF InPlaceOps
  <2>3. "VOIDED" \in Statuses
    BY DEF Statuses
  <2>4. row \in Journal
    BY <2>2, <2>3 DEF Journal
  <2>5. trail \in Trail
    BY <1>1, <2>2 DEF Trail
  <2>6. /\ Become(r, Idle) /\ UNCHANGED periods
        /\ UNCHANGED <<counter, seqLock>>
        /\ journals' = [journals EXCEPT ![j] = row]
        /\ history' = [history EXCEPT ![j] = trail]
    BY <1>2, <1>6, <2>1 DEF VoidWrite, Commit, Finish
  <2>7. Updated(r, j, row, trail)
    BY <1>1, <2>1, <2>2, <2>6
       DEF Updated, SameMakers, Posting, Outcome, Forgotten, Row, InPlaceOps, PostOps,
           Journal, Trail
  <2> HIDE DEF j, row, trail
  <2> QED BY <1>1, <2>1, <2>4, <2>5, <2>6, <2>7
<1>7. CASE SubmitWrite(r)
  <2> DEFINE j == requests[r].j
             row == [Row(r) EXCEPT !.status = "SUBMITTED", !.submittedBy = requests[r].by,
                              !.reviewedBy = None]
             trail == [history[j] EXCEPT !.reviewer = None, !.reviewed = None]
  <2>1. /\ requests[r].op = "submit"
        /\ j \in Journals /\ Row(r).status # "NONE"
    BY <1>2, <1>7 DEF SubmitWrite, AtWrite, InPlaceOps, PostOps
  <2>2. Row(r) \in Journal /\ history[j] \in Trail
    BY <1>2, <2>1 DEF InPlaceOps
  <2>3. /\ requests[r].by \in Users \cup {None}
        /\ requests[r].period \in Periods \cup {None}
        /\ requests[r].number \in 0..MaxNumber
    BY <1>1
  <2>4. row \in Journal
    BY <2>2, <2>3 DEF Journal, Statuses
  <2>5. trail \in Trail
    BY <1>1, <2>2 DEF Trail
  <2>6. /\ Become(r, Idle) /\ UNCHANGED periods
        /\ UNCHANGED <<counter, seqLock>>
        /\ journals' = [journals EXCEPT ![j] = row]
        /\ history' = [history EXCEPT ![j] = trail]
    BY <1>2, <1>7, <2>1 DEF SubmitWrite, Commit, Finish, ForgetReview, SetHistory
  <2>7. Updated(r, j, row, trail)
    BY <1>1, <2>1, <2>2, <2>6
       DEF Updated, SameMakers, Posting, Outcome, Forgotten, Row, InPlaceOps, PostOps,
           Journal, Trail
  <2> HIDE DEF j, row, trail
  <2> QED BY <1>1, <2>1, <2>4, <2>5, <2>6, <2>7
<1>8. CASE ReviewWrite(r)
  <2> DEFINE j == requests[r].j
             row == [Row(r) EXCEPT !.status = "REVIEWED", !.reviewedBy = requests[r].by]
             trail == [history[j] EXCEPT !.reviewer = requests[r].real,
                                 !.reviewed = Row(r).content]
  <2>1. /\ requests[r].op = "review"
        /\ j \in Journals /\ Row(r).status # "NONE"
    BY <1>2, <1>8 DEF ReviewWrite, AtWrite, InPlaceOps, PostOps
  <2>2. Row(r) \in Journal /\ history[j] \in Trail
    BY <1>2, <2>1 DEF InPlaceOps
  <2>3. /\ requests[r].by \in Users \cup {None}
        /\ requests[r].period \in Periods \cup {None}
        /\ requests[r].number \in 0..MaxNumber
    BY <1>1
  <2>4. row \in Journal
    BY <2>2, <2>3 DEF Journal, Statuses
  <2>5. trail \in Trail
    BY <1>1, <2>2 DEF Trail, Journal
  <2>6. /\ Become(r, Idle) /\ UNCHANGED periods
        /\ UNCHANGED <<counter, seqLock>>
        /\ journals' = [journals EXCEPT ![j] = row]
        /\ history' = [history EXCEPT ![j] = trail]
    BY <1>2, <1>8, <2>1 DEF ReviewWrite, Commit, Finish, SetHistory
  <2>7. Updated(r, j, row, trail)
    BY <1>1, <2>1, <2>2, <2>6
       DEF Updated, SameMakers, Posting, Outcome, Forgotten, Row, InPlaceOps, PostOps,
           Journal, Trail
  <2> HIDE DEF j, row, trail
  <2> QED BY <1>1, <2>1, <2>4, <2>5, <2>6, <2>7
<1>9. CASE RejectWrite(r)
  <2> DEFINE j == requests[r].j
             row == [Row(r) EXCEPT !.status = "REJECTED", !.reviewedBy = None]
             trail == [history[j] EXCEPT !.reviewer = None, !.reviewed = None]
  <2>1. /\ requests[r].op = "reject"
        /\ j \in Journals /\ Row(r).status # "NONE"
    BY <1>2, <1>9 DEF RejectWrite, AtWrite, InPlaceOps, PostOps
  <2>2. Row(r) \in Journal /\ history[j] \in Trail
    BY <1>2, <2>1 DEF InPlaceOps
  <2>3. /\ requests[r].by \in Users \cup {None}
        /\ requests[r].period \in Periods \cup {None}
        /\ requests[r].number \in 0..MaxNumber
    BY <1>1
  <2>4. row \in Journal
    BY <2>2, <2>3 DEF Journal, Statuses
  <2>5. trail \in Trail
    BY <1>1, <2>2 DEF Trail
  <2>6. /\ Become(r, Idle) /\ UNCHANGED periods
        /\ UNCHANGED <<counter, seqLock>>
        /\ journals' = [journals EXCEPT ![j] = row]
        /\ history' = [history EXCEPT ![j] = trail]
    BY <1>2, <1>9, <2>1 DEF RejectWrite, Commit, Finish, ForgetReview, SetHistory
  <2>7. Updated(r, j, row, trail)
    BY <1>1, <2>1, <2>2, <2>6
       DEF Updated, SameMakers, Posting, Outcome, Forgotten, Row, InPlaceOps, PostOps,
           Journal, Trail
  <2> HIDE DEF j, row, trail
  <2> QED BY <1>1, <2>1, <2>4, <2>5, <2>6, <2>7
<1>10. CASE ReturnWrite(r)
  <2> DEFINE j == requests[r].j
             row == [Row(r) EXCEPT !.status = "SUBMITTED", !.reviewedBy = None]
             trail == [history[j] EXCEPT !.reviewer = None, !.reviewed = None]
  <2>1. /\ requests[r].op = "return"
        /\ j \in Journals /\ Row(r).status # "NONE"
    BY <1>2, <1>10 DEF ReturnWrite, AtWrite, InPlaceOps, PostOps
  <2>2. Row(r) \in Journal /\ history[j] \in Trail
    BY <1>2, <2>1 DEF InPlaceOps
  <2>3. /\ requests[r].by \in Users \cup {None}
        /\ requests[r].period \in Periods \cup {None}
        /\ requests[r].number \in 0..MaxNumber
    BY <1>1
  <2>4. row \in Journal
    BY <2>2, <2>3 DEF Journal, Statuses
  <2>5. trail \in Trail
    BY <1>1, <2>2 DEF Trail
  <2>6. /\ Become(r, Idle) /\ UNCHANGED periods
        /\ UNCHANGED <<counter, seqLock>>
        /\ journals' = [journals EXCEPT ![j] = row]
        /\ history' = [history EXCEPT ![j] = trail]
    BY <1>2, <1>10, <2>1 DEF ReturnWrite, Commit, Finish, ForgetReview, SetHistory
  <2>7. Updated(r, j, row, trail)
    BY <1>1, <2>1, <2>2, <2>6
       DEF Updated, SameMakers, Posting, Outcome, Forgotten, Row, InPlaceOps, PostOps,
           Journal, Trail
  <2> HIDE DEF j, row, trail
  <2> QED BY <1>1, <2>1, <2>4, <2>5, <2>6, <2>7
<1>11. CASE PostWrite(r)
  <2> DEFINE j == requests[r].j
             row == [Row(r) EXCEPT !.status = "POSTED", !.postedBy = requests[r].by,
                              !.periodId = requests[r].period,
                              !.number = requests[r].number]
             trail == [history[j] EXCEPT !.poster = requests[r].real,
                                 !.override = requests[r].op = "postOverride"]
  <2>1. /\ requests[r].op \in PostOps /\ requests[r].pc = "write"
        /\ j \in Journals /\ Row(r).status # "NONE"
    BY <1>2, <1>11 DEF PostWrite, AtWrite, InPlaceOps, PostOps
  <2>2. Row(r) \in Journal /\ history[j] \in Trail
    BY <1>2, <2>1 DEF InPlaceOps
  <2>3. /\ requests[r].by \in Users \cup {None}
        /\ requests[r].period \in Periods \cup {None}
        /\ requests[r].number \in 0..MaxNumber
    BY <1>1
  <2>4. row \in Journal
    BY <2>2, <2>3, ZenonT(40) DEF Journal, Statuses
  <2>5. trail \in Trail
    BY <1>1, <2>2 DEF Trail
  <2>6. /\ Become(r, Idle) /\ UNCHANGED periods
        /\ counter' = requests[r].number /\ seqLock' = None
        /\ journals' = [journals EXCEPT ![j] = row]
        /\ history' = [history EXCEPT ![j] = trail]
    BY <1>2, <1>11, <2>1 DEF PostWrite, Commit, Finish, SetHistory
  <2>7. Updated(r, j, row, trail)
    BY <1>1, <2>1, <2>2, <2>6
       DEF Updated, SameMakers, Posting, Outcome, Forgotten, Row, InPlaceOps, PostOps,
           Journal, Trail
  <2> HIDE DEF j, row, trail
  <2> QED BY <1>1, <2>1, <2>4, <2>5, <2>6, <2>7
<1>12. CASE ReverseWrite(r)
  <2>1. PICK k \in Journals :
          /\ journals[k].status = "NONE"
          /\ journals' = [journals EXCEPT ![k] = Draft(Row(r).createdBy, requests[r].by, requests[r].j,
                requests[r].content, requests[r].date)]
    BY <1>12 DEF ReverseWrite
  <2> DEFINE row == Draft(Row(r).createdBy, requests[r].by, requests[r].j,
                requests[r].content, requests[r].date)
  <2>2. row \in Journal
    BY <1>1, <1>2, <1>12, DraftTyped DEF ReverseWrite, AtWrite, Journal
  <2>3. history' = [history EXCEPT ![k] = NoTrail] /\ NoTrail \in Trail
    BY <1>2, <1>12, <2>1 DEF ReverseWrite
  <2>4. /\ Become(r, Idle) /\ UNCHANGED <<counter, seqLock, periods>>
        /\ journals' = [journals EXCEPT ![k] = row]
        /\ requests[r].j # None /\ requests[r].op = "reverse"
    BY <1>2, <1>12, <2>1, NoneAssumption DEF ReverseWrite, AtWrite, Finish
  <2>5. Inserted(r, k, row, NoTrail)
    BY <2>1, <2>4 DEF Inserted, Draft, Row
  <2> HIDE DEF row
  <2> QED BY <1>1, <2>1, <2>2, <2>3, <2>4, <2>5
<1> QED BY <1>3, <1>4, <1>5, <1>6, <1>7, <1>8, <1>9, <1>10, <1>11, <1>12 DEF Write

(* The same, row by row and request by request.                             *)
LEMMA WriteEffect ==
  ASSUME TypeOK, Targets, NEW r \in Requests, Write(r)
  PROVE  \E j \in Journals, row \in Journal, trail \in Trail :
           /\ Inserted(r, j, row, trail) \/ Updated(r, j, row, trail)
           /\ journals'[j] = row /\ history'[j] = trail
           /\ \A k \in Journals : k # j => /\ journals'[k] = journals[k]
                                           /\ history'[k] = history[k]
           /\ requests'[r] = Idle
           /\ \A q \in Requests : q # r => requests'[q] = requests[q]
<1>1. PICK j \in Journals, row \in Journal, trail \in Trail :
        /\ journals' = [journals EXCEPT ![j] = row]
        /\ history' = [history EXCEPT ![j] = trail]
        /\ Inserted(r, j, row, trail) \/ Updated(r, j, row, trail)
  BY WriteShape
<1>2. requests' = [requests EXCEPT ![r] = Idle]
  BY WriteShape DEF Become
<1>3. requests'[r] = Idle /\ \A q \in Requests : q # r => requests'[q] = requests[q]
  BY <1>2 DEF TypeOK
<1>4. /\ journals'[j] = row /\ history'[j] = trail
      /\ \A k \in Journals : k # j => /\ journals'[k] = journals[k]
                                      /\ history'[k] = history[k]
  BY <1>1 DEF TypeOK
<1> QED BY <1>1, <1>3, <1>4

(* The write a handler ends with leaves the state well typed.               *)
LEMMA WriteTyped ==
  ASSUME TypeOK, Targets, NEW r \in Requests, Write(r)
  PROVE  TypeOK'
BY WriteShape, IdleTyped, BecomeTyped DEF TypeOK

(* Nothing but a request or the calendar takes a step.                      *)
LEMMA StepCases ==
  ASSUME [Next]_vars
  PROVE  \/ \E r \in Requests : Load(r) \/ (Check(r) \/ Abort(r)) \/ Write(r)
         \/ UNCHANGED <<journals, counter, seqLock, requests, history>>
BY DEF Next, Step, PeriodMoves, tableVars, vars

LEMMA TypeStep ==
  ASSUME TypeOK, Targets, [Next]_vars
  PROVE  TypeOK'
<1>1. CASE \E r \in Requests : Step(r)
  BY <1>1, LoadTyped, CheckTyped, WriteTyped DEF Step
<1>2. CASE PeriodMoves
  BY <1>2 DEF PeriodMoves, TypeOK, tableVars
<1>3. CASE UNCHANGED vars
  BY <1>3 DEF vars, TypeOK
<1> QED BY <1>1, <1>2, <1>3 DEF Next

LEMMA TargetsStep ==
  ASSUME TypeOK, Targets, [Next]_vars
  PROVE  Targets'
<1>0. "idle" \notin InPlaceOps \cup {"reverse"} /\ "create" \notin InPlaceOps \cup {"reverse"}
  BY DEF InPlaceOps, PostOps
<1>1. ASSUME NEW r \in Requests, Load(r) PROVE Targets'
  <2>1. PICK req \in Request : Start(r, req) /\ Loaded(req)
    BY <1>1, LoadStarts
  <2>2. /\ UNCHANGED <<journals, history>>
        /\ requests' = [requests EXCEPT ![r] = req]
    BY <2>1 DEF Start, Become, tableVars
  <2>3. req.op # "create" => req.j \in Journals /\ journals[req.j].status # "NONE"
    BY <2>1 DEF Loaded
  <2> QED BY <1>0, <2>2, <2>3 DEF Targets, TypeOK
<1>2. ASSUME NEW r \in Requests, Check(r) \/ Abort(r) PROVE Targets'
  <2>1. PICK req \in Request :
          /\ Become(r, req)
          /\ req = Idle \/ (req.op = requests[r].op /\ req.j = requests[r].j)
    BY <1>2, CheckKeeps
  <2>2. /\ UNCHANGED <<journals, history>>
        /\ requests' = [requests EXCEPT ![r] = req]
    BY <1>2, <2>1, CheckKeeps DEF Become
  <2>3. req.op \in InPlaceOps \cup {"reverse"} =>
          req.op = requests[r].op /\ req.j = requests[r].j
    BY <1>0, <2>1 DEF Idle
  <2> QED BY <2>2, <2>3 DEF Targets, TypeOK
<1>3. ASSUME NEW r \in Requests, Write(r) PROVE Targets'
  <2>1. PICK j \in Journals, row \in Journal, trail \in Trail :
          /\ Inserted(r, j, row, trail) \/ Updated(r, j, row, trail)
          /\ journals'[j] = row /\ history'[j] = trail
          /\ \A k \in Journals : k # j => /\ journals'[k] = journals[k]
                                          /\ history'[k] = history[k]
          /\ requests'[r] = Idle
          /\ \A q \in Requests : q # r => requests'[q] = requests[q]
    BY <1>3, WriteEffect
  <2>2. row.status # "NONE"
    BY <2>1 DEF Inserted, Updated, Outcome, Targets
  <2>3. Idle.op \notin InPlaceOps \cup {"reverse"}
    BY <1>0 DEF Idle
  <2> QED BY <2>1, <2>2, <2>3 DEF Targets
<1>4. CASE UNCHANGED <<journals, counter, seqLock, requests, history>>
  BY <1>4 DEF Targets
<1> QED BY <1>1, <1>2, <1>3, <1>4, StepCases

LEMMA InitTargets == Init => Targets
BY DEF Init, Targets, Idle, InPlaceOps, PostOps

(* The table, the sequence and the requests keep their types, and a handler *)
(* past loading works on a row that exists.                                 *)
THEOREM TypeCorrect == Spec => [](TypeOK /\ Targets)
<1>1. Init => TypeOK /\ Targets
  BY InitTyped, InitTargets
<1>2. TypeOK /\ Targets /\ [Next]_vars => (TypeOK /\ Targets)'
  BY TypeStep, TargetsStep
<1> QED BY <1>1, <1>2, PTL DEF Spec

-----------------------------------------------------------------------------
(* NoCorruptedWorkflow is not inductive: a review or a return that is under *)
(* way must still find, when it writes, the submission metadata it saw.     *)
Workflow ==
  /\ NoCorruptedWorkflow
  /\ \A j \in Journals :
       journals[j].status = "REVIEWED" => journals[j].submittedBy # None
  /\ \A r \in Requests :
       /\ requests[r].op \in {"submit", "review"} => requests[r].by # None
       /\ requests[r].op \in {"review", "return"} =>
            journals[requests[r].j].submittedBy # None

LEMMA WorkflowStep ==
  ASSUME TypeOK, Targets, Workflow, [Next]_vars
  PROVE  Workflow'
<1>0. Idle.op \notin {"submit", "review", "return"}
  BY DEF Idle
<1>1. ASSUME NEW r \in Requests, Load(r) PROVE Workflow'
  <2>1. PICK req \in Request : Start(r, req) /\ Loaded(req)
    BY <1>1, LoadStarts
  <2>2. /\ UNCHANGED journals
        /\ requests' = [requests EXCEPT ![r] = req]
    BY <2>1 DEF Start, Become, tableVars
  <2>3. /\ req.op \in {"submit", "review"} => req.by # None
        /\ req.op \in {"review", "return"} => journals[req.j].submittedBy # None
    BY <2>1 DEF Loaded, Workflow
  <2> QED BY <2>2, <2>3 DEF Workflow, NoCorruptedWorkflow, TypeOK
<1>2. ASSUME NEW r \in Requests, Check(r) \/ Abort(r) PROVE Workflow'
  <2>1. PICK req \in Request :
          /\ Become(r, req)
          /\ \/ req = Idle
             \/ /\ req.op = requests[r].op /\ req.j = requests[r].j
                /\ req.by = requests[r].by
    BY <1>2, CheckKeeps
  <2>2. /\ UNCHANGED journals
        /\ requests' = [requests EXCEPT ![r] = req]
    BY <1>2, <2>1, CheckKeeps DEF Become
  <2>3. /\ req.op \in {"submit", "review"} => req.by # None
        /\ req.op \in {"review", "return"} => journals[req.j].submittedBy # None
    BY <1>0, <2>1 DEF Workflow
  <2> QED BY <2>2, <2>3 DEF Workflow, NoCorruptedWorkflow, TypeOK
<1>3. ASSUME NEW r \in Requests, Write(r) PROVE Workflow'
  <2>1. PICK j \in Journals, row \in Journal, trail \in Trail :
          /\ Inserted(r, j, row, trail) \/ Updated(r, j, row, trail)
          /\ journals'[j] = row
          /\ \A k \in Journals : k # j => journals'[k] = journals[k]
          /\ requests'[r] = Idle
          /\ \A q \in Requests : q # r => requests'[q] = requests[q]
    BY <1>3, WriteEffect
  <2>2. /\ row.status = "SUBMITTED" => row.submittedBy # None /\ row.reviewedBy = None
        /\ row.status = "REVIEWED" => row.submittedBy # None /\ row.reviewedBy # None
    BY <2>1 DEF Inserted, Updated, Outcome, Workflow, NoCorruptedWorkflow
  <2>3. ASSUME NEW q \in Requests, q # r, requests[q].op \in {"review", "return"}
        PROVE  journals'[requests[q].j].submittedBy # None
    <3>1. requests[q].j \in Journals /\ journals[requests[q].j].status # "NONE"
      BY <2>3 DEF Targets, InPlaceOps
    <3>2. CASE requests[q].j = j
      BY <2>1, <2>3, <3>1, <3>2 DEF Inserted, Updated, Outcome, Workflow
    <3>3. CASE requests[q].j # j
      BY <2>1, <2>3, <3>1, <3>3 DEF Workflow
    <3> QED BY <3>2, <3>3
  <2>4. NoCorruptedWorkflow'
    BY <2>1, <2>2 DEF Workflow, NoCorruptedWorkflow
  <2> QED BY <1>0, <2>1, <2>2, <2>3, <2>4 DEF Workflow
<1>4. CASE UNCHANGED <<journals, counter, seqLock, requests, history>>
  BY <1>4 DEF Workflow, NoCorruptedWorkflow
<1> QED BY <1>1, <1>2, <1>3, <1>4, StepCases

(* However requests overlap, no journal reaches the state reviewJournal     *)
(* calls a corrupted workflow state, and a REVIEWED one names its reviewer. *)
THEOREM WorkflowSound == Spec => []NoCorruptedWorkflow
<1>1. Init => Workflow
  BY DEF Init, Workflow, NoCorruptedWorkflow, NoJournal, Idle
<1>2. TypeOK /\ Targets /\ Workflow /\ [Next]_vars => Workflow'
  BY WorkflowStep
<1>3. Workflow => NoCorruptedWorkflow
  BY DEF Workflow
<1> QED BY <1>1, <1>2, <1>3, TypeCorrect, PTL DEF Spec

-----------------------------------------------------------------------------
(* A journal has a date, and a handler about to write a date holds one.     *)
Dated ==
  /\ \A j \in Journals : journals[j].status # "NONE" => journals[j].date \in Slots
  /\ \A r \in Requests : requests[r].op \in {"create", "update", "reverse"} =>
       requests[r].date \in Slots

LEMMA DatedStep ==
  ASSUME TypeOK, Targets, Dated, [Next]_vars
  PROVE  Dated'
<1>0. Idle.op \notin {"create", "update", "reverse"}
  BY DEF Idle
<1>1. ASSUME NEW r \in Requests, Load(r) PROVE Dated'
  <2>1. PICK req \in Request : Start(r, req) /\ Loaded(req)
    BY <1>1, LoadStarts
  <2>2. /\ UNCHANGED journals
        /\ requests' = [requests EXCEPT ![r] = req]
    BY <2>1 DEF Start, Become, tableVars
  <2>3. req.op \in {"create", "update", "reverse"} => req.date \in Slots
    BY <2>1 DEF Loaded
  <2> QED BY <2>2, <2>3 DEF Dated, TypeOK
<1>2. ASSUME NEW r \in Requests, Check(r) \/ Abort(r) PROVE Dated'
  <2>1. PICK req \in Request :
          /\ Become(r, req)
          /\ \/ req = Idle
             \/ /\ req.op = requests[r].op
                /\ req.date = requests[r].date \/ req.date \in Slots
    BY <1>2, CheckKeeps
  <2>2. /\ UNCHANGED journals
        /\ requests' = [requests EXCEPT ![r] = req]
    BY <1>2, <2>1, CheckKeeps DEF Become
  <2>3. req.op \in {"create", "update", "reverse"} => req.date \in Slots
    BY <1>0, <2>1 DEF Dated
  <2> QED BY <2>2, <2>3 DEF Dated, TypeOK
<1>3. ASSUME NEW r \in Requests, Write(r) PROVE Dated'
  <2>1. PICK j \in Journals, row \in Journal, trail \in Trail :
          /\ Inserted(r, j, row, trail) \/ Updated(r, j, row, trail)
          /\ journals'[j] = row
          /\ \A k \in Journals : k # j => journals'[k] = journals[k]
          /\ requests'[r] = Idle
          /\ \A q \in Requests : q # r => requests'[q] = requests[q]
    BY <1>3, WriteEffect
  <2>2. row.date \in Slots
    BY <2>1 DEF Inserted, Updated, Targets, Dated
  <2> QED BY <1>0, <2>1, <2>2 DEF Dated
<1>4. CASE UNCHANGED <<journals, counter, seqLock, requests, history>>
  BY <1>4 DEF Dated
<1> QED BY <1>1, <1>2, <1>3, <1>4, StepCases

LEMMA InitDated == Init => Dated
BY DEF Init, Dated, NoJournal, Idle

-----------------------------------------------------------------------------
(* MakerIsNotChecker is not inductive either: a review or a post under way  *)
(* was judged against makers that must still be the makers when it writes,  *)
(* and the policy reads the initiator of a reversal only.                   *)
Makers ==
  /\ MakerIsNotChecker
  /\ \A j \in Journals : journals[j].initiatedBy # None => IsReversal(journals[j])
  /\ \A r \in Requests : requests[r].op \in {"review", "post"} =>
       requests[r].real \notin {journals[requests[r].j].createdBy,
                                journals[requests[r].j].initiatedBy}

LEMMA MakersStep ==
  ASSUME TypeOK, Targets, Makers, [Next]_vars
  PROVE  Makers'
<1>0. Idle.op \notin {"review", "post"}
  BY DEF Idle
<1>1. ASSUME NEW r \in Requests, Load(r) PROVE Makers'
  <2>1. PICK req \in Request : Start(r, req) /\ Loaded(req)
    BY <1>1, LoadStarts
  <2>2. /\ UNCHANGED <<journals, history>>
        /\ requests' = [requests EXCEPT ![r] = req]
    BY <2>1 DEF Start, Become, tableVars
  <2>3. req.op \in {"review", "post"} => req.j \in Journals /\ req.real # None
    BY <2>1 DEF Loaded
  <2>4. ASSUME req.op = "post"
        PROVE  req.real \notin {journals[req.j].createdBy, journals[req.j].initiatedBy}
    <3>1. CASE journals[req.j].initiatedBy = None
      BY <2>1, <2>3, <2>4, <3>1 DEF Loaded
    <3>2. CASE journals[req.j].initiatedBy # None
      <4>1. PostEntry(journals[req.j]).initiatedBy = journals[req.j].initiatedBy
        BY <2>3, <2>4, <3>2 DEF Makers, PostEntry, TypeOK, Journal
      <4> QED BY <2>1, <2>4, <4>1 DEF Loaded
    <3> QED BY <3>1, <3>2
  <2>5. req.op = "review" =>
          req.real \notin {journals[req.j].createdBy, journals[req.j].initiatedBy}
    BY <2>1 DEF Loaded
  <2> QED BY <2>2, <2>4, <2>5 DEF Makers, MakerIsNotChecker, IsReversal, TypeOK
<1>2. ASSUME NEW r \in Requests, Check(r) \/ Abort(r) PROVE Makers'
  <2>1. PICK req \in Request :
          /\ Become(r, req)
          /\ \/ req = Idle
             \/ /\ req.op = requests[r].op /\ req.j = requests[r].j
                /\ req.real = requests[r].real
    BY <1>2, CheckKeeps
  <2>2. /\ UNCHANGED <<journals, history>>
        /\ requests' = [requests EXCEPT ![r] = req]
    BY <1>2, <2>1, CheckKeeps DEF Become
  <2>3. req.op \in {"review", "post"} =>
          req.real \notin {journals[req.j].createdBy, journals[req.j].initiatedBy}
    BY <1>0, <2>1 DEF Makers
  <2> QED BY <2>2, <2>3 DEF Makers, MakerIsNotChecker, IsReversal, TypeOK
<1>3. ASSUME NEW r \in Requests, Write(r) PROVE Makers'
  <2>1. PICK j \in Journals, row \in Journal, trail \in Trail :
          /\ Inserted(r, j, row, trail) \/ Updated(r, j, row, trail)
          /\ journals'[j] = row /\ history'[j] = trail
          /\ \A k \in Journals : k # j => /\ journals'[k] = journals[k]
                                          /\ history'[k] = history[k]
          /\ requests'[r] = Idle
          /\ \A q \in Requests : q # r => requests'[q] = requests[q]
    BY <1>3, WriteEffect
  <2>2. LET makers == {row.createdBy, row.initiatedBy} \ {None} IN
        /\ trail.reviewer \notin makers
        /\ ~trail.override => trail.poster \notin makers
    <3>1. CASE Inserted(r, j, row, trail)
      BY <3>1 DEF Inserted, NoTrail
    <3>2. CASE Updated(r, j, row, trail)
      BY <3>2 DEF Updated, SameMakers, Outcome, Forgotten, PostOps, Makers, MakerIsNotChecker
    <3> QED BY <2>1, <3>1, <3>2
  <2>3. MakerIsNotChecker'
    BY <2>1, <2>2 DEF Makers, MakerIsNotChecker
  <2>4. row.initiatedBy # None => row.reversalOf # None
    BY <2>1 DEF Inserted, Updated, SameMakers, Makers, IsReversal
  <2>5. ASSUME NEW q \in Requests, q # r, requests[q].op \in {"review", "post"}
        PROVE  requests[q].real \notin {journals'[requests[q].j].createdBy,
                                        journals'[requests[q].j].initiatedBy}
    <3>1. requests[q].j \in Journals /\ journals[requests[q].j].status # "NONE"
      BY <2>5 DEF Targets, InPlaceOps, PostOps
    <3>2. CASE requests[q].j = j
      BY <2>1, <2>5, <3>1, <3>2 DEF Inserted, Updated, SameMakers, Makers
    <3>3. CASE requests[q].j # j
      BY <2>1, <2>5, <3>1, <3>3 DEF Makers
    <3> QED BY <3>2, <3>3
  <2> QED BY <1>0, <2>1, <2>3, <2>4, <2>5 DEF Makers, IsReversal
<1>4. CASE UNCHANGED <<journals, counter, seqLock, requests, history>>
  BY <1>4 DEF Makers, MakerIsNotChecker, IsReversal
<1> QED BY <1>1, <1>2, <1>3, <1>4, StepCases

LEMMA MakersHold == Spec => []Makers
<1>1. Init => Makers
  BY DEF Init, Makers, MakerIsNotChecker, NoJournal, NoTrail, Idle, IsReversal
<1>2. TypeOK /\ Targets /\ Makers /\ [Next]_vars => Makers'
  BY MakersStep
<1> QED BY <1>1, <1>2, TypeCorrect, PTL DEF Spec

(* Whatever delegations are in force and however requests overlap, the      *)
(* person behind a review, or behind a post without the override, is        *)
(* neither the creator nor the initiator of the journal.                    *)
THEOREM MakerChecker == Spec => []MakerIsNotChecker
<1>1. Makers => MakerIsNotChecker
  BY DEF Makers
<1> QED BY <1>1, MakersHold, PTL

-----------------------------------------------------------------------------
(* LedgerNumbering rests on the row lock: a post that has taken a number    *)
(* holds the lock, and its number is the next one.                          *)
Numbering ==
  /\ LedgerNumbering
  /\ \A r \in Requests : requests[r].op \in PostOps =>
       /\ requests[r].by # None
       /\ requests[r].pc # "period" => requests[r].period # None
       /\ requests[r].pc \in {"guard", "write"} =>
            seqLock = r /\ requests[r].number = counter + 1

LEMMA NumberingStep ==
  ASSUME TypeOK, Targets, Numbering, [Next]_vars
  PROVE  Numbering'
<1>0. Idle.op \notin PostOps
  BY DEF Idle, PostOps
<1>1. ASSUME NEW r \in Requests, Load(r) PROVE Numbering'
  <2>1. PICK req \in Request : Start(r, req) /\ Loaded(req)
    BY <1>1, LoadStarts
  <2>2. /\ UNCHANGED <<journals, counter, seqLock>>
        /\ requests' = [requests EXCEPT ![r] = req]
    BY <2>1 DEF Start, Become, tableVars
  <2>3. req.op \in PostOps => req.by # None /\ req.pc = "period"
    BY <2>1 DEF Loaded
  <2> QED BY <2>2, <2>3 DEF Numbering, LedgerNumbering, TypeOK
<1>2. ASSUME NEW r \in Requests, Check(r) \/ Abort(r) PROVE Numbering'
  <2>1. PICK req \in Request :
          /\ Become(r, req)
          /\ \/ req = Idle
             \/ req.op = requests[r].op /\ req.by = requests[r].by
          /\ Numbered(r, req)
    BY <1>2, CheckKeeps
  <2>2. /\ UNCHANGED <<journals, counter>>
        /\ requests' = [requests EXCEPT ![r] = req]
    BY <1>2, <2>1, CheckKeeps DEF Become
  <2>3. requests'[r] = req /\ \A q \in Requests : q # r => requests'[q] = requests[q]
    BY <2>2 DEF TypeOK
  <2>4. req.op \in PostOps =>
          /\ req.by # None
          /\ req.pc # "period" => req.period # None
          /\ req.pc \in {"guard", "write"} => seqLock' = r /\ req.number = counter + 1
    BY <1>0, <2>1 DEF Numbered, Numbering
  <2>5. ASSUME NEW q \in Requests, q # r, seqLock = q
        PROVE  seqLock' = q
    BY <2>1, <2>5, NoneAssumption DEF Numbered
  <2>6. LedgerNumbering'
    BY <2>2 DEF Numbering, LedgerNumbering
  <2> QED BY <2>2, <2>3, <2>4, <2>5, <2>6 DEF Numbering
<1>3. ASSUME NEW r \in Requests, Write(r) PROVE Numbering'
  <2>1. PICK j \in Journals, row \in Journal, trail \in Trail :
          /\ Inserted(r, j, row, trail) \/ Updated(r, j, row, trail)
          /\ journals'[j] = row
          /\ \A k \in Journals : k # j => journals'[k] = journals[k]
          /\ requests'[r] = Idle
          /\ \A q \in Requests : q # r => requests'[q] = requests[q]
    BY <1>3, WriteEffect
  <2>2. counter \in Nat /\ \A k \in Journals : journals[k].number \in Nat
    BY NumberAssumption DEF TypeOK, Journal
  <2>3. CASE /\ UNCHANGED <<counter, seqLock>>
             /\ row.number # 0 => /\ row.number = journals[j].number
                                  /\ row.periodId = journals[j].periodId
                                  /\ row.postedBy = journals[j].postedBy
             /\ row.number = 0 => row.periodId = None /\ row.postedBy = None
             /\ row.status = "POSTED" => row.number # 0
    <3>1. LedgerNumbering'
      BY <2>1, <2>2, <2>3 DEF Numbering, LedgerNumbering
    <3> QED BY <1>0, <2>1, <2>3, <3>1 DEF Numbering
  <2>4. CASE /\ requests[r].op \in PostOps /\ requests[r].pc = "write"
             /\ row.number = requests[r].number /\ row.periodId = requests[r].period
             /\ row.postedBy = requests[r].by
             /\ counter' = requests[r].number /\ seqLock' = None
    <3>1. /\ seqLock = r /\ row.number = counter + 1 /\ counter' = counter + 1
          /\ row.periodId # None /\ row.postedBy # None
      BY <2>4 DEF Numbering
    <3>2. \A k \in Journals : journals[k].number <= counter
      BY DEF Numbering, LedgerNumbering
    <3>3. LedgerNumbering'
      BY <2>1, <2>2, <3>1, <3>2 DEF Numbering, LedgerNumbering
    <3>4. \A q \in Requests : q # r /\ requests[q].op \in PostOps =>
            requests[q].pc \notin {"guard", "write"}
      BY <3>1 DEF Numbering
    <3> QED BY <1>0, <2>1, <3>3, <3>4 DEF Numbering
  <2> QED BY <2>1, <2>3, <2>4 DEF Inserted, Updated, Posting, Numbering, LedgerNumbering
<1>4. CASE UNCHANGED <<journals, counter, seqLock, requests, history>>
  BY <1>4 DEF Numbering, LedgerNumbering
<1> QED BY <1>1, <1>2, <1>3, <1>4, StepCases

(* However posts overlap, no two journals get the same number and none gets *)
(* one the sequence has not given out.                                      *)
THEOREM NumbersUnique == Spec => []LedgerNumbering
<1>1. Init => Numbering
  BY DEF Init, Numbering, LedgerNumbering, NoJournal, Idle, PostOps
<1>2. TypeOK /\ Targets /\ Numbering /\ [Next]_vars => Numbering'
  BY NumberingStep
<1>3. Numbering => LedgerNumbering
  BY DEF Numbering
<1> QED BY <1>1, <1>2, <1>3, TypeCorrect, PTL DEF Spec

-----------------------------------------------------------------------------
(* When requests on one journal do not overlap.                            *)

(* A journal is held by one request at most.                               *)
Alone ==
  \A q, r \in Requests :
    q # r /\ requests[q].j # None => requests[q].j # requests[r].j

(* What a handler checked when it loaded its row is still so.              *)
StillHolds(req) ==
  /\ req.j # None => journals[req.j].status \in HeldStatuses(req.op)
  /\ req.op \in {"submit"} \cup PostOps => Balanced(journals[req.j].content)
  /\ req.op = "create" => req.j = None /\ req.by \in Users
  /\ req.op \in CreateOps => req.content \in Contents
  /\ req.op \in {"review"} \cup PostOps => req.real \in Users

(* The lines of a journal, and what its trail says of its review.          *)
RowSound(row, trail) ==
  /\ row.status # "NONE" => row.createdBy \in Users /\ row.content \in Contents
  /\ row.status \in {"DRAFT", "SUBMITTED", "REJECTED"} => trail.reviewer = None
  /\ row.status = "REVIEWED" => trail.reviewed = row.content
  /\ row.status = "POSTED" => Balanced(row.content) /\ trail.reviewed = row.content

Serial ==
  /\ Alone
  /\ \A r \in Requests : StillHolds(requests[r])
  /\ \A j \in Journals : RowSound(journals[j], history[j])

(* With no delegation in force the reviewer on the row is the person who   *)
(* reviewed, and the policy kept him from posting.                         *)
ReviewerKnown(row, trail) ==
  /\ row.status = "REVIEWED" => row.reviewedBy = trail.reviewer
  /\ row.status = "POSTED" /\ ~trail.override => trail.poster # trail.reviewer

OwnHands ==
  /\ \A r \in Requests :
       /\ requests[r].op = "review" => requests[r].by = requests[r].real
       /\ requests[r].op = "post" =>
            requests[r].real # history[requests[r].j].reviewer
  /\ \A j \in Journals : ReviewerKnown(journals[j], history[j])

(* What a write does to the row it writes keeps the row sound.             *)
LEMMA WriteSound ==
  ASSUME TypeOK, Targets, Serial, NEW r \in Requests, NEW j \in Journals,
         NEW row \in Journal, NEW trail \in Trail,
         Inserted(r, j, row, trail) \/ Updated(r, j, row, trail)
  PROVE  RowSound(row, trail)
<1>1. CASE Inserted(r, j, row, trail)
  <2>1. row.content \in Contents
    BY <1>1 DEF Inserted, Serial, StillHolds, CreateOps
  <2>2. row.createdBy \in Users
    <3>1. CASE requests[r].op = "create"
      BY <1>1, <3>1 DEF Inserted, Serial, StillHolds
    <3>2. CASE requests[r].op = "reverse"
      BY <1>1, <3>2 DEF Inserted, Serial, RowSound, Targets
    <3> QED BY <1>1, <3>1, <3>2 DEF Inserted
  <2> QED BY <1>1, <2>1, <2>2 DEF Inserted, RowSound, NoTrail
<1>2. CASE Updated(r, j, row, trail)
  <2> DEFINE req == requests[r]
  <2>1. /\ j = req.j /\ req.op \in InPlaceOps /\ j # None
        /\ RowSound(journals[j], history[j]) /\ StillHolds(req)
        /\ journals[j].status # "NONE" /\ req.content \in Contents \cup {None}
    BY <1>2, NoneAssumption DEF Updated, Serial, Targets, TypeOK, Request
  <2>2. journals[j].status \in HeldStatuses(req.op)
    BY <2>1 DEF StillHolds
  <2>3. /\ row.createdBy = journals[j].createdBy
        /\ journals[j].createdBy \in Users /\ journals[j].content \in Contents
    BY <1>2, <2>1 DEF Updated, SameMakers, RowSound
  <2>4. row.content \in Contents
    BY <1>2, <2>1, <2>3 DEF Updated, Outcome, NewContent, Row
  <2>5. CASE req.op = "update"
    <3>1. journals[j].status \in {"DRAFT", "REJECTED"}
      BY <2>2, <2>5 DEF HeldStatuses, PostOps
    <3>2. row.status = journals[j].status /\ trail = history[j]
      BY <1>2, <2>1, <2>5 DEF Updated, Outcome, PostOps
    <3> QED BY <2>1, <2>3, <2>4, <3>1, <3>2 DEF RowSound
  <2>6. CASE req.op \in {"park", "void"}
    BY <1>2, <2>1, <2>3, <2>4, <2>6 DEF Updated, Outcome, RowSound, PostOps
  <2>7. CASE req.op \in {"submit", "return", "reject"}
    BY <1>2, <2>1, <2>3, <2>4, <2>7 DEF Updated, Outcome, Forgotten, RowSound, PostOps
  <2>8. CASE req.op = "review"
    BY <1>2, <2>1, <2>3, <2>4, <2>8 DEF Updated, Outcome, RowSound, PostOps
  <2>9. CASE req.op \in PostOps
    <3>1. journals[j].status = "REVIEWED"
      BY <2>2, <2>9 DEF HeldStatuses, PostOps
    <3>2. Balanced(journals[j].content)
      BY <2>1, <2>9 DEF StillHolds
    <3>3. /\ row.status = "POSTED" /\ row.content = journals[j].content
          /\ trail.reviewed = history[j].reviewed
      BY <1>2, <2>1, <2>9 DEF Updated, Outcome, PostOps
    <3> QED BY <2>1, <2>3, <2>4, <3>1, <3>2, <3>3 DEF RowSound
  <2> QED BY <2>1, <2>5, <2>6, <2>7, <2>8, <2>9 DEF InPlaceOps
<1> QED BY <1>1, <1>2

(* What another request checked is not disturbed by a write to row j.      *)
LEMMA OthersUndisturbed ==
  ASSUME TypeOK, Targets, Alone, NEW r \in Requests, NEW q \in Requests, q # r,
         NEW j \in Journals, NEW row \in Journal, NEW trail \in Trail,
         Inserted(r, j, row, trail) \/ Updated(r, j, row, trail),
         requests[q].op \in InPlaceOps \cup {"reverse"}
  PROVE  requests[q].j \in Journals /\ requests[q].j # j
<1>1. requests[q].j \in Journals /\ journals[requests[q].j].status # "NONE"
  BY DEF Targets
<1>2. CASE Inserted(r, j, row, trail)
  BY <1>1, <1>2 DEF Inserted
<1>3. CASE Updated(r, j, row, trail)
  BY <1>1, <1>3, NoneAssumption DEF Updated, Alone
<1> QED BY <1>1, <1>2, <1>3

LEMMA SerialStep ==
  ASSUME SerialPerJournal, TypeOK, Targets, Serial, [Next]_vars
  PROVE  Serial'
<1>0. /\ Idle.j = None /\ Idle.op = "idle"
      /\ \A r \in Requests : requests[r] \in Request
      /\ "idle" \notin {"submit", "create", "review"} \cup PostOps \cup CreateOps
  BY DEF Idle, TypeOK, PostOps, CreateOps
<1>1. ASSUME NEW r \in Requests, Load(r) PROVE Serial'
  <2>1. PICK req \in Request : Start(r, req) /\ Loaded(req)
    BY <1>1, LoadStarts
  <2>2. /\ UNCHANGED <<journals, history>>
        /\ requests' = [requests EXCEPT ![r] = req]
    BY <2>1 DEF Start, Become, tableVars
  <2>3. requests'[r] = req /\ \A q \in Requests : q # r => requests'[q] = requests[q]
    BY <2>2 DEF TypeOK
  <2>4. req.j # None => \A q \in Requests : requests[q].j # req.j
    BY <2>1 DEF Loaded, Free
  <2>5. Alone'
    BY <2>3, <2>4 DEF Serial, Alone
  <2>6. StillHolds(req)
    <3>1. req.op = "reverse" => req.content \in Contents
      BY <2>1 DEF Loaded, Serial, RowSound
    <3> QED BY <2>1, <3>1 DEF Loaded, StillHolds, CreateOps
  <2>7. \A q \in Requests : StillHolds(requests[q])'
    BY <2>2, <2>3, <2>6 DEF Serial, StillHolds, Balanced
  <2> QED BY <2>2, <2>5, <2>7 DEF Serial, RowSound, Balanced
<1>2. ASSUME NEW r \in Requests, Check(r) \/ Abort(r) PROVE Serial'
  <2>1. PICK req \in Request :
          /\ Become(r, req)
          /\ \/ req = Idle
             \/ /\ req.op = requests[r].op /\ req.j = requests[r].j
                /\ req.real = requests[r].real /\ req.by = requests[r].by
                /\ req.content = requests[r].content
    BY <1>2, CheckKeeps
  <2>2. /\ UNCHANGED <<journals, history>>
        /\ requests' = [requests EXCEPT ![r] = req]
    BY <1>2, <2>1, CheckKeeps DEF Become
  <2>3. requests'[r] = req /\ \A q \in Requests : q # r => requests'[q] = requests[q]
    BY <2>2 DEF TypeOK
  <2>4. req.j # None => req.j = requests[r].j
    BY <1>0, <2>1
  <2>5. Alone'
    BY <2>3, <2>4 DEF Serial, Alone
  <2>6. StillHolds(req)
    BY <1>0, <2>1 DEF Serial, StillHolds
  <2>7. \A q \in Requests : StillHolds(requests[q])'
    BY <2>2, <2>3, <2>6 DEF Serial, StillHolds, Balanced
  <2> QED BY <2>2, <2>5, <2>7 DEF Serial, RowSound, Balanced
<1>3. ASSUME NEW r \in Requests, Write(r) PROVE Serial'
  <2>1. PICK j \in Journals, row \in Journal, trail \in Trail :
          /\ Inserted(r, j, row, trail) \/ Updated(r, j, row, trail)
          /\ journals'[j] = row /\ history'[j] = trail
          /\ \A k \in Journals : k # j => /\ journals'[k] = journals[k]
                                          /\ history'[k] = history[k]
          /\ requests'[r] = Idle
          /\ \A q \in Requests : q # r => requests'[q] = requests[q]
    BY <1>3, WriteEffect
  <2>2. Alone'
    BY <1>0, <2>1 DEF Serial, Alone
  <2>3. RowSound(row, trail)
    BY <2>1, WriteSound
  <2>4. ASSUME NEW k \in Journals PROVE RowSound(journals[k], history[k])'
    BY <2>1, <2>3 DEF Serial, RowSound, Balanced
  <2>5. ASSUME NEW q \in Requests PROVE StillHolds(requests[q])'
    <3>1. CASE q = r
      BY <1>0, <2>1, <3>1 DEF StillHolds
    <3>2. CASE q # r /\ requests[q].op \in InPlaceOps \cup {"reverse"}
      <4>1. requests[q].j \in Journals /\ requests[q].j # j
        BY <2>1, <3>2, OthersUndisturbed DEF Serial
      <4> QED BY <2>1, <3>2, <4>1 DEF Serial, StillHolds, Balanced
    <3>3. CASE q # r /\ requests[q].op \notin InPlaceOps \cup {"reverse"}
      <4>1. requests[q].j = None
        BY <3>3 DEF Serial, StillHolds, HeldStatuses, InPlaceOps
      <4> QED BY <2>1, <3>3, <4>1 DEF Serial, StillHolds, InPlaceOps, PostOps
    <3> QED BY <3>1, <3>2, <3>3
  <2> QED BY <2>2, <2>4, <2>5 DEF Serial
<1>4. CASE UNCHANGED <<journals, counter, seqLock, requests, history>>
  BY <1>4 DEF Serial, Alone, StillHolds, RowSound, Balanced
<1> QED BY <1>1, <1>2, <1>3, <1>4, StepCases

LEMMA InitSerial == Init => Serial
BY DEF Init, Serial, Alone, StillHolds, RowSound, Idle, NoJournal, NoTrail, PostOps,
       CreateOps

LEMMA SerialHolds ==
  ASSUME SerialPerJournal
  PROVE  Spec => [](TypeOK /\ Targets /\ Serial)
<1>1. Init => TypeOK /\ Targets /\ Serial
  BY InitTyped, InitTargets, InitSerial
<1>2. TypeOK /\ Targets /\ Serial /\ [Next]_vars => (TypeOK /\ Targets /\ Serial)'
  BY TypeStep, TargetsStep, SerialStep
<1> QED BY <1>1, <1>2, PTL DEF Spec

(* As long as requests on one journal do not overlap, what is in the        *)
(* ledger balances and is exactly what its reviewer saw.                    *)
THEOREM PostedReviewed ==
  ASSUME SerialPerJournal
  PROVE  Spec => []PostedAsReviewed
<1>1. Serial => PostedAsReviewed
  BY DEF Serial, RowSound, PostedAsReviewed
<1> QED BY <1>1, SerialHolds, PTL

-----------------------------------------------------------------------------
(* What a write makes of the reviewer, when everybody acts for himself.     *)
LEMMA WriteKnows ==
  ASSUME TypeOK, Targets, Serial, OwnHands, NEW r \in Requests, NEW j \in Journals,
         NEW row \in Journal, NEW trail \in Trail,
         Inserted(r, j, row, trail) \/ Updated(r, j, row, trail)
  PROVE  ReviewerKnown(row, trail)
<1>1. CASE Inserted(r, j, row, trail)
  BY <1>1 DEF Inserted, ReviewerKnown
<1>2. CASE Updated(r, j, row, trail)
  <2> DEFINE req == requests[r]
  <2>1. /\ j = req.j /\ req.op \in InPlaceOps
        /\ ReviewerKnown(journals[j], history[j])
        /\ req.op = "review" => req.by = req.real
        /\ req.op = "post" => req.real # history[j].reviewer
    BY <1>2 DEF Updated, OwnHands
  <2>2. Outcome(r, row, trail)
    BY <1>2 DEF Updated
  <2>3. CASE req.op \in PostOps
    BY <2>1, <2>2, <2>3 DEF Outcome, ReviewerKnown, PostOps
  <2>4. CASE req.op = "update"
    BY <2>1, <2>2, <2>4 DEF Outcome, ReviewerKnown, PostOps
  <2>5. CASE req.op \notin PostOps \cup {"update"}
    BY <2>1, <2>2, <2>5 DEF Outcome, ReviewerKnown
  <2> QED BY <2>3, <2>4, <2>5
<1> QED BY <1>1, <1>2

LEMMA OwnHandsStep ==
  ASSUME SerialPerJournal, Delegations = {}, TypeOK, Targets, Serial, OwnHands,
         [Next]_vars
  PROVE  OwnHands'
<1>0. Idle.op \notin {"review", "post"}
  BY DEF Idle
<1>1. ASSUME NEW r \in Requests, Load(r) PROVE OwnHands'
  <2>1. PICK req \in Request : Start(r, req) /\ Loaded(req)
    BY <1>1, LoadStarts
  <2>2. /\ UNCHANGED <<journals, history>>
        /\ requests' = [requests EXCEPT ![r] = req]
    BY <2>1 DEF Start, Become, tableVars
  <2>3. req.op = "review" => req.by = req.real
    BY <2>1 DEF Loaded
  <2>4. req.op = "post" => req.real # history[req.j].reviewer
    <3>1. req.op = "post" => /\ req.j \in Journals /\ req.real # journals[req.j].reviewedBy
                             /\ journals[req.j].status \in HeldStatuses("post")
      BY <2>1, NoneAssumption DEF Loaded
    <3>2. HeldStatuses("post") = {"REVIEWED"}
      BY DEF HeldStatuses, PostOps
    <3> QED BY <3>1, <3>2 DEF OwnHands, ReviewerKnown
  <2> QED BY <2>2, <2>3, <2>4 DEF OwnHands, ReviewerKnown, TypeOK
<1>2. ASSUME NEW r \in Requests, Check(r) \/ Abort(r) PROVE OwnHands'
  <2>1. PICK req \in Request :
          /\ Become(r, req)
          /\ \/ req = Idle
             \/ /\ req.op = requests[r].op /\ req.j = requests[r].j
                /\ req.real = requests[r].real /\ req.by = requests[r].by
    BY <1>2, CheckKeeps
  <2>2. /\ UNCHANGED <<journals, history>>
        /\ requests' = [requests EXCEPT ![r] = req]
    BY <1>2, <2>1, CheckKeeps DEF Become
  <2>3. /\ req.op = "review" => req.by = req.real
        /\ req.op = "post" => req.real # history[req.j].reviewer
    BY <1>0, <2>1 DEF OwnHands
  <2> QED BY <2>2, <2>3 DEF OwnHands, ReviewerKnown, TypeOK
<1>3. ASSUME NEW r \in Requests, Write(r) PROVE OwnHands'
  <2>1. PICK j \in Journals, row \in Journal, trail \in Trail :
          /\ Inserted(r, j, row, trail) \/ Updated(r, j, row, trail)
          /\ journals'[j] = row /\ history'[j] = trail
          /\ \A k \in Journals : k # j => /\ journals'[k] = journals[k]
                                          /\ history'[k] = history[k]
          /\ requests'[r] = Idle
          /\ \A q \in Requests : q # r => requests'[q] = requests[q]
    BY <1>3, WriteEffect
  <2>2. ReviewerKnown(row, trail)
    BY <2>1, WriteKnows
  <2>3. ASSUME NEW k \in Journals PROVE ReviewerKnown(journals[k], history[k])'
    BY <2>1, <2>2 DEF OwnHands, ReviewerKnown
  <2>4. ASSUME NEW q \in Requests, q # r, requests[q].op = "post"
        PROVE  history'[requests[q].j] = history[requests[q].j]
    <3>1. requests[q].j \in Journals /\ requests[q].j # j
      BY <2>1, <2>4, OthersUndisturbed DEF Serial, InPlaceOps, PostOps
    <3> QED BY <2>1, <3>1
  <2> QED BY <1>0, <2>1, <2>3, <2>4 DEF OwnHands
<1>4. CASE UNCHANGED <<journals, counter, seqLock, requests, history>>
  BY <1>4 DEF OwnHands, ReviewerKnown
<1> QED BY <1>1, <1>2, <1>3, <1>4, StepCases

LEMMA OwnHandsHold ==
  ASSUME SerialPerJournal, Delegations = {}
  PROVE  Spec => []OwnHands
<1>1. Init => OwnHands
  BY DEF Init, OwnHands, ReviewerKnown, Idle, NoJournal
<1>2. TypeOK /\ Targets /\ Serial /\ OwnHands /\ [Next]_vars => OwnHands'
  BY OwnHandsStep
<1> QED BY <1>1, <1>2, SerialHolds, PTL DEF Spec

(* With nobody acting for another and one request at a time on a journal,   *)
(* a journal posted without the override was prepared, reviewed and posted  *)
(* by three different people.                                               *)
THEOREM ThreePeople ==
  ASSUME SerialPerJournal, Delegations = {}
  PROVE  Spec => []ThreeEyes
<1>1. Serial /\ OwnHands /\ MakerIsNotChecker => ThreeEyes
  <2> SUFFICES ASSUME Serial, OwnHands, MakerIsNotChecker, NEW j \in Journals,
                      journals[j].status = "POSTED", ~history[j].override
               PROVE  /\ history[j].reviewer # journals[j].createdBy
                      /\ history[j].poster \notin {journals[j].createdBy, history[j].reviewer}
    BY DEF ThreeEyes
  <2>1. journals[j].createdBy \in {journals[j].createdBy, journals[j].initiatedBy} \ {None}
    BY NoneAssumption DEF Serial, RowSound
  <2>2. history[j].reviewer # journals[j].createdBy /\ history[j].poster # journals[j].createdBy
    BY <2>1 DEF MakerIsNotChecker
  <2>3. history[j].poster # history[j].reviewer
    BY DEF OwnHands, ReviewerKnown
  <2> QED BY <2>2, <2>3
<1> QED BY <1>1, SerialHolds, OwnHandsHold, MakerChecker, PTL

-----------------------------------------------------------------------------
(* The row a write updates has a status its handler accepts.                *)
LEMMA UpdatesHeld ==
  ASSUME Targets, Serial, NEW r \in Requests, NEW j \in Journals, NEW row, NEW trail,
         Updated(r, j, row, trail)
  PROVE  journals[j].status \in HeldStatuses(requests[r].op)
BY NoneAssumption DEF Updated, Serial, StillHolds

LEMMA StatusesHeld ==
  /\ HeldStatuses("update") = {"DRAFT", "REJECTED"}
  /\ HeldStatuses("submit") = {"DRAFT", "REJECTED"}
  /\ HeldStatuses("park") = {"DRAFT"}
  /\ HeldStatuses("void") = {"DRAFT", "PARKED", "SUBMITTED", "REVIEWED", "REJECTED"}
  /\ HeldStatuses("review") = {"SUBMITTED"}
  /\ HeldStatuses("reject") = {"SUBMITTED"}
  /\ HeldStatuses("return") = {"REVIEWED"}
  /\ HeldStatuses("post") = {"REVIEWED"}
  /\ HeldStatuses("postOverride") = {"REVIEWED"}
BY DEF HeldStatuses, PostOps

(* One step changes a row by a write, or not at all.                        *)
LEMMA RowCases ==
  ASSUME TypeOK, Targets, [Next]_vars
  PROVE  \/ UNCHANGED <<journals, history>>
         \/ \E r \in Requests, j \in Journals, row \in Journal, trail \in Trail :
              /\ Inserted(r, j, row, trail) \/ Updated(r, j, row, trail)
              /\ journals' = [journals EXCEPT ![j] = row]
              /\ history' = [history EXCEPT ![j] = trail]
<1>1. ASSUME NEW r \in Requests, Load(r) PROVE UNCHANGED <<journals, history>>
  BY <1>1, LoadStarts DEF Start, tableVars
<1>2. ASSUME NEW r \in Requests, Check(r) \/ Abort(r) PROVE UNCHANGED <<journals, history>>
  BY <1>2, CheckKeeps
<1>3. ASSUME NEW r \in Requests, Write(r)
      PROVE  \E j \in Journals, row \in Journal, trail \in Trail :
               /\ Inserted(r, j, row, trail) \/ Updated(r, j, row, trail)
               /\ journals' = [journals EXCEPT ![j] = row]
               /\ history' = [history EXCEPT ![j] = trail]
  BY <1>3, WriteShape
<1> QED BY <1>1, <1>2, <1>3, StepCases

LEMMA PostedUnwritten ==
  ASSUME TypeOK, Targets, Serial, [Next]_vars, NEW k \in Journals,
         journals[k].status = "POSTED"
  PROVE  journals'[k] = journals[k]
<1>1. CASE UNCHANGED <<journals, history>>
  BY <1>1
<1>2. ASSUME NEW r \in Requests, NEW j \in Journals, NEW row \in Journal,
             NEW trail \in Trail,
             Inserted(r, j, row, trail) \/ Updated(r, j, row, trail),
             journals' = [journals EXCEPT ![j] = row]
      PROVE  journals'[k] = journals[k]
  <2>1. CASE Inserted(r, j, row, trail)
    BY <1>2, <2>1 DEF Inserted, TypeOK
  <2>2. CASE Updated(r, j, row, trail)
    <3>1. journals[j].status \in HeldStatuses(requests[r].op)
      BY <2>2, UpdatesHeld
    <3>2. journals[j].status # "POSTED"
      BY <2>2, <3>1, StatusesHeld DEF Updated, InPlaceOps, PostOps
    <3> QED BY <1>2, <3>2 DEF TypeOK
  <2> QED BY <1>2, <2>1, <2>2
<1> QED BY <1>1, <1>2, RowCases

(* As long as requests on one journal do not overlap, a POSTED journal is   *)
(* never changed again.                                                     *)
THEOREM PostedStays ==
  ASSUME SerialPerJournal
  PROVE  Spec => PostedIsImmutable
<1>1. TypeOK /\ Targets /\ Serial /\ [Next]_vars =>
        \A j \in Journals : journals[j].status = "POSTED" => journals'[j] = journals[j]
  BY PostedUnwritten
<1> QED BY <1>1, SerialHolds, PTL DEF Spec, PostedIsImmutable

(* As long as requests on one journal do not overlap, lines are edited only *)
(* in a draft or a rejected journal.                                        *)
THEOREM EditsDrafts ==
  ASSUME SerialPerJournal
  PROVE  Spec => EditsOnlyDraftOrRejected
<1>1. ASSUME TypeOK, Targets, Serial, [Next]_vars, NEW k \in Journals,
             journals'[k].content # journals[k].content
      PROVE  journals[k].status \in {"NONE", "DRAFT", "REJECTED"}
  <2>1. PICK r \in Requests, j \in Journals, row \in Journal, trail \in Trail :
          /\ Inserted(r, j, row, trail) \/ Updated(r, j, row, trail)
          /\ journals' = [journals EXCEPT ![j] = row]
    BY <1>1, RowCases
  <2>2. k = j /\ row.content # journals[j].content
    BY <1>1, <2>1 DEF TypeOK
  <2>3. CASE Inserted(r, j, row, trail)
    BY <2>2, <2>3 DEF Inserted
  <2>4. CASE Updated(r, j, row, trail)
    <3>1. requests[r].op = "update"
      BY <2>2, <2>4 DEF Updated, Outcome
    <3> QED BY <1>1, <2>2, <2>4, <3>1, UpdatesHeld, StatusesHeld
  <2> QED BY <2>1, <2>3, <2>4
<1>2. TypeOK /\ Targets /\ Serial /\ [Next]_vars =>
        \A j \in Journals : journals'[j].content # journals[j].content
                              => journals[j].status \in {"NONE", "DRAFT", "REJECTED"}
  BY <1>1
<1> QED BY <1>2, SerialHolds, PTL DEF Spec, EditsOnlyDraftOrRejected

-----------------------------------------------------------------------------
(* The refinement: a write is one atomic step of the workflow.              *)
Record(status, maker, content, reviewer, poster, path) ==
  [status |-> status, maker |-> maker, content |-> content, reviewer |-> reviewer,
   poster |-> poster, path |-> path]

Entry(row, trail) ==
  Record(row.status, row.createdBy, row.content, trail.reviewer, trail.poster,
         PathOf(trail))

LEMMA InsertIsDraft ==
  ASSUME TypeOK, Targets, Serial, NEW r \in Requests, NEW j \in Journals,
         NEW row \in Journal, NEW trail \in Trail, Inserted(r, j, row, trail),
         Book' = [Book EXCEPT ![j] = Entry(row, trail)]
  PROVE  Lifecycle!Draft(j)
<1>1. RowSound(row, trail)
  BY WriteSound
<1>2. row.createdBy \in Users /\ row.content \in Contents
  BY <1>1 DEF RowSound, Inserted
<1>3. Book[j].status = "NONE"
  BY DEF Book, Inserted
<1>4. Entry(row, trail) = [Lifecycle!NoEntry EXCEPT !.status = "DRAFT",
                             !.maker = row.createdBy, !.content = row.content]
  <2> DEFINE inDraft == [Lifecycle!NoEntry EXCEPT !.status = "DRAFT"]
             made == [inDraft EXCEPT !.maker = row.createdBy]
  <2>1. inDraft = Record("DRAFT", None, None, None, None, "policy")
    BY DEF Record, Lifecycle!NoEntry
  <2>2. made = Record("DRAFT", row.createdBy, None, None, None, "policy")
    <3> HIDE DEF inDraft
    <3> QED BY <2>1 DEF Record
  <2>3. [made EXCEPT !.content = row.content]
          = Record("DRAFT", row.createdBy, row.content, None, None, "policy")
    <3> HIDE DEF made
    <3> QED BY <2>2 DEF Record
  <2>4. row.status = "DRAFT" /\ trail = NoTrail
    BY DEF Inserted
  <2>5. Entry(row, NoTrail)
          = Record("DRAFT", row.createdBy, row.content, None, None, "policy")
    BY <2>4 DEF Record, Entry, NoTrail, PathOf
  <2> QED BY <2>3, <2>4, <2>5
<1> QED BY <1>2, <1>3, <1>4 DEF Lifecycle!Draft, Lifecycle!Move

LEMMA UpdateIsStep ==
  ASSUME TypeOK, Targets, Serial, OwnHands, Makers, NEW r \in Requests,
         NEW j \in Journals, NEW row \in Journal, NEW trail \in Trail,
         Updated(r, j, row, trail),
         Book' = [Book EXCEPT ![j] = Entry(row, trail)]
  PROVE  Lifecycle!Next
<1> DEFINE req == requests[r]
<1>1. /\ j = req.j /\ req.op \in InPlaceOps
      /\ Outcome(r, row, trail) /\ row.createdBy = journals[j].createdBy
      /\ req.content \in Contents \cup {None}
  BY DEF Updated, SameMakers, TypeOK, Request
<1>2. journals[j].status \in HeldStatuses(req.op)
  BY UpdatesHeld
<1>3. RowSound(journals[j], history[j]) /\ StillHolds(req)
  BY DEF Serial
<1>4. /\ Book[j] = Entry(journals[j], history[j])
      /\ Book[j].status = journals[j].status /\ Book[j].maker = journals[j].createdBy
      /\ Book[j].content = journals[j].content /\ Book[j].reviewer = history[j].reviewer
  BY DEF Book, Entry, Record
<1>5. journals[j].content \in Contents
  BY <1>3 DEF RowSound, Updated, Targets
<1>6. CASE req.op = "update"
  <2>1. row.content \in Contents
    BY <1>1, <1>5, <1>6 DEF Outcome, NewContent, Row
  <2>2. Entry(row, trail) = [Book[j] EXCEPT !.content = row.content]
    BY <1>1, <1>4, <1>6 DEF Record, Entry, Outcome, PostOps
  <2>3. Lifecycle!Edit(j)
    BY <1>2, <1>4, <1>6, <2>1, <2>2, StatusesHeld DEF Lifecycle!Edit, Lifecycle!Move
  <2> QED BY <2>3 DEF Lifecycle!Next
<1>7. CASE req.op = "park"
  <2>1. Entry(row, trail) = [Book[j] EXCEPT !.status = "PARKED"]
    BY <1>1, <1>4, <1>7 DEF Record, Entry, Outcome, PostOps
  <2>2. Lifecycle!Park(j)
    BY <1>2, <1>4, <1>7, <2>1, StatusesHeld DEF Lifecycle!Park, Lifecycle!Move
  <2> QED BY <2>2 DEF Lifecycle!Next
<1>8. CASE req.op = "void"
  <2>1. Entry(row, trail) = [Book[j] EXCEPT !.status = "VOIDED"]
    BY <1>1, <1>4, <1>8 DEF Record, Entry, Outcome, PostOps
  <2>2. Lifecycle!Void(j)
    BY <1>2, <1>4, <1>8, <2>1, StatusesHeld DEF Lifecycle!Void, Lifecycle!Move
  <2> QED BY <2>2 DEF Lifecycle!Next
<1>9. CASE req.op = "submit"
  <2>1. history[j].reviewer = None /\ journals[j].content \in BalancedContents
    BY <1>1, <1>2, <1>3, <1>9, StatusesHeld DEF RowSound, StillHolds, Balanced
  <2>2. Entry(row, trail) = [Book[j] EXCEPT !.status = "SUBMITTED"]
    BY <1>1, <1>4, <1>9, <2>1 DEF Record, Entry, Outcome, Forgotten, PostOps, PathOf
  <2>3. Lifecycle!Submit(j)
    BY <1>2, <1>4, <1>9, <2>1, <2>2, StatusesHeld
       DEF Lifecycle!Submit, Lifecycle!Move
  <2> QED BY <2>3 DEF Lifecycle!Next
<1>10. CASE req.op = "review"
  <2>1. req.real \in Users \ {Book[j].maker}
    BY <1>1, <1>3, <1>4, <1>10 DEF StillHolds, Makers
  <2>2. Entry(row, trail) = [Book[j] EXCEPT !.status = "REVIEWED", !.reviewer = req.real]
    <3>1. /\ row.status = "REVIEWED" /\ row.content = journals[j].content
          /\ trail.reviewer = req.real /\ trail.poster = history[j].poster
          /\ PathOf(trail) = PathOf(history[j])
      BY <1>1, <1>10 DEF Outcome, PostOps, PathOf
    <3> DEFINE moved == [Book[j] EXCEPT !.status = "REVIEWED"]
    <3>2. moved = Record("REVIEWED", journals[j].createdBy, journals[j].content,
                         history[j].reviewer, history[j].poster, PathOf(history[j]))
      BY <1>4 DEF Entry, Record
    <3>3. [moved EXCEPT !.reviewer = req.real] = Entry(row, trail)
      <4> HIDE DEF moved
      <4> QED BY <1>1, <3>1, <3>2 DEF Entry, Record
    <3> QED BY <3>3
  <2>3. Lifecycle!Review(j)
    BY <1>2, <1>4, <1>10, <2>1, <2>2, StatusesHeld
       DEF Lifecycle!Review, Lifecycle!Move
  <2> QED BY <2>3 DEF Lifecycle!Next
<1>11. CASE req.op = "reject"
  <2>1. history[j].reviewer = None
    BY <1>2, <1>3, <1>11, StatusesHeld DEF RowSound
  <2>2. Entry(row, trail) = [Book[j] EXCEPT !.status = "REJECTED"]
    BY <1>1, <1>4, <1>11, <2>1 DEF Record, Entry, Outcome, Forgotten, PostOps, PathOf
  <2>3. Lifecycle!Reject(j)
    BY <1>2, <1>4, <1>11, <2>2, StatusesHeld DEF Lifecycle!Reject, Lifecycle!Move
  <2> QED BY <2>3 DEF Lifecycle!Next
<1>12. CASE req.op = "return"
  <2>1. Entry(row, trail) = [Book[j] EXCEPT !.status = "SUBMITTED", !.reviewer = None]
    <3>1. /\ row.status = "SUBMITTED" /\ row.content = journals[j].content
          /\ trail.reviewer = None /\ trail.poster = history[j].poster
          /\ PathOf(trail) = PathOf(history[j])
      BY <1>1, <1>12 DEF Outcome, Forgotten, PostOps, PathOf
    <3> DEFINE moved == [Book[j] EXCEPT !.status = "SUBMITTED"]
    <3>2. moved = Record("SUBMITTED", journals[j].createdBy, journals[j].content,
                         history[j].reviewer, history[j].poster, PathOf(history[j]))
      BY <1>4 DEF Entry, Record
    <3>3. [moved EXCEPT !.reviewer = None] = Entry(row, trail)
      <4> HIDE DEF moved
      <4> QED BY <1>1, <3>1, <3>2 DEF Entry, Record
    <3> QED BY <3>3
  <2>2. Lifecycle!Return(j)
    BY <1>2, <1>4, <1>12, <2>1, StatusesHeld DEF Lifecycle!Return, Lifecycle!Move
  <2> QED BY <2>2 DEF Lifecycle!Next
<1>13. CASE req.op \in PostOps
  <2>1. journals[j].content \in BalancedContents /\ req.real \in Users
    BY <1>1, <1>3, <1>13 DEF StillHolds, Balanced
  <2>2. journals[j].status = "REVIEWED"
    BY <1>2, <1>13, StatusesHeld DEF PostOps
  <2>3. /\ row.status = "POSTED" /\ row.content = journals[j].content
        /\ trail.reviewer = history[j].reviewer /\ trail.poster = req.real
        /\ trail.override = (req.op = "postOverride")
    BY <1>1, <1>13 DEF Outcome, PostOps
  <2> DEFINE moved == [Book[j] EXCEPT !.status = "POSTED"]
             posted == [moved EXCEPT !.poster = req.real]
  <2>6. moved = Record("POSTED", journals[j].createdBy, journals[j].content,
                       history[j].reviewer, history[j].poster, PathOf(history[j]))
    BY <1>4 DEF Entry, Record
  <2>7. posted = Record("POSTED", journals[j].createdBy, journals[j].content,
                        history[j].reviewer, req.real, PathOf(history[j]))
    <3> HIDE DEF moved
    <3> QED BY <2>6 DEF Record
  <2>4. CASE req.op = "post"
    <3>1. req.real \notin {journals[j].createdBy, history[j].reviewer}
      BY <1>1, <2>4 DEF Makers, OwnHands
    <3>2. Entry(row, trail) = [Book[j] EXCEPT !.status = "POSTED", !.poster = req.real,
                                              !.path = "policy"]
      <4>1. PathOf(trail) = "policy"
        BY <2>3, <2>4 DEF PathOf
      <4>2. [posted EXCEPT !.path = "policy"] = Entry(row, trail)
        <5> HIDE DEF posted
        <5> QED BY <1>1, <2>3, <2>7, <4>1 DEF Entry, Record
      <4> QED BY <4>2
    <3>3. Lifecycle!Post(j)
      BY <1>4, <2>1, <2>2, <3>1, <3>2 DEF Lifecycle!Post, Lifecycle!Move
    <3> QED BY <3>3 DEF Lifecycle!Next
  <2>5. CASE req.op = "postOverride"
    <3>1. Entry(row, trail) = [Book[j] EXCEPT !.status = "POSTED", !.poster = req.real,
                                              !.path = "override"]
      <4>1. PathOf(trail) = "override"
        BY <2>3, <2>5 DEF PathOf
      <4>2. [posted EXCEPT !.path = "override"] = Entry(row, trail)
        <5> HIDE DEF posted
        <5> QED BY <1>1, <2>3, <2>7, <4>1 DEF Entry, Record
      <4> QED BY <4>2
    <3>2. Lifecycle!PostByOverride(j)
      BY <1>4, <2>1, <2>2, <3>1 DEF Lifecycle!PostByOverride, Lifecycle!Move
    <3> QED BY <3>2 DEF Lifecycle!Next
  <2> QED BY <1>13, <2>4, <2>5 DEF PostOps
<1> QED
  BY <1>1, <1>6, <1>7, <1>8, <1>9, <1>10, <1>11, <1>12, <1>13 DEF InPlaceOps

LEMMA LifecycleStep ==
  ASSUME TypeOK, Targets, Serial, OwnHands, Makers, [Next]_vars
  PROVE  [Lifecycle!Next]_Book
<1>1. CASE UNCHANGED <<journals, history>>
  BY <1>1 DEF Book
<1>2. ASSUME NEW r \in Requests, NEW j \in Journals, NEW row \in Journal,
             NEW trail \in Trail,
             Inserted(r, j, row, trail) \/ Updated(r, j, row, trail),
             journals' = [journals EXCEPT ![j] = row],
             history' = [history EXCEPT ![j] = trail]
      PROVE  Lifecycle!Next
  <2>1. Book' = [Book EXCEPT ![j] = Entry(row, trail)]
    BY <1>2 DEF Book, Entry, Record, TypeOK
  <2>2. CASE Inserted(r, j, row, trail)
    BY <2>1, <2>2, InsertIsDraft DEF Lifecycle!Next
  <2>3. CASE Updated(r, j, row, trail)
    BY <2>1, <2>3, UpdateIsStep
  <2> QED BY <1>2, <2>2, <2>3
<1> QED BY <1>1, <1>2, RowCases

(* With nobody acting for another and one request at a time on a journal,   *)
(* the handlers, each several steps long, implement the atomic workflow of  *)
(* JournalLifecycle.                                                        *)
THEOREM ImplementsLifecycle ==
  ASSUME SerialPerJournal, Delegations = {}
  PROVE  Spec => FollowsLifecycle
<1>1. Init => Lifecycle!Init
  BY DEF Init, Lifecycle!Init, Lifecycle!NoEntry, Book, NoJournal, NoTrail, PathOf
<1>2. TypeOK /\ Targets /\ Serial /\ OwnHands /\ Makers /\ [Next]_vars
        => [Lifecycle!Next]_Book
  BY LifecycleStep
<1> QED BY <1>1, <1>2, SerialHolds, OwnHandsHold, MakersHold, PTL
        DEF Spec, FollowsLifecycle, Lifecycle!Spec

=============================================================================
