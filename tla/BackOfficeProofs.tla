-------------------------- MODULE BackOfficeProofs --------------------------
(* Proofs about the workflows of MCBackOffice, each for its own             *)
(* specification: who administers, which budget is active, what a forecast  *)
(* was approved with, what reaches the ledger, what an override needs, what *)
(* a template generates.                                                    *)
EXTENDS SourcePosting, OverrideSessions, BankReconciliation, FixedAssets, Planning,
        Administration, RecurringTemplates, HandlersProofs

-----------------------------------------------------------------------------
(* Users and roles, one request at a time.                                 *)

AdminLeft == \E u \in Staff : IsActive(u) /\ IsAdmin(u)

(* What the reads of a request promise its write.                          *)
StaffCall(call) ==
  LET u == call.doc IN
  /\ call.step \in {"insertUser", "readRoles", "writeStatus", "writeRoles"} => u \in Staff
  /\ call.step = "insertUser" => staff[u].status = "NONE" /\ call.saw \in SUBSET Roles
  /\ call.step = "readRoles" => call.saw \in SUBSET Roles
  /\ call.step = "writeStatus" =>
       /\ call.saw \in {"ACTIVE", "INACTIVE"}
       /\ IsActive(u) /\ call.saw = "INACTIVE" => AnotherAdmin(u)
  /\ call.step = "writeRoles" =>
       /\ call.saw.before = staff[u].roles
       /\ call.saw.after \in SUBSET Roles /\ Compatible(call.saw.after)
       /\ IsAdmin(u) /\ Admin \notin call.saw.after => AnotherAdmin(u)

StaffInv ==
  /\ HandlersInv
  /\ ~overlap =>
       /\ staff \in [Staff -> StaffRow]
       /\ AdminLeft
       /\ \A u \in Staff : Compatible(staff[u].roles)
       /\ \A r \in Requests : StaffCall(running[r])

(* A serial step of request r leaves the others idle, and itself at call.  *)
LEMMA StaffSteps ==
  ASSUME HandlersInv', ~overlap, NEW r \in Requests, NEW call, Only(r, call),
         \A q \in Requests \ {r} : running[q] = Idle,
         (staff \in [Staff -> StaffRow])', AdminLeft',
         (\A u \in Staff : Compatible(staff[u].roles))',
         StaffCall(call)'
  PROVE  StaffInv'
<1>1. \A q \in Requests : running'[q] = Idle \/ running'[q] = call
  BY DEF Only
<1>2. StaffCall(Idle)'
  BY IdleStep DEF StaffCall
<1>3. ASSUME NEW q \in Requests PROVE StaffCall(running[q])'
  <2>1. \A c : StaffCall(c)' /\ running'[q] = c => StaffCall(running[q])'
    BY DEF StaffCall
  <2> QED BY <1>1, <1>2, <2>1
<1> QED BY <1>3 DEF StaffInv, Only

LEMMA StaffKept ==
  ASSUME staff' = staff
  PROVE  /\ (staff \in [Staff -> StaffRow])' <=> (staff \in [Staff -> StaffRow])
         /\ AdminLeft' <=> AdminLeft
         /\ (\A u \in Staff : Compatible(staff[u].roles))' <=>
              (\A u \in Staff : Compatible(staff[u].roles))
         /\ \A call : StaffCall(call)' <=> StaffCall(call)
BY DEF AdminLeft, IsActive, IsAdmin, Compatible, StaffCall, AnotherAdmin

(* A request begins, or goes on, with what it has just read.               *)
LEMMA StaffReads ==
  ASSUME StaffInv, staff' = staff, NEW r \in Requests, NEW call,
         HandlersInv', Only(r, call),
         running[r] # Idle \/ (~overlap => Quiet),
         ~overlap => StaffCall(call)
  PROVE  StaffInv'
<1>1. CASE overlap
  BY <1>1 DEF StaffInv, Only
<1>2. CASE ~overlap
  <2>1. \A q \in Requests \ {r} : running[q] = Idle
    BY <1>2, Alone DEF StaffInv
  <2>2. /\ staff \in [Staff -> StaffRow] /\ AdminLeft
        /\ \A u \in Staff : Compatible(staff[u].roles)
    BY <1>2 DEF StaffInv
  <2> QED BY <1>2, <2>1, <2>2, StaffKept, StaffSteps
<1> QED BY <1>1, <1>2

LEMMA StaffInitially == StaffInit /\ HandlersInit /\ {Admin} \notin Conflicts => StaffInv
<1> SUFFICES ASSUME StaffInit, HandlersInit, {Admin} \notin Conflicts PROVE StaffInv
  OBVIOUS
<1>1. HandlersInv /\ \A r \in Requests : running[r] = Idle
  BY InitiallyIdle
<1>2. \A r \in Requests : StaffCall(running[r])
  BY <1>1, IdleStep DEF StaffCall
<1>3. PICK u \in Staff : staff = [v \in Staff |->
        IF v = u THEN [status |-> "ACTIVE", roles |-> {Admin}] ELSE NobodyYet]
  BY DEF StaffInit
<1>4. staff \in [Staff -> StaffRow] /\ AdminLeft
  BY <1>3, AdministrationAssumption DEF StaffRow, NobodyYet, AdminLeft, IsActive, IsAdmin
<1>5. ASSUME NEW v \in Staff PROVE Compatible(staff[v].roles)
  <2>1. staff[v].roles \in {{}, {Admin}}
    BY <1>3 DEF NobodyYet
  <2>2. ASSUME NEW pair \in Conflicts, pair \subseteq {Admin} PROVE FALSE
    <3>1. pair # {}
      BY AdministrationAssumption
    <3>2. pair = {Admin}
      BY <2>2, <3>1
    <3> QED BY <3>2
  <2> QED BY <2>1, <2>2 DEF Compatible
<1> QED BY <1>1, <1>2, <1>4, <1>5 DEF StaffInv

LEMMA StaffWrites ==
  ASSUME StaffInv, NEW r \in Requests, NEW call, HandlersInv', Only(r, call), running[r] # Idle,
         ~overlap => /\ (staff \in [Staff -> StaffRow])' /\ AdminLeft'
                     /\ (\A u \in Staff : Compatible(staff[u].roles))'
                     /\ StaffCall(call)'
  PROVE  StaffInv'
<1>1. CASE overlap
  BY <1>1 DEF StaffInv, Only
<1>2. CASE ~overlap
  <2>1. \A q \in Requests \ {r} : running[q] = Idle
    BY <1>2, Alone DEF StaffInv
  <2> QED BY <1>2, <2>1, StaffSteps
<1> QED BY <1>1, <1>2

LEMMA StaffInductive == StaffInv /\ [StaffStep]_staffVars => StaffInv'
<1> SUFFICES ASSUME StaffInv, [StaffStep]_staffVars PROVE StaffInv'
  OBVIOUS
<1>i. HandlersInv
  BY DEF StaffInv
<1>a. ASSUME NEW r \in Requests, NEW by \in Staff, NEW u \in Staff, NEW roles \in SUBSET Roles,
             CreateUser(r, by, u, roles)
      PROVE  StaffInv'
  <2> DEFINE call == Call("insertUser", u, by, roles)
  <2>1. HandlersInv' /\ Only(r, call) /\ (~overlap => Quiet) /\ staff' = staff
    BY <1>a, <1>i, Begins DEF CreateUser, staffTables
  <2>2. ~overlap => StaffCall(call)
    BY <1>a DEF CreateUser, UserExists, StaffCall, Call
  <2> HIDE DEF call
  <2> QED BY <2>1, <2>2, StaffReads
<1>b. ASSUME NEW r \in Requests, NEW by \in Staff, NEW u \in Staff, NEW roles \in SUBSET Roles,
             UpdateRoles(r, by, u, roles)
      PROVE  StaffInv'
  <2> DEFINE call == Call("readRoles", u, by, roles)
  <2>1. HandlersInv' /\ Only(r, call) /\ (~overlap => Quiet) /\ staff' = staff
    BY <1>b, <1>i, Begins DEF UpdateRoles, staffTables
  <2>2. ~overlap => StaffCall(call)
    BY <1>b DEF StaffCall, Call
  <2> HIDE DEF call
  <2> QED BY <2>1, <2>2, StaffReads
<1>c. ASSUME NEW r \in Requests, NEW by \in Staff, NEW u \in Staff,
             NEW status \in {"ACTIVE", "INACTIVE"}, UpdateStatus(r, by, u, status)
      PROVE  StaffInv'
  <2> DEFINE call == Call("writeStatus", u, by, status)
  <2>1. HandlersInv' /\ Only(r, call) /\ (~overlap => Quiet) /\ staff' = staff
    BY <1>c, <1>i, Begins DEF UpdateStatus, staffTables
  <2>2. ~overlap => StaffCall(call)
    BY <1>c DEF UpdateStatus, StaffCall, Call
  <2> HIDE DEF call
  <2> QED BY <2>1, <2>2, StaffReads
<1>d. ASSUME NEW r \in Requests, InsertUser(r)
      PROVE  StaffInv'
  <2> DEFINE u == running[r].doc
  <2>1. running[r] # Idle
    BY <1>d, Busy DEF InsertUser
  <2>2. ASSUME ~overlap
        PROVE  /\ (staff \in [Staff -> StaffRow])' /\ AdminLeft'
               /\ (\A v \in Staff : Compatible(staff[v].roles))'
               /\ u \in Staff /\ running[r].saw \in SUBSET Roles
    <3>1. u \in Staff /\ running[r].saw \in SUBSET Roles
      BY <1>d, <2>2 DEF InsertUser, At, StaffInv, StaffCall
    <3>2. staff \in [Staff -> StaffRow]
      BY <2>2 DEF StaffInv
    <3>3. staff' = [staff EXCEPT ![u].status = "ACTIVE"]
      BY <1>d DEF InsertUser
    <3>4. /\ (staff \in [Staff -> StaffRow])'
          /\ \A v \in Staff : /\ staff'[v].roles = staff[v].roles
                              /\ v # u => staff'[v] = staff[v]
          /\ staff'[u].status = "ACTIVE"
      BY <3>1, <3>2, <3>3 DEF StaffRow
    <3>5. AdminLeft'
      BY <2>2, <3>4 DEF StaffInv, AdminLeft, IsActive, IsAdmin
    <3>6. (\A v \in Staff : Compatible(staff[v].roles))'
      BY <2>2, <3>4 DEF StaffInv, Compatible
    <3> QED BY <3>1, <3>4, <3>5, <3>6
  <2>3. CASE Finish(r)
    <3>1. HandlersInv' /\ Only(r, Idle)
      BY <1>i, <2>3, Finishes
    <3>2. StaffCall(Idle)'
      BY IdleStep DEF StaffCall
    <3> QED BY <2>1, <2>2, <3>1, <3>2, StaffWrites
  <2>4. CASE Goto(r, "readRoles", running[r].saw)
    <3>1. PICK next : next = Call("readRoles", u, running[r].by, running[r].saw)
      OBVIOUS
    <3>2. HandlersInv' /\ Only(r, next)
      BY <1>i, <2>1, <2>4, <3>1, Goes
    <3>3. next.step = "readRoles" /\ next.doc = u /\ next.saw = running[r].saw
      BY <3>1 DEF Call
    <3>4. ~overlap => StaffCall(next)'
      BY <2>2, <3>3 DEF StaffCall
    <3> QED BY <2>1, <2>2, <3>2, <3>4, StaffWrites
  <2> QED BY <1>d, <2>3, <2>4 DEF InsertUser
<1>e. ASSUME NEW r \in Requests, WriteStatus(r)
      PROVE  StaffInv'
  <2> DEFINE u == running[r].doc
  <2>1. running[r] # Idle
    BY <1>e, Busy DEF WriteStatus
  <2>2. HandlersInv' /\ Only(r, Idle)
    BY <1>e, <1>i, Finishes DEF WriteStatus
  <2>3. ASSUME ~overlap
        PROVE  /\ (staff \in [Staff -> StaffRow])' /\ AdminLeft'
               /\ (\A v \in Staff : Compatible(staff[v].roles))'
               /\ StaffCall(Idle)'
    <3>1. /\ u \in Staff /\ running[r].saw \in {"ACTIVE", "INACTIVE"}
          /\ IsActive(u) /\ running[r].saw = "INACTIVE" => AnotherAdmin(u)
      BY <1>e, <2>3 DEF WriteStatus, At, StaffInv, StaffCall
    <3>2. staff \in [Staff -> StaffRow]
      BY <2>3 DEF StaffInv
    <3>3. staff' = [staff EXCEPT ![u].status = running[r].saw]
      BY <1>e DEF WriteStatus
    <3>4. /\ (staff \in [Staff -> StaffRow])'
          /\ \A v \in Staff : /\ staff'[v].roles = staff[v].roles
                              /\ v # u => staff'[v] = staff[v]
          /\ staff'[u].status = running[r].saw
      BY <3>1, <3>2, <3>3 DEF StaffRow
    <3>5. AdminLeft'
      BY <2>3, <3>1, <3>4 DEF StaffInv, AdminLeft, IsActive, IsAdmin, AnotherAdmin
    <3>6. (\A v \in Staff : Compatible(staff[v].roles))'
      BY <2>3, <3>4 DEF StaffInv, Compatible
    <3>7. StaffCall(Idle)'
      BY IdleStep DEF StaffCall
    <3> QED BY <3>4, <3>5, <3>6, <3>7
  <2> QED BY <2>1, <2>2, <2>3, StaffWrites
<1>f. ASSUME NEW r \in Requests, ReadRoles(r)
      PROVE  StaffInv'
  <2> DEFINE u == running[r].doc
             saw == [before |-> staff[u].roles, after |-> running[r].saw]
             next == Call("writeRoles", u, running[r].by, saw)
  <2>1. running[r] # Idle /\ staff' = staff
    BY <1>f, Busy DEF ReadRoles, staffTables
  <2>2. CASE Finish(r)
    <3>1. HandlersInv' /\ Only(r, Idle)
      BY <1>i, <2>2, Finishes
    <3>2. StaffCall(Idle)
      BY IdleStep DEF StaffCall
    <3> QED BY <2>1, <3>1, <3>2, StaffReads
  <2>3. CASE ~Finish(r)
    <3>1. /\ Goto(r, "writeRoles", saw)
          /\ IsAdmin(u) /\ Admin \notin running[r].saw => AnotherAdmin(u)
          /\ Compatible(running[r].saw)
      BY <1>f, <2>3 DEF ReadRoles, RolesCompatible
    <3>2. HandlersInv' /\ Only(r, next)
      BY <1>i, <2>1, <3>1, Goes
    <3>3. ~overlap => StaffCall(next)
      <4>1. ~overlap => u \in Staff /\ running[r].saw \in SUBSET Roles
        BY <1>f DEF ReadRoles, At, StaffInv, StaffCall
      <4> QED BY <3>1, <4>1 DEF StaffCall, Call
    <3> HIDE DEF next
    <3> QED BY <2>1, <3>2, <3>3, StaffReads
  <2> QED BY <2>2, <2>3
<1>g. ASSUME NEW r \in Requests, WriteRoles(r)
      PROVE  StaffInv'
  <2> DEFINE u == running[r].doc
             saw == running[r].saw
  <2>1. running[r] # Idle
    BY <1>g, Busy DEF WriteRoles
  <2>2. HandlersInv' /\ Only(r, Idle)
    BY <1>g, <1>i, Finishes DEF WriteRoles
  <2>3. ASSUME ~overlap
        PROVE  /\ (staff \in [Staff -> StaffRow])' /\ AdminLeft'
               /\ (\A v \in Staff : Compatible(staff[v].roles))'
               /\ StaffCall(Idle)'
    <3>1. /\ u \in Staff /\ saw.before = staff[u].roles
          /\ saw.after \in SUBSET Roles /\ Compatible(saw.after)
          /\ IsAdmin(u) /\ Admin \notin saw.after => AnotherAdmin(u)
      BY <1>g, <2>3 DEF WriteRoles, At, StaffInv, StaffCall
    <3>2. staff \in [Staff -> StaffRow]
      BY <2>3 DEF StaffInv
    <3>3. staff' = [staff EXCEPT ![u].roles = (staff[u].roles \ saw.before) \cup saw.after]
      BY <1>g DEF WriteRoles
    <3>4. (staff[u].roles \ saw.before) \cup saw.after = saw.after
      BY <3>1
    <3>5. /\ (staff \in [Staff -> StaffRow])'
          /\ \A v \in Staff : /\ staff'[v].status = staff[v].status
                              /\ v # u => staff'[v] = staff[v]
          /\ staff'[u].roles = saw.after
      BY <3>1, <3>2, <3>3, <3>4 DEF StaffRow
    <3>6. AdminLeft'
      BY <2>3, <3>1, <3>5 DEF StaffInv, AdminLeft, IsActive, IsAdmin, AnotherAdmin
    <3>7. (\A v \in Staff : Compatible(staff[v].roles))'
      BY <2>3, <3>1, <3>5 DEF StaffInv, Compatible
    <3>8. StaffCall(Idle)'
      BY IdleStep DEF StaffCall
    <3> QED BY <3>5, <3>6, <3>7, <3>8
  <2> QED BY <2>1, <2>2, <2>3, StaffWrites
<1>h. ASSUME NEW r \in Requests, Fail(r), UNCHANGED staffTables
      PROVE  StaffInv'
  <2>1. HandlersInv' /\ Only(r, Idle) /\ running[r] # Idle /\ staff' = staff
    BY <1>h, <1>i, Finishes DEF Fail, staffTables
  <2>2. StaffCall(Idle)
    BY IdleStep DEF StaffCall
  <2> QED BY <2>1, <2>2, StaffReads
<1>u. CASE UNCHANGED staffVars
  <2>1. HandlersInv' /\ (\A q \in Requests : running'[q] = running[q]) /\ overlap' = overlap
    BY <1>u, <1>i, StaysPut DEF staffVars
  <2>2. staff' = staff
    BY <1>u DEF staffVars, staffTables
  <2>3. \A q \in Requests : StaffCall(running[q]) => StaffCall(running[q])'
    <3>1. \A q \in Requests : \A c : StaffCall(c)' /\ running'[q] = c => StaffCall(running[q])'
      BY DEF StaffCall
    <3> QED BY <2>1, <2>2, <3>1, StaffKept
  <2> QED BY <2>1, <2>2, <2>3, StaffKept DEF StaffInv
<1> QED
  BY <1>a, <1>b, <1>c, <1>d, <1>e, <1>f, <1>g, <1>h, <1>u DEF StaffStep

LEMMA StaffAlways == ASSUME {Admin} \notin Conflicts PROVE StaffSpec => []StaffInv
BY StaffInitially, StaffInductive, PTL DEF StaffSpec

(* One request at a time, and the administrator's role no conflict of its  *)
(* own: somebody active can always administer.                             *)
THEOREM AdminRemains ==
  ASSUME {Admin} \notin Conflicts
  PROVE  StaffSpec => []NeverWithoutAdmin
<1>1. StaffInv => NeverWithoutAdmin
  BY DEF StaffInv, AdminLeft, NeverWithoutAdmin
<1> QED BY <1>1, StaffAlways, PTL

(* One request at a time, no user ever holds conflicting roles.            *)
THEOREM RolesStayApart ==
  ASSUME {Admin} \notin Conflicts
  PROVE  StaffSpec => []NoConflictingRoles
<1>1. StaffInv => NoConflictingRoles
  BY DEF StaffInv, NoConflictingRoles
<1> QED BY <1>1, StaffAlways, PTL

-----------------------------------------------------------------------------
(* Override sessions, in every interleaving: an approval, once given, is   *)
(* on the row for good, whatever becomes of the status.                    *)

Approved(o) == overrides[o].approvedBy # None

OverrideRow ==
  [status : {"NONE", "REQUESTED", "APPROVED", "REJECTED", "REVOKED", "EXECUTED"},
   requestedBy : Users \cup {None}, approvedBy : Users \cup {None}, expired : {"no", "yes"}]

EntryRow ==
  [status : {"REVIEWED", "POSTED"}, createdBy : Users, reviewedBy : Users,
   initiatedBy : {None}, postedBy : Users \cup {None}, under : Overrides \cup {None}]

OverrideTables == overrides \in [Overrides -> OverrideRow] /\ entries \in [Entries -> EntryRow]

ApprovalRecorded == \A o \in Overrides : overrides[o].status = "APPROVED" => Approved(o)

UnderApproval(e) ==
  entries[e].status = "POSTED" /\ entries[e].postedBy \in {entries[e].createdBy, entries[e].reviewedBy} =>
    entries[e].under \in Overrides /\ Approved(entries[e].under)

OverrideCall(call) ==
  call.step \in {"recheckOverride", "postOverride", "execute"} =>
    /\ call.doc \in Entries /\ call.by \in Users
    /\ call.saw \in Overrides /\ Approved(call.saw)

OverrideInv ==
  /\ HandlersInv
  /\ OverrideTables
  /\ ApprovalRecorded
  /\ \A e \in Entries : UnderApproval(e)
  /\ \A r \in Requests : OverrideCall(running[r])

LEMMA OverrideSteps ==
  ASSUME OverrideInv, HandlersInv', NEW r \in Requests, NEW call, Only(r, call),
         OverrideTables', ApprovalRecorded', (\A e \in Entries : UnderApproval(e))',
         \A o \in Overrides : Approved(o) => Approved(o)',
         OverrideCall(call)'
  PROVE  OverrideInv'
<1>1. ASSUME NEW q \in Requests PROVE OverrideCall(running[q])'
  <2>1. CASE q = r
    BY <2>1 DEF Only, OverrideCall
  <2>2. CASE q # r
    <3>1. OverrideCall(running[q]) /\ running'[q] = running[q]
      BY <2>2 DEF OverrideInv, Only
    <3> QED BY <3>1 DEF OverrideCall
  <2> QED BY <2>1, <2>2
<1> QED BY <1>1 DEF OverrideInv

(* The steps of a handler that write nothing.                              *)
LEMMA OverrideReads ==
  ASSUME OverrideInv, HandlersInv', NEW r \in Requests, NEW call, Only(r, call),
         UNCHANGED overrideTables, OverrideCall(call)
  PROVE  OverrideInv'
<1>1. overrides' = overrides /\ entries' = entries
  BY DEF overrideTables
<1>2. /\ OverrideTables' /\ ApprovalRecorded' /\ (\A e \in Entries : UnderApproval(e))'
      /\ \A o \in Overrides : Approved(o) => Approved(o)'
  BY <1>1 DEF OverrideInv, OverrideTables, ApprovalRecorded, UnderApproval, Approved
<1>3. OverrideCall(call)'
  BY <1>1 DEF OverrideCall, Approved
<1> QED BY <1>2, <1>3, OverrideSteps

(* A write to the sessions that forgets no approval.                       *)
LEMMA SessionsWritten ==
  ASSUME OverrideInv, NEW o \in Overrides, NEW row \in OverrideRow,
         overrides' = [overrides EXCEPT ![o] = row], entries' = entries,
         Approved(o) \/ row.status = "APPROVED" => row.approvedBy # None
  PROVE  /\ OverrideTables' /\ ApprovalRecorded' /\ (\A e \in Entries : UnderApproval(e))'
         /\ \A x \in Overrides : Approved(x) => Approved(x)'
<1>1. overrides \in [Overrides -> OverrideRow] /\ entries \in [Entries -> EntryRow]
  BY DEF OverrideInv, OverrideTables
<1>2. /\ overrides' \in [Overrides -> OverrideRow]
      /\ overrides'[o] = row /\ \A x \in Overrides \ {o} : overrides'[x] = overrides[x]
  BY <1>1
<1>3. \A x \in Overrides : Approved(x) => Approved(x)'
  BY <1>2 DEF Approved
<1>4. ApprovalRecorded'
  BY <1>2 DEF OverrideInv, ApprovalRecorded, Approved
<1>5. (\A e \in Entries : UnderApproval(e))'
  BY <1>3 DEF OverrideInv, UnderApproval
<1> QED BY <1>1, <1>2, <1>3, <1>4, <1>5 DEF OverrideTables

LEMMA OverrideInitially == OverrideInit /\ HandlersInit => OverrideInv
<1> SUFFICES ASSUME OverrideInit, HandlersInit PROVE OverrideInv
  OBVIOUS
<1>1. HandlersInv /\ \A r \in Requests : running[r] = Idle
  BY InitiallyIdle
<1>2. \A r \in Requests : OverrideCall(running[r])
  BY <1>1, IdleStep DEF OverrideCall
<1>3. /\ overrides \in [Overrides -> OverrideRow]
      /\ \A o \in Overrides : overrides[o].status = "NONE"
  BY DEF OverrideInit, NoOverride, OverrideRow
<1>4. entries \in [Entries -> EntryRow] /\ \A e \in Entries : entries[e].status = "REVIEWED"
  BY DEF OverrideInit, EntryRow
<1> QED
  BY <1>1, <1>2, <1>3, <1>4 DEF OverrideInv, OverrideTables, ApprovalRecorded, UnderApproval

LEMMA OverrideInductive == OverrideInv /\ [OverrideStep]_overrideVars => OverrideInv'
<1> SUFFICES ASSUME OverrideInv, [OverrideStep]_overrideVars PROVE OverrideInv'
  OBVIOUS
<1>i. /\ HandlersInv
      /\ overrides \in [Overrides -> OverrideRow] /\ entries \in [Entries -> EntryRow]
      /\ ApprovalRecorded
  BY DEF OverrideInv, OverrideTables
<1> USE <1>i
(* What leaves the requests in flight alone.                               *)
<1>k. ASSUME UNCHANGED handlerVars, OverrideTables', ApprovalRecorded',
             (\A e \in Entries : UnderApproval(e))',
             \A o \in Overrides : Approved(o) => Approved(o)'
      PROVE  OverrideInv'
  <2>1. HandlersInv' /\ \A q \in Requests : running'[q] = running[q]
    BY <1>k, StaysPut
  <2>2. ASSUME NEW q \in Requests PROVE OverrideCall(running[q])'
    <3>1. OverrideCall(running[q]) /\ running'[q] = running[q]
      BY <2>1 DEF OverrideInv
    <3> QED BY <1>k, <3>1 DEF OverrideCall
  <2> QED BY <1>k, <2>1, <2>2 DEF OverrideInv
<1>s. ASSUME NEW o \in Overrides, NEW row \in OverrideRow, UNCHANGED handlerVars,
             overrides' = [overrides EXCEPT ![o] = row], entries' = entries,
             Approved(o) \/ row.status = "APPROVED" => row.approvedBy # None
      PROVE  OverrideInv'
  BY <1>s, <1>k, SessionsWritten
<1>a. ASSUME NEW r \in Requests, NEW by \in Users, NEW o \in Overrides, CreateOverride(r, by, o)
      PROVE  OverrideInv'
  <2> DEFINE row == [overrides[o] EXCEPT !.status = "REQUESTED", !.requestedBy = by]
  <2>1. row \in OverrideRow /\ row.approvedBy = overrides[o].approvedBy /\ row.status = "REQUESTED"
    BY DEF OverrideRow
  <2>2. overrides' = [overrides EXCEPT ![o] = row] /\ entries' = entries /\ UNCHANGED handlerVars
    BY <1>a DEF CreateOverride, AtOnce
  <2>3. Approved(o) \/ row.status = "APPROVED" => row.approvedBy # None
    BY <2>1 DEF Approved
  <2> HIDE DEF row
  <2> QED BY <2>1, <2>2, <2>3, <1>s
<1>b. ASSUME NEW r \in Requests, NEW by \in Users, NEW o \in Overrides, ApproveOverride(r, by, o)
      PROVE  OverrideInv'
  <2> DEFINE row == [overrides[o] EXCEPT !.status = "APPROVED", !.approvedBy = by]
  <2>1. row \in OverrideRow /\ row.approvedBy = by
    BY DEF OverrideRow
  <2>2. overrides' = [overrides EXCEPT ![o] = row] /\ entries' = entries /\ UNCHANGED handlerVars
    BY <1>b DEF ApproveOverride, AtOnce
  <2>3. row.approvedBy # None
    BY <2>1, OverrideAssumption
  <2> HIDE DEF row
  <2> QED BY <2>1, <2>2, <2>3, <1>s
<1>c. ASSUME NEW r \in Requests, NEW o \in Overrides, NEW status \in {"REJECTED", "REVOKED"},
             RefuseOverride(r, o, status)
      PROVE  OverrideInv'
  <2> DEFINE row == [overrides[o] EXCEPT !.status = status]
  <2>1. row \in OverrideRow /\ row.approvedBy = overrides[o].approvedBy /\ row.status = status
    BY DEF OverrideRow
  <2>2. overrides' = [overrides EXCEPT ![o] = row] /\ entries' = entries /\ UNCHANGED handlerVars
    BY <1>c DEF RefuseOverride, AtOnce
  <2>3. Approved(o) \/ row.status = "APPROVED" => row.approvedBy # None
    BY <2>1 DEF Approved
  <2> HIDE DEF row
  <2> QED BY <2>1, <2>2, <2>3, <1>s
<1>d. ASSUME NEW o \in Overrides, OverrideExpires(o)
      PROVE  OverrideInv'
  <2> DEFINE row == [overrides[o] EXCEPT !.expired = "yes"]
  <2>1. /\ row \in OverrideRow
        /\ row.approvedBy = overrides[o].approvedBy /\ row.status = overrides[o].status
    BY DEF OverrideRow
  <2>2. overrides' = [overrides EXCEPT ![o] = row] /\ entries' = entries /\ UNCHANGED handlerVars
    BY <1>d DEF OverrideExpires
  <2>3. Approved(o) \/ row.status = "APPROVED" => row.approvedBy # None
    BY <2>1 DEF Approved, ApprovalRecorded
  <2> HIDE DEF row
  <2> QED BY <2>1, <2>2, <2>3, <1>s
(* A write to one entry.                                                   *)
<1>e. ASSUME NEW e \in Entries, NEW row \in EntryRow,
             entries' = [entries EXCEPT ![e] = row], overrides' = overrides,
             row.postedBy \in {row.createdBy, row.reviewedBy} =>
               row.under \in Overrides /\ Approved(row.under)
      PROVE  /\ OverrideTables' /\ ApprovalRecorded' /\ (\A x \in Entries : UnderApproval(x))'
             /\ \A o \in Overrides : Approved(o) => Approved(o)'
  <2>1. /\ entries' \in [Entries -> EntryRow]
        /\ entries'[e] = row /\ \A x \in Entries \ {e} : entries'[x] = entries[x]
    BY <1>e
  <2>2. \A x \in Entries : UnderApproval(x)'
    BY <1>e, <2>1 DEF OverrideInv, UnderApproval, Approved
  <2> QED BY <1>e, <2>1, <2>2 DEF OverrideTables, ApprovalRecorded, Approved
<1>f. ASSUME NEW r \in Requests, NEW by \in Users, NEW e \in Entries, PostByPolicy(r, by, e)
      PROVE  OverrideInv'
  <2> DEFINE row == [entries[e] EXCEPT !.status = "POSTED", !.postedBy = by]
  <2>1. row \in EntryRow
    BY DEF EntryRow
  <2>2. by \notin {entries[e].createdBy, entries[e].reviewedBy}
    BY <1>f DEF PostByPolicy, EvaluateSoD, ConflictedUsers
  <2>3. row.postedBy = by /\ row.createdBy = entries[e].createdBy /\ row.reviewedBy = entries[e].reviewedBy
    BY DEF EntryRow
  <2>4. entries' = [entries EXCEPT ![e] = row] /\ overrides' = overrides /\ UNCHANGED handlerVars
    BY <1>f DEF PostByPolicy, AtOnce
  <2> HIDE DEF row
  <2> QED BY <2>1, <2>2, <2>3, <2>4, <1>e, <1>k
<1>g. ASSUME NEW r \in Requests, NEW by \in Users, NEW e \in Entries, NEW o \in Overrides,
             PostOverride(r, by, e, o)
      PROVE  OverrideInv'
  <2>1. PICK call : call = Call("recheckOverride", e, by, o)
    OBVIOUS
  <2>2. HandlersInv' /\ Only(r, call) /\ UNCHANGED overrideTables
    BY <1>g, <2>1, Begins DEF PostOverride
  <2>3. OverrideCall(call)
    BY <1>g, <2>1 DEF PostOverride, ActiveApproved, ApprovalRecorded, OverrideCall, Call
  <2> QED BY <2>2, <2>3, OverrideReads
<1>h. ASSUME NEW r \in Requests, RecheckOverride(r)
      PROVE  OverrideInv'
  <2>1. running[r] # Idle /\ UNCHANGED overrideTables
    BY <1>h, Busy DEF RecheckOverride
  <2>2. CASE Finish(r)
    BY <2>1, <2>2, Finishes, IdleStep, OverrideReads DEF OverrideCall
  <2>3. CASE Goto(r, "postOverride", running[r].saw)
    <3>1. PICK call : call = Call("postOverride", running[r].doc, running[r].by, running[r].saw)
      OBVIOUS
    <3>2. HandlersInv' /\ Only(r, call)
      BY <2>1, <2>3, <3>1, Goes
    <3>3. OverrideCall(running[r])
      BY DEF OverrideInv
    <3>4. OverrideCall(call)
      BY <1>h, <3>1, <3>3 DEF RecheckOverride, At, OverrideCall, Call
    <3> QED BY <2>1, <3>2, <3>4, OverrideReads
  <2> QED BY <1>h, <2>2, <2>3 DEF RecheckOverride
<1>j. ASSUME NEW r \in Requests, WriteOverride(r)
      PROVE  OverrideInv'
  <2> DEFINE e == running[r].doc
             row == [entries[e] EXCEPT !.status = "POSTED", !.postedBy = running[r].by,
                                       !.under = running[r].saw]
  <2>1. running[r] # Idle
    BY <1>j, Busy DEF WriteOverride
  <2>2. /\ e \in Entries /\ running[r].by \in Users
        /\ running[r].saw \in Overrides /\ Approved(running[r].saw)
    BY <1>j DEF WriteOverride, At, OverrideInv, OverrideCall
  <2>3. CASE Finish(r) /\ UNCHANGED entries
    <3>1. UNCHANGED overrideTables
      BY <1>j, <2>3 DEF WriteOverride, overrideTables
    <3> QED BY <2>3, <3>1, Finishes, IdleStep, OverrideReads DEF OverrideCall
  <2>4. CASE entries' = [entries EXCEPT ![e] = row] /\ Goto(r, "execute", running[r].saw)
    <3>1. PICK call : call = Call("execute", e, running[r].by, running[r].saw)
      OBVIOUS
    <3>2. HandlersInv' /\ Only(r, call)
      BY <2>1, <2>4, <3>1, Goes
    <3>3. row \in EntryRow /\ row.under = running[r].saw
      BY <2>2 DEF EntryRow
    <3>4. overrides' = overrides
      BY <1>j DEF WriteOverride
    <3>5. /\ OverrideTables' /\ ApprovalRecorded' /\ (\A x \in Entries : UnderApproval(x))'
          /\ \A o \in Overrides : Approved(o) => Approved(o)'
      <4> HIDE DEF row
      <4> QED BY <2>2, <2>4, <3>3, <3>4, <1>e
    <3>6. OverrideCall(call)'
      BY <2>2, <3>1, <3>4 DEF OverrideCall, Call, Approved
    <3> QED BY <3>2, <3>5, <3>6, OverrideSteps
  <2> QED BY <1>j, <2>3, <2>4 DEF WriteOverride
<1>l. ASSUME NEW r \in Requests, MarkExecuted(r)
      PROVE  OverrideInv'
  <2> DEFINE o == running[r].saw
             row == [overrides[o] EXCEPT !.status = "EXECUTED"]
  <2>1. o \in Overrides
    BY <1>l DEF MarkExecuted, At, OverrideInv, OverrideCall
  <2>2. /\ row \in OverrideRow
        /\ row.approvedBy = overrides[o].approvedBy /\ row.status = "EXECUTED"
    BY <2>1 DEF OverrideRow
  <2>3. overrides' = [overrides EXCEPT ![o] = row] /\ entries' = entries
    BY <1>l DEF MarkExecuted
  <2>4. /\ OverrideTables' /\ ApprovalRecorded' /\ (\A e \in Entries : UnderApproval(e))'
        /\ \A x \in Overrides : Approved(x) => Approved(x)'
    <3>1. Approved(o) \/ row.status = "APPROVED" => row.approvedBy # None
      BY <2>2 DEF Approved
    <3> HIDE DEF row
    <3> QED BY <2>1, <2>2, <2>3, <3>1, SessionsWritten
  <2>5. HandlersInv' /\ Only(r, Idle)
    BY <1>l, Finishes DEF MarkExecuted
  <2>6. OverrideCall(Idle)'
    BY IdleStep DEF OverrideCall
  <2> QED BY <2>4, <2>5, <2>6, OverrideSteps
<1>m. ASSUME NEW r \in Requests, Fail(r), UNCHANGED overrideTables
      PROVE  OverrideInv'
  BY <1>m, Finishes, IdleStep, OverrideReads DEF Fail, OverrideCall
<1>n. CASE UNCHANGED overrideVars
  BY <1>n, <1>k DEF overrideVars, overrideTables, OverrideInv, OverrideTables, ApprovalRecorded,
                    UnderApproval, Approved
<1> QED
  BY <1>a, <1>b, <1>c, <1>d, <1>f, <1>g, <1>h, <1>j, <1>l, <1>m, <1>n DEF OverrideStep

(* However approvals, revocations, expiry and posts overlap: whoever posts *)
(* against the policy does so under a session that somebody approved.      *)
THEOREM OverridesAreApproved == OverrideSpec => []ConflictNeedsApproval
<1>1. OverrideInv => ConflictNeedsApproval
  BY OverrideAssumption DEF OverrideInv, UnderApproval, Approved, ConflictNeedsApproval
<1> QED BY <1>1, OverrideInitially, OverrideInductive, PTL DEF OverrideSpec

-----------------------------------------------------------------------------
(* Posting from the subledgers, in every interleaving: a journal belongs   *)
(* to one document and one maker, and only the request that created it     *)
(* reviews it.                                                             *)

DocumentSound(d) ==
  documents[d].status = "POSTED" =>
    /\ documents[d].journal \in Journals
    /\ Posted(documents[d].journal)
    /\ journals[documents[d].journal].source = d

JournalSound(j) ==
  journals[j] # NoJournal =>
    /\ journals[j].createdBy = documents[journals[j].source].createdBy
    /\ Posted(j) => journals[j].postedBy # journals[j].createdBy

PostingCall(call) ==
  /\ call.step \in {"approve", "load", "create", "review", "post", "mark", "transaction", "commit"} =>
       call.doc \in Documents /\ call.by \in Actors
  /\ call.step = "create" => documents[call.doc].kind # "own"
  /\ call.step \in {"review", "post", "mark"} =>
       /\ call.saw \in Journals
       /\ journals[call.saw] # NoJournal
       /\ journals[call.saw].source = call.doc
  /\ call.step = "review" => journals[call.saw].status = "SUBMITTED"
  /\ call.step = "mark" => Posted(call.saw)

OwnReview ==
  \A q, r \in Requests :
    q # r /\ running[q].step = "review" /\ running[r].step = "review" => running[q].saw # running[r].saw

PostingInv ==
  /\ HandlersInv
  /\ documents \in [Documents -> DocumentRow]
  /\ journals \in [Journals -> JournalRow \cup {NoJournal}]
  /\ \A d \in Documents : DocumentSound(d)
  /\ \A j \in Journals : JournalSound(j)
  /\ \A r \in Requests : PostingCall(running[r])
  /\ OwnReview

(* What every step does to the two tables.                                 *)
DocumentsKept ==
  \A d \in Documents : /\ documents'[d].kind = documents[d].kind
                       /\ documents'[d].createdBy = documents[d].createdBy

JournalsGrow ==
  \A j \in Journals : journals[j] # NoJournal =>
    /\ journals'[j] # NoJournal
    /\ journals'[j].source = journals[j].source
    /\ journals'[j].createdBy = journals[j].createdBy
    /\ Posted(j) => journals'[j].status = "POSTED"

LEMMA JournalWritten ==
  ASSUME PostingInv, DocumentsKept, NEW j \in Journals, NEW row \in JournalRow,
         journals' = [journals EXCEPT ![j] = row],
         journals[j] # NoJournal =>
           /\ row.source = journals[j].source /\ row.createdBy = journals[j].createdBy
           /\ Posted(j) => row.status = "POSTED",
         row.createdBy = documents[row.source].createdBy,
         row.status = "POSTED" => row.postedBy # row.createdBy
  PROVE  /\ journals' \in [Journals -> JournalRow \cup {NoJournal}]
         /\ \A x \in Journals : JournalSound(x)'
         /\ JournalsGrow
         /\ journals'[j] = row /\ row # NoJournal
         /\ \A x \in Journals \ {j} : journals'[x] = journals[x]
<1>1. journals \in [Journals -> JournalRow \cup {NoJournal}]
  BY DEF PostingInv
<1>2. row # NoJournal /\ row.source \in Documents
  BY DEF JournalRow, NoJournal
<1>3. /\ journals' \in [Journals -> JournalRow \cup {NoJournal}]
      /\ journals'[j] = row
      /\ \A x \in Journals \ {j} : journals'[x] = journals[x]
  BY <1>1
<1>4. JournalsGrow
  BY <1>2, <1>3 DEF JournalsGrow, Posted
<1>5. ASSUME NEW x \in Journals PROVE JournalSound(x)'
  <2>1. CASE x = j
    BY <1>2, <1>3, <2>1 DEF JournalSound, DocumentsKept, Posted
  <2>2. CASE x # j
    <3>1. journals'[x] = journals[x] /\ JournalSound(x)
      BY <1>3, <2>2 DEF PostingInv
    <3>2. journals[x] # NoJournal => journals[x].source \in Documents
      BY <1>1 DEF JournalRow
    <3> QED BY <3>1, <3>2 DEF JournalSound, DocumentsKept, Posted
  <2> QED BY <2>1, <2>2
<1> QED BY <1>2, <1>3, <1>4, <1>5

LEMMA DocumentWritten ==
  ASSUME PostingInv, JournalsGrow, NEW d \in Documents, NEW row \in DocumentRow,
         documents' = [documents EXCEPT ![d] = row],
         row.kind = documents[d].kind, row.createdBy = documents[d].createdBy,
         row.status = "POSTED" =>
           /\ row.journal \in Journals
           /\ journals'[row.journal].status = "POSTED" /\ journals'[row.journal].source = d
  PROVE  /\ documents' \in [Documents -> DocumentRow]
         /\ \A x \in Documents : DocumentSound(x)'
         /\ DocumentsKept
<1>1. documents \in [Documents -> DocumentRow]
  BY DEF PostingInv
<1>2. /\ documents' \in [Documents -> DocumentRow]
      /\ documents'[d] = row
      /\ \A x \in Documents \ {d} : documents'[x] = documents[x]
  BY <1>1
<1>3. ASSUME NEW x \in Documents PROVE DocumentSound(x)'
  <2>1. CASE x = d
    BY <1>2, <2>1 DEF DocumentSound, Posted
  <2>2. CASE x # d
    <3>1. documents'[x] = documents[x] /\ DocumentSound(x)
      BY <1>2, <2>2 DEF PostingInv
    <3>2. documents[x].status = "POSTED" => journals[documents[x].journal] # NoJournal
      BY <3>1 DEF DocumentSound, Posted, NoJournal
    <3> QED BY <3>1, <3>2 DEF DocumentSound, Posted, JournalsGrow
  <2> QED BY <2>1, <2>2
<1> QED BY <1>2, <1>3 DEF DocumentsKept

(* What a step may leave as it was.                                        *)
LEMMA DocumentsSame ==
  ASSUME PostingInv, JournalsGrow, documents' = documents
  PROVE  /\ documents' \in [Documents -> DocumentRow]
         /\ \A x \in Documents : DocumentSound(x)'
<1>1. ASSUME NEW x \in Documents PROVE DocumentSound(x)'
  <2>1. DocumentSound(x)
    BY DEF PostingInv
  <2>2. documents[x].status = "POSTED" => journals[documents[x].journal] # NoJournal
    BY <2>1 DEF DocumentSound, Posted, NoJournal
  <2> QED BY <2>1, <2>2 DEF DocumentSound, Posted, JournalsGrow
<1> QED BY <1>1 DEF PostingInv

LEMMA JournalsSame ==
  ASSUME PostingInv, DocumentsKept, journals' = journals
  PROVE  /\ journals' \in [Journals -> JournalRow \cup {NoJournal}]
         /\ \A x \in Journals : JournalSound(x)'
         /\ JournalsGrow
<1>1. ASSUME NEW x \in Journals PROVE JournalSound(x)'
  <2>1. JournalSound(x) /\ (journals[x] # NoJournal => journals[x].source \in Documents)
    BY DEF PostingInv, JournalRow
  <2> QED BY <2>1 DEF JournalSound, DocumentsKept, Posted
<1> QED BY <1>1 DEF PostingInv, JournalsGrow, Posted

(* A step of request r, to call, that takes no journal out of SUBMITTED    *)
(* but the one r is reviewing.                                             *)
LEMMA PostingSteps ==
  ASSUME PostingInv, HandlersInv', NEW r \in Requests, NEW call, Only(r, call),
         DocumentsKept, JournalsGrow,
         documents' \in [Documents -> DocumentRow],
         journals' \in [Journals -> JournalRow \cup {NoJournal}],
         \A d \in Documents : DocumentSound(d)',
         \A j \in Journals : JournalSound(j)',
         \A j \in Journals : journals[j].status = "SUBMITTED" =>
           \/ journals'[j].status = "SUBMITTED"
           \/ running[r].step = "review" /\ running[r].saw = j,
         PostingCall(call)',
         call.step = "review" =>
           \A q \in Requests \ {r} : running[q].step = "review" => running[q].saw # call.saw
  PROVE  PostingInv'
<1>1. ASSUME NEW q \in Requests PROVE PostingCall(running[q])'
  <2>1. CASE q = r
    BY <2>1 DEF Only, PostingCall
  <2>2. CASE q # r
    <3>1. PICK c : c = running[q]
      OBVIOUS
    <3>2. PostingCall(c) /\ running'[q] = c
      BY <2>2, <3>1 DEF PostingInv, Only
    <3>3. c.step = "review" => journals'[c.saw].status = "SUBMITTED"
      BY <2>2, <3>1, <3>2 DEF PostingCall, PostingInv, OwnReview
    <3>4. PostingCall(c)'
      BY <3>2, <3>3 DEF PostingCall, DocumentsKept, JournalsGrow, Posted
    <3> QED BY <3>2, <3>4 DEF PostingCall
  <2> QED BY <2>1, <2>2
<1>2. OwnReview'
  BY DEF OwnReview, PostingInv, Only
<1> QED BY <1>1, <1>2 DEF PostingInv

LEMMA PostingReads ==
  ASSUME PostingInv, HandlersInv', NEW r \in Requests, NEW call, Only(r, call),
         UNCHANGED postingTables, PostingCall(call), call.step # "review"
  PROVE  PostingInv'
<1>1. documents' = documents /\ journals' = journals
  BY DEF postingTables
<1>2. DocumentsKept
  BY <1>1 DEF DocumentsKept
<1>3. /\ journals' \in [Journals -> JournalRow \cup {NoJournal}]
      /\ \A x \in Journals : JournalSound(x)'
      /\ JournalsGrow
  BY <1>1, <1>2, JournalsSame
<1>4. /\ documents' \in [Documents -> DocumentRow]
      /\ \A x \in Documents : DocumentSound(x)'
  BY <1>1, <1>3, DocumentsSame
<1>5. PostingCall(call)'
  BY <1>1 DEF PostingCall, Posted
<1> QED BY <1>1, <1>2, <1>3, <1>4, <1>5, PostingSteps

LEMMA PostingInitially == PostingInit /\ HandlersInit => PostingInv
<1> SUFFICES ASSUME PostingInit, HandlersInit PROVE PostingInv
  OBVIOUS
<1>1. HandlersInv /\ \A r \in Requests : running[r] = Idle
  BY InitiallyIdle
<1>2. (\A r \in Requests : PostingCall(running[r])) /\ OwnReview
  BY <1>1, IdleStep DEF PostingCall, OwnReview
<1>3. documents \in [Documents -> DocumentRow] /\ \A d \in Documents : documents[d].status # "POSTED"
  BY DEF PostingInit, DocumentRow
<1>4. \A j \in Journals : journals[j] = NoJournal
  BY DEF PostingInit
<1>5. journals \in [Journals -> JournalRow \cup {NoJournal}]
  BY DEF PostingInit
<1> QED BY <1>1, <1>2, <1>3, <1>4, <1>5 DEF PostingInv, DocumentSound, JournalSound

LEMMA ApprovedRow ==
  ASSUME NEW doc \in DocumentRow, NEW u \in Users
  PROVE  [doc EXCEPT !.status = "APPROVED", !.approvedBy = u] \in DocumentRow
BY DEF DocumentRow

LEMMA PostedRow ==
  ASSUME NEW doc \in DocumentRow, NEW u \in Users, NEW j \in Journals
  PROVE  [doc EXCEPT !.status = "POSTED", !.postedBy = u, !.journal = j] \in DocumentRow
BY DEF DocumentRow

LEMMA PostingInductive == PostingInv /\ [PostingStep]_postingVars => PostingInv'
<1> SUFFICES ASSUME PostingInv, [PostingStep]_postingVars PROVE PostingInv'
  OBVIOUS
<1>i. /\ HandlersInv
      /\ documents \in [Documents -> DocumentRow]
      /\ journals \in [Journals -> JournalRow \cup {NoJournal}]
      /\ \A r \in Requests : PostingCall(running[r])
  BY DEF PostingInv
<1> USE <1>i
<1>p. \A actor \in Actors : actor.real \in Users /\ actor.acting \in Users
  BY SourceAssumption DEF Actors
<1>q. PostingCall(Idle) /\ Idle.step # "review"
  BY IdleStep DEF PostingCall
<1>a. ASSUME NEW r \in Requests, NEW actor \in Actors, NEW d \in Documents, Approve(r, actor, d)
      PROVE  PostingInv'
  <2>1. PICK call : call = Call("approve", d, actor, None)
    OBVIOUS
  <2>2. HandlersInv' /\ Only(r, call) /\ UNCHANGED postingTables
    BY <1>a, <2>1, Begins DEF Approve
  <2>3. PostingCall(call) /\ call.step # "review"
    BY <2>1 DEF PostingCall, Call
  <2> QED BY <2>2, <2>3, PostingReads
<1>b. ASSUME NEW r \in Requests, NEW actor \in Actors, NEW d \in Documents, PostGuard(r, actor, d)
      PROVE  PostingInv'
  <2>1. PICK call : call = Call("load", d, actor, None)
    OBVIOUS
  <2>2. HandlersInv' /\ Only(r, call) /\ UNCHANGED postingTables
    BY <1>b, <2>1, Begins DEF PostGuard
  <2>3. PostingCall(call) /\ call.step # "review"
    BY <2>1 DEF PostingCall, Call
  <2> QED BY <2>2, <2>3, PostingReads
<1>c. ASSUME NEW r \in Requests, WriteApproved(r)
      PROVE  PostingInv'
  <2> DEFINE d == running[r].doc
             row == [documents[d] EXCEPT !.status = "APPROVED", !.approvedBy = running[r].by.real]
  <2>1. d \in Documents /\ running[r].by.real \in Users
    BY <1>c, <1>p DEF WriteApproved, At, PostingCall
  <2>2. /\ row \in DocumentRow /\ row.kind = documents[d].kind
        /\ row.createdBy = documents[d].createdBy /\ row.status = "APPROVED"
    <3>1. documents[d] \in DocumentRow
      BY <2>1
    <3>2. row \in DocumentRow
      BY <2>1, <3>1, ApprovedRow
    <3>3. row.kind = documents[d].kind /\ row.createdBy = documents[d].createdBy
      BY <3>1 DEF DocumentRow
    <3> QED BY <3>1, <3>2, <3>3 DEF DocumentRow
  <2>3. documents' = [documents EXCEPT ![d] = row] /\ journals' = journals
    BY <1>c DEF WriteApproved
  <2>4. JournalsGrow
    BY <2>3 DEF JournalsGrow, Posted
  <2>5. /\ documents' \in [Documents -> DocumentRow]
        /\ \A x \in Documents : DocumentSound(x)'
        /\ DocumentsKept
    <3> HIDE DEF row
    <3> QED BY <2>1, <2>2, <2>3, <2>4, DocumentWritten
  <2>6. /\ journals' \in [Journals -> JournalRow \cup {NoJournal}]
        /\ \A x \in Journals : JournalSound(x)'
    BY <2>3, <2>5, JournalsSame
  <2>7. HandlersInv' /\ Only(r, Idle)
    BY <1>c, Finishes DEF WriteApproved
  <2>8. PostingCall(Idle)'
    BY IdleStep DEF PostingCall
  <2> QED BY <1>q, <2>3, <2>4, <2>5, <2>6, <2>7, <2>8, PostingSteps
<1>d. ASSUME NEW r \in Requests, LoadDocument(r)
      PROVE  PostingInv'
  <2> DEFINE d == running[r].doc
  <2>1. running[r] # Idle /\ UNCHANGED postingTables
    BY <1>d, Busy DEF LoadDocument
  <2>2. d \in Documents /\ running[r].by \in Actors
    BY <1>d DEF LoadDocument, At, PostingCall
  <2>3. CASE Finish(r)
    BY <1>q, <2>1, <2>3, Finishes, PostingReads
  <2>4. CASE Goto(r, "create", None) /\ Staged(documents[d].kind)
    <3>1. PICK call : call = Call("create", d, running[r].by, None)
      OBVIOUS
    <3>2. HandlersInv' /\ Only(r, call)
      BY <2>1, <2>4, <3>1, Goes
    <3>3. PostingCall(call) /\ call.step # "review"
      BY <2>2, <2>4, <3>1 DEF PostingCall, Call, Staged
    <3> QED BY <2>1, <3>2, <3>3, PostingReads
  <2>5. CASE Goto(r, "transaction", None)
    <3>1. PICK call : call = Call("transaction", d, running[r].by, None)
      OBVIOUS
    <3>2. HandlersInv' /\ Only(r, call)
      BY <2>1, <2>5, <3>1, Goes
    <3>3. PostingCall(call) /\ call.step # "review"
      BY <2>2, <3>1 DEF PostingCall, Call
    <3> QED BY <2>1, <3>2, <3>3, PostingReads
  <2> QED BY <1>d, <2>3, <2>4, <2>5 DEF LoadDocument
<1>e. ASSUME NEW r \in Requests, CreateJournal(r)
      PROVE  PostingInv'
  <2> DEFINE d == running[r].doc
             row == Entry(d, Maker(d, running[r].by))
  <2>1. running[r] # Idle
    BY <1>e, Busy DEF CreateJournal
  <2>2. d \in Documents /\ running[r].by \in Actors /\ documents[d].kind # "own"
    BY <1>e DEF CreateJournal, At, PostingCall
  <2>3. PICK j \in Journals : /\ journals[j] = NoJournal
                              /\ journals' = [journals EXCEPT ![j] = row]
                              /\ Goto(r, "review", j)
    BY <1>e DEF CreateJournal
  <2>4. /\ row \in JournalRow /\ row.source = d /\ row.createdBy = documents[d].createdBy
        /\ row.status = "SUBMITTED"
    BY <2>2 DEF Entry, Maker, JournalRow, DocumentRow
  <2>5. documents' = documents /\ DocumentsKept
    BY <1>e DEF CreateJournal, DocumentsKept
  <2>6. /\ journals' \in [Journals -> JournalRow \cup {NoJournal}]
        /\ \A x \in Journals : JournalSound(x)'
        /\ JournalsGrow
        /\ journals'[j] = row /\ row # NoJournal
        /\ \A x \in Journals \ {j} : journals'[x] = journals[x]
    <3> HIDE DEF row
    <3> QED BY <2>3, <2>4, <2>5, JournalWritten
  <2>7. /\ documents' \in [Documents -> DocumentRow]
        /\ \A x \in Documents : DocumentSound(x)'
    BY <2>5, <2>6, DocumentsSame
  <2>8. PICK call : call = Call("review", d, running[r].by, j)
    OBVIOUS
  <2>9. HandlersInv' /\ Only(r, call)
    BY <2>1, <2>3, <2>8, Goes
  <2>10. PostingCall(call)'
    <3> HIDE DEF row
    <3> QED BY <2>2, <2>3, <2>4, <2>5, <2>6, <2>8 DEF PostingCall, Call
  <2>11. \A q \in Requests : running[q].step = "review" => running[q].saw # j
    BY <2>3 DEF PostingCall
  <2>12. call.saw = j
    BY <2>8 DEF Call
  <2>13. \A x \in Journals : journals[x].status = "SUBMITTED" => journals'[x].status = "SUBMITTED"
    <3> HIDE DEF row
    <3> QED BY <2>4, <2>6
  <2> HIDE DEF row
  <2> QED BY <2>5, <2>6, <2>7, <2>9, <2>10, <2>11, <2>12, <2>13, PostingSteps
<1>f. ASSUME NEW r \in Requests, SystemReview(r)
      PROVE  PostingInv'
  <2> DEFINE d == running[r].doc
             j == running[r].saw
             row == [journals[j] EXCEPT !.status = "REVIEWED", !.reviewedBy = running[r].by.acting]
  <2>1. running[r] # Idle /\ running[r].step = "review"
    BY <1>f, Busy DEF SystemReview, At
  <2>2. /\ d \in Documents /\ running[r].by \in Actors /\ running[r].by.acting \in Users
        /\ j \in Journals /\ journals[j] # NoJournal /\ journals[j].source = d
        /\ journals[j].status = "SUBMITTED"
    BY <2>1, <1>p DEF PostingCall
  <2>3. /\ journals[j] \in JournalRow
        /\ journals[j].createdBy = documents[d].createdBy
    BY <2>2 DEF PostingInv, JournalSound
  <2>4. /\ row \in JournalRow /\ row.source = d /\ row.createdBy = journals[j].createdBy
        /\ row.status = "REVIEWED"
    BY <2>2, <2>3 DEF JournalRow
  <2>5. journals' = [journals EXCEPT ![j] = row] /\ documents' = documents
    BY <1>f DEF SystemReview
  <2>6. DocumentsKept
    BY <2>5 DEF DocumentsKept
  <2>7. /\ journals' \in [Journals -> JournalRow \cup {NoJournal}]
        /\ \A x \in Journals : JournalSound(x)'
        /\ JournalsGrow
        /\ journals'[j] = row /\ row # NoJournal
        /\ \A x \in Journals \ {j} : journals'[x] = journals[x]
    <3> HIDE DEF row
    <3> QED BY <2>2, <2>3, <2>4, <2>5, <2>6, JournalWritten DEF Posted
  <2>8. /\ documents' \in [Documents -> DocumentRow]
        /\ \A x \in Documents : DocumentSound(x)'
    BY <2>5, <2>7, DocumentsSame
  <2>9. PICK call : call = Call("post", d, running[r].by, j)
    OBVIOUS
  <2>10. HandlersInv' /\ Only(r, call)
    BY <1>f, <2>1, <2>9, Goes DEF SystemReview
  <2>11. PICK c : c = running[r]
    OBVIOUS
  <2>12. PostingCall(call)' /\ call.step # "review"
    <3>1. call.step = "post" /\ call.doc = c.doc /\ call.by = c.by /\ call.saw = c.saw
      BY <2>9, <2>11 DEF Call
    <3>2. journals'[c.saw] # NoJournal /\ journals'[c.saw].source = c.doc
      BY <2>2, <2>7, <2>11 DEF JournalsGrow
    <3> QED BY <2>2, <2>11, <3>1, <3>2 DEF PostingCall
  <2> HIDE DEF row
  <2> QED BY <2>1, <2>6, <2>7, <2>8, <2>10, <2>12, PostingSteps
(* A journal that is REVIEWED is posted by somebody the policy lets.       *)
<1>g. ASSUME NEW j \in Journals, NEW actor \in Actors, MayPost(actor, journals[j]),
             journals' = [journals EXCEPT ![j] = PostedBy(@, actor)], documents' = documents
      PROVE  /\ DocumentsKept /\ JournalsGrow
             /\ documents' \in [Documents -> DocumentRow]
             /\ journals' \in [Journals -> JournalRow \cup {NoJournal}]
             /\ \A d \in Documents : DocumentSound(d)'
             /\ \A x \in Journals : JournalSound(x)'
             /\ \A x \in Journals :
                  journals[x].status = "SUBMITTED" => journals'[x].status = "SUBMITTED"
             /\ journals[j] # NoJournal /\ journals'[j].status = "POSTED"
  <2> DEFINE row == PostedBy(journals[j], actor)
  <2>1. /\ journals[j].status = "REVIEWED" /\ journals[j] # NoJournal
        /\ actor.real # journals[j].createdBy
    BY <1>g DEF MayPost, EvaluateSoD, ConflictedUsers, NoJournal
  <2>2. journals[j] \in JournalRow /\ actor.real \in Users
    BY <2>1, <1>p
  <2>3. /\ row \in JournalRow /\ row.source = journals[j].source
        /\ row.createdBy = journals[j].createdBy
        /\ row.status = "POSTED" /\ row.postedBy = actor.real
    BY <2>2 DEF JournalRow, PostedBy
  <2>4. journals[j].createdBy = documents[journals[j].source].createdBy
    BY <2>1 DEF PostingInv, JournalSound
  <2>5. journals' = [journals EXCEPT ![j] = row]
    BY <1>g
  <2>6. DocumentsKept
    BY <1>g DEF DocumentsKept
  <2> HIDE DEF row
  <2>7. /\ journals' \in [Journals -> JournalRow \cup {NoJournal}]
        /\ \A x \in Journals : JournalSound(x)'
        /\ JournalsGrow
        /\ journals'[j] = row
        /\ \A x \in Journals \ {j} : journals'[x] = journals[x]
    BY <2>1, <2>3, <2>4, <2>5, <2>6, JournalWritten
  <2>8. /\ documents' \in [Documents -> DocumentRow]
        /\ \A x \in Documents : DocumentSound(x)'
    BY <1>g, <2>7, DocumentsSame
  <2>9. \A x \in Journals : journals[x].status = "SUBMITTED" => journals'[x].status = "SUBMITTED"
    BY <2>1, <2>7
  <2> QED BY <2>1, <2>3, <2>6, <2>7, <2>8, <2>9
<1>h. ASSUME NEW r \in Requests, PostJournal(r)
      PROVE  PostingInv'
  <2> DEFINE j == running[r].saw
  <2>1. running[r] # Idle
    BY <1>h, Busy DEF PostJournal
  <2>2. PICK c : c = running[r]
    OBVIOUS
  <2>3. /\ c.doc \in Documents /\ c.by \in Actors /\ c.saw \in Journals
        /\ journals[c.saw] # NoJournal /\ journals[c.saw].source = c.doc
    BY <1>h, <2>2 DEF PostJournal, At, PostingCall
  <2>4. CASE /\ MayPost(running[r].by, journals[j])
             /\ journals' = [journals EXCEPT ![j] = PostedBy(@, running[r].by)]
             /\ Goto(r, "mark", j)
    <3>1. documents' = documents
      BY <1>h DEF PostJournal
    <3>2. /\ DocumentsKept /\ JournalsGrow
          /\ documents' \in [Documents -> DocumentRow]
          /\ journals' \in [Journals -> JournalRow \cup {NoJournal}]
          /\ \A d \in Documents : DocumentSound(d)'
          /\ \A x \in Journals : JournalSound(x)'
          /\ \A x \in Journals :
               journals[x].status = "SUBMITTED" => journals'[x].status = "SUBMITTED"
          /\ journals'[c.saw].status = "POSTED"
      BY <1>g, <2>2, <2>3, <2>4, <3>1
    <3>3. PICK call : call = Call("mark", c.doc, c.by, c.saw)
      OBVIOUS
    <3>4. HandlersInv' /\ Only(r, call)
      BY <2>1, <2>2, <2>4, <3>3, Goes
    <3>5. call.step = "mark" /\ call.doc = c.doc /\ call.by = c.by /\ call.saw = c.saw
      BY <3>3 DEF Call
    <3>6. PostingCall(call)'
      BY <2>3, <3>2, <3>5 DEF PostingCall, JournalsGrow, Posted
    <3> QED BY <3>2, <3>4, <3>5, <3>6, PostingSteps
  <2>5. CASE Goto(r, "refused", j) /\ UNCHANGED journals
    <3>1. UNCHANGED postingTables
      BY <1>h, <2>5 DEF PostJournal, postingTables
    <3>2. PICK call : call = Call("refused", running[r].doc, running[r].by, j)
      OBVIOUS
    <3>3. HandlersInv' /\ Only(r, call)
      BY <2>1, <2>5, <3>2, Goes
    <3>4. PostingCall(call) /\ call.step # "review"
      BY <3>2 DEF PostingCall, Call
    <3> QED BY <3>1, <3>3, <3>4, PostingReads
  <2> QED BY <1>h, <2>4, <2>5 DEF PostJournal
<1>j. ASSUME NEW r \in Requests, MarkPosted(r)
      PROVE  PostingInv'
  <2> DEFINE d == running[r].doc
             j == running[r].saw
             row == [documents[d] EXCEPT !.status = "POSTED", !.postedBy = running[r].by.real,
                                         !.journal = j]
  <2>1. /\ d \in Documents /\ running[r].by.real \in Users
        /\ j \in Journals /\ journals[j].source = d /\ Posted(j)
    BY <1>j, <1>p DEF MarkPosted, At, PostingCall
  <2>2. documents[d] \in DocumentRow
    BY <2>1
  <2>3. row \in DocumentRow
    BY <2>1, <2>2, PostedRow
  <2>4. row.kind = documents[d].kind /\ row.createdBy = documents[d].createdBy /\ row.journal = j
    BY <2>2 DEF DocumentRow
  <2>5. documents' = [documents EXCEPT ![d] = row] /\ journals' = journals
    BY <1>j DEF MarkPosted
  <2>6. JournalsGrow
    BY <2>5 DEF JournalsGrow, Posted
  <2>7. /\ documents' \in [Documents -> DocumentRow]
        /\ \A x \in Documents : DocumentSound(x)'
        /\ DocumentsKept
    <3> HIDE DEF row
    <3> QED BY <2>1, <2>3, <2>4, <2>5, <2>6, DocumentWritten DEF Posted
  <2>8. /\ journals' \in [Journals -> JournalRow \cup {NoJournal}]
        /\ \A x \in Journals : JournalSound(x)'
    BY <2>5, <2>7, JournalsSame
  <2>9. HandlersInv' /\ Only(r, Idle)
    BY <1>j, Finishes DEF MarkPosted
  <2>10. PostingCall(Idle)'
    BY IdleStep DEF PostingCall
  <2> QED BY <1>q, <2>5, <2>6, <2>7, <2>8, <2>9, <2>10, PostingSteps
<1>k. ASSUME NEW r \in Requests, RecheckDocument(r)
      PROVE  PostingInv'
  <2>1. running[r] # Idle /\ UNCHANGED postingTables
    BY <1>k, Busy DEF RecheckDocument
  <2>2. running[r].doc \in Documents /\ running[r].by \in Actors
    BY <1>k DEF RecheckDocument, At, PostingCall
  <2>3. CASE Finish(r)
    BY <1>q, <2>1, <2>3, Finishes, PostingReads
  <2>4. CASE Goto(r, "commit", None)
    <3>1. PICK call : call = Call("commit", running[r].doc, running[r].by, None)
      OBVIOUS
    <3>2. HandlersInv' /\ Only(r, call)
      BY <2>1, <2>4, <3>1, Goes
    <3>3. PostingCall(call) /\ call.step # "review"
      BY <2>2, <3>1 DEF PostingCall, Call
    <3> QED BY <2>1, <3>2, <3>3, PostingReads
  <2> QED BY <1>k, <2>3, <2>4 DEF RecheckDocument
<1>l. ASSUME NEW r \in Requests, PostInTransaction(r)
      PROVE  PostingInv'
  <2> DEFINE d == running[r].doc
             actor == running[r].by
             reviewed == [Entry(d, Maker(d, actor)) EXCEPT
                            !.status = "REVIEWED", !.reviewedBy = actor.acting]
             row == PostedBy(reviewed, actor)
  <2>1. running[r] # Idle
    BY <1>l, Busy DEF PostInTransaction
  <2>2. /\ d \in Documents /\ actor \in Actors
        /\ actor.real \in Users /\ actor.acting \in Users
    BY <1>l, <1>p DEF PostInTransaction, At, PostingCall
  <2>3. Maker(d, actor) \in Users /\ documents[d] \in DocumentRow
    BY <2>2 DEF Maker, DocumentRow
  <2>4. /\ reviewed \in JournalRow /\ reviewed.source = d
        /\ reviewed.createdBy = Maker(d, actor)
    BY <2>2, <2>3 DEF Entry, JournalRow
  <2>5. /\ row \in JournalRow /\ row.source = d /\ row.createdBy = Maker(d, actor)
        /\ row.status = "POSTED" /\ row.postedBy = actor.real
    <3> HIDE DEF reviewed
    <3> QED BY <2>2, <2>4 DEF JournalRow, PostedBy
  <2>6. ASSUME MayPost(actor, reviewed), NEW j \in Journals, journals[j] = NoJournal,
               journals' = [journals EXCEPT ![j] = row],
               documents' = [documents EXCEPT
                 ![d].status = "POSTED", ![d].postedBy = actor.real, ![d].journal = j],
               Finish(r)
        PROVE  PostingInv'
    <3> DEFINE marked == [documents[d] EXCEPT
                            !.status = "POSTED", !.postedBy = actor.real, !.journal = j]
    <3>1. actor.real # Maker(d, actor) /\ Maker(d, actor) = documents[d].createdBy
      BY <2>4, <2>6 DEF MayPost, EvaluateSoD, ConflictedUsers, Maker
    <3>2. marked \in DocumentRow
      BY <2>2, <2>3, PostedRow
    <3>3. /\ marked.kind = documents[d].kind /\ marked.createdBy = documents[d].createdBy
          /\ marked.journal = j
      BY <2>3 DEF DocumentRow
    <3>4. documents' = [documents EXCEPT ![d] = marked]
      BY <2>6
    <3> HIDE DEF row, marked
    <3>5. DocumentsKept
      BY <2>2, <3>3, <3>4 DEF DocumentsKept
    <3>6. /\ journals' \in [Journals -> JournalRow \cup {NoJournal}]
          /\ \A x \in Journals : JournalSound(x)'
          /\ JournalsGrow
          /\ journals'[j] = row
          /\ \A x \in Journals \ {j} : journals'[x] = journals[x]
      BY <2>5, <2>6, <3>1, <3>5, JournalWritten
    <3>7. /\ documents' \in [Documents -> DocumentRow]
          /\ \A x \in Documents : DocumentSound(x)'
      BY <2>2, <2>5, <3>2, <3>3, <3>4, <3>6, DocumentWritten
    <3>8. \A x \in Journals : journals[x].status = "SUBMITTED" => journals'[x].status = "SUBMITTED"
      BY <2>6, <3>6 DEF NoJournal
    <3>9. HandlersInv' /\ Only(r, Idle)
      BY <2>6, Finishes
    <3>10. PostingCall(Idle)'
      BY IdleStep DEF PostingCall
    <3> QED BY <1>q, <3>5, <3>6, <3>7, <3>8, <3>9, <3>10, PostingSteps
  <2>7. CASE Goto(r, "refused", None) /\ UNCHANGED postingTables
    <3>1. PICK call : call = Call("refused", d, actor, None)
      OBVIOUS
    <3>2. HandlersInv' /\ Only(r, call)
      BY <2>1, <2>7, <3>1, Goes
    <3>3. PostingCall(call) /\ call.step # "review"
      BY <3>1 DEF PostingCall, Call
    <3> QED BY <2>7, <3>2, <3>3, PostingReads
  <2> QED BY <1>l, <2>6, <2>7 DEF PostInTransaction
<1>m. ASSUME NEW r \in Requests, NEW actor \in Actors, NEW j \in Journals, PostLeftover(r, actor, j)
      PROVE  PostingInv'
  <2>1. /\ DocumentsKept /\ JournalsGrow
        /\ documents' \in [Documents -> DocumentRow]
        /\ journals' \in [Journals -> JournalRow \cup {NoJournal}]
        /\ \A d \in Documents : DocumentSound(d)'
        /\ \A x \in Journals : JournalSound(x)'
        /\ \A x \in Journals :
             journals[x].status = "SUBMITTED" => journals'[x].status = "SUBMITTED"
    BY <1>g, <1>m DEF PostLeftover
  <2>2. HandlersInv' /\ Only(r, Idle)
    BY <1>m, StaysPut DEF PostLeftover, AtOnce, Only
  <2>3. PostingCall(Idle)'
    BY IdleStep DEF PostingCall
  <2> QED BY <1>q, <2>1, <2>2, <2>3, PostingSteps
<1>n. ASSUME NEW r \in Requests, Fail(r), UNCHANGED postingTables
      PROVE  PostingInv'
  BY <1>n, <1>q, Finishes, PostingReads DEF Fail
<1>o. CASE UNCHANGED postingVars
  <2>1. HandlersInv' /\ documents' = documents /\ journals' = journals
        /\ \A q \in Requests : running'[q] = running[q]
    BY <1>o, StaysPut DEF postingVars, postingTables
  <2>2. DocumentsKept
    BY <2>1 DEF DocumentsKept
  <2>3. /\ journals' \in [Journals -> JournalRow \cup {NoJournal}]
        /\ \A x \in Journals : JournalSound(x)'
        /\ JournalsGrow
    BY <2>1, <2>2, JournalsSame
  <2>4. /\ documents' \in [Documents -> DocumentRow]
        /\ \A x \in Documents : DocumentSound(x)'
    BY <2>1, <2>3, DocumentsSame
  <2>5. \A q \in Requests : PostingCall(running[q])'
    <3>1. \A c : PostingCall(c) => PostingCall(c)'
      BY <2>1 DEF PostingCall, Posted
    <3>2. \A q \in Requests : \A c : PostingCall(c)' /\ running'[q] = c => PostingCall(running[q])'
      BY DEF PostingCall
    <3> QED BY <2>1, <3>1, <3>2
  <2>6. OwnReview'
    BY <2>1 DEF OwnReview, PostingInv
  <2> QED BY <2>1, <2>3, <2>4, <2>5, <2>6 DEF PostingInv
<1> QED
  BY <1>a, <1>b, <1>c, <1>d, <1>e, <1>f, <1>h, <1>j, <1>k, <1>l, <1>m, <1>n, <1>o DEF PostingStep

LEMMA PostingAlways == PostingSpec => []PostingInv
BY PostingInitially, PostingInductive, PTL DEF PostingSpec

(* In every interleaving, a document marked POSTED names a POSTED journal  *)
(* that was created for it.                                                *)
THEOREM PostedIsInLedger == PostingSpec => []PostedHasJournal
<1>1. PostingInv => PostedHasJournal
  BY SourceAssumption DEF PostingInv, DocumentSound, PostedHasJournal
<1> QED BY <1>1, PostingAlways, PTL

(* In every interleaving and under every set of delegations, no document   *)
(* enters the ledger by the hand of the user who prepared it.              *)
THEOREM PreparersDoNotPost == PostingSpec => []PreparerNeverPosts
<1>1. PostingInv => PreparerNeverPosts
  BY DEF PostingInv, JournalSound, PreparerNeverPosts, Posted, NoJournal
<1> QED BY <1>1, PostingAlways, PTL

(* Three people, one request at a time: nothing changes the approver or    *)
(* the status of a document between the guard that looked at them and the  *)
(* write at the end of the handler.                                        *)

TwoPeople(d) ==
  documents[d].kind = "checked" =>
    /\ documents[d].status \in {"APPROVED", "POSTED"} =>
         documents[d].approvedBy # documents[d].createdBy
    /\ documents[d].status = "POSTED" =>
         documents[d].postedBy \notin {documents[d].createdBy, documents[d].approvedBy}

ThirdPersonCall(call) ==
  LET doc == documents[call.doc] IN
  /\ call.step \in {"approve", "load", "create", "review", "post", "mark"} =>
       (doc.kind = "checked" => call.by.real # doc.createdBy)
  /\ call.step = "approve" => doc.status = "SUBMITTED"
  /\ call.step \in {"load", "create", "review", "post", "mark"} =>
       (doc.kind = "checked" => call.by.real # doc.approvedBy)
  /\ call.step \in {"create", "review", "post", "mark"} => doc.status = "APPROVED"
  /\ call.step \in {"transaction", "commit"} => doc.kind # "checked"

PeopleInv ==
  ~overlap =>
    /\ \A d \in Documents : TwoPeople(d)
    /\ \A r \in Requests : ThirdPersonCall(running[r])

LEMMA PeopleInitially == PostingInit /\ HandlersInit => PeopleInv
<1> SUFFICES ASSUME PostingInit, HandlersInit PROVE PeopleInv
  OBVIOUS
<1>1. \A r \in Requests : ThirdPersonCall(running[r])
  BY InitiallyIdle, IdleStep DEF ThirdPersonCall
<1>2. \A d \in Documents : documents[d].kind = "checked" => documents[d].status = "SUBMITTED"
  BY DEF PostingInit
<1> QED BY <1>1, <1>2 DEF PeopleInv, TwoPeople

LEMMA PeopleSteps ==
  ASSUME HandlersInv, ~overlap, NEW r \in Requests, running[r] # Idle \/ Quiet,
         NEW call, Only(r, call), ThirdPersonCall(call)',
         \A d \in Documents : TwoPeople(d)'
  PROVE  PeopleInv'
<1>1. ThirdPersonCall(Idle)'
  BY IdleStep DEF ThirdPersonCall
<1>2. \A q \in Requests \ {r} : running'[q] = Idle
  BY Alone DEF Only
<1>3. ASSUME NEW q \in Requests PROVE ThirdPersonCall(running[q])'
  BY <1>1, <1>2 DEF Only, ThirdPersonCall
<1> QED BY <1>3 DEF PeopleInv

LEMMA PeopleInductive == PostingInv /\ PeopleInv /\ [PostingStep]_postingVars => PeopleInv'
<1> SUFFICES ASSUME PostingInv, PeopleInv, [PostingStep]_postingVars PROVE PeopleInv'
  OBVIOUS
<1>0. overlap' = overlap
  <2>1. ASSUME NEW r \in Requests, NEW actor, NEW d, Approve(r, actor, d) \/ PostGuard(r, actor, d)
        PROVE  overlap' = overlap
    BY <2>1 DEF Approve, PostGuard, Begin, AtOnce, handlerVars
  <2>2. ASSUME NEW r \in Requests, NEW actor, NEW j, PostLeftover(r, actor, j)
        PROVE  overlap' = overlap
    BY <2>2 DEF PostLeftover, AtOnce, handlerVars
  <2>3. ASSUME NEW r \in Requests,
               WriteApproved(r) \/ LoadDocument(r) \/ CreateJournal(r) \/ SystemReview(r)
        PROVE  overlap' = overlap
    BY <2>3 DEF WriteApproved, LoadDocument, CreateJournal, SystemReview, Goto, Finish
  <2>4. ASSUME NEW r \in Requests,
               PostJournal(r) \/ MarkPosted(r) \/ RecheckDocument(r) \/ PostInTransaction(r)
                 \/ Fail(r)
        PROVE  overlap' = overlap
    BY <2>4 DEF PostJournal, MarkPosted, RecheckDocument, PostInTransaction, Fail, Goto, Finish
  <2>5. CASE UNCHANGED postingVars
    BY <2>5 DEF postingVars, handlerVars
  <2> QED BY <2>1, <2>2, <2>3, <2>4, <2>5 DEF PostingStep
<1> SUFFICES ASSUME ~overlap PROVE PeopleInv'
  BY <1>0 DEF PeopleInv
<1>i. /\ HandlersInv
      /\ documents \in [Documents -> DocumentRow]
      /\ \A d \in Documents : TwoPeople(d)
      /\ \A r \in Requests : PostingCall(running[r]) /\ ThirdPersonCall(running[r])
  BY DEF PostingInv, PeopleInv
<1>q. ThirdPersonCall(Idle) /\ ThirdPersonCall(Idle)'
  BY IdleStep DEF ThirdPersonCall
<1>s. ASSUME documents' = documents PROVE \A d \in Documents : TwoPeople(d)'
  BY <1>i, <1>s DEF TwoPeople
(* The steps that leave the documents alone.                               *)
<1>r. ASSUME NEW r \in Requests, NEW call, Only(r, call), running[r] # Idle \/ Quiet,
             documents' = documents, ThirdPersonCall(call)
      PROVE  PeopleInv'
  <2>1. ThirdPersonCall(call)'
    BY <1>r DEF ThirdPersonCall
  <2> QED BY <1>i, <1>r, <1>s, <2>1, PeopleSteps
<1>b. ASSUME NEW r \in Requests, NEW step, NEW doc, NEW by, NEW saw, Begin(r, step, doc, by, saw),
             documents' = documents, ThirdPersonCall(Call(step, doc, by, saw))
      PROVE  PeopleInv'
  <2>1. PICK call : call = Call(step, doc, by, saw)
    OBVIOUS
  <2>2. Only(r, call) /\ Quiet
    BY <1>b, <1>i, <2>1, Begins
  <2> QED BY <1>b, <1>r, <2>1, <2>2
<1>g. ASSUME NEW r \in Requests, NEW step, NEW saw, Goto(r, step, saw), running[r] # Idle,
             documents' = documents,
             ThirdPersonCall(Call(step, running[r].doc, running[r].by, saw))
      PROVE  PeopleInv'
  <2>1. PICK call : call = Call(step, running[r].doc, running[r].by, saw)
    OBVIOUS
  <2>2. Only(r, call)
    BY <1>g, <1>i, <2>1, Goes
  <2> QED BY <1>g, <1>r, <2>1, <2>2
<1>e. ASSUME NEW r \in Requests, Finish(r), running[r] # Idle, documents' = documents
      PROVE  PeopleInv'
  BY <1>e, <1>i, <1>q, <1>r, Finishes
(* One document is written, by the handler that then ends.                 *)
<1>w. ASSUME NEW r \in Requests, NEW d \in Documents, NEW row, Finish(r), running[r] # Idle,
             documents' = [documents EXCEPT ![d] = row],
             row.kind = "checked" =>
               /\ row.status \in {"APPROVED", "POSTED"} => row.approvedBy # row.createdBy
               /\ row.status = "POSTED" => row.postedBy \notin {row.createdBy, row.approvedBy}
      PROVE  PeopleInv'
  <2>1. documents'[d] = row /\ \A x \in Documents \ {d} : documents'[x] = documents[x]
    BY <1>i, <1>w
  <2>2. \A x \in Documents : TwoPeople(x)'
    BY <1>i, <1>w, <2>1 DEF TwoPeople
  <2> QED BY <1>i, <1>q, <1>w, <2>2, Finishes, PeopleSteps
<1>1. ASSUME NEW r \in Requests, NEW actor \in Actors, NEW d \in Documents, Approve(r, actor, d)
      PROVE  PeopleInv'
  <2>1. ThirdPersonCall(Call("approve", d, actor, None))
    BY <1>1 DEF Approve, GuardAllows, DocumentPolicy, ThirdPersonCall, Call
  <2> QED BY <1>1, <1>b, <2>1 DEF Approve, postingTables
<1>2. ASSUME NEW r \in Requests, WriteApproved(r)
      PROVE  PeopleInv'
  <2>1. running[r] # Idle
    BY <1>2, Busy DEF WriteApproved
  <2>0. PICK u : u = running[r].by.real
    OBVIOUS
  <2>2. PICK d \in Documents : d = running[r].doc
    BY <1>2, <1>i DEF WriteApproved, At, PostingCall
  <2>3. documents[d] \in DocumentRow /\ (documents[d].kind = "checked" => u # documents[d].createdBy)
    BY <1>2, <1>i, <2>0, <2>2 DEF WriteApproved, At, ThirdPersonCall
  <2>4. PICK row : row = [documents[d] EXCEPT !.status = "APPROVED", !.approvedBy = u]
    OBVIOUS
  <2>5. /\ row.kind = documents[d].kind /\ row.createdBy = documents[d].createdBy
        /\ row.status = "APPROVED" /\ row.approvedBy = u
    BY <2>3, <2>4 DEF DocumentRow
  <2>6. documents' = [documents EXCEPT ![d] = row] /\ Finish(r)
    BY <1>2, <2>0, <2>2, <2>4 DEF WriteApproved
  <2> QED BY <1>w, <2>1, <2>3, <2>5, <2>6
<1>3. ASSUME NEW r \in Requests, NEW actor \in Actors, NEW d \in Documents, PostGuard(r, actor, d)
      PROVE  PeopleInv'
  <2>1. ThirdPersonCall(Call("load", d, actor, None))
    BY <1>3 DEF PostGuard, GuardAllows, DocumentPolicy, ThirdPersonCall, Call
  <2> QED BY <1>3, <1>b, <2>1 DEF PostGuard, postingTables
<1>4. ASSUME NEW r \in Requests, LoadDocument(r)
      PROVE  PeopleInv'
  <2>1. running[r] # Idle /\ documents' = documents
    BY <1>4, Busy DEF LoadDocument, postingTables
  <2>2. PICK d, actor : d = running[r].doc /\ actor = running[r].by
    OBVIOUS
  <2>3. documents[d].kind = "checked" =>
          actor.real # documents[d].createdBy /\ actor.real # documents[d].approvedBy
    BY <1>4, <1>i, <2>2 DEF LoadDocument, At, ThirdPersonCall
  <2>4. CASE Finish(r)
    BY <1>e, <2>1, <2>4
  <2>5. CASE Goto(r, "create", None) /\ documents[d].status = "APPROVED"
    <3>1. ThirdPersonCall(Call("create", d, actor, None))
      BY <2>3, <2>5 DEF ThirdPersonCall, Call
    <3> QED BY <1>g, <2>1, <2>2, <2>5, <3>1
  <2>6. CASE Goto(r, "transaction", None) /\ ~Staged(documents[d].kind)
    <3>1. ThirdPersonCall(Call("transaction", d, actor, None))
      BY <2>6 DEF ThirdPersonCall, Call, Staged
    <3> QED BY <1>g, <2>1, <2>2, <2>6, <3>1
  <2> QED BY <1>4, <2>2, <2>4, <2>5, <2>6 DEF LoadDocument
(* The journal is created, reviewed and posted; the document waits.        *)
<1>5. ASSUME NEW r \in Requests, CreateJournal(r) \/ SystemReview(r) \/ PostJournal(r)
      PROVE  PeopleInv'
  <2>1. running[r] # Idle /\ documents' = documents
    BY <1>5, Busy DEF CreateJournal, SystemReview, PostJournal
  <2>2. PICK step, saw : /\ step \in {"review", "post", "mark", "refused"}
                         /\ Goto(r, step, saw)
    BY <1>5 DEF CreateJournal, SystemReview, PostJournal
  <2>3. ThirdPersonCall(Call(step, running[r].doc, running[r].by, saw))
    BY <1>5, <1>i, <2>2 DEF CreateJournal, SystemReview, PostJournal, At, ThirdPersonCall, Call
  <2> QED BY <1>g, <2>1, <2>2, <2>3
<1>6. ASSUME NEW r \in Requests, MarkPosted(r)
      PROVE  PeopleInv'
  <2>1. running[r] # Idle
    BY <1>6, Busy DEF MarkPosted
  <2>0. PICK u, j : u = running[r].by.real /\ j = running[r].saw
    OBVIOUS
  <2>2. PICK d \in Documents : d = running[r].doc
    BY <1>6, <1>i DEF MarkPosted, At, PostingCall
  <2>3. /\ documents[d] \in DocumentRow /\ TwoPeople(d)
        /\ documents[d].status = "APPROVED"
        /\ documents[d].kind = "checked" =>
             u # documents[d].createdBy /\ u # documents[d].approvedBy
    BY <1>6, <1>i, <2>0, <2>2 DEF MarkPosted, At, ThirdPersonCall
  <2>4. PICK row : row = [documents[d] EXCEPT !.status = "POSTED", !.postedBy = u, !.journal = j]
    OBVIOUS
  <2>5. /\ row.kind = documents[d].kind /\ row.createdBy = documents[d].createdBy
        /\ row.approvedBy = documents[d].approvedBy /\ row.postedBy = u
    BY <2>3, <2>4 DEF DocumentRow
  <2>6. documents' = [documents EXCEPT ![d] = row] /\ Finish(r)
    BY <1>6, <2>0, <2>2, <2>4 DEF MarkPosted
  <2> QED BY <1>w, <2>1, <2>3, <2>5, <2>6 DEF TwoPeople
<1>7. ASSUME NEW r \in Requests, RecheckDocument(r)
      PROVE  PeopleInv'
  <2>1. running[r] # Idle /\ documents' = documents
    BY <1>7, Busy DEF RecheckDocument, postingTables
  <2>2. CASE Finish(r)
    BY <1>e, <2>1, <2>2
  <2>3. CASE Goto(r, "commit", None)
    <3>1. ThirdPersonCall(Call("commit", running[r].doc, running[r].by, None))
      BY <1>7, <1>i DEF RecheckDocument, At, ThirdPersonCall, Call
    <3> QED BY <1>g, <2>1, <2>3, <3>1
  <2> QED BY <1>7, <2>2, <2>3 DEF RecheckDocument
<1>8. ASSUME NEW r \in Requests, PostInTransaction(r)
      PROVE  PeopleInv'
  <2>1. running[r] # Idle
    BY <1>8, Busy DEF PostInTransaction
  <2>0. PICK u : u = running[r].by.real
    OBVIOUS
  <2>2. PICK d \in Documents : d = running[r].doc
    BY <1>8, <1>i DEF PostInTransaction, At, PostingCall
  <2>3. documents[d] \in DocumentRow /\ documents[d].kind # "checked"
    BY <1>8, <1>i, <2>0, <2>2 DEF PostInTransaction, At, ThirdPersonCall
  <2>4. ASSUME NEW j \in Journals, Finish(r),
               documents' = [documents EXCEPT
                 ![d].status = "POSTED", ![d].postedBy = u, ![d].journal = j]
        PROVE  PeopleInv'
    <3>1. PICK row : row = [documents[d] EXCEPT !.status = "POSTED", !.postedBy = u, !.journal = j]
      OBVIOUS
    <3>2. row.kind # "checked"
      BY <2>3, <3>1 DEF DocumentRow
    <3>3. documents' = [documents EXCEPT ![d] = row]
      BY <2>4, <3>1
    <3> QED BY <1>w, <2>1, <2>4, <3>2, <3>3
  <2>5. CASE Goto(r, "refused", None) /\ UNCHANGED postingTables
    <3>1. ThirdPersonCall(Call("refused", running[r].doc, running[r].by, None))
      BY DEF ThirdPersonCall, Call
    <3> QED BY <1>g, <2>1, <2>5, <3>1 DEF postingTables
  <2> QED BY <1>8, <2>0, <2>2, <2>4, <2>5 DEF PostInTransaction
<1>9. ASSUME NEW r \in Requests, NEW actor \in Actors, NEW j \in Journals, PostLeftover(r, actor, j)
      PROVE  PeopleInv'
  <2>1. Only(r, Idle) /\ Quiet /\ documents' = documents
    BY <1>9, <1>i, StaysPut DEF PostLeftover, AtOnce, Only
  <2> QED BY <1>q, <1>r, <2>1
<1>10. ASSUME NEW r \in Requests, Fail(r), UNCHANGED postingTables
       PROVE  PeopleInv'
  BY <1>10, <1>e DEF Fail, postingTables
<1>11. CASE UNCHANGED postingVars
  <2>1. documents' = documents /\ \A q \in Requests : running'[q] = running[q]
    BY <1>11, <1>i, StaysPut DEF postingVars, postingTables
  <2> QED BY <1>i, <1>s, <2>1 DEF PeopleInv, ThirdPersonCall
<1> QED
  BY <1>1, <1>2, <1>3, <1>4, <1>5, <1>6, <1>7, <1>8, <1>9, <1>10, <1>11 DEF PostingStep

(* One request at a time, under every set of delegations: a bill, payment  *)
(* or credit note in the ledger went through the hands of three people.    *)
THEOREM TakesThreePeople == PostingSpec => []ThreePeople
<1>1. PostingInv /\ PeopleInv => ThreePeople
  BY DEF PostingInv, PeopleInv, TwoPeople, ThreePeople
<1> QED BY <1>1, PostingAlways, PeopleInitially, PeopleInductive, PTL DEF PostingSpec

-----------------------------------------------------------------------------
(* Budgets and forecasts, one request at a time.                           *)

BudgetRow == [status : {"NONE", "DRAFT", "ACTIVE"}, year : FiscalYears \cup {None}]

ForecastRow ==
  [status : {"NONE", "DRAFT", "SUBMITTED", "APPROVED"}, year : FiscalYears \cup {None},
   createdBy : Users \cup {None}, lines : Figures \cup {None}, submitted : Figures \cup {None},
   approvedBy : Users \cup {None}]

ActiveApart ==
  \A b, c \in Budgets :
    b # c /\ budgets[b].status = "ACTIVE" /\ budgets[c].status = "ACTIVE" =>
      budgets[b].year # budgets[c].year

ForecastSound(f) ==
  /\ forecasts[f].status \in {"SUBMITTED", "APPROVED"} => forecasts[f].lines = forecasts[f].submitted
  /\ forecasts[f].status = "APPROVED" =>
       forecasts[f].approvedBy \notin {None, forecasts[f].createdBy}

PlanningCall(call) ==
  /\ call.step = "activate budget" => call.doc \in Budgets /\ NoneActive(call.doc)
  /\ call.step = "insertForecast" =>
       call.doc \in Forecasts /\ call.saw \in ForecastRow /\ call.saw.status = "DRAFT"
  /\ call.step = "writeLines" =>
       call.doc \in Forecasts /\ call.saw \in Figures /\ forecasts[call.doc].status = "DRAFT"
  /\ call.step = "submitForecast" =>
       call.doc \in Forecasts /\ forecasts[call.doc].status = "DRAFT"
  /\ call.step = "approveForecast" =>
       /\ call.doc \in Forecasts /\ call.by \in Users
       /\ forecasts[call.doc].status = "SUBMITTED" /\ forecasts[call.doc].createdBy # call.by

PlanningTables ==
  /\ budgets \in [Budgets -> BudgetRow]
  /\ forecasts \in [Forecasts -> ForecastRow]
  /\ ActiveApart
  /\ \A f \in Forecasts : ForecastSound(f)

PlanningInv ==
  /\ HandlersInv
  /\ ~overlap => PlanningTables /\ \A r \in Requests : PlanningCall(running[r])

(* A step of request r, the others being idle, that ends at call.          *)
LEMMA PlanningSteps ==
  ASSUME PlanningInv, HandlersInv', NEW r \in Requests, NEW call, Only(r, call),
         running[r] # Idle \/ (~overlap => Quiet),
         ~overlap => PlanningTables' /\ PlanningCall(call)'
  PROVE  PlanningInv'
<1>1. CASE overlap
  BY <1>1 DEF PlanningInv, Only
<1>2. CASE ~overlap
  <2>1. \A q \in Requests \ {r} : running[q] = Idle
    BY <1>2, Alone DEF PlanningInv
  <2>2. \A q \in Requests : running'[q] = Idle \/ running'[q] = call
    BY <2>1 DEF Only
  <2>3. PlanningCall(Idle)'
    BY IdleStep DEF PlanningCall
  <2>4. ASSUME NEW q \in Requests PROVE PlanningCall(running[q])'
    <3>1. \A c : PlanningCall(c)' /\ running'[q] = c => PlanningCall(running[q])'
      BY DEF PlanningCall
    <3> QED BY <1>2, <2>2, <2>3, <3>1
  <2> QED BY <1>2, <2>4 DEF PlanningInv, Only
<1> QED BY <1>1, <1>2

LEMMA PlanningReads ==
  ASSUME PlanningInv, HandlersInv', NEW r \in Requests, NEW call, Only(r, call),
         running[r] # Idle \/ (~overlap => Quiet), UNCHANGED planningTables,
         ~overlap => PlanningCall(call)
  PROVE  PlanningInv'
<1>1. budgets' = budgets /\ forecasts' = forecasts
  BY DEF planningTables
<1>2. PlanningTables => PlanningTables'
  BY <1>1 DEF PlanningTables, ActiveApart, ForecastSound
<1>3. PlanningCall(call) => PlanningCall(call)'
  BY <1>1 DEF PlanningCall, NoneActive
<1> QED BY <1>2, <1>3, PlanningSteps DEF PlanningInv

LEMMA BudgetWritten ==
  ASSUME PlanningTables, NEW b \in Budgets, NEW row \in BudgetRow,
         budgets' = [budgets EXCEPT ![b] = row], forecasts' = forecasts,
         row.status = "ACTIVE" => NoneActive(b) /\ row.year = budgets[b].year
  PROVE  PlanningTables'
<1>1. /\ budgets' \in [Budgets -> BudgetRow]
      /\ budgets'[b] = row /\ \A c \in Budgets \ {b} : budgets'[c] = budgets[c]
  BY DEF PlanningTables
<1>2. ActiveApart'
  BY <1>1 DEF PlanningTables, ActiveApart, NoneActive
<1> QED BY <1>1, <1>2 DEF PlanningTables, ForecastSound

LEMMA ForecastWritten ==
  ASSUME PlanningTables, NEW f \in Forecasts, NEW row \in ForecastRow,
         forecasts' = [forecasts EXCEPT ![f] = row], budgets' = budgets,
         row.status \in {"SUBMITTED", "APPROVED"} => row.lines = row.submitted,
         row.status = "APPROVED" => row.approvedBy \notin {None, row.createdBy}
  PROVE  PlanningTables'
<1>1. /\ forecasts' \in [Forecasts -> ForecastRow]
      /\ forecasts'[f] = row /\ \A g \in Forecasts \ {f} : forecasts'[g] = forecasts[g]
  BY DEF PlanningTables
<1>2. \A g \in Forecasts : ForecastSound(g)'
  BY <1>1 DEF PlanningTables, ForecastSound
<1> QED BY <1>1, <1>2 DEF PlanningTables, ActiveApart

LEMMA PlanningInitially == PlanningInit /\ HandlersInit => PlanningInv
<1> SUFFICES ASSUME PlanningInit, HandlersInit PROVE PlanningInv
  OBVIOUS
<1>1. HandlersInv /\ \A r \in Requests : running[r] = Idle
  BY InitiallyIdle
<1>2. \A r \in Requests : PlanningCall(running[r])
  BY <1>1, IdleStep DEF PlanningCall
<1>3. budgets \in [Budgets -> BudgetRow] /\ \A b \in Budgets : budgets[b].status = "NONE"
  BY DEF PlanningInit, NoBudget, BudgetRow
<1>4. forecasts \in [Forecasts -> ForecastRow] /\ \A f \in Forecasts : forecasts[f].status = "NONE"
  BY DEF PlanningInit, NoForecast, ForecastRow
<1> QED
  BY <1>1, <1>2, <1>3, <1>4 DEF PlanningInv, PlanningTables, ActiveApart, ForecastSound

LEMMA PlanningInductive == PlanningInv /\ [PlanningStep]_planningVars => PlanningInv'
<1> SUFFICES ASSUME PlanningInv, [PlanningStep]_planningVars PROVE PlanningInv'
  OBVIOUS
<1>i. HandlersInv
  BY DEF PlanningInv
<1>q. PlanningCall(Idle) /\ PlanningCall(Idle)'
  BY IdleStep DEF PlanningCall
<1>t. ~overlap => /\ PlanningTables
                  /\ budgets \in [Budgets -> BudgetRow] /\ forecasts \in [Forecasts -> ForecastRow]
                  /\ \A r \in Requests : PlanningCall(running[r])
  BY DEF PlanningInv, PlanningTables
(* What starts a handler, and what ends one.                               *)
<1>b. ASSUME NEW r \in Requests, NEW step, NEW doc, NEW by, NEW saw, Begin(r, step, doc, by, saw),
             UNCHANGED planningTables, ~overlap => PlanningCall(Call(step, doc, by, saw))
      PROVE  PlanningInv'
  <2>1. PICK call : call = Call(step, doc, by, saw)
    OBVIOUS
  <2>2. HandlersInv' /\ Only(r, call) /\ (~overlap => Quiet)
    BY <1>b, <1>i, <2>1, Begins
  <2> QED BY <1>b, <2>1, <2>2, PlanningReads
<1>e. ASSUME NEW r \in Requests, Finish(r), running[r] # Idle, ~overlap => PlanningTables'
      PROVE  PlanningInv'
  <2>1. HandlersInv' /\ Only(r, Idle)
    BY <1>e, <1>i, Finishes
  <2> QED BY <1>e, <1>q, <2>1, PlanningSteps
<1>1. ASSUME NEW r \in Requests, NEW b \in Budgets, NEW year \in FiscalYears, CreateBudget(r, b, year)
      PROVE  PlanningInv'
  <2>1. PICK row \in BudgetRow : row = [status |-> "DRAFT", year |-> year]
    BY DEF BudgetRow
  <2>2. ~overlap => PlanningTables'
    BY <1>1, <1>t, <2>1, BudgetWritten DEF CreateBudget
  <2>3. HandlersInv' /\ Only(r, Idle) /\ (~overlap => Quiet)
    BY <1>1, <1>i, StaysPut DEF CreateBudget, AtOnce, Only
  <2> QED BY <1>q, <2>2, <2>3, PlanningSteps
<1>2. ASSUME NEW r \in Requests, NEW b \in Budgets, ApproveBudget(r, b)
      PROVE  PlanningInv'
  BY <1>2, <1>b DEF ApproveBudget, PlanningCall, Call
<1>3. ASSUME NEW r \in Requests, WriteActive(r)
      PROVE  PlanningInv'
  <2>1. running[r] # Idle
    BY <1>3, Busy DEF WriteActive
  <2>2. ASSUME ~overlap PROVE PlanningTables'
    <3>1. PICK b \in Budgets : b = running[r].doc /\ NoneActive(b)
      BY <1>3, <1>t, <2>2 DEF WriteActive, At, PlanningCall
    <3>2. PICK row : row = [budgets[b] EXCEPT !.status = "ACTIVE"]
      OBVIOUS
    <3>3. row \in BudgetRow /\ row.year = budgets[b].year
      BY <1>t, <2>2, <3>2 DEF BudgetRow
    <3>4. budgets' = [budgets EXCEPT ![b] = row] /\ forecasts' = forecasts
      BY <1>3, <3>1, <3>2 DEF WriteActive
    <3> QED BY <1>t, <2>2, <3>1, <3>3, <3>4, BudgetWritten
  <2> QED BY <1>3, <1>e, <2>1, <2>2 DEF WriteActive
<1>4. ASSUME NEW r \in Requests, NEW by \in Users, NEW f \in Forecasts, NEW year \in FiscalYears,
             NEW figures \in Figures, CreateForecast(r, by, f, year, figures)
      PROVE  PlanningInv'
  <2>1. PICK row : row = [NoForecast EXCEPT !.status = "DRAFT", !.year = year, !.createdBy = by,
                                            !.lines = figures]
    OBVIOUS
  <2>2. row \in ForecastRow /\ row.status = "DRAFT"
    BY <2>1 DEF NoForecast, ForecastRow
  <2>3. PlanningCall(Call("insertForecast", f, by, row))
    BY <2>2 DEF PlanningCall, Call
  <2> QED BY <1>4, <1>b, <2>1, <2>3 DEF CreateForecast
<1>5. ASSUME NEW r \in Requests, InsertForecast(r)
      PROVE  PlanningInv'
  <2>1. running[r] # Idle
    BY <1>5, Busy DEF InsertForecast
  <2>2. ASSUME ~overlap PROVE PlanningTables'
    <3>1. PICK f \in Forecasts, row \in ForecastRow :
            f = running[r].doc /\ row = running[r].saw /\ row.status = "DRAFT"
      BY <1>5, <1>t, <2>2 DEF InsertForecast, At, PlanningCall
    <3>2. CASE forecasts' = [forecasts EXCEPT ![running[r].doc] = running[r].saw]
      BY <1>5, <1>t, <2>2, <3>1, <3>2, ForecastWritten DEF InsertForecast
    <3>3. CASE UNCHANGED forecasts
      BY <1>5, <1>t, <2>2, <3>3 DEF InsertForecast, PlanningTables, ActiveApart, ForecastSound
    <3> QED BY <1>5, <3>2, <3>3 DEF InsertForecast
  <2> QED BY <1>5, <1>e, <2>1, <2>2 DEF InsertForecast
<1>6. ASSUME NEW r \in Requests, NEW f \in Forecasts, NEW figures \in Figures,
             UpdateForecastLines(r, f, figures)
      PROVE  PlanningInv'
  BY <1>6, <1>b DEF UpdateForecastLines, EditableForecast, PlanningCall, Call
<1>7. ASSUME NEW r \in Requests, WriteForecastLines(r)
      PROVE  PlanningInv'
  <2>1. running[r] # Idle
    BY <1>7, Busy DEF WriteForecastLines
  <2>2. ASSUME ~overlap PROVE PlanningTables'
    <3>1. PICK f \in Forecasts, figures \in Figures :
            /\ f = running[r].doc /\ figures = running[r].saw
            /\ forecasts[f].status = "DRAFT"
      BY <1>7, <1>t, <2>2 DEF WriteForecastLines, At, PlanningCall
    <3>2. PICK row : row = [forecasts[f] EXCEPT !.lines = figures]
      OBVIOUS
    <3>3. row \in ForecastRow /\ row.status = "DRAFT"
      BY <1>t, <2>2, <3>1, <3>2 DEF ForecastRow
    <3>4. forecasts' = [forecasts EXCEPT ![f] = row] /\ budgets' = budgets
      BY <1>7, <3>1, <3>2 DEF WriteForecastLines
    <3> QED BY <1>t, <2>2, <3>3, <3>4, ForecastWritten
  <2> QED BY <1>7, <1>e, <2>1, <2>2 DEF WriteForecastLines
<1>8. ASSUME NEW r \in Requests, NEW f \in Forecasts, SubmitForecast(r, f)
      PROVE  PlanningInv'
  BY <1>8, <1>b DEF SubmitForecast, PlanningCall, Call
<1>9. ASSUME NEW r \in Requests, WriteForecastSubmitted(r)
      PROVE  PlanningInv'
  <2>1. running[r] # Idle
    BY <1>9, Busy DEF WriteForecastSubmitted
  <2>2. ASSUME ~overlap PROVE PlanningTables'
    <3>1. PICK f \in Forecasts : f = running[r].doc
      BY <1>9, <1>t, <2>2 DEF WriteForecastSubmitted, At, PlanningCall
    <3>2. PICK row : row = [forecasts[f] EXCEPT !.status = "SUBMITTED", !.submitted = forecasts[f].lines]
      OBVIOUS
    <3>3. row \in ForecastRow /\ row.status = "SUBMITTED" /\ row.lines = row.submitted
      BY <1>t, <2>2, <3>2 DEF ForecastRow
    <3>4. forecasts' = [forecasts EXCEPT ![f] = row] /\ budgets' = budgets
      BY <1>9, <3>1, <3>2 DEF WriteForecastSubmitted
    <3> QED BY <1>t, <2>2, <3>3, <3>4, ForecastWritten
  <2> QED BY <1>9, <1>e, <2>1, <2>2 DEF WriteForecastSubmitted
<1>10. ASSUME NEW r \in Requests, NEW by \in Users, NEW f \in Forecasts, ApproveForecast(r, by, f)
       PROVE  PlanningInv'
  BY <1>10, <1>b DEF ApproveForecast, PlanningCall, Call
<1>11. ASSUME NEW r \in Requests, WriteForecastApproved(r)
       PROVE  PlanningInv'
  <2>1. running[r] # Idle
    BY <1>11, Busy DEF WriteForecastApproved
  <2>2. ASSUME ~overlap PROVE PlanningTables'
    <3>1. PICK f \in Forecasts, u \in Users :
            /\ f = running[r].doc /\ u = running[r].by
            /\ forecasts[f].status = "SUBMITTED" /\ forecasts[f].createdBy # u
      BY <1>11, <1>t, <2>2 DEF WriteForecastApproved, At, PlanningCall
    <3>2. PICK row : row = [forecasts[f] EXCEPT !.status = "APPROVED", !.approvedBy = u]
      OBVIOUS
    <3>3. forecasts[f] \in ForecastRow /\ forecasts[f].lines = forecasts[f].submitted
      BY <1>t, <2>2, <3>1 DEF PlanningTables, ForecastSound
    <3>4. /\ row \in ForecastRow /\ row.lines = row.submitted
          /\ row.approvedBy = u /\ row.createdBy = forecasts[f].createdBy
      BY <3>2, <3>3 DEF ForecastRow
    <3>5. row.approvedBy \notin {None, row.createdBy}
      BY <3>1, <3>4, OverrideAssumption
    <3>6. forecasts' = [forecasts EXCEPT ![f] = row] /\ budgets' = budgets
      BY <1>11, <3>1, <3>2 DEF WriteForecastApproved
    <3> QED BY <1>t, <2>2, <3>4, <3>5, <3>6, ForecastWritten
  <2> QED BY <1>11, <1>e, <2>1, <2>2 DEF WriteForecastApproved
<1>12. ASSUME NEW r \in Requests, Fail(r), UNCHANGED planningTables
       PROVE  PlanningInv'
  BY <1>12, <1>i, <1>q, Finishes, PlanningReads DEF Fail
<1>13. CASE UNCHANGED planningVars
  <2>1. HandlersInv' /\ overlap' = overlap /\ (\A q \in Requests : running'[q] = running[q])
        /\ budgets' = budgets /\ forecasts' = forecasts
    BY <1>13, <1>i, StaysPut DEF planningVars, planningTables
  <2>2. PlanningTables => PlanningTables'
    BY <2>1 DEF PlanningTables, ActiveApart, ForecastSound
  <2>3. \A q \in Requests : PlanningCall(running[q]) => PlanningCall(running[q])'
    <3>1. \A c : PlanningCall(c) => PlanningCall(c)'
      BY <2>1 DEF PlanningCall, NoneActive
    <3>2. ASSUME NEW q \in Requests, PlanningCall(running[q]) PROVE PlanningCall(running[q])'
      <4>1. PICK c : c = running[q]
        OBVIOUS
      <4>2. PlanningCall(c)' /\ running'[q] = c
        BY <2>1, <3>1, <3>2, <4>1
      <4> QED BY <4>2 DEF PlanningCall
    <3> QED BY <3>2
  <2> QED BY <2>1, <2>2, <2>3 DEF PlanningInv
<1> QED
  BY <1>1, <1>2, <1>3, <1>4, <1>5, <1>6, <1>7, <1>8, <1>9, <1>10, <1>11, <1>12, <1>13 DEF PlanningStep

LEMMA PlanningAlways == PlanningSpec => []PlanningInv
BY PlanningInitially, PlanningInductive, PTL DEF PlanningSpec

(* One request at a time, a fiscal year never has two active budgets.      *)
THEOREM BudgetsApart == PlanningSpec => []OneActiveBudget
<1>1. PlanningInv => OneActiveBudget
  BY DEF PlanningInv, PlanningTables, ActiveApart, OneActiveBudget
<1> QED BY <1>1, PlanningAlways, PTL

(* One request at a time, what is approved is what was submitted, and not  *)
(* by its author.                                                          *)
THEOREM ForecastsAsSubmitted == PlanningSpec => []ForecastAsSubmitted
<1>1. PlanningInv => ForecastAsSubmitted
  BY DEF PlanningInv, PlanningTables, ForecastSound, ForecastAsSubmitted
<1> QED BY <1>1, PlanningAlways, PTL

-----------------------------------------------------------------------------
(* Bank statement lines, in every interleaving.                            *)

StatementLineRow == [statement : Statements, amount : Int, match : JournalLines \cup {None}]
PostedLineRow == [day : Int, amount : Int, clearedBy : StatementLines \cup {None}]

BankCall(call) ==
  /\ call.step \in {"insertLine", "removeLine", "link", "unlink"} => call.doc \in StatementLines
  /\ call.step = "insertLine" => call.saw \in StatementLineRow
  /\ call.step \in {"link", "unlink"} => call.saw \in JournalLines

BankTables ==
  /\ lines \in [StatementLines -> StatementLineRow \cup {NoLine}]
  /\ journalLines \in [JournalLines -> PostedLineRow]
  /\ ClearedByExisting

BankInv ==
  /\ HandlersInv
  /\ BankTables
  /\ \A r \in Requests : BankCall(running[r])

LEMMA BankSteps ==
  ASSUME BankInv, HandlersInv', NEW r \in Requests, NEW call, Only(r, call),
         BankTables', BankCall(call)
  PROVE  BankInv'
<1>1. ASSUME NEW q \in Requests PROVE BankCall(running[q])'
  <2>1. CASE q = r
    BY <2>1 DEF Only, BankCall
  <2>2. CASE q # r
    BY <2>2 DEF BankInv, Only, BankCall
  <2> QED BY <2>1, <2>2
<1> QED BY <1>1 DEF BankInv

LEMMA LinesExist ==
  ASSUME NEW row \in StatementLineRow
  PROVE  row # NoLine
BY BankAssumption DEF StatementLineRow, NoLine

LEMMA SignedIsInt == Signed \subseteq Int /\ Days \subseteq Int
BY MoneyAssumption, BankAssumption DEF Signed, Amounts, Days

LEMMA BankInitially == BankInit /\ HandlersInit => BankInv
<1> SUFFICES ASSUME BankInit, HandlersInit PROVE BankInv
  OBVIOUS
<1>1. HandlersInv /\ \A r \in Requests : running[r] = Idle
  BY InitiallyIdle
<1>2. \A r \in Requests : BankCall(running[r])
  BY <1>1, IdleStep DEF BankCall
<1>3. lines \in [StatementLines -> StatementLineRow \cup {NoLine}]
  BY DEF BankInit
<1>4. /\ journalLines \in [JournalLines -> PostedLineRow]
      /\ \A j \in JournalLines : journalLines[j].clearedBy = None
  BY DEF BankInit, NotPosted, PostedLineRow
<1> QED BY <1>1, <1>2, <1>3, <1>4 DEF BankInv, BankTables, ClearedByExisting

LEMMA BankInductive == BankInv /\ [BankStep]_bankVars => BankInv'
<1> SUFFICES ASSUME BankInv, [BankStep]_bankVars PROVE BankInv'
  OBVIOUS
<1>i. /\ HandlersInv
      /\ lines \in [StatementLines -> StatementLineRow \cup {NoLine}]
      /\ journalLines \in [JournalLines -> PostedLineRow]
      /\ ClearedByExisting
      /\ \A r \in Requests : BankCall(running[r])
  BY DEF BankInv, BankTables
<1>q. BankCall(Idle)
  BY IdleStep DEF BankCall
<1>s. ASSUME UNCHANGED <<lines, journalLines>> PROVE BankTables'
  BY <1>i, <1>s DEF BankTables, ClearedByExisting, LineExists
<1>b. ASSUME NEW r \in Requests, NEW step, NEW doc, NEW by, NEW saw, Begin(r, step, doc, by, saw),
             UNCHANGED bankTables, BankCall(Call(step, doc, by, saw))
      PROVE  BankInv'
  <2>1. PICK call : call = Call(step, doc, by, saw)
    OBVIOUS
  <2>2. HandlersInv' /\ Only(r, call) /\ BankTables'
    BY <1>b, <1>i, <1>s, <2>1, Begins DEF bankTables
  <2> QED BY <1>b, <2>1, <2>2, BankSteps
<1>e. ASSUME NEW r \in Requests, Finish(r), BankTables'
      PROVE  BankInv'
  BY <1>e, <1>i, <1>q, Finishes, BankSteps
<1>1. ASSUME NEW r \in Requests, NEW s \in Statements, NEW from \in Days, NEW to \in Days,
             NEW closing \in Signed \cup {0}, CreateStatement(r, s, from, to, closing)
      PROVE  BankInv'
  <2>1. PICK row : row = [status |-> "DRAFT", from |-> from, to |-> to, closing |-> closing,
                          snapshot |-> None]
    OBVIOUS
  <2>2. BankCall(Call("insertStatement", s, None, row))
    BY DEF BankCall, Call
  <2> QED BY <1>1, <1>b, <2>1, <2>2 DEF CreateStatement
<1>2. ASSUME NEW r \in Requests, InsertStatement(r)
      PROVE  BankInv'
  BY <1>2, <1>e, <1>s DEF InsertStatement
<1>3. ASSUME NEW r \in Requests, NEW s \in Statements, NEW l \in StatementLines,
             NEW amount \in Signed, AddLine(r, s, l, amount)
      PROVE  BankInv'
  <2>1. PICK row : row = [statement |-> s, amount |-> amount, match |-> None]
    OBVIOUS
  <2>2. row \in StatementLineRow
    BY <2>1, SignedIsInt DEF StatementLineRow
  <2>3. BankCall(Call("insertLine", l, None, row))
    BY <2>2 DEF BankCall, Call
  <2> QED BY <1>3, <1>b, <2>1, <2>3 DEF AddLine
<1>4. ASSUME NEW r \in Requests, InsertLine(r)
      PROVE  BankInv'
  <2>1. PICK l \in StatementLines, row \in StatementLineRow :
          l = running[r].doc /\ row = running[r].saw
    BY <1>4, <1>i DEF InsertLine, At, BankCall
  <2>2. /\ lines' \in [StatementLines -> StatementLineRow \cup {NoLine}]
        /\ lines'[l] = row /\ \A k \in StatementLines \ {l} : lines'[k] = lines[k]
    BY <1>4, <1>i, <2>1 DEF InsertLine
  <2>3. journalLines' = journalLines
    BY <1>4 DEF InsertLine
  <2>4. ClearedByExisting'
    BY <1>i, <2>2, <2>3, LinesExist DEF ClearedByExisting, LineExists, PostedLineRow
  <2> QED BY <1>4, <1>e, <1>i, <2>2, <2>3, <2>4 DEF InsertLine, BankTables
<1>5. ASSUME NEW r \in Requests, NEW l \in StatementLines, DeleteLine(r, l)
      PROVE  BankInv'
  BY <1>5, <1>b DEF DeleteLine, BankCall, Call
<1>6. ASSUME NEW r \in Requests, RemoveLine(r)
      PROVE  BankInv'
  <2>1. CASE UNCHANGED lines
    BY <1>6, <1>e, <1>s, <2>1 DEF RemoveLine
  <2>2. CASE /\ Unreferenced(running[r].doc)
             /\ lines' = [lines EXCEPT ![running[r].doc] = NoLine]
    <3>1. PICK l \in StatementLines : l = running[r].doc
      BY <1>6, <1>i DEF RemoveLine, At, BankCall
    <3>2. /\ lines' \in [StatementLines -> StatementLineRow \cup {NoLine}]
          /\ \A k \in StatementLines \ {l} : lines'[k] = lines[k]
      BY <1>i, <2>2, <3>1
    <3>3. journalLines' = journalLines
      BY <1>6 DEF RemoveLine
    <3>4. ClearedByExisting'
      BY <1>i, <2>2, <3>1, <3>2, <3>3 DEF ClearedByExisting, LineExists, Unreferenced, PostedLineRow
    <3> QED BY <1>6, <1>e, <1>i, <3>2, <3>3, <3>4 DEF RemoveLine, BankTables
  <2> QED BY <1>6, <2>1, <2>2 DEF RemoveLine
<1>7. ASSUME NEW r \in Requests, NEW l \in StatementLines, NEW j \in JournalLines, Match(r, l, j)
      PROVE  BankInv'
  BY <1>7, <1>b DEF Match, BankCall, Call
(* A line that exists and a journal line are linked or unlinked.           *)
<1>l. ASSUME NEW l \in StatementLines, NEW j \in JournalLines, LineExists(l),
             NEW m \in JournalLines \cup {None}, NEW c \in {l, None},
             lines' = [lines EXCEPT ![l].match = m],
             journalLines' = [journalLines EXCEPT ![j].clearedBy = c]
      PROVE  BankTables'
  <2>1. lines[l] \in StatementLineRow /\ journalLines[j] \in PostedLineRow
    BY <1>i, <1>l DEF LineExists
  <2>2. PICK row : row = [lines[l] EXCEPT !.match = m]
    OBVIOUS
  <2>3. PICK posted : posted = [journalLines[j] EXCEPT !.clearedBy = c]
    OBVIOUS
  <2>4. row \in StatementLineRow
    BY <2>1, <2>2 DEF StatementLineRow
  <2>5. posted \in PostedLineRow /\ posted.clearedBy = c
    BY <2>1, <2>3 DEF PostedLineRow
  <2>6. /\ lines' \in [StatementLines -> StatementLineRow \cup {NoLine}]
        /\ lines'[l] = row /\ \A k \in StatementLines \ {l} : lines'[k] = lines[k]
    BY <1>i, <1>l, <2>2, <2>4
  <2>7. /\ journalLines' \in [JournalLines -> PostedLineRow]
        /\ journalLines'[j] = posted
        /\ \A i \in JournalLines \ {j} : journalLines'[i] = journalLines[i]
    BY <1>i, <1>l, <2>3, <2>5
  <2>8. ClearedByExisting'
    <3> SUFFICES ASSUME NEW i \in JournalLines, journalLines'[i].clearedBy # None
                 PROVE  lines'[journalLines'[i].clearedBy] # NoLine
      BY DEF ClearedByExisting, LineExists
    <3>1. lines'[l] # NoLine
      BY <2>4, <2>6, LinesExist
    <3>2. CASE i = j
      BY <2>5, <2>7, <3>1, <3>2
    <3>3. CASE i # j
      BY <1>i, <2>6, <2>7, <3>1, <3>3 DEF ClearedByExisting, LineExists, PostedLineRow
    <3> QED BY <3>2, <3>3
  <2> QED BY <2>6, <2>7, <2>8 DEF BankTables
<1>8. ASSUME NEW r \in Requests, Link(r)
      PROVE  BankInv'
  <2>1. PICK l \in StatementLines, j \in JournalLines : l = running[r].doc /\ j = running[r].saw
    BY <1>8, <1>i DEF Link, At, BankCall
  <2>2. BankTables'
    BY <1>8, <1>l, <1>s, <2>1 DEF Link
  <2> QED BY <1>8, <1>e, <2>2 DEF Link
<1>9. ASSUME NEW r \in Requests, NEW l \in StatementLines, Unmatch(r, l)
      PROVE  BankInv'
  BY <1>9, <1>b DEF Unmatch, BankCall, Call
<1>10. ASSUME NEW r \in Requests, Unlink(r)
       PROVE  BankInv'
  <2>1. PICK l \in StatementLines, j \in JournalLines : l = running[r].doc /\ j = running[r].saw
    BY <1>10, <1>i DEF Unlink, At, BankCall
  <2>2. BankTables'
    BY <1>10, <1>l, <1>s, <2>1 DEF Unlink
  <2> QED BY <1>10, <1>e, <2>2 DEF Unlink
<1>11. ASSUME NEW r \in Requests, NEW s \in Statements, Reconcile(r, s)
       PROVE  BankInv'
  <2>1. PICK balance : balance = Total(PostedUpTo(statements[s].to))
    OBVIOUS
  <2>2. BankCall(Call("lock", s, None, balance))
    BY DEF BankCall, Call
  <2> QED BY <1>11, <1>b, <2>1, <2>2 DEF Reconcile
<1>12. ASSUME NEW r \in Requests, Lock(r)
       PROVE  BankInv'
  BY <1>12, <1>e, <1>s DEF Lock
<1>13. ASSUME NEW r \in Requests, NEW j \in JournalLines, NEW day \in Days, NEW amount \in Signed,
              PostJournalLine(r, j, day, amount)
       PROVE  BankInv'
  <2>1. PICK row : row = [day |-> day, amount |-> amount, clearedBy |-> None]
    OBVIOUS
  <2>2. row \in PostedLineRow /\ row.clearedBy = None
    BY <2>1, SignedIsInt DEF PostedLineRow
  <2>3. /\ journalLines' = [journalLines EXCEPT ![j] = row] /\ lines' = lines
        /\ UNCHANGED handlerVars /\ running[r] = Idle
    BY <1>13, <2>1 DEF PostJournalLine, AtOnce
  <2>4. BankTables'
    BY <1>i, <2>2, <2>3 DEF BankTables, ClearedByExisting, LineExists
  <2>5. HandlersInv' /\ Only(r, Idle)
    BY <1>i, <2>3, StaysPut DEF Only
  <2> QED BY <1>q, <2>4, <2>5, BankSteps
<1>14. ASSUME NEW r \in Requests, Fail(r), UNCHANGED bankTables
       PROVE  BankInv'
  BY <1>14, <1>e, <1>s DEF Fail, bankTables
<1>15. CASE UNCHANGED bankVars
  <2>1. HandlersInv' /\ BankTables' /\ \A q \in Requests : running'[q] = running[q]
    BY <1>15, <1>i, <1>s, StaysPut DEF bankVars, bankTables
  <2> QED BY <1>i, <2>1 DEF BankInv, BankCall
<1>16. ASSUME NEW r \in Requests, StatementStep(r) PROVE BankInv'
  BY <1>16, <1>1, <1>2, <1>3, <1>4, <1>11, <1>12 DEF StatementStep
<1>17. ASSUME NEW r \in Requests, LineStep(r) PROVE BankInv'
  BY <1>17, <1>5, <1>6, <1>7, <1>8, <1>9, <1>10, <1>13 DEF LineStep
<1> QED BY <1>14, <1>15, <1>16, <1>17 DEF BankStep

(* However requests overlap, what is cleared in the ledger is cleared by a *)
(* statement line that exists.                                             *)
THEOREM ClearedLinesExist == BankSpec => []ClearedByExisting
<1>1. BankInv => ClearedByExisting
  BY DEF BankInv, BankTables
<1> QED BY <1>1, BankInitially, BankInductive, PTL DEF BankSpec

-----------------------------------------------------------------------------
(* Matching, one request at a time: what the reads of a match or an unmatch *)
(* saw is still so when it writes, and the line's statement is still DRAFT. *)

MatchCall(call) ==
  /\ call.step = "insertLine" => call.saw.match = None
  /\ call.step \in {"removeLine", "link", "unlink"} =>
       LineExists(call.doc) /\ statements[lines[call.doc].statement].status = "DRAFT"
  /\ call.step \in {"removeLine", "link"} => lines[call.doc].match = None
  /\ call.step = "link" => journalLines[call.saw].clearedBy = None
  /\ call.step = "unlink" =>
       lines[call.doc].match = call.saw /\ journalLines[call.saw].clearedBy = call.doc

MatchInv == MatchesAgree /\ (~overlap => \A r \in Requests : MatchCall(running[r]))

(* What LockedIsFrozen says of a step.                                     *)
Frozen ==
  \A l \in StatementLines :
    LineExists(l) /\ statements[lines[l].statement].status = "LOCKED" =>
      /\ lines'[l] = lines[l]
      /\ \A j \in JournalLines : lines[l].match = j => journalLines'[j] = journalLines[j]

LEMMA MatchInitially == BankInit /\ HandlersInit => MatchInv
<1> SUFFICES ASSUME BankInit, HandlersInit PROVE MatchInv
  OBVIOUS
<1>1. \A r \in Requests : MatchCall(running[r])
  BY InitiallyIdle, IdleStep DEF MatchCall
<1>2. MatchesAgree
  BY BankAssumption DEF BankInit, MatchesAgree, NoLine, NotPosted
<1> QED BY <1>1, <1>2 DEF MatchInv

LEMMA MatchSteps ==
  ASSUME HandlersInv, ~overlap, NEW r \in Requests, running[r] # Idle \/ Quiet,
         NEW call, Only(r, call), MatchCall(call)', MatchesAgree'
  PROVE  MatchInv'
<1>1. MatchCall(Idle)'
  BY IdleStep DEF MatchCall
<1>2. \A q \in Requests \ {r} : running'[q] = Idle
  BY Alone DEF Only
<1>3. ASSUME NEW q \in Requests PROVE MatchCall(running[q])'
  BY <1>1, <1>2 DEF Only, MatchCall
<1> QED BY <1>3 DEF MatchInv

LEMMA MatchInductive ==
  ASSUME BankInv, MatchInv, [BankStep]_bankVars
  PROVE  MatchInv' /\ (~overlap => Frozen)
<1>0. overlap' = overlap
  <2>1. ASSUME NEW r \in Requests, StatementStep(r) PROVE overlap' = overlap
    BY <2>1 DEF StatementStep, CreateStatement, InsertStatement, AddLine, InsertLine,
           Reconcile, Lock, Begin, Finish
  <2>2. ASSUME NEW r \in Requests, LineStep(r) PROVE overlap' = overlap
    BY <2>2 DEF LineStep, DeleteLine, RemoveLine, Match, Link, Unmatch, Unlink,
           PostJournalLine, Begin, Finish, AtOnce, handlerVars
  <2>3. ASSUME NEW r \in Requests, Fail(r) PROVE overlap' = overlap
    BY <2>3 DEF Fail, Finish
  <2>4. CASE UNCHANGED bankVars
    BY <2>4 DEF bankVars, handlerVars
  <2> QED BY <2>1, <2>2, <2>3, <2>4 DEF BankStep
<1> SUFFICES ASSUME ~overlap PROVE MatchInv' /\ Frozen
  BY <1>0 DEF MatchInv, MatchesAgree
<1>i. /\ HandlersInv
      /\ lines \in [StatementLines -> StatementLineRow \cup {NoLine}]
      /\ journalLines \in [JournalLines -> PostedLineRow]
      /\ \A r \in Requests : BankCall(running[r]) /\ MatchCall(running[r])
      /\ \A l \in StatementLines, j \in JournalLines :
           lines[l].match = j <=> journalLines[j].clearedBy = l
  BY DEF BankInv, BankTables, MatchInv, MatchesAgree
<1>n. None \notin StatementLines /\ None \notin JournalLines
  BY BankAssumption
<1>s. ASSUME UNCHANGED <<lines, journalLines>> PROVE MatchesAgree' /\ Frozen
  BY <1>0, <1>i, <1>s DEF MatchesAgree, Frozen
<1>b. ASSUME NEW r \in Requests, NEW step, NEW doc, NEW by, NEW saw, Begin(r, step, doc, by, saw),
             UNCHANGED bankTables, MatchCall(Call(step, doc, by, saw))
      PROVE  MatchInv' /\ Frozen
  <2>1. PICK call : call = Call(step, doc, by, saw)
    OBVIOUS
  <2>2. Only(r, call) /\ Quiet
    BY <1>b, <1>i, <2>1, Begins
  <2>3. MatchCall(call)'
    BY <1>b, <2>1 DEF MatchCall, LineExists, bankTables
  <2> QED BY <1>b, <1>i, <1>s, <2>2, <2>3, MatchSteps DEF bankTables
<1>e. ASSUME NEW r \in Requests, Finish(r), running[r] # Idle, MatchesAgree'
      PROVE  MatchInv'
  <2>1. Only(r, Idle)
    BY <1>e, <1>i, Finishes
  <2>2. MatchCall(Idle)'
    BY IdleStep DEF MatchCall
  <2> QED BY <1>e, <1>i, <2>1, <2>2, MatchSteps
(* One line, and what it was or is matched with.                           *)
<1>l. ASSUME NEW l \in StatementLines, LineExists(l),
             statements[lines[l].statement].status = "DRAFT",
             \A k \in StatementLines \ {l} : lines'[k] = lines[k],
             \A k \in StatementLines \ {l}, j \in JournalLines :
               lines[k].match = j => journalLines'[j] = journalLines[j]
      PROVE  Frozen
  BY <1>l DEF Frozen
<1>1. ASSUME NEW r \in Requests, NEW s \in Statements, NEW from \in Days, NEW to \in Days,
             NEW closing \in Signed \cup {0}, CreateStatement(r, s, from, to, closing)
      PROVE  MatchInv' /\ Frozen
  <2>1. PICK row : row = [status |-> "DRAFT", from |-> from, to |-> to, closing |-> closing,
                          snapshot |-> None]
    OBVIOUS
  <2>2. MatchCall(Call("insertStatement", s, None, row))
    BY DEF MatchCall, Call
  <2> QED BY <1>1, <1>b, <2>1, <2>2 DEF CreateStatement
<1>2. ASSUME NEW r \in Requests, InsertStatement(r) \/ Lock(r)
      PROVE  MatchInv' /\ Frozen
  <2>1. running[r] # Idle
    BY <1>2, Busy DEF InsertStatement, Lock
  <2> QED BY <1>2, <1>e, <1>s, <2>1 DEF InsertStatement, Lock
<1>3. ASSUME NEW r \in Requests, NEW s \in Statements, NEW l \in StatementLines,
             NEW amount \in Signed, AddLine(r, s, l, amount)
      PROVE  MatchInv' /\ Frozen
  <2>1. PICK row : row = [statement |-> s, amount |-> amount, match |-> None]
    OBVIOUS
  <2>2. MatchCall(Call("insertLine", l, None, row))
    BY <2>1 DEF MatchCall, Call
  <2> QED BY <1>3, <1>b, <2>1, <2>2 DEF AddLine
<1>4. ASSUME NEW r \in Requests, InsertLine(r)
      PROVE  MatchInv' /\ Frozen
  <2>0. PICK row : row = running[r].saw
    OBVIOUS
  <2>1. PICK l \in StatementLines : l = running[r].doc
    BY <1>4, <1>i DEF InsertLine, At, BankCall
  <2>2. /\ running[r] # Idle /\ Finish(r) /\ journalLines' = journalLines
        /\ lines[l] = NoLine /\ row.match = None
        /\ lines'[l] = row /\ \A k \in StatementLines \ {l} : lines'[k] = lines[k]
    BY <1>4, <1>i, <2>0, <2>1, Busy DEF InsertLine, At, MatchCall
  <2>3. MatchesAgree'
    BY <1>0, <1>i, <1>n, <2>2 DEF MatchesAgree, NoLine
  <2>4. Frozen
    BY <2>2 DEF Frozen, LineExists
  <2> QED BY <1>e, <2>2, <2>3, <2>4
<1>5. ASSUME NEW r \in Requests, NEW l \in StatementLines, DeleteLine(r, l)
      PROVE  MatchInv' /\ Frozen
  <2>1. MatchCall(Call("removeLine", l, None, None))
    BY <1>5 DEF DeleteLine, Unmatched, StatementMutable, MatchCall, Call
  <2> QED BY <1>5, <1>b, <2>1 DEF DeleteLine
<1>6. ASSUME NEW r \in Requests, RemoveLine(r)
      PROVE  MatchInv' /\ Frozen
  <2>1. PICK l \in StatementLines : l = running[r].doc
    BY <1>6, <1>i DEF RemoveLine, At, BankCall
  <2>2. /\ running[r] # Idle /\ Finish(r) /\ journalLines' = journalLines
        /\ lines[l].match = None /\ LineExists(l)
        /\ statements[lines[l].statement].status = "DRAFT"
    BY <1>6, <1>i, <2>1, Busy DEF RemoveLine, At, MatchCall
  <2>3. /\ lines'[l].match = None
        /\ \A k \in StatementLines \ {l} : lines'[k] = lines[k]
    BY <1>6, <1>i, <2>1, <2>2 DEF RemoveLine, NoLine
  <2>4. MatchesAgree'
    BY <1>0, <1>i, <1>n, <2>2, <2>3 DEF MatchesAgree
  <2> QED BY <1>e, <1>l, <2>2, <2>3, <2>4
<1>7. ASSUME NEW r \in Requests, NEW l \in StatementLines, NEW j \in JournalLines, Match(r, l, j)
      PROVE  MatchInv' /\ Frozen
  <2>1. MatchCall(Call("link", l, None, j))
    BY <1>7 DEF Match, Unmatched, Eligible, StatementMutable, MatchCall, Call
  <2> QED BY <1>7, <1>b, <2>1 DEF Match
(* Linking and unlinking change the two ends of one match.                 *)
<1>m. ASSUME NEW l \in StatementLines, NEW m, LineExists(l),
             lines' = [lines EXCEPT ![l].match = m]
      PROVE  lines'[l].match = m /\ \A k \in StatementLines \ {l} : lines'[k] = lines[k]
  <2>1. lines[l] \in StatementLineRow
    BY <1>i, <1>m DEF LineExists
  <2> QED BY <1>i, <1>m, <2>1 DEF StatementLineRow
<1>c. ASSUME NEW j \in JournalLines, NEW c,
             journalLines' = [journalLines EXCEPT ![j].clearedBy = c]
      PROVE  /\ journalLines'[j].clearedBy = c
             /\ \A i \in JournalLines \ {j} : journalLines'[i] = journalLines[i]
  <2>1. journalLines[j] \in PostedLineRow
    BY <1>i
  <2> QED BY <1>i, <1>c, <2>1 DEF PostedLineRow
<1>8. ASSUME NEW r \in Requests, Link(r)
      PROVE  MatchInv' /\ Frozen
  <2>1. PICK l \in StatementLines, j \in JournalLines : l = running[r].doc /\ j = running[r].saw
    BY <1>8, <1>i DEF Link, At, BankCall
  <2>2. /\ running[r] # Idle /\ Finish(r) /\ LineExists(l)
        /\ lines[l].match = None /\ journalLines[j].clearedBy = None
        /\ statements[lines[l].statement].status = "DRAFT"
    BY <1>8, <1>i, <2>1, Busy DEF Link, At, MatchCall
  <2>3. CASE UNCHANGED <<lines, journalLines>>
    BY <1>e, <1>s, <2>2, <2>3
  <2>4. CASE /\ lines' = [lines EXCEPT ![l].match = j]
             /\ journalLines' = [journalLines EXCEPT ![j].clearedBy = l]
    <3>1. /\ lines'[l].match = j /\ journalLines'[j].clearedBy = l
          /\ \A k \in StatementLines \ {l} : lines'[k] = lines[k]
          /\ \A i \in JournalLines \ {j} : journalLines'[i] = journalLines[i]
      BY <1>m, <1>c, <2>2, <2>4
    <3>2. MatchesAgree'
      BY <1>0, <1>i, <1>n, <2>2, <3>1 DEF MatchesAgree
    <3>3. Frozen
      BY <1>i, <1>l, <1>n, <2>2, <3>1
    <3> QED BY <1>e, <2>2, <3>2, <3>3
  <2> QED BY <1>8, <2>1, <2>3, <2>4 DEF Link
<1>9. ASSUME NEW r \in Requests, NEW l \in StatementLines, Unmatch(r, l)
      PROVE  MatchInv' /\ Frozen
  <2>1. PICK j \in JournalLines : /\ lines[l].match = j /\ journalLines[j].clearedBy = l
                                  /\ Begin(r, "unlink", l, None, j)
    BY <1>9 DEF Unmatch
  <2>2. MatchCall(Call("unlink", l, None, j))
    BY <1>9, <2>1 DEF Unmatch, StatementMutable, MatchCall, Call
  <2> QED BY <1>9, <1>b, <2>1, <2>2 DEF Unmatch
<1>10. ASSUME NEW r \in Requests, Unlink(r)
       PROVE  MatchInv' /\ Frozen
  <2>1. PICK l \in StatementLines, j \in JournalLines : l = running[r].doc /\ j = running[r].saw
    BY <1>10, <1>i DEF Unlink, At, BankCall
  <2>2. /\ running[r] # Idle /\ Finish(r) /\ LineExists(l)
        /\ lines[l].match = j /\ journalLines[j].clearedBy = l
        /\ statements[lines[l].statement].status = "DRAFT"
    BY <1>10, <1>i, <2>1, Busy DEF Unlink, At, MatchCall
  <2>3. /\ lines' = [lines EXCEPT ![l].match = None]
        /\ journalLines' = [journalLines EXCEPT ![j].clearedBy = None]
    BY <1>10, <2>1, <2>2 DEF Unlink
  <2>4. /\ lines'[l].match = None /\ journalLines'[j].clearedBy = None
        /\ \A k \in StatementLines \ {l} : lines'[k] = lines[k]
        /\ \A i \in JournalLines \ {j} : journalLines'[i] = journalLines[i]
    <3>1. lines[l] \in StatementLineRow /\ journalLines[j] \in PostedLineRow
      BY <1>i, <2>2 DEF LineExists
    <3>2. lines'[l].match = None /\ \A k \in StatementLines \ {l} : lines'[k] = lines[k]
      BY <1>i, <2>3, <3>1 DEF StatementLineRow
    <3>3. /\ journalLines'[j].clearedBy = None
          /\ \A i \in JournalLines \ {j} : journalLines'[i] = journalLines[i]
      BY <1>i, <2>3, <3>1 DEF PostedLineRow
    <3> QED BY <3>2, <3>3
  <2>5. MatchesAgree'
    BY <1>0, <1>i, <1>n, <2>2, <2>4 DEF MatchesAgree
  <2>6. Frozen
    BY <1>i, <1>l, <1>n, <2>2, <2>4
  <2> QED BY <1>e, <2>2, <2>5, <2>6
<1>11. ASSUME NEW r \in Requests, NEW s \in Statements, Reconcile(r, s)
       PROVE  MatchInv' /\ Frozen
  <2>1. PICK balance : balance = Total(PostedUpTo(statements[s].to))
    OBVIOUS
  <2>2. MatchCall(Call("lock", s, None, balance))
    BY DEF MatchCall, Call
  <2> QED BY <1>11, <1>b, <2>1, <2>2 DEF Reconcile
<1>12. ASSUME NEW r \in Requests, NEW j \in JournalLines, NEW day \in Days, NEW amount \in Signed,
              PostJournalLine(r, j, day, amount)
       PROVE  MatchInv' /\ Frozen
  <2>1. /\ journalLines[j].clearedBy = None /\ journalLines'[j].clearedBy = None
        /\ \A i \in JournalLines \ {j} : journalLines'[i] = journalLines[i]
        /\ lines' = lines /\ UNCHANGED handlerVars /\ running[r] = Idle /\ Quiet
    BY <1>12, <1>i DEF PostJournalLine, AtOnce, NotPosted
  <2>2. MatchesAgree'
    BY <1>0, <1>i, <1>n, <2>1 DEF MatchesAgree
  <2>3. Frozen
    BY <1>i, <1>n, <2>1 DEF Frozen
  <2>4. Only(r, Idle) /\ MatchCall(Idle)'
    BY <1>i, <2>1, StaysPut, IdleStep DEF Only, MatchCall
  <2> QED BY <1>i, <2>1, <2>2, <2>3, <2>4, MatchSteps
<1>13. ASSUME NEW r \in Requests, Fail(r), UNCHANGED bankTables
       PROVE  MatchInv' /\ Frozen
  BY <1>13, <1>e, <1>s DEF Fail, bankTables
<1>14. CASE UNCHANGED bankVars
  <2>1. /\ \A q \in Requests : running'[q] = running[q]
        /\ UNCHANGED <<statements, lines, journalLines>>
    BY <1>14, <1>i, StaysPut DEF bankVars, bankTables
  <2>2. ASSUME NEW q \in Requests PROVE MatchCall(running[q])'
    <3>1. MatchCall(running[q]) /\ running'[q] = running[q]
      BY <1>i, <2>1
    <3> QED BY <2>1, <3>1 DEF MatchCall, LineExists
  <2> QED BY <1>i, <1>s, <2>1, <2>2 DEF MatchInv
<1>15. ASSUME NEW r \in Requests, StatementStep(r) PROVE MatchInv' /\ Frozen
  BY <1>15, <1>1, <1>2, <1>3, <1>4, <1>11 DEF StatementStep
<1>16. ASSUME NEW r \in Requests, LineStep(r) PROVE MatchInv' /\ Frozen
  BY <1>16, <1>5, <1>6, <1>7, <1>8, <1>9, <1>10, <1>12 DEF LineStep
<1> QED BY <1>13, <1>14, <1>15, <1>16 DEF BankStep

LEMMA MatchAlways == BankSpec => [](BankInv /\ MatchInv)
<1>1. BankInv /\ MatchInv /\ [BankStep]_bankVars => MatchInv'
  BY MatchInductive
<1> QED BY <1>1, BankInitially, BankInductive, MatchInitially, PTL DEF BankSpec

(* One request at a time, a line of a statement and the journal line it is *)
(* matched with name each other.                                           *)
THEOREM LinesNameEachOther == BankSpec => []MatchesAgree
<1>1. MatchInv => MatchesAgree
  BY DEF MatchInv
<1> QED BY <1>1, MatchAlways, PTL

(* One request at a time, a locked statement keeps its lines and matches.  *)
THEOREM LockedStays == BankSpec => LockedIsFrozen
<1>1. BankInv /\ MatchInv /\ [BankStep]_bankVars =>
        [~overlap => \A l \in StatementLines :
           LineExists(l) /\ statements[lines[l].statement].status = "LOCKED" =>
             /\ lines'[l] = lines[l]
             /\ \A j \in JournalLines :
                  lines[l].match = j => journalLines'[j] = journalLines[j]]_bankVars
  BY MatchInductive DEF Frozen
<1> QED BY <1>1, MatchAlways, PTL DEF BankSpec, LockedIsFrozen

-----------------------------------------------------------------------------
(* Depreciation: the unique index keeps the months of the runs apart in    *)
(* every interleaving; which assets a run may take is known only when      *)
(* requests come one at a time.                                            *)

Accumulations == {0} \cup {Cardinality(ds) : ds \in SUBSET Runs}

AssetRow ==
  [status : {"NONE", "DRAFT", "CAPITALIZED", "DISPOSED"}, from : Nat, until : Nat,
   accumulated : Accumulations]
RunRow == [month : Nat, lines : SUBSET Assets, journal : {"NONE", "POSTED"}]

MonthsApart ==
  \A d, e \in Runs : d # e /\ runs[d].month # 0 => runs[d].month # runs[e].month

LinesOfRuns == \A d \in Runs : runs[d].month = 0 => runs[d].lines = {}

Started(a, m) == assets[a].status \in {"CAPITALIZED", "DISPOSED"} /\ assets[a].from <= m

LinesStarted == \A d \in Runs : \A a \in runs[d].lines : Started(a, runs[d].month)

AssetCall(call) ==
  /\ call.step \in {"capitalize", "readAccumulated"} => call.doc \in Assets /\ call.saw \in Months
  /\ call.step = "dispose" =>
       call.doc \in Assets /\ call.saw.until \in Months /\ call.saw.accumulated \in Accumulations
  /\ call.step = "insertRun" => call.doc \in Months /\ call.saw \in SUBSET Assets
  /\ call.step \in {"insertLines", "bookRun"} =>
       call.saw.run \in Runs /\ call.saw.assets \in SUBSET Assets /\ runs[call.saw.run].month # 0

SerialAssetCall(call) ==
  /\ call.step = "capitalize" => assets[call.doc].status = "DRAFT"
  /\ call.step = "insertRun" => \A a \in call.saw : Started(a, call.doc)
  /\ call.step = "insertLines" =>
       \A a \in call.saw.assets : Started(a, runs[call.saw.run].month)

AssetTables ==
  /\ assets \in [Assets -> AssetRow]
  /\ runs \in [Runs -> RunRow]
  /\ MonthsApart /\ LinesOfRuns

AssetsInv ==
  /\ HandlersInv
  /\ AssetTables
  /\ \A r \in Requests : AssetCall(running[r])
  /\ ~overlap => LinesStarted /\ \A r \in Requests : SerialAssetCall(running[r])

LEMMA MonthsAreNat == \A m \in Months : m \in Nat /\ m # 0
BY AssetsAssumption DEF Months

LEMMA AssetSteps ==
  ASSUME AssetsInv, HandlersInv', NEW r \in Requests, NEW call, Only(r, call),
         running[r] # Idle \/ (~overlap => Quiet),
         AssetTables', AssetCall(call)',
         \A d \in Runs : runs[d].month # 0 => runs'[d].month = runs[d].month,
         ~overlap => LinesStarted' /\ SerialAssetCall(call)'
  PROVE  AssetsInv'
<1>1. ASSUME NEW q \in Requests PROVE AssetCall(running[q])'
  <2>1. CASE q = r
    BY <2>1 DEF Only, AssetCall
  <2>2. CASE q # r
    <3>1. PICK c : c = running[q]
      OBVIOUS
    <3>2. AssetCall(c) /\ running'[q] = c
      BY <2>2, <3>1 DEF AssetsInv, Only
    <3>3. AssetCall(c)'
      BY <3>2 DEF AssetCall
    <3> QED BY <3>2, <3>3 DEF AssetCall
  <2> QED BY <2>1, <2>2
<1>2. ASSUME ~overlap, NEW q \in Requests PROVE SerialAssetCall(running[q])'
  <2>1. \A x \in Requests \ {r} : running[x] = Idle
    BY <1>2, Alone DEF AssetsInv
  <2>2. PICK c : c = running'[q]
    OBVIOUS
  <2>3. c = Idle \/ c = call
    BY <2>1, <2>2 DEF Only
  <2>4. SerialAssetCall(Idle)'
    BY IdleStep DEF SerialAssetCall
  <2>5. SerialAssetCall(c)'
    BY <1>2, <2>3, <2>4
  <2> QED BY <2>2, <2>5 DEF SerialAssetCall
<1> QED BY <1>1, <1>2 DEF AssetsInv, Only

LEMMA AssetReads ==
  ASSUME AssetsInv, HandlersInv', NEW r \in Requests, NEW call, Only(r, call),
         running[r] # Idle \/ (~overlap => Quiet), UNCHANGED assetTables,
         AssetCall(call), ~overlap => SerialAssetCall(call)
  PROVE  AssetsInv'
<1>1. assets' = assets /\ runs' = runs
  BY DEF assetTables
<1>2. AssetTables' /\ (LinesStarted => LinesStarted')
  BY <1>1 DEF AssetsInv, AssetTables, MonthsApart, LinesOfRuns, LinesStarted, Started
<1>3. AssetCall(call)'
  BY <1>1 DEF AssetCall
<1>4. SerialAssetCall(call) => SerialAssetCall(call)'
  BY <1>1 DEF SerialAssetCall, Started
<1>5. ~overlap => LinesStarted
  BY DEF AssetsInv
<1> QED BY <1>1, <1>2, <1>3, <1>4, <1>5, AssetSteps

(* A write to one asset that takes back no start of its depreciation.      *)
LEMMA AssetWritten ==
  ASSUME AssetsInv, NEW a \in Assets, NEW row \in AssetRow,
         assets' = [assets EXCEPT ![a] = row], runs' = runs,
         ~overlap /\ assets[a].status \in {"CAPITALIZED", "DISPOSED"} =>
           row.status \in {"CAPITALIZED", "DISPOSED"} /\ row.from = assets[a].from
  PROVE  /\ AssetTables'
         /\ \A d \in Runs : runs[d].month # 0 => runs'[d].month = runs[d].month
         /\ ~overlap => LinesStarted'
<1>1. /\ assets' \in [Assets -> AssetRow]
      /\ assets'[a] = row /\ \A b \in Assets \ {a} : assets'[b] = assets[b]
  BY DEF AssetsInv, AssetTables
<1>2. ASSUME ~overlap PROVE LinesStarted'
  <2> SUFFICES ASSUME NEW d \in Runs, NEW b \in runs'[d].lines PROVE Started(b, runs[d].month)'
    BY DEF LinesStarted
  <2>1. Started(b, runs[d].month) /\ b \in Assets
    BY <1>2 DEF AssetsInv, AssetTables, LinesStarted, RunRow
  <2> QED BY <1>1, <1>2, <2>1 DEF Started
<1> QED BY <1>1, <1>2 DEF AssetsInv, AssetTables, MonthsApart, LinesOfRuns

LEMMA AssetsInitially == AssetsInit /\ HandlersInit => AssetsInv
<1> SUFFICES ASSUME AssetsInit, HandlersInit PROVE AssetsInv
  OBVIOUS
<1>1. HandlersInv /\ \A r \in Requests : running[r] = Idle
  BY InitiallyIdle
<1>2. \A r \in Requests : AssetCall(running[r]) /\ SerialAssetCall(running[r])
  BY <1>1, IdleStep DEF AssetCall, SerialAssetCall
<1>3. assets \in [Assets -> AssetRow]
  BY DEF AssetsInit, NoAsset, AssetRow, Accumulations
<1>4. /\ runs \in [Runs -> RunRow]
      /\ \A d \in Runs : runs[d].month = 0 /\ runs[d].lines = {}
  BY DEF AssetsInit, NoRun, RunRow
<1> QED
  BY <1>1, <1>2, <1>3, <1>4 DEF AssetsInv, AssetTables, MonthsApart, LinesOfRuns, LinesStarted

LEMMA AssetsInductive == AssetsInv /\ [AssetsStep]_assetVars => AssetsInv'
<1> SUFFICES ASSUME AssetsInv, [AssetsStep]_assetVars PROVE AssetsInv'
  OBVIOUS
<1>i. /\ HandlersInv
      /\ assets \in [Assets -> AssetRow] /\ runs \in [Runs -> RunRow]
      /\ MonthsApart /\ LinesOfRuns
      /\ \A r \in Requests : AssetCall(running[r])
      /\ ~overlap => LinesStarted /\ \A r \in Requests : SerialAssetCall(running[r])
  BY DEF AssetsInv, AssetTables
<1>q. AssetCall(Idle) /\ AssetCall(Idle)' /\ SerialAssetCall(Idle) /\ SerialAssetCall(Idle)'
  BY IdleStep DEF AssetCall, SerialAssetCall
<1>b. ASSUME NEW r \in Requests, NEW step, NEW doc, NEW by, NEW saw, Begin(r, step, doc, by, saw),
             UNCHANGED assetTables, AssetCall(Call(step, doc, by, saw)),
             SerialAssetCall(Call(step, doc, by, saw))
      PROVE  AssetsInv'
  <2>1. PICK call : call = Call(step, doc, by, saw)
    OBVIOUS
  <2>2. HandlersInv' /\ Only(r, call) /\ (~overlap => Quiet)
    BY <1>b, <1>i, <2>1, Begins
  <2> QED BY <1>b, <2>1, <2>2, AssetReads
<1>e. ASSUME NEW r \in Requests, Finish(r), running[r] # Idle, AssetTables',
             \A d \in Runs : runs[d].month # 0 => runs'[d].month = runs[d].month,
             ~overlap => LinesStarted'
      PROVE  AssetsInv'
  <2>1. HandlersInv' /\ Only(r, Idle)
    BY <1>e, <1>i, Finishes
  <2> QED BY <1>e, <1>q, <2>1, AssetSteps
<1>1. ASSUME NEW r \in Requests, NEW a \in Assets, CreateAsset(r, a)
      PROVE  AssetsInv'
  <2>1. PICK row : row = [assets[a] EXCEPT !.status = "DRAFT"]
    OBVIOUS
  <2>2. row \in AssetRow
    BY <1>i, <2>1 DEF AssetRow
  <2>3. assets' = [assets EXCEPT ![a] = row] /\ runs' = runs /\ assets[a].status = "NONE"
    BY <1>1, <2>1 DEF CreateAsset, NoAsset
  <2>4. /\ AssetTables'
        /\ \A d \in Runs : runs[d].month # 0 => runs'[d].month = runs[d].month
        /\ ~overlap => LinesStarted'
    BY <2>2, <2>3, AssetWritten
  <2>5. HandlersInv' /\ Only(r, Idle) /\ (~overlap => Quiet)
    BY <1>1, <1>i, StaysPut DEF CreateAsset, AtOnce, Only
  <2> QED BY <1>q, <2>4, <2>5, AssetSteps
<1>2. ASSUME NEW r \in Requests, NEW a \in Assets, NEW m \in Months, CapitalizeAsset(r, a, m)
      PROVE  AssetsInv'
  BY <1>2, <1>b DEF CapitalizeAsset, AssetCall, SerialAssetCall, Call
<1>3. ASSUME NEW r \in Requests, WriteCapitalized(r)
      PROVE  AssetsInv'
  <2>1. running[r] # Idle
    BY <1>3, Busy DEF WriteCapitalized
  <2>2. PICK a \in Assets, m \in Months : a = running[r].doc /\ m = running[r].saw
    BY <1>3, <1>i DEF WriteCapitalized, At, AssetCall
  <2>3. PICK row : row = [assets[a] EXCEPT !.status = "CAPITALIZED", !.from = m]
    OBVIOUS
  <2>4. row \in AssetRow
    BY <1>i, <2>3, MonthsAreNat DEF AssetRow
  <2>5. assets' = [assets EXCEPT ![a] = row] /\ runs' = runs
    BY <1>3, <2>2, <2>3 DEF WriteCapitalized
  <2>6. ~overlap => assets[a].status = "DRAFT"
    BY <1>3, <1>i, <2>2 DEF WriteCapitalized, At, SerialAssetCall
  <2>7. /\ AssetTables'
        /\ \A d \in Runs : runs[d].month # 0 => runs'[d].month = runs[d].month
        /\ ~overlap => LinesStarted'
    BY <2>4, <2>5, <2>6, AssetWritten
  <2> QED BY <1>3, <1>e, <2>1, <2>7 DEF WriteCapitalized
<1>4. ASSUME NEW r \in Requests, NEW m \in Months, RunDepreciation(r, m)
      PROVE  AssetsInv'
  <2>1. PICK taken : taken = Depreciable(m)
    OBVIOUS
  <2>2. taken \in SUBSET Assets /\ \A a \in taken : Started(a, m)
    BY <2>1 DEF Depreciable, Started
  <2>3. /\ AssetCall(Call("insertRun", m, None, taken))
        /\ SerialAssetCall(Call("insertRun", m, None, taken))
    BY <2>2 DEF AssetCall, SerialAssetCall, Call
  <2> QED BY <1>4, <1>b, <2>1, <2>3 DEF RunDepreciation
<1>5. ASSUME NEW r \in Requests, InsertRun(r)
      PROVE  AssetsInv'
  <2>1. running[r] # Idle
    BY <1>5, Busy DEF InsertRun
  <2>2. PICK m \in Months, taken \in SUBSET Assets : m = running[r].doc /\ taken = running[r].saw
    BY <1>5, <1>i DEF InsertRun, At, AssetCall
  <2>3. assets' = assets
    BY <1>5 DEF InsertRun
  <2>4. CASE Finish(r) /\ UNCHANGED runs
    <3>1. UNCHANGED assetTables
      BY <2>3, <2>4 DEF assetTables
    <3> QED BY <1>i, <1>q, <2>1, <2>4, <3>1, Finishes, AssetReads
  <2>5. ASSUME MonthFree(m), NEW d \in Runs, runs[d] = NoRun,
               runs' = [runs EXCEPT ![d].month = m],
               \/ Finish(r)
               \/ Goto(r, "insertLines", [run |-> d, assets |-> taken])
        PROVE  AssetsInv'
    <3>1. PICK row : row = [runs[d] EXCEPT !.month = m]
      OBVIOUS
    <3>2. row \in RunRow /\ row.month = m /\ row.lines = {} /\ m # 0 /\ runs[d].month = 0
      BY <1>i, <2>5, <3>1, MonthsAreNat DEF RunRow, NoRun
    <3>3. /\ runs' \in [Runs -> RunRow]
          /\ runs'[d] = row /\ \A e \in Runs \ {d} : runs'[e] = runs[e]
      BY <1>i, <2>5, <3>1, <3>2
    <3>4. AssetTables'
      BY <1>i, <2>3, <2>5, <3>2, <3>3 DEF AssetTables, MonthsApart, LinesOfRuns, MonthFree
    <3>5. \A e \in Runs : runs[e].month # 0 => runs'[e].month = runs[e].month
      BY <3>2, <3>3
    <3>6. ~overlap => LinesStarted'
      BY <1>i, <2>3, <3>2, <3>3 DEF LinesStarted, Started
    <3>7. CASE Finish(r)
      BY <1>e, <2>1, <3>4, <3>5, <3>6, <3>7
    <3>8. CASE Goto(r, "insertLines", [run |-> d, assets |-> taken])
      <4>1. PICK saw : saw = [run |-> d, assets |-> taken]
        OBVIOUS
      <4>2. PICK call : call = Call("insertLines", m, running[r].by, saw)
        OBVIOUS
      <4>3. HandlersInv' /\ Only(r, call)
        BY <1>i, <2>1, <2>2, <3>8, <4>1, <4>2, Goes
      <4>4. call.step = "insertLines" /\ call.saw.run = d /\ call.saw.assets = taken
        BY <4>1, <4>2 DEF Call
      <4>5. AssetCall(call)'
        BY <3>2, <3>3, <4>4 DEF AssetCall
      <4>6. ~overlap => \A a \in taken : Started(a, m)
        BY <1>5, <1>i, <2>2 DEF InsertRun, At, SerialAssetCall
      <4>7. ~overlap => SerialAssetCall(call)'
        BY <2>3, <3>2, <3>3, <4>4, <4>6 DEF SerialAssetCall, Started
      <4> QED BY <2>1, <3>4, <3>5, <3>6, <4>3, <4>5, <4>7, AssetSteps
    <3> QED BY <2>5, <3>7, <3>8
  <2> QED BY <1>5, <2>2, <2>4, <2>5 DEF InsertRun
<1>6. ASSUME NEW r \in Requests, InsertLines(r)
      PROVE  AssetsInv'
  <2>1. running[r] # Idle
    BY <1>6, Busy DEF InsertLines
  <2>2. PICK saw : saw = running[r].saw
    OBVIOUS
  <2>3. PICK d \in Runs, taken \in SUBSET Assets :
          d = saw.run /\ taken = saw.assets /\ runs[d].month # 0
    BY <1>6, <1>i, <2>2 DEF InsertLines, At, AssetCall
  <2>4. PICK row : row = [runs[d] EXCEPT !.lines = runs[d].lines \cup taken]
    OBVIOUS
  <2>5. /\ row \in RunRow /\ row.month = runs[d].month
        /\ row.lines = runs[d].lines \cup taken
    BY <1>i, <2>4 DEF RunRow
  <2>6. runs' = [runs EXCEPT ![d] = row] /\ assets' = assets
    BY <1>6, <2>2, <2>3, <2>4 DEF InsertLines
  <2>7. /\ runs' \in [Runs -> RunRow]
        /\ runs'[d] = row /\ \A e \in Runs \ {d} : runs'[e] = runs[e]
    BY <1>i, <2>5, <2>6
  <2>8. \A e \in Runs : runs'[e].month = runs[e].month
    BY <2>5, <2>7
  <2>9. AssetTables'
    BY <1>i, <2>3, <2>5, <2>6, <2>7, <2>8 DEF AssetTables, MonthsApart, LinesOfRuns
  <2>10. ASSUME ~overlap PROVE LinesStarted'
    <3>1. \A a \in taken : Started(a, runs[d].month)
      BY <1>6, <1>i, <2>2, <2>3, <2>10 DEF InsertLines, At, SerialAssetCall
    <3>2. \A e \in Runs : \A a \in runs[e].lines : Started(a, runs[e].month)
      BY <1>i, <2>10 DEF LinesStarted
    <3> QED BY <2>5, <2>6, <2>7, <3>1, <3>2 DEF LinesStarted, Started
  <2>11. PICK call : call = Call("bookRun", running[r].doc, running[r].by, saw)
    OBVIOUS
  <2>12. HandlersInv' /\ Only(r, call)
    BY <1>6, <1>i, <2>1, <2>2, <2>11, Goes DEF InsertLines
  <2>13. call.step = "bookRun" /\ call.saw = saw
    BY <2>11 DEF Call
  <2>14. AssetCall(call)' /\ SerialAssetCall(call)'
    BY <2>3, <2>8, <2>13 DEF AssetCall, SerialAssetCall
  <2> QED BY <2>1, <2>8, <2>9, <2>10, <2>12, <2>14, AssetSteps
<1>7. ASSUME NEW r \in Requests, BookRun(r)
      PROVE  AssetsInv'
  <2>1. running[r] # Idle
    BY <1>7, Busy DEF BookRun
  <2>2. PICK d \in Runs : d = running[r].saw.run
    BY <1>7, <1>i DEF BookRun, At, AssetCall
  <2>3. PICK row : row = [runs[d] EXCEPT !.journal = "POSTED"]
    OBVIOUS
  <2>4. row \in RunRow /\ row.month = runs[d].month /\ row.lines = runs[d].lines
    BY <1>i, <2>3 DEF RunRow
  <2>5. runs' = [runs EXCEPT ![d] = row] /\ assets' = assets
    BY <1>7, <2>2, <2>3 DEF BookRun
  <2>6. /\ runs' \in [Runs -> RunRow]
        /\ \A e \in Runs : runs'[e].month = runs[e].month /\ runs'[e].lines = runs[e].lines
    BY <1>i, <2>4, <2>5
  <2>7. AssetTables'
    BY <1>i, <2>5, <2>6 DEF AssetTables, MonthsApart, LinesOfRuns
  <2>8. LinesStarted => LinesStarted'
    BY <2>5, <2>6 DEF LinesStarted, Started
  <2> QED BY <1>7, <1>e, <1>i, <2>1, <2>6, <2>7, <2>8 DEF BookRun
<1>8. ASSUME NEW r \in Requests, NEW a \in Assets, NEW m \in Months, DisposeAsset(r, a, m)
      PROVE  AssetsInv'
  BY <1>8, <1>b DEF DisposeAsset, AssetCall, SerialAssetCall, Call
<1>9. ASSUME NEW r \in Requests, ReadAccumulated(r)
      PROVE  AssetsInv'
  <2>1. running[r] # Idle /\ UNCHANGED assetTables
    BY <1>9, Busy DEF ReadAccumulated
  <2>2. PICK a \in Assets, m \in Months : a = running[r].doc /\ m = running[r].saw
    BY <1>9, <1>i DEF ReadAccumulated, At, AssetCall
  <2>3. PICK saw : saw = [until |-> m, accumulated |-> AccumulatedTo(a, m)]
    OBVIOUS
  <2>4. saw.until = m /\ saw.accumulated \in Accumulations
    BY <2>3 DEF AccumulatedTo, Accumulations
  <2>5. PICK call : call = Call("dispose", a, running[r].by, saw)
    OBVIOUS
  <2>6. HandlersInv' /\ Only(r, call)
    BY <1>9, <1>i, <2>1, <2>2, <2>3, <2>5, Goes DEF ReadAccumulated
  <2>7. AssetCall(call) /\ SerialAssetCall(call)
    BY <2>4, <2>5 DEF AssetCall, SerialAssetCall, Call
  <2> QED BY <2>1, <2>6, <2>7, AssetReads
<1>10. ASSUME NEW r \in Requests, WriteDisposed(r)
       PROVE  AssetsInv'
  <2>1. running[r] # Idle
    BY <1>10, Busy DEF WriteDisposed
  <2>2. PICK a \in Assets, m \in Months, amount \in Accumulations :
          a = running[r].doc /\ m = running[r].saw.until /\ amount = running[r].saw.accumulated
    BY <1>10, <1>i DEF WriteDisposed, At, AssetCall
  <2>3. PICK row : row = [assets[a] EXCEPT !.status = "DISPOSED", !.until = m, !.accumulated = amount]
    OBVIOUS
  <2>4. row \in AssetRow /\ row.status = "DISPOSED" /\ row.from = assets[a].from
    BY <1>i, <2>3, MonthsAreNat DEF AssetRow
  <2>5. assets' = [assets EXCEPT ![a] = row] /\ runs' = runs
    BY <1>10, <2>2, <2>3 DEF WriteDisposed
  <2>6. /\ AssetTables'
        /\ \A d \in Runs : runs[d].month # 0 => runs'[d].month = runs[d].month
        /\ ~overlap => LinesStarted'
    BY <2>4, <2>5, AssetWritten
  <2> QED BY <1>10, <1>e, <2>1, <2>6 DEF WriteDisposed
<1>11. ASSUME NEW r \in Requests, Fail(r), UNCHANGED assetTables
       PROVE  AssetsInv'
  BY <1>11, <1>i, <1>q, Finishes, AssetReads DEF Fail
<1>12. CASE UNCHANGED assetVars
  <2>1. HandlersInv' /\ overlap' = overlap /\ (\A q \in Requests : running'[q] = running[q])
        /\ assets' = assets /\ runs' = runs
    BY <1>12, <1>i, StaysPut DEF assetVars, assetTables
  <2>2. AssetTables' /\ (LinesStarted => LinesStarted')
    BY <1>i, <2>1 DEF AssetTables, MonthsApart, LinesOfRuns, LinesStarted, Started
  <2>3. ASSUME NEW q \in Requests
        PROVE  AssetCall(running[q])' /\ (SerialAssetCall(running[q]) => SerialAssetCall(running[q])')
    <3>1. PICK c : c = running[q]
      OBVIOUS
    <3>2. AssetCall(c)' /\ running'[q] = c
      BY <1>i, <2>1, <3>1 DEF AssetCall
    <3>3. SerialAssetCall(c) => SerialAssetCall(c)'
      BY <2>1 DEF SerialAssetCall, Started
    <3>4. AssetCall(running[q])'
      BY <3>2 DEF AssetCall
    <3>5. SerialAssetCall(c)' => SerialAssetCall(running[q])'
      BY <3>2 DEF SerialAssetCall
    <3> QED BY <3>1, <3>3, <3>4, <3>5
  <2> QED BY <1>i, <2>1, <2>2, <2>3 DEF AssetsInv
<1> QED
  BY <1>1, <1>2, <1>3, <1>4, <1>5, <1>6, <1>7, <1>8, <1>9, <1>10, <1>11, <1>12 DEF AssetsStep

(* However depreciation runs overlap, stop and come late: a month of an    *)
(* asset is depreciated once, and one request at a time never before the   *)
(* asset's first month.                                                    *)
THEOREM DepreciatesOnce == AssetsSpec => []DepreciatedOnce
<1>1. AssetsInv => DepreciatedOnce
  <2> SUFFICES ASSUME AssetsInv, NEW a \in Assets, NEW d \in Runs, a \in runs[d].lines
               PROVE  /\ \A e \in Runs \ {d} : a \in runs[e].lines => runs[e].month # runs[d].month
                      /\ ~overlap => assets[a].from <= runs[d].month
    BY DEF DepreciatedOnce
  <2>1. runs[d].month # 0
    BY DEF AssetsInv, AssetTables, LinesOfRuns
  <2> QED BY <2>1 DEF AssetsInv, AssetTables, MonthsApart, LinesStarted, Started
<1> QED BY <1>1, AssetsInitially, AssetsInductive, PTL DEF AssetsSpec

(* Disposal, one request at a time: a depreciation run takes only assets   *)
(* that are still CAPITALIZED when its lines are written, and what a       *)
(* disposal read is still what there is when it is recorded.               *)

DisposalCall(call) ==
  /\ call.step = "insertRun" => \A a \in call.saw : assets[a].status = "CAPITALIZED"
  /\ call.step = "insertLines" => \A a \in call.saw.assets : assets[a].status = "CAPITALIZED"
  /\ call.step = "dispose" => call.saw.accumulated = AccumulatedTo(call.doc, call.saw.until)

DisposalInv ==
  DisposedAtCarryingAmount /\ (~overlap => \A r \in Requests : DisposalCall(running[r]))

(* The runs have the same lines of asset a for the months up to m.         *)
LEMMA SameAccumulated ==
  ASSUME NEW a, NEW m,
         \A d \in Runs : a \in runs'[d].lines /\ runs'[d].month <= m
                           <=> a \in runs[d].lines /\ runs[d].month <= m
  PROVE  AccumulatedTo(a, m)' = AccumulatedTo(a, m)
<1>1. {d \in Runs : a \in runs'[d].lines /\ runs'[d].month <= m}
        = {d \in Runs : a \in runs[d].lines /\ runs[d].month <= m}
  OBVIOUS
<1> QED BY <1>1 DEF AccumulatedTo

LEMMA DisposalInitially == AssetsInit /\ HandlersInit => DisposalInv
<1> SUFFICES ASSUME AssetsInit, HandlersInit PROVE DisposalInv
  OBVIOUS
<1>1. \A r \in Requests : DisposalCall(running[r])
  BY InitiallyIdle, IdleStep DEF DisposalCall
<1>2. DisposedAtCarryingAmount
  BY DEF DisposedAtCarryingAmount, AssetsInit, NoAsset
<1> QED BY <1>1, <1>2 DEF DisposalInv

LEMMA DisposalSteps ==
  ASSUME HandlersInv, ~overlap, NEW r \in Requests, running[r] # Idle \/ Quiet,
         NEW call, Only(r, call), DisposalCall(call)', DisposedAtCarryingAmount'
  PROVE  DisposalInv'
<1>1. DisposalCall(Idle)'
  BY IdleStep DEF DisposalCall
<1>2. \A q \in Requests \ {r} : running'[q] = Idle
  BY Alone DEF Only
<1>3. ASSUME NEW q \in Requests PROVE DisposalCall(running[q])'
  BY <1>1, <1>2 DEF Only, DisposalCall
<1> QED BY <1>3 DEF DisposalInv

LEMMA DisposalInductive ==
  ASSUME AssetsInv, DisposalInv, [AssetsStep]_assetVars
  PROVE  DisposalInv'
<1>0. overlap' = overlap
  BY DEF AssetsStep, CreateAsset, CapitalizeAsset, WriteCapitalized, RunDepreciation, InsertRun,
         InsertLines, BookRun, DisposeAsset, ReadAccumulated, WriteDisposed, Fail, Begin, Goto,
         Finish, AtOnce, assetVars, handlerVars
<1> SUFFICES ASSUME ~overlap PROVE DisposalInv'
  BY <1>0 DEF DisposalInv, DisposedAtCarryingAmount
<1>i. /\ HandlersInv
      /\ assets \in [Assets -> AssetRow] /\ runs \in [Runs -> RunRow]
      /\ \A r \in Requests :
           AssetCall(running[r]) /\ SerialAssetCall(running[r]) /\ DisposalCall(running[r])
      /\ \A a \in Assets : assets[a].status = "DISPOSED" =>
           assets[a].accumulated = AccumulatedTo(a, assets[a].until)
  BY DEF AssetsInv, AssetTables, DisposalInv, DisposedAtCarryingAmount
<1>q. DisposalCall(Idle)'
  BY IdleStep DEF DisposalCall
<1>s. ASSUME UNCHANGED assetTables
      PROVE  /\ \A a, m : AccumulatedTo(a, m)' = AccumulatedTo(a, m)
             /\ DisposedAtCarryingAmount'
  <2>1. assets' = assets /\ runs' = runs
    BY <1>s DEF assetTables
  <2>2. ASSUME NEW a, NEW m PROVE AccumulatedTo(a, m)' = AccumulatedTo(a, m)
    BY <2>1, SameAccumulated
  <2>3. ASSUME NEW a \in Assets, assets'[a].status = "DISPOSED"
        PROVE  assets'[a].accumulated = AccumulatedTo(a, assets[a].until)'
    <3>1. PICK m : m = assets[a].until
      OBVIOUS
    <3>2. AccumulatedTo(a, m)' = AccumulatedTo(a, m) /\ assets'[a].until = m
      BY <2>1, <2>2, <3>1
    <3> QED BY <1>i, <2>1, <2>3, <3>1, <3>2 DEF AccumulatedTo
  <2> QED BY <2>2, <2>3 DEF DisposedAtCarryingAmount
<1>b. ASSUME NEW r \in Requests, NEW call, Only(r, call), running[r] # Idle \/ Quiet,
             UNCHANGED assetTables, DisposalCall(call)
      PROVE  DisposalInv'
  <2>1. assets' = assets
    BY <1>b DEF assetTables
  <2>2. call.step = "dispose" => call.saw.accumulated = AccumulatedTo(call.doc, call.saw.until)'
    <3>1. PICK a, m : a = call.doc /\ m = call.saw.until
      OBVIOUS
    <3>2. AccumulatedTo(a, m)' = AccumulatedTo(a, m)
      BY <1>b, <1>s
    <3> QED BY <1>b, <3>1, <3>2 DEF DisposalCall
  <2>3. DisposalCall(call)'
    BY <1>b, <2>1, <2>2 DEF DisposalCall
  <2> QED BY <1>b, <1>i, <1>s, <2>3, DisposalSteps
(* The handlers that begin: they only read.                                *)
<1>c. ASSUME NEW r \in Requests, NEW step, NEW doc, NEW by, NEW saw, Begin(r, step, doc, by, saw),
             UNCHANGED assetTables, DisposalCall(Call(step, doc, by, saw))
      PROVE  DisposalInv'
  <2>1. PICK call : call = Call(step, doc, by, saw)
    OBVIOUS
  <2>2. Only(r, call) /\ Quiet
    BY <1>c, <1>i, <2>1, Begins
  <2> QED BY <1>b, <1>c, <2>1, <2>2
<1>e. ASSUME NEW r \in Requests, Finish(r), running[r] # Idle, DisposedAtCarryingAmount'
      PROVE  DisposalInv'
  BY <1>e, <1>i, <1>q, Finishes, DisposalSteps
(* A write to one asset, which is DISPOSED only at what its runs add up to. *)
<1>w. ASSUME NEW a \in Assets, NEW row \in AssetRow, assets' = [assets EXCEPT ![a] = row],
             runs' = runs, row.status = "DISPOSED" => row.accumulated = AccumulatedTo(a, row.until)
      PROVE  DisposedAtCarryingAmount'
  <2>1. assets'[a] = row /\ \A b \in Assets \ {a} : assets'[b] = assets[b]
    BY <1>i, <1>w
  <2>2. ASSUME NEW b \in Assets, assets'[b].status = "DISPOSED"
        PROVE  assets'[b].accumulated = AccumulatedTo(b, assets[b].until)'
    <3>1. PICK m : m = assets'[b].until
      OBVIOUS
    <3>2. AccumulatedTo(b, m)' = AccumulatedTo(b, m)
      BY <1>w, SameAccumulated
    <3>3. assets'[b].accumulated = AccumulatedTo(b, m)
      BY <1>i, <1>w, <2>1, <2>2, <3>1
    <3> QED BY <3>1, <3>2, <3>3 DEF AccumulatedTo
  <2> QED BY <2>2 DEF DisposedAtCarryingAmount
(* A write to one run that gives no line to an asset that is disposed of.  *)
<1>r. ASSUME assets' = assets,
             \A a \in Assets, d \in Runs : assets[a].status = "DISPOSED" =>
               /\ a \in runs'[d].lines <=> a \in runs[d].lines
               /\ a \in runs[d].lines => runs'[d].month = runs[d].month
      PROVE  DisposedAtCarryingAmount'
  <2>1. ASSUME NEW a \in Assets, assets'[a].status = "DISPOSED"
        PROVE  assets'[a].accumulated = AccumulatedTo(a, assets[a].until)'
    <3>1. PICK m : m = assets[a].until
      OBVIOUS
    <3>2. AccumulatedTo(a, m)' = AccumulatedTo(a, m)
      BY <1>r, <2>1, SameAccumulated
    <3> QED BY <1>i, <1>r, <2>1, <3>1, <3>2 DEF AccumulatedTo
  <2> QED BY <2>1 DEF DisposedAtCarryingAmount
<1>1. ASSUME NEW r \in Requests, NEW a \in Assets, CreateAsset(r, a)
      PROVE  DisposalInv'
  <2>1. PICK row : row = [assets[a] EXCEPT !.status = "DRAFT"]
    OBVIOUS
  <2>2. row \in AssetRow /\ row.status = "DRAFT"
    BY <1>i, <2>1 DEF AssetRow
  <2>3. DisposedAtCarryingAmount'
    BY <1>1, <1>w, <2>1, <2>2 DEF CreateAsset
  <2>4. Only(r, Idle) /\ Quiet
    BY <1>1, <1>i, StaysPut DEF CreateAsset, AtOnce, Only
  <2> QED BY <1>i, <1>q, <2>3, <2>4, DisposalSteps
<1>2. ASSUME NEW r \in Requests, NEW a \in Assets, NEW m \in Months,
             CapitalizeAsset(r, a, m) \/ DisposeAsset(r, a, m)
      PROVE  DisposalInv'
  BY <1>2, <1>c DEF CapitalizeAsset, DisposeAsset, DisposalCall, Call
<1>3. ASSUME NEW r \in Requests, WriteCapitalized(r)
      PROVE  DisposalInv'
  <2>1. running[r] # Idle
    BY <1>3, Busy DEF WriteCapitalized
  <2>2. PICK a \in Assets, m \in Months : a = running[r].doc /\ m = running[r].saw
    BY <1>3, <1>i DEF WriteCapitalized, At, AssetCall
  <2>3. PICK row : row = [assets[a] EXCEPT !.status = "CAPITALIZED", !.from = m]
    OBVIOUS
  <2>4. row \in AssetRow /\ row.status = "CAPITALIZED"
    BY <1>i, <2>3, MonthsAreNat DEF AssetRow
  <2>5. assets' = [assets EXCEPT ![a] = row] /\ UNCHANGED runs
    BY <1>3, <1>i, <2>2, <2>3 DEF WriteCapitalized
  <2>6. DisposedAtCarryingAmount'
    BY <1>w, <2>4, <2>5
  <2> QED BY <1>3, <1>e, <2>1, <2>6 DEF WriteCapitalized
<1>4. ASSUME NEW r \in Requests, NEW m \in Months, RunDepreciation(r, m)
      PROVE  DisposalInv'
  <2>1. PICK taken : taken = Depreciable(m)
    OBVIOUS
  <2>2. DisposalCall(Call("insertRun", m, None, taken))
    BY <2>1 DEF DisposalCall, Call, Depreciable
  <2> QED BY <1>4, <1>c, <2>1, <2>2 DEF RunDepreciation
<1>5. ASSUME NEW r \in Requests, InsertRun(r)
      PROVE  DisposalInv'
  <2>1. running[r] # Idle /\ assets' = assets
    BY <1>5, Busy DEF InsertRun
  <2>2. PICK m \in Months, taken \in SUBSET Assets : m = running[r].doc /\ taken = running[r].saw
    BY <1>5, <1>i DEF InsertRun, At, AssetCall
  <2>3. CASE Finish(r) /\ UNCHANGED runs
    BY <1>e, <1>s, <2>1, <2>3 DEF assetTables
  <2>4. ASSUME NEW d \in Runs, runs[d] = NoRun, runs' = [runs EXCEPT ![d].month = m],
               \/ Finish(r)
               \/ Goto(r, "insertLines", [run |-> d, assets |-> taken])
        PROVE  DisposalInv'
    <3>1. PICK row : row = [runs[d] EXCEPT !.month = m]
      OBVIOUS
    <3>2. runs[d].lines = {} /\ row.lines = {}
      BY <1>i, <2>4, <3>1 DEF RunRow, NoRun
    <3>3. runs'[d] = row /\ \A e \in Runs \ {d} : runs'[e] = runs[e]
      BY <1>i, <2>4, <3>1
    <3>4. DisposedAtCarryingAmount'
      BY <1>r, <2>1, <3>2, <3>3
    <3>5. CASE Finish(r)
      BY <1>e, <2>1, <3>4, <3>5
    <3>6. CASE Goto(r, "insertLines", [run |-> d, assets |-> taken])
      <4>1. PICK saw : saw = [run |-> d, assets |-> taken]
        OBVIOUS
      <4>2. PICK call : call = Call("insertLines", m, running[r].by, saw)
        OBVIOUS
      <4>3. Only(r, call)
        BY <1>i, <2>1, <2>2, <3>6, <4>1, <4>2, Goes
      <4>4. call.step = "insertLines" /\ call.saw.assets = taken
        BY <4>1, <4>2 DEF Call
      <4>5. \A a \in taken : assets[a].status = "CAPITALIZED"
        BY <1>5, <1>i, <2>2 DEF InsertRun, At, DisposalCall
      <4>6. DisposalCall(call)'
        BY <2>1, <4>4, <4>5 DEF DisposalCall
      <4> QED BY <1>i, <2>1, <3>4, <4>3, <4>6, DisposalSteps
    <3> QED BY <2>4, <3>5, <3>6
  <2> QED BY <1>5, <2>2, <2>3, <2>4 DEF InsertRun
<1>6. ASSUME NEW r \in Requests, InsertLines(r)
      PROVE  DisposalInv'
  <2>1. running[r] # Idle /\ assets' = assets
    BY <1>6, Busy DEF InsertLines
  <2>2. PICK saw : saw = running[r].saw
    OBVIOUS
  <2>3. PICK d \in Runs, taken \in SUBSET Assets : d = saw.run /\ taken = saw.assets
    BY <1>6, <1>i, <2>2 DEF InsertLines, At, AssetCall
  <2>4. PICK row : row = [runs[d] EXCEPT !.lines = runs[d].lines \cup taken]
    OBVIOUS
  <2>5. row.month = runs[d].month /\ row.lines = runs[d].lines \cup taken
    BY <1>i, <2>4 DEF RunRow
  <2>6. runs'[d] = row /\ \A e \in Runs \ {d} : runs'[e] = runs[e]
    BY <1>6, <1>i, <2>2, <2>3, <2>4 DEF InsertLines
  <2>7. \A a \in taken : assets[a].status = "CAPITALIZED"
    BY <1>6, <1>i, <2>2, <2>3 DEF InsertLines, At, DisposalCall
  <2>8. DisposedAtCarryingAmount'
    BY <1>r, <2>1, <2>5, <2>6, <2>7
  <2>9. PICK call : call = Call("bookRun", running[r].doc, running[r].by, saw)
    OBVIOUS
  <2>10. Only(r, call)
    BY <1>6, <1>i, <2>1, <2>2, <2>9, Goes DEF InsertLines
  <2>11. DisposalCall(call)'
    BY <2>9 DEF Call, DisposalCall
  <2> QED BY <1>i, <2>1, <2>8, <2>10, <2>11, DisposalSteps
<1>7. ASSUME NEW r \in Requests, BookRun(r)
      PROVE  DisposalInv'
  <2>1. running[r] # Idle /\ assets' = assets
    BY <1>7, Busy DEF BookRun
  <2>2. PICK d \in Runs : d = running[r].saw.run
    BY <1>7, <1>i DEF BookRun, At, AssetCall
  <2>3. PICK row : row = [runs[d] EXCEPT !.journal = "POSTED"]
    OBVIOUS
  <2>4. row.month = runs[d].month /\ row.lines = runs[d].lines
    BY <1>i, <2>3 DEF RunRow
  <2>5. runs'[d] = row /\ \A e \in Runs \ {d} : runs'[e] = runs[e]
    BY <1>7, <1>i, <2>2, <2>3 DEF BookRun
  <2>6. DisposedAtCarryingAmount'
    BY <1>r, <2>1, <2>4, <2>5
  <2> QED BY <1>7, <1>e, <2>1, <2>6 DEF BookRun
<1>8. ASSUME NEW r \in Requests, ReadAccumulated(r)
      PROVE  DisposalInv'
  <2>1. running[r] # Idle /\ UNCHANGED assetTables
    BY <1>8, Busy DEF ReadAccumulated
  <2>2. PICK a \in Assets, m \in Months : a = running[r].doc /\ m = running[r].saw
    BY <1>8, <1>i DEF ReadAccumulated, At, AssetCall
  <2>3. PICK saw : saw = [until |-> m, accumulated |-> AccumulatedTo(a, m)]
    OBVIOUS
  <2>4. PICK call : call = Call("dispose", a, running[r].by, saw)
    OBVIOUS
  <2>5. Only(r, call)
    BY <1>8, <1>i, <2>1, <2>2, <2>3, <2>4, Goes DEF ReadAccumulated
  <2>6. DisposalCall(call)
    BY <2>3, <2>4 DEF DisposalCall, Call
  <2> QED BY <1>b, <2>1, <2>5, <2>6
<1>9. ASSUME NEW r \in Requests, WriteDisposed(r)
      PROVE  DisposalInv'
  <2>1. running[r] # Idle
    BY <1>9, Busy DEF WriteDisposed
  <2>2. PICK a \in Assets, m \in Months, amount \in Accumulations :
          a = running[r].doc /\ m = running[r].saw.until /\ amount = running[r].saw.accumulated
    BY <1>9, <1>i DEF WriteDisposed, At, AssetCall
  <2>3. amount = AccumulatedTo(a, m)
    BY <1>9, <1>i, <2>2 DEF WriteDisposed, At, DisposalCall
  <2>4. PICK row : row = [assets[a] EXCEPT !.status = "DISPOSED", !.until = m, !.accumulated = amount]
    OBVIOUS
  <2>5. row \in AssetRow /\ row.until = m /\ row.accumulated = amount
    BY <1>i, <2>4, MonthsAreNat DEF AssetRow
  <2>6. assets' = [assets EXCEPT ![a] = row] /\ runs' = runs
    BY <1>9, <2>2, <2>4 DEF WriteDisposed
  <2>7. DisposedAtCarryingAmount'
    BY <1>w, <2>3, <2>5, <2>6
  <2> QED BY <1>9, <1>e, <2>1, <2>7 DEF WriteDisposed
<1>10. ASSUME NEW r \in Requests, Fail(r), UNCHANGED assetTables
       PROVE  DisposalInv'
  BY <1>10, <1>e, <1>s DEF Fail
<1>11. CASE UNCHANGED assetVars
  <2>1. UNCHANGED assetTables /\ assets' = assets /\ \A q \in Requests : running'[q] = running[q]
    BY <1>11, <1>i, StaysPut DEF assetVars, assetTables
  <2>2. ASSUME NEW q \in Requests PROVE DisposalCall(running[q])'
    <3>1. PICK c : c = running[q]
      OBVIOUS
    <3>2. PICK a, m : a = c.doc /\ m = c.saw.until
      OBVIOUS
    <3>3. AccumulatedTo(a, m)' = AccumulatedTo(a, m)
      BY <1>s, <2>1
    <3> QED BY <1>i, <2>1, <3>1, <3>2, <3>3 DEF DisposalCall, AccumulatedTo
  <2> QED BY <1>s, <2>1, <2>2 DEF DisposalInv
<1> QED
  BY <1>1, <1>2, <1>3, <1>4, <1>5, <1>6, <1>7, <1>8, <1>9, <1>10, <1>11 DEF AssetsStep

(* One request at a time, also when depreciation runs and disposals stop   *)
(* half way: a disposal took off exactly the depreciation there is for the *)
(* months up to it.                                                        *)
THEOREM DisposesAtCarryingAmount == AssetsSpec => []DisposedAtCarryingAmount
<1>1. AssetsInv /\ DisposalInv /\ [AssetsStep]_assetVars => DisposalInv'
  BY DisposalInductive
<1>2. DisposalInv => DisposedAtCarryingAmount
  BY DEF DisposalInv
<1> QED BY <1>1, <1>2, AssetsInitially, AssetsInductive, DisposalInitially, PTL DEF AssetsSpec

-----------------------------------------------------------------------------
(* Recurring templates, one request at a time.                             *)

TemplateRow ==
  [status : {"NONE", "DRAFT", "PENDING_APPROVAL", "APPROVED", "SUSPENDED", "ARCHIVED"},
   createdBy : Users \cup {None}, lines : TemplateLines \cup {None}, every : Nat \cup {None},
   end : Nat \cup {None}, submitted : TemplateLines \cup {None}, approvedBy : Users \cup {None}]

Passed == {"APPROVED", "SUSPENDED", "ARCHIVED"}

(* What a template says was submitted, once it is; what has passed was     *)
(* approved; and only what has passed generates.                           *)
RowSound(row) ==
  /\ row.status \in Passed \cup {"PENDING_APPROVAL"} => row.lines = row.submitted
  /\ row.status \in Passed => row.approvedBy # None

TemplateSound(t) ==
  /\ RowSound(templates[t])
  /\ \A d \in RunDates : generations[t][d] # None =>
       templates[t].status \in Passed /\ generations[t][d] = templates[t].submitted

TemplateCall(call) ==
  LET t == call.doc IN
  /\ call.step \in {"rewrite", "submit"} => t \in Templates /\ templates[t].status = "DRAFT"
  /\ call.step = "rewrite" =>
       call.saw.lines \in TemplateLines /\ call.saw.every \in Nat /\ call.saw.end \in Nat \cup {None}
  /\ call.step = "approve" =>
       /\ t \in Templates /\ call.by \in Users
       /\ templates[t].status \in {"PENDING_APPROVAL", "SUSPENDED"}
  /\ call.step = "mark" =>
       /\ t \in Templates /\ call.saw \in {"SUSPENDED", "ARCHIVED"}
       /\ templates[t].status \in {"APPROVED", "SUSPENDED"}
  /\ call.step = "generate" =>
       /\ t \in Templates /\ call.saw.row = templates[t] /\ call.saw.date \in RunDates
       /\ templates[t].status = "APPROVED"

TemplatesAre ==
  /\ templates \in [Templates -> TemplateRow]
  /\ generations = [t \in Templates |-> [d \in RunDates |-> generations[t][d]]]
  /\ \A t \in Templates : TemplateSound(t)

TemplatesInv ==
  /\ HandlersInv
  /\ ~overlap => TemplatesAre /\ \A r \in Requests : TemplateCall(running[r])

LEMMA TemplateSteps ==
  ASSUME TemplatesInv, HandlersInv', NEW r \in Requests, NEW call, Only(r, call),
         running[r] # Idle \/ (~overlap => Quiet),
         ~overlap => TemplatesAre' /\ TemplateCall(call)'
  PROVE  TemplatesInv'
<1>1. CASE overlap
  BY <1>1 DEF TemplatesInv, Only
<1>2. CASE ~overlap
  <2>1. \A q \in Requests \ {r} : running[q] = Idle
    BY <1>2, Alone DEF TemplatesInv
  <2>2. \A q \in Requests : running'[q] = Idle \/ running'[q] = call
    BY <2>1 DEF Only
  <2>3. TemplateCall(Idle)'
    BY IdleStep DEF TemplateCall
  <2>4. ASSUME NEW q \in Requests PROVE TemplateCall(running[q])'
    <3>1. \A c : TemplateCall(c)' /\ running'[q] = c => TemplateCall(running[q])'
      BY DEF TemplateCall
    <3> QED BY <1>2, <2>2, <2>3, <3>1
  <2> QED BY <1>2, <2>4 DEF TemplatesInv, Only
<1> QED BY <1>1, <1>2

LEMMA TemplatesSame ==
  ASSUME UNCHANGED templateTables
  PROVE  /\ TemplatesAre' <=> TemplatesAre
         /\ \A call : TemplateCall(call)' <=> TemplateCall(call)
BY DEF templateTables, TemplatesAre, TemplateSound, RowSound, TemplateCall

LEMMA TemplateWritten ==
  ASSUME TemplatesAre, NEW t \in Templates, NEW row \in TemplateRow, RowSound(row),
         templates[t].status \in Passed =>
           row.status \in Passed /\ row.submitted = templates[t].submitted,
         templates' = [templates EXCEPT ![t] = row], UNCHANGED generations
  PROVE  TemplatesAre'
<1>1. /\ templates' \in [Templates -> TemplateRow]
      /\ templates'[t] = row /\ \A s \in Templates \ {t} : templates'[s] = templates[s]
  BY DEF TemplatesAre
<1>2. \A s \in Templates : TemplateSound(s)'
  BY <1>1 DEF TemplatesAre, TemplateSound, RowSound
<1> QED BY <1>1, <1>2 DEF TemplatesAre

LEMMA TemplatesInitially == TemplatesInit /\ HandlersInit => TemplatesInv
<1> SUFFICES ASSUME TemplatesInit, HandlersInit PROVE TemplatesInv
  OBVIOUS
<1>1. HandlersInv /\ \A r \in Requests : running[r] = Idle
  BY InitiallyIdle
<1>2. \A r \in Requests : TemplateCall(running[r])
  BY <1>1, IdleStep DEF TemplateCall
<1>3. templates \in [Templates -> TemplateRow] /\ \A t \in Templates : templates[t].status = "NONE"
  BY DEF TemplatesInit, NoTemplate, TemplateRow
<1>4. \A t \in Templates : TemplateSound(t)
  BY <1>3 DEF TemplatesInit, TemplateSound, RowSound, Passed
<1> QED BY <1>1, <1>2, <1>3, <1>4 DEF TemplatesInv, TemplatesAre, TemplatesInit

LEMMA TemplatesInductive == TemplatesInv /\ [TemplateStep]_templateVars => TemplatesInv'
<1> SUFFICES ASSUME TemplatesInv, [TemplateStep]_templateVars PROVE TemplatesInv'
  OBVIOUS
<1>i. HandlersInv
  BY DEF TemplatesInv
<1>q. TemplateCall(Idle)'
  BY IdleStep DEF TemplateCall
<1>t. ~overlap => TemplatesAre /\ \A r \in Requests : TemplateCall(running[r])
  BY DEF TemplatesInv
(* What starts a handler, and what ends one.                               *)
<1>b. ASSUME NEW r \in Requests, NEW step, NEW doc, NEW by, NEW saw, Begin(r, step, doc, by, saw),
             UNCHANGED templateTables, ~overlap => TemplateCall(Call(step, doc, by, saw))
      PROVE  TemplatesInv'
  <2>1. PICK call : call = Call(step, doc, by, saw)
    OBVIOUS
  <2>2. HandlersInv' /\ Only(r, call) /\ (~overlap => Quiet)
    BY <1>b, <1>i, <2>1, Begins
  <2>3. ~overlap => TemplateCall(call)'
    BY <1>b, <2>1, TemplatesSame
  <2> QED BY <1>b, <1>t, <2>2, <2>3, TemplatesSame, TemplateSteps
<1>e. ASSUME NEW r \in Requests, Finish(r), running[r] # Idle, ~overlap => TemplatesAre'
      PROVE  TemplatesInv'
  <2>1. HandlersInv' /\ Only(r, Idle)
    BY <1>e, <1>i, Finishes
  <2> QED BY <1>e, <1>q, <2>1, TemplateSteps
<1>1. ASSUME NEW r \in Requests, NEW by \in Users, NEW t \in Templates, NEW content \in TemplateLines,
             NEW every \in Frequencies, NEW end \in RunDates \cup {None},
             CreateTemplate(r, by, t, content, every, end)
      PROVE  TemplatesInv'
  <2>1. PICK row : row = [NoTemplate EXCEPT !.status = "DRAFT", !.createdBy = by,
                                            !.lines = content, !.every = every, !.end = end]
    OBVIOUS
  <2>2. every \in Nat /\ end \in Nat \cup {None}
    BY TemplatesAssumption DEF RunDates
  <2>3. row \in TemplateRow /\ row.status = "DRAFT"
    BY <2>1, <2>2 DEF NoTemplate, TemplateRow
  <2>4. ~overlap => TemplatesAre'
    <3>1. templates[t].status = "NONE" /\ templates' = [templates EXCEPT ![t] = row]
      BY <1>1, <2>1 DEF CreateTemplate, NoTemplate
    <3> QED BY <1>1, <1>t, <2>3, <3>1, TemplateWritten DEF CreateTemplate, RowSound, Passed
  <2>5. HandlersInv' /\ Only(r, Idle) /\ (~overlap => Quiet)
    BY <1>1, <1>i, StaysPut DEF CreateTemplate, AtOnce, Only
  <2> QED BY <1>q, <2>4, <2>5, TemplateSteps
<1>2. ASSUME NEW r \in Requests, NEW by \in Users, NEW t \in Templates, NEW content \in TemplateLines,
             NEW every \in Frequencies, NEW end \in RunDates \cup {None},
             UpdateTemplate(r, by, t, content, every, end)
      PROVE  TemplatesInv'
  <2>1. every \in Nat /\ end \in Nat \cup {None}
    BY TemplatesAssumption DEF RunDates
  <2> QED BY <1>2, <1>b, <2>1 DEF UpdateTemplate, TemplateCall, Call
<1>3. ASSUME NEW r \in Requests, NEW by \in Users, NEW t \in Templates,
             \/ SubmitTemplate(r, by, t) \/ ApproveTemplate(r, by, t)
             \/ ReactivateTemplate(r, by, t) \/ SuspendTemplate(r, by, t) \/ ArchiveTemplate(r, by, t)
      PROVE  TemplatesInv'
  <2>1. PICK to, step :
          /\ Begin(r, step, t, by, to) /\ UNCHANGED templateTables
          /\ <<templates[t].status, to>> \in Transitions
          /\ <<to, step>> \in {<<"PENDING_APPROVAL", "submit">>, <<"APPROVED", "approve">>,
                               <<"SUSPENDED", "mark">>, <<"ARCHIVED", "mark">>}
    BY <1>3 DEF SubmitTemplate, ApproveTemplate, ReactivateTemplate, SuspendTemplate,
         ArchiveTemplate, BeginTransition
  <2>2. TemplateCall(Call(step, t, by, to))
    BY <2>1 DEF Transitions, TemplateCall, Call
  <2> QED BY <1>b, <2>1, <2>2
<1>4. ASSUME NEW r \in Requests, NEW by \in Users, NEW t \in Templates, NEW date \in RunDates,
             Generate(r, by, t, date)
      PROVE  TemplatesInv'
  BY <1>4, <1>b DEF Generate, MayGenerate, TemplateCall, Call
<1>5. ASSUME NEW r \in Requests,
             RewriteTemplate(r) \/ MarkSubmitted(r) \/ MarkApproved(r) \/ MarkTemplate(r)
      PROVE  TemplatesInv'
  <2>1. running[r] # Idle /\ Finish(r) /\ UNCHANGED generations
    BY <1>5, Busy DEF RewriteTemplate, MarkSubmitted, MarkApproved, MarkTemplate, WriteTemplate
  <2> SUFFICES ASSUME ~overlap PROVE TemplatesAre'
    BY <2>1, <1>e
  <2> DEFINE t == Template(r)
  <2>2. TemplatesAre /\ TemplateCall(running[r])
    BY <1>t
  <2>3. t \in Templates /\ templates[t] \in TemplateRow /\ RowSound(templates[t])
    BY <1>5, <2>2 DEF RewriteTemplate, MarkSubmitted, MarkApproved, MarkTemplate, At, TemplateCall,
         Template, TemplatesAre, TemplateSound
  <2>4. CASE RewriteTemplate(r)
    <3> DEFINE new == running[r].saw
    <3>1. /\ templates[t].status = "DRAFT" /\ new.lines \in TemplateLines
          /\ new.every \in Nat /\ new.end \in Nat \cup {None}
      BY <2>2, <2>4 DEF RewriteTemplate, At, TemplateCall, Template
    <3>2. PICK row : row = [templates[t] EXCEPT !.status = "DRAFT", !.lines = new.lines,
                                                !.every = new.every, !.end = new.end]
      OBVIOUS
    <3> HIDE DEF new, t
    <3>3. row \in TemplateRow /\ row.status = "DRAFT"
      BY <2>3, <3>1, <3>2 DEF TemplateRow
    <3>4. templates' = [templates EXCEPT ![t] = row]
      BY <2>4, <3>2 DEF RewriteTemplate, WriteTemplate, new, t
    <3> QED BY <2>1, <2>2, <2>3, <3>1, <3>3, <3>4, TemplateWritten DEF RowSound, Passed
  <2>5. CASE MarkSubmitted(r)
    <3>1. templates[t].status = "DRAFT"
      BY <2>2, <2>5 DEF MarkSubmitted, At, TemplateCall, Template
    <3>2. PICK row : row = [templates[t] EXCEPT !.status = "PENDING_APPROVAL",
                                                !.submitted = templates[t].lines]
      OBVIOUS
    <3> HIDE DEF t
    <3>3. row \in TemplateRow /\ row.status = "PENDING_APPROVAL" /\ row.submitted = row.lines
      BY <2>3, <3>2 DEF TemplateRow
    <3>4. templates' = [templates EXCEPT ![t] = row]
      BY <2>5, <3>2 DEF MarkSubmitted, WriteTemplate, t
    <3> QED BY <2>1, <2>2, <2>3, <3>1, <3>3, <3>4, TemplateWritten DEF RowSound, Passed
  <2>6. CASE MarkApproved(r)
    <3> DEFINE u == running[r].by
    <3>1. u \in Users /\ templates[t].status \in {"PENDING_APPROVAL", "SUSPENDED"}
      BY <2>2, <2>6 DEF MarkApproved, At, TemplateCall, Template
    <3>2. PICK row : row = [templates[t] EXCEPT !.status = "APPROVED", !.approvedBy = u]
      OBVIOUS
    <3> HIDE DEF u, t
    <3>3. /\ row \in TemplateRow /\ row.status = "APPROVED" /\ row.approvedBy = u
          /\ row.lines = templates[t].lines /\ row.submitted = templates[t].submitted
      BY <2>3, <3>1, <3>2 DEF TemplateRow
    <3>4. templates' = [templates EXCEPT ![t] = row]
      BY <2>6, <3>2 DEF MarkApproved, WriteTemplate, t, u
    <3>5. RowSound(row)
      BY <2>3, <3>1, <3>3, TemplatesAssumption DEF RowSound, Passed
    <3> QED BY <2>1, <2>2, <2>3, <3>3, <3>4, <3>5, TemplateWritten DEF Passed
  <2>7. CASE MarkTemplate(r)
    <3> DEFINE to == running[r].saw
    <3>1. to \in {"SUSPENDED", "ARCHIVED"} /\ templates[t].status \in {"APPROVED", "SUSPENDED"}
      BY <2>2, <2>7 DEF MarkTemplate, At, TemplateCall, Template
    <3>2. PICK row : row = [templates[t] EXCEPT !.status = to]
      OBVIOUS
    <3> HIDE DEF to, t
    <3>3. /\ row \in TemplateRow /\ row.status = to /\ row.approvedBy = templates[t].approvedBy
          /\ row.lines = templates[t].lines /\ row.submitted = templates[t].submitted
      BY <2>3, <3>1, <3>2 DEF TemplateRow
    <3>4. templates' = [templates EXCEPT ![t] = row]
      BY <2>7, <3>2 DEF MarkTemplate, WriteTemplate, t, to
    <3>5. RowSound(row)
      BY <2>3, <3>1, <3>3 DEF RowSound, Passed
    <3> QED BY <2>1, <2>2, <2>3, <3>1, <3>3, <3>4, <3>5, TemplateWritten DEF Passed
  <2> QED BY <1>5, <2>4, <2>5, <2>6, <2>7
<1>6. ASSUME NEW r \in Requests, WriteGenerated(r) PROVE TemplatesInv'
  <2>1. running[r] # Idle /\ Finish(r)
    BY <1>6, Busy DEF WriteGenerated
  <2> SUFFICES ASSUME ~overlap PROVE TemplatesAre'
    BY <2>1, <1>e
  <2> DEFINE t == Template(r)
             date == running[r].saw.date
  <2>2. /\ TemplatesAre /\ t \in Templates /\ date \in RunDates
        /\ running[r].saw.row = templates[t] /\ templates[t].status = "APPROVED"
    BY <1>6, <1>t DEF WriteGenerated, At, TemplateCall, Template
  <2>3. PICK status \in {"SUSPENDED", "APPROVED"} :
          /\ templates' = [templates EXCEPT ![t].status = status]
          /\ generations' = [generations EXCEPT ![t][date] = templates[t].lines]
    BY <1>6, <2>2 DEF WriteGenerated
  <2> HIDE DEF t, date
  <2>4. PICK row : row = [templates[t] EXCEPT !.status = status]
    OBVIOUS
  <2>5. templates' = [templates EXCEPT ![t] = row]
    BY <2>3, <2>4
  <2>6. templates[t] \in TemplateRow /\ RowSound(templates[t])
    BY <2>2 DEF TemplatesAre, TemplateSound
  <2>7. /\ row \in TemplateRow /\ row.status = status /\ row.approvedBy = templates[t].approvedBy
        /\ row.lines = templates[t].lines /\ row.submitted = templates[t].submitted
    BY <2>4, <2>6 DEF TemplateRow
  <2>8. /\ templates' \in [Templates -> TemplateRow]
        /\ templates'[t] = row /\ \A s \in Templates \ {t} : templates'[s] = templates[s]
    BY <2>2, <2>5, <2>7 DEF TemplatesAre
  <2>9. /\ generations' = [s \in Templates |-> [d \in RunDates |-> generations'[s][d]]]
        /\ \A s \in Templates, d \in RunDates :
             generations'[s][d] = IF s = t /\ d = date THEN templates[t].lines ELSE generations[s][d]
    BY <2>2, <2>3 DEF TemplatesAre
  <2>10. templates[t].lines = templates[t].submitted
    BY <2>2, <2>6 DEF RowSound, Passed
  <2>11. ASSUME NEW s \in Templates PROVE TemplateSound(s)'
    <3>1. TemplateSound(s)
      BY <2>2 DEF TemplatesAre
    <3> QED BY <3>1, <2>2, <2>7, <2>8, <2>9, <2>10 DEF TemplateSound, RowSound, Passed
  <2> QED BY <2>8, <2>9, <2>11 DEF TemplatesAre
<1>7. ASSUME NEW r \in Requests, Fail(r), UNCHANGED templateTables PROVE TemplatesInv'
  BY <1>7, <1>t, <1>e, TemplatesSame DEF Fail
<1>8. CASE UNCHANGED templateVars
  <2>1. UNCHANGED templateTables /\ UNCHANGED handlerVars
    BY <1>8 DEF templateVars
  <2>2. HandlersInv' /\ overlap' = overlap /\ \A r \in Requests : running'[r] = running[r]
    BY <2>1, <1>i, StaysPut
  <2>3. ASSUME ~overlap, NEW r \in Requests PROVE TemplateCall(running[r])'
    <3>1. \A d : d = running'[r] /\ TemplateCall(d)' => TemplateCall(running[r])'
      BY DEF TemplateCall
    <3> QED BY <1>t, <2>1, <2>2, <2>3, <3>1, TemplatesSame
  <2> QED BY <1>t, <2>1, <2>2, <2>3, TemplatesSame DEF TemplatesInv
<1> QED BY <1>1, <1>2, <1>3, <1>4, <1>5, <1>6, <1>7, <1>8 DEF TemplateStep

(* One request at a time: edits, transitions and generations never take a  *)
(* journal from lines nobody submitted and approved.                       *)
THEOREM JournalsAsSubmitted == TemplatesSpec => []GeneratedAsSubmitted
<1>1. TemplatesInv => GeneratedAsSubmitted
  BY DEF TemplatesInv, TemplatesAre, TemplateSound, RowSound, Passed, GeneratedAsSubmitted
<1> QED BY <1>1, TemplatesInitially, TemplatesInductive, PTL DEF TemplatesSpec

=============================================================================
