--------------------------- MODULE Administration ---------------------------
(* Users and their roles (src/.../settings/settings.service.ts).  Two      *)
(* rules range over the whole tenant or the whole role set: somebody must  *)
(* remain who can administer, and no user holds two roles whose            *)
(* permissions a SoDRule forbids together.  Both are checked by reads that *)
(* nothing ties to the writes after them.                                  *)
EXTENDS Handlers

CONSTANTS
  Staff,        \* ids of the User rows
  Roles, Admin,
  Conflicts     \* pairs of roles a SoDRule forbids together

ASSUME AdministrationAssumption ==
  Admin \in Roles /\ Conflicts \subseteq {{a, b} : a, b \in Roles}

VARIABLES staff

staffTables == <<staff>>
staffVars == <<staffTables, handlerVars>>

StaffRow == [status : {"NONE", "ACTIVE", "INACTIVE"}, roles : SUBSET Roles]
NobodyYet == [status |-> "NONE", roles |-> {}]

UserExists(u) == staff[u].status # "NONE"
IsActive(u) == staff[u].status = "ACTIVE"
IsAdmin(u) == Admin \in staff[u].roles

(* findSoDConflictForRoles                                                 *)
Compatible(roles) == \A pair \in Conflicts : ~(pair \subseteq roles)

(* The seed gives the tenant one administrator.                            *)
StaffInit ==
  \E u \in Staff :
    staff = [v \in Staff |->
      IF v = u THEN [status |-> "ACTIVE", roles |-> {Admin}] ELSE NobodyYet]

-----------------------------------------------------------------------------
(* Mutant: users that were deactivated count as well.                      *)
AnotherAdminEver(u) == \E v \in Staff \ {u} : IsAdmin(v)

(* countActiveAdminsExcludingUser                                          *)
AnotherAdmin(u) == \E v \in Staff \ {u} : IsActive(v) /\ IsAdmin(v)

(* createUser inserts the row; its roles are a call of applyUserRoles.     *)
CreateUser(r, by, u, roles) ==
  /\ IsActive(by)
  /\ ~UserExists(u)
  /\ Begin(r, "insertUser", u, by, roles)
  /\ UNCHANGED staffTables

InsertUser(r) ==
  /\ At(r, "insertUser")
  /\ ~UserExists(running[r].doc)   \* the unique index on the e-mail address
  /\ staff' = [staff EXCEPT ![running[r].doc].status = "ACTIVE"]
  /\ IF running[r].saw = {} THEN Finish(r) ELSE Goto(r, "readRoles", running[r].saw)

(* updateUserStatus: not of oneself, and not of the last administrator.    *)
UpdateStatus(r, by, u, status) ==
  /\ IsActive(by) /\ UserExists(u)
  /\ by # u
  /\ IsActive(u) /\ status = "INACTIVE" => AnotherAdmin(u)
  /\ Begin(r, "writeStatus", u, by, status)
  /\ UNCHANGED staffTables

WriteStatus(r) ==
  /\ At(r, "writeStatus")
  /\ staff' = [staff EXCEPT ![running[r].doc].status = running[r].saw]
  /\ Finish(r)

UpdateRoles(r, by, u, roles) ==
  /\ IsActive(by) /\ UserExists(u)
  /\ Begin(r, "readRoles", u, by, roles)
  /\ UNCHANGED staffTables

(* Mutant: only the roles that are added are looked at.                    *)
AddedCompatible(before, roles) == Compatible(roles \ before)

RolesCompatible(before, roles) == Compatible(roles)

(* applyUserRoles reads the roles the user has, and checks.                *)
ReadRoles(r) ==
  LET u == running[r].doc
      roles == running[r].saw
      losesAdmin == IsAdmin(u) /\ Admin \notin roles
  IN
  /\ At(r, "readRoles")
  /\ IF /\ losesAdmin => running[r].by # u /\ AnotherAdmin(u)
        /\ RolesCompatible(staff[u].roles, roles)
       THEN Goto(r, "writeRoles", [before |-> staff[u].roles, after |-> roles])
       ELSE Finish(r)
  /\ UNCHANGED staffTables

(* The transaction deletes the roles that were read, not those of now.     *)
WriteRoles(r) ==
  LET saw == running[r].saw IN
  /\ At(r, "writeRoles")
  /\ staff' = [staff EXCEPT ![running[r].doc].roles = (@ \ saw.before) \cup saw.after]
  /\ Finish(r)

StaffStep ==
  \E r \in Requests :
    \/ \E by, u \in Staff :
         \/ \E roles \in SUBSET Roles : CreateUser(r, by, u, roles) \/ UpdateRoles(r, by, u, roles)
         \/ \E status \in {"ACTIVE", "INACTIVE"} : UpdateStatus(r, by, u, status)
    \/ InsertUser(r) \/ WriteStatus(r) \/ ReadRoles(r) \/ WriteRoles(r)
    \/ Fail(r) /\ UNCHANGED staffTables

StaffSpec == StaffInit /\ HandlersInit /\ [][StaffStep]_staffVars

-----------------------------------------------------------------------------
(* One request at a time, whatever sequence of creations, role changes and *)
(* (de)activations: somebody active is left who can administer.            *)
NeverWithoutAdmin == ~overlap => \E u \in Staff : IsActive(u) /\ IsAdmin(u)

(* One request at a time: "Role combination violates Segregation of        *)
(* Duties": no user ends up with such a combination.                       *)
NoConflictingRoles == ~overlap => \A u \in Staff : Compatible(staff[u].roles)

=============================================================================
