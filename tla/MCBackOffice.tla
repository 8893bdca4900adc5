---------------------------- MODULE MCBackOffice ----------------------------
(* The workflows that share nothing but the server, for TLC: a behaviour   *)
(* takes one of them, and the tables of the others stay as they are.       *)
EXTENDS OverrideSessions, BankReconciliation, FixedAssets, Planning, Administration,
        RecurringTemplates, Accounts, TLC

CONSTANTS u1, u2, clerk, poster

VARIABLE part

backVars ==
  <<part, handlerVars, overrideTables, bankTables, assetTables, planningTables,
    staffTables, templateTables, authTables>>

OneConflict == {{clerk, poster}}

(* A workflow that is not taken begins in one of its initial states.  User *)
(* administration and recurring templates promise nothing when requests    *)
(* overlap.                                                                *)
Still ==
  /\ part # "override" => \A e \in Entries :
       entries[e].createdBy = u1 /\ entries[e].reviewedBy = u2
  /\ part # "staff" => UserExists(u1)
  /\ part # "accounts" => \A a \in Accounts : ~accounts[a].mustChange
  /\ part \in {"staff", "recurring"} => ~overlap

BackInit ==
  /\ part \in {"override", "bank", "assets", "planning", "staff", "recurring",
              "accounts"}
  /\ HandlersInit
  /\ OverrideInit /\ BankInit /\ AssetsInit /\ PlanningInit /\ StaffInit /\ TemplatesInit
  /\ AccountsInit
  /\ Still

(* The tables of the workflows that are not taken.                         *)
OthersStill ==
  /\ part # "override" => UNCHANGED overrideTables
  /\ part # "bank" => UNCHANGED bankTables
  /\ part # "assets" => UNCHANGED assetTables
  /\ part # "planning" => UNCHANGED planningTables
  /\ part # "staff" => UNCHANGED staffTables
  /\ part # "recurring" => UNCHANGED templateTables
  /\ part # "accounts" => UNCHANGED authTables

BackNext ==
  /\ UNCHANGED part
  /\ \/ part = "override" /\ OverrideStep
     \/ part = "bank" /\ BankStep
     \/ part = "assets" /\ AssetsStep
     \/ part = "planning" /\ PlanningStep
     \/ part = "staff" /\ StaffStep
     \/ part = "recurring" /\ TemplateStep
     \/ part = "accounts" /\ AccountsStep
  /\ OthersStill

BackSpec == BackInit /\ [][BackNext]_backVars

(* Bounds: when requests overlap, one row of a table is enough for a race, *)
(* two where the race is between rows.                                     *)
Rows(table, none) == Cardinality({x \in DOMAIN table : table[x] # none})

Few ==
  /\ Rows(statements, NoStatement) + Rows(journalLines, NotPosted) <= 3
  /\ overlap => Rows(statements, NoStatement) <= 1 /\ Rows(journalLines, NotPosted) <= 1
  /\ overlap => Rows(assets, NoAsset) <= 1

(* Bounds: a login takes several requests when they come one at a time;    *)
(* when they overlap, a session, a code or a delegation, and wrong         *)
(* passwords or wrong codes are enough for a race, and a reset by token    *)
(* writes what a forced change of the password writes.                     *)
FewLogins ==
  /\ Rows(challenges, Unused) + Rows(tokens, Unused) + Rows(grants, Unused) <= 2
  /\ overlap =>
       /\ Rows(sessions, NoSession) <= 1 /\ Rows(tokens, Unused) = 0
       /\ Rows(challenges, Unused) + Rows(grants, Unused) <= 1
       /\ \A a \in Accounts : accounts[a].attempts = 0 \/ accounts[a].otpAttempts = 0

(* Requests are alike: when they come one at a time, they are one of them. *)
First == CHOOSE r \in Requests : TRUE
TheFirst == ~overlap => \A r \in Requests \ {First} : running[r] = Idle

Interchangeable ==
  Permutations(Statements) \cup Permutations(StatementLines) \cup Permutations(JournalLines)
=============================================================================
