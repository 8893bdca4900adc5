-------------------------- MODULE ChartOfAccounts ---------------------------
(* The tree of ledger accounts (src/.../finance/coa.service.ts,            *)
(* src/.../finance/coa-structure-change-requests.service.ts): accounts are *)
(* added, moved and deleted by several handlers, each with its own checks  *)
(* on the tree and on the three switches that freeze it.  Hierarchy paths, *)
(* account statuses and what is not structure are left out.                *)
EXTENDS Handlers

CONSTANTS
  LedgerAccounts, Reclassifications, ChangeRequests, Windows,   \* ids
  Moves          \* what a structure change request may propose

(* account moves under parent, or gets another IFRS node, from a day until *)
(* a day (None: for ever); at once for a HIERARCHY_CHANGE.                 *)
Move ==
  [kind : {"HIERARCHY_CHANGE", "EFFECTIVE_DATED"}, type : {"HIERARCHY", "IFRS"},
   account : LedgerAccounts, parent : LedgerAccounts \cup {None},
   from : Nat, to : Nat \cup {None}]

ASSUME ChartAssumption ==
  /\ None \notin LedgerAccounts \cup ChangeRequests \cup Nat
  /\ Moves \subseteq Move
  /\ \A p \in Moves : p.to # None => p.from <= p.to

VARIABLES
  chart,
  switches,            \* coaFrozen, coaStructureFrozen, coaLockedAt
  reclassifications,   \* with their approval requests
  changes,             \* structure change requests
  windows              \* structural changes with their dates

chartTables == <<chart, switches, reclassifications, changes, windows>>
chartVars == <<chartTables, handlerVars>>

NoAccount == [used |-> FALSE, parent |-> None, posting |-> FALSE]
Account(parent, posting) == [used |-> TRUE, parent |-> parent, posting |-> posting]
NoReclassification ==
  [status |-> "NONE", account |-> None, parent |-> None, by |-> None, request |-> "NONE"]
NoChange == [status |-> "NONE", by |-> None, proposal |-> None]
NoWindow == [account |-> None, type |-> None, parents |-> {}, from |-> None, to |-> None]

ChartInit ==
  /\ chart = [a \in LedgerAccounts |-> NoAccount]
  /\ switches = [frozen |-> FALSE, structureFrozen |-> FALSE, locked |-> FALSE]
  /\ reclassifications = [c \in Reclassifications |-> NoReclassification]
  /\ changes = [c \in ChangeRequests |-> NoChange]
  /\ windows = [w \in Windows |-> NoWindow]

-----------------------------------------------------------------------------
(* Helpers.                                                                *)

Doc(r) == running[r].doc
Carried(r) == running[r].saw

Known == {a \in LedgerAccounts : chart[a].used}
Children(a) == {c \in Known : chart[c].parent = a}

(* assertParentValid                                                       *)
ValidParent(a) == a \in Known /\ ~chart[a].posting

(* The table that is written changes as told, the others do not.           *)
OnlyChart(new) ==
  chart' = new /\ UNCHANGED <<switches, reclassifications, changes, windows>>

OnlyReclassification(c, row) ==
  /\ reclassifications' = [reclassifications EXCEPT ![c] = row]
  /\ UNCHANGED <<chart, switches, changes, windows>>

OnlyChange(c, row) ==
  /\ changes' = [changes EXCEPT ![c] = row]
  /\ UNCHANGED <<chart, switches, reclassifications, windows>>

-----------------------------------------------------------------------------
(* freeze, unfreeze, structureFreeze, structureUnfreeze, lock, unlock      *)
Switch(r, which, on) ==
  /\ AtOnce(r)
  /\ switches' = [switches EXCEPT ![which] = on]
  /\ UNCHANGED <<chart, reclassifications, changes, windows>>

-----------------------------------------------------------------------------
(* Adding accounts.                                                        *)

CreateAccount(r, a, parent, posting) ==
  /\ ~switches.frozen /\ ~switches.structureFrozen /\ ~switches.locked
  /\ parent # None => ValidParent(parent)
  /\ Begin(r, "insert", None, None, [b \in {a} |-> Account(parent, posting)])
  /\ UNCHANGED chartTables

(* setupTaxControlAccounts                                                 *)
SetupTaxControlAccounts(r, new) ==
  /\ ~switches.frozen /\ ~switches.structureFrozen /\ ~switches.locked
  /\ Begin(r, "insert", None, None, [a \in new |-> Account(None, TRUE)])
  /\ UNCHANGED chartTables

(* importCanonical: the accounts of the file that do not exist yet, without *)
(* the parents the file gives them; the others keep their place.  Nobody    *)
(* asks for the structure freeze.                                           *)
ImportCanonical(r, new) ==
  /\ ~switches.frozen /\ ~switches.locked
  /\ Begin(r, "import", None, None, new)
  /\ UNCHANGED chartTables

ImportRows(r) ==
  /\ At(r, "import")
  /\ OnlyChart([a \in LedgerAccounts |->
       IF a \in Carried(r) \ Known THEN Account(None, TRUE) ELSE chart[a]])
  /\ Finish(r)

(* commitImport: accounts under a parent that exists.  A parent from the   *)
(* same file is not found by computeHierarchyPath, which reads outside the *)
(* transaction, and the import is rolled back.                             *)
CommitImport(r, new, parent) ==
  /\ ~switches.frozen /\ ~switches.locked
  /\ ValidParent(parent)
  /\ Begin(r, "insert", None, None, [a \in new |-> Account(parent, TRUE)])
  /\ UNCHANGED chartTables

(* New rows; the foreign key refuses a parent that is gone.                *)
InsertAccounts(r) ==
  LET rows == Carried(r) IN
  /\ At(r, "insert")
  /\ \A a \in DOMAIN rows :
       ~chart[a].used /\ (rows[a].parent # None => rows[a].parent \in Known)
  /\ OnlyChart([a \in LedgerAccounts |-> IF a \in DOMAIN rows THEN rows[a] ELSE chart[a]])
  /\ Finish(r)

-----------------------------------------------------------------------------
(* Moving an account: assertNoCircularReference walks from the new parent  *)
(* to the root, a read for each account on the way.                        *)

Walker(at, seen, to, change) == [at |-> at, seen |-> seen, to |-> to, change |-> change]

(* Mutant: only accounts met before are looked for.                        *)
MetAgain(saw, a) == saw.at \in saw.seen

Circular(saw, a) == saw.at \in saw.seen \cup {a}

Walk(r) ==
  LET saw == Carried(r) IN
  /\ At(r, "walk") /\ saw.at # None
  /\ IF Circular(saw, Doc(r)) \/ saw.at \notin Known
       THEN Finish(r)
       ELSE Goto(r, "walk",
              Walker(chart[saw.at].parent, saw.seen \cup {saw.at}, saw.to, saw.change))
  /\ UNCHANGED chartTables

(* update: None for what the request leaves alone.  The posting flag to    *)
(* come is worked out from the row that is read here.                      *)
UpdateAccount(r, a, parent, posting) ==
  /\ a \in Known
  /\ ~switches.frozen
  /\ parent \notin {None, chart[a].parent} => ~switches.structureFrozen /\ ~switches.locked
  /\ parent # None => ValidParent(parent)
  /\ Begin(r, "walk", a, None,
       Walker(parent, {}, [parent |-> parent, posting |-> posting,
                       next |-> IF posting = None THEN chart[a].posting ELSE posting], None))
  /\ UNCHANGED chartTables

(* assertNoChildren, then the UPDATE by id.                                *)
CheckChildren(r) ==
  LET saw == Carried(r) IN
  /\ At(r, "walk") /\ saw.at = None /\ saw.change = None
  /\ IF saw.to.next /\ Children(Doc(r)) # {} THEN Finish(r) ELSE Goto(r, "update", saw)
  /\ UNCHANGED chartTables

WriteAccount(r) ==
  LET to == Carried(r).to
      Given(new, old) == IF new = None THEN old ELSE new
  IN
  /\ At(r, "update")
  /\ OnlyChart(IF Doc(r) \in Known
       THEN [chart EXCEPT ![Doc(r)] = Account(Given(to.parent, @.parent), Given(to.posting, @.posting))]
       ELSE chart)
  /\ Finish(r)

-----------------------------------------------------------------------------
(* cleanupNonCanonical: of the accounts that are not in the last canonical *)
(* file, those without children that nothing refers to.                    *)
CleanupNonCanonical(r, some) ==
  /\ ~switches.structureFrozen
  /\ some \subseteq Known /\ \A a \in some : Children(a) = {}
  /\ Begin(r, "delete", None, None, some)
  /\ UNCHANGED chartTables

(* onDelete: Restrict of the columns that name a parent.                   *)
Restricted(some) ==
  \/ \E a \in some : Children(a) \ some # {}
  \/ \E c \in Reclassifications :
       reclassifications[c].parent \in some /\ reclassifications[c].account \notin some
  \/ \E w \in Windows : windows[w].parents \cap some # {} /\ windows[w].account \notin some

DeleteAccounts(r) ==
  LET some == Carried(r) IN
  /\ At(r, "delete")
  /\ IF Restricted(some) THEN UNCHANGED chartTables
     ELSE /\ chart' = [a \in LedgerAccounts |-> IF a \in some THEN NoAccount ELSE chart[a]]
          /\ reclassifications' = [c \in Reclassifications |->
               IF reclassifications[c].account \in some
               THEN NoReclassification ELSE reclassifications[c]]
          /\ windows' = [w \in Windows |->
               IF windows[w].account \in some THEN NoWindow ELSE windows[w]]
          /\ UNCHANGED <<switches, changes>>
  /\ Finish(r)

-----------------------------------------------------------------------------
(* Reclassifications.                                                      *)

CreateReclassification(r, by, c, a, parent) ==
  /\ reclassifications[c] = NoReclassification
  /\ a \in Known /\ parent \in Known \cup {None}
  /\ AtOnce(r)
  /\ OnlyReclassification(c,
       [status |-> "DRAFT", account |-> a, parent |-> parent, by |-> by, request |-> "NONE"])

SubmitReclassification(r, by, c) ==
  /\ reclassifications[c].status = "DRAFT" /\ reclassifications[c].by = by
  /\ Begin(r, "pend", c, by, None)
  /\ UNCHANGED chartTables

Pend(r) ==
  /\ At(r, "pend")
  /\ OnlyReclassification(Doc(r), [reclassifications[Doc(r)] EXCEPT !.status = "PENDING"])
  /\ Goto(r, "ask", None)

AskApproval(r) ==
  /\ At(r, "ask")
  /\ OnlyReclassification(Doc(r), [reclassifications[Doc(r)] EXCEPT !.request = "PENDING"])
  /\ Finish(r)

(* approveRequest, rejectRequest, approveReclassification,                 *)
(* rejectReclassification                                                  *)
DecideReclassification(r, by, c, step) ==
  /\ reclassifications[c].request = "PENDING" /\ reclassifications[c].by # by
  /\ Begin(r, step, c, by, None)
  /\ UNCHANGED chartTables

(* The transaction of approveRequest: the only condition it puts on the    *)
(* move is the structure freeze, and no parent means to the root.          *)
MoveByReclassification(r) ==
  LET row == reclassifications[Doc(r)] IN
  /\ At(r, "move")
  /\ IF switches.structureFrozen \/ row = NoReclassification THEN UNCHANGED chartTables
     ELSE /\ chart' = [chart EXCEPT ![row.account].parent = row.parent]
          /\ reclassifications' = [reclassifications EXCEPT
               ![Doc(r)] = [row EXCEPT !.status = "APPROVED", !.request = "APPROVED"]]
          /\ UNCHANGED <<switches, changes, windows>>
  /\ Finish(r)

RejectTheRequest(r) ==
  /\ At(r, "reject")
  /\ OnlyReclassification(Doc(r), [reclassifications[Doc(r)] EXCEPT !.request = "REJECTED"])
  /\ Goto(r, "rejected", None)

RejectTheRow(r) ==
  /\ At(r, "rejected")
  /\ OnlyReclassification(Doc(r), [reclassifications[Doc(r)] EXCEPT !.status = "REJECTED"])
  /\ Finish(r)

-----------------------------------------------------------------------------
(* Structure change requests.  Their proposals are validated when they are *)
(* implemented.  ADD_ACCOUNT has no action: it calls create without the    *)
(* fsMappingLevel1 create asks for, and is refused.                        *)

CreateChange(r, by, c, proposal) ==
  /\ changes[c] = NoChange
  /\ AtOnce(r)
  /\ OnlyChange(c, [status |-> "DRAFT", by |-> by, proposal |-> proposal])

EditChange(r, by, c, proposal) ==
  /\ changes[c].status = "DRAFT" /\ changes[c].by = by
  /\ Begin(r, "edit", c, by, proposal)
  /\ UNCHANGED chartTables

RewriteChange(r) ==
  /\ At(r, "edit")
  /\ OnlyChange(Doc(r), [changes[Doc(r)] EXCEPT !.proposal = Carried(r)])
  /\ Finish(r)

SubmitChange(r, by, c) ==
  /\ changes[c].status = "DRAFT" /\ changes[c].by = by
  /\ Begin(r, "mark", c, by, "SUBMITTED")
  /\ UNCHANGED chartTables

DecideChange(r, by, c, decision) ==
  /\ changes[c].status = "SUBMITTED" /\ changes[c].by # by
  /\ Begin(r, "mark", c, by, decision)
  /\ UNCHANGED chartTables

MarkChange(r) ==
  /\ At(r, "mark")
  /\ OnlyChange(Doc(r), [changes[Doc(r)] EXCEPT !.status = Carried(r)])
  /\ Finish(r)

(* implement: the account, its new parent and the walk.                    *)
Implement(r, by, c) ==
  LET p == changes[c].proposal IN
  /\ changes[c].status = "APPROVED" /\ changes[c].by # by
  /\ p.account \in Known
  /\ p.type = "HIERARCHY" => ValidParent(p.parent)
  /\ Begin(r, "walk", p.account, by,
       Walker(IF p.type = "HIERARCHY" THEN p.parent ELSE None, {}, p, c))
  /\ UNCHANGED chartTables

(* HIERARCHY_CHANGE: the transaction moves the account, rebuilds the paths *)
(* on another connection, which waits for the row the transaction has just *)
(* locked, and is rolled back when its time is up.                         *)
HierarchyChangeTimesOut(r) ==
  LET saw == Carried(r) IN
  /\ At(r, "walk") /\ saw.at = None /\ saw.change # None
  /\ saw.to.kind = "HIERARCHY_CHANGE"
  /\ Finish(r)
  /\ UNCHANGED chartTables

(* Mutant: a window without an end is over at once.                        *)
AfterWhole(w, p) == windows[w].to # None /\ windows[w].to >= p.from

(* The two halves of the overlap rule: a window in the way starts no later *)
(* than the new one ends and ends no earlier than the new one starts.      *)
EndsAfterStart(w, p) == windows[w].to = None \/ windows[w].to >= p.from

InTheWay(w, p) ==
  /\ windows[w].account = p.account /\ windows[w].type = p.type
  /\ p.to # None => windows[w].from <= p.to
  /\ EndsAfterStart(w, p)

CheckWindows(r) ==
  LET saw == Carried(r) IN
  /\ At(r, "walk") /\ saw.at = None /\ saw.change # None
  /\ saw.to.kind = "EFFECTIVE_DATED"
  /\ IF \E w \in Windows : InTheWay(w, saw.to) THEN Finish(r) ELSE Goto(r, "open", saw)
  /\ UNCHANGED chartTables

(* The account itself does not move, whatever the dates: reports look up   *)
(* the window of the day.                                                  *)
OpenWindow(r) ==
  LET saw == Carried(r)
      p == saw.to
  IN
  /\ At(r, "open")
  /\ p.account \in Known /\ p.parent \in Known \cup {None}
  /\ \E w \in Windows :
       /\ windows[w] = NoWindow
       /\ windows' = [windows EXCEPT ![w] =
            [account |-> p.account, type |-> p.type,
             parents |-> {p.parent, chart[p.account].parent} \ {None},
             from |-> p.from, to |-> p.to]]
  /\ changes' = [changes EXCEPT ![saw.change].status = "IMPLEMENTED"]
  /\ Finish(r)
  /\ UNCHANGED <<chart, switches, reclassifications>>

-----------------------------------------------------------------------------
(* What an idle request may begin, and what the others go on with.         *)
BeginChart(r) ==
  \/ \E a \in LedgerAccounts, parent \in LedgerAccounts \cup {None}, posting \in BOOLEAN \cup {None} :
       \/ posting # None /\ CreateAccount(r, a, parent, posting)
       \/ UpdateAccount(r, a, parent, posting)
  \/ \E new \in SUBSET (LedgerAccounts \ Known) \ {{}} :
       \/ SetupTaxControlAccounts(r, new) \/ ImportCanonical(r, new)
       \/ \E parent \in LedgerAccounts : CommitImport(r, new, parent)
  \/ \E some \in SUBSET Known \ {{}} : CleanupNonCanonical(r, some)
  \/ \E which \in {"frozen", "structureFrozen", "locked"}, on \in BOOLEAN : Switch(r, which, on)
  \/ \E by \in Users, c \in Reclassifications :
       \/ \E a \in LedgerAccounts, parent \in LedgerAccounts \cup {None} :
            CreateReclassification(r, by, c, a, parent)
       \/ SubmitReclassification(r, by, c)
       \/ \E step \in {"move", "reject"} : DecideReclassification(r, by, c, step)
  \/ \E by \in Users, c \in ChangeRequests :
       \/ \E proposal \in Moves :
            CreateChange(r, by, c, proposal) \/ EditChange(r, by, c, proposal)
       \/ SubmitChange(r, by, c)
       \/ \E decision \in {"APPROVED", "REJECTED"} : DecideChange(r, by, c, decision)
       \/ Implement(r, by, c)

ContinueChart(r) ==
  \/ InsertAccounts(r) \/ ImportRows(r) \/ Walk(r) \/ CheckChildren(r) \/ WriteAccount(r) \/ DeleteAccounts(r)
  \/ Pend(r) \/ AskApproval(r) \/ MoveByReclassification(r)
  \/ RejectTheRequest(r) \/ RejectTheRow(r)
  \/ RewriteChange(r) \/ MarkChange(r) \/ HierarchyChangeTimesOut(r)
  \/ CheckWindows(r) \/ OpenWindow(r)

ChartStep ==
  \E r \in Requests :
    \/ running[r] = Idle /\ BeginChart(r)
    \/ ContinueChart(r)
    \/ Fail(r) /\ UNCHANGED chartTables

ChartSpec == ChartInit /\ HandlersInit /\ [][ChartStep]_chartVars

-----------------------------------------------------------------------------
(* Every account hangs, under accounts nothing is posted to, from a root:  *)
(* "Circular account hierarchy detected", "Parent account cannot be a      *)
(* posting account".                                                       *)
ParentsGroup == \A a \in Known : chart[a].parent # None => ValidParent(chart[a].parent)
NoCycle == \A S \in SUBSET Known : S # {} => \E a \in S : chart[a].parent \notin S
Tree == ParentsGroup /\ NoCycle

(* One request at a time: whatever is created, imported, moved, turned     *)
(* into a posting account and cleaned up, a tree stays a tree, as long as  *)
(* no approval of a reclassification moves an account.                     *)
TreeKept ==
  [][~overlap /\ Tree /\ (\A r \in Requests : ~At(r, "move")) => Tree']_chartVars

(* One request at a time: on no day an account has two structural changes  *)
(* of one type: "An active structural change already exists for this       *)
(* account and type".                                                      *)
WindowsApart ==
  ~overlap => \A v, w \in Windows :
    v # w /\ windows[v].account # None
      /\ windows[v].account = windows[w].account /\ windows[v].type = windows[w].type =>
    \/ windows[v].to # None /\ windows[v].to < windows[w].from
    \/ windows[w].to # None /\ windows[w].to < windows[v].from

(* One request at a time: the chart is a tree.                             *)
IsTree == ~overlap => Tree

=============================================================================
