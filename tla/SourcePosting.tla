--------------------------- MODULE SourcePosting ---------------------------
(* How a document of a subledger reaches the general ledger, and who may   *)
(* take it there.  There are two protocols.                                *)
(*                                                                         *)
(* Staged (supplier bills, payments, credit notes, refunds, AR invoices,   *)
(* fixed assets): a SUBMITTED journal is created, systemReviewJournal      *)
(* makes it REVIEWED in the name of the caller, postJournal posts it, and  *)
(* the document is marked; each is a transaction of its own.               *)
(*                                                                         *)
(* In one transaction (customer receipts, payment runs, imprest cases,     *)
(* bank adjustments): the same calls, and a refusal rolls all of it back.  *)
(*                                                                         *)
(* postJournal asks the policy of SodPolicy, which compares the person     *)
(* behind the request with the reviewer systemReviewJournal just recorded. *)
(* Only a delegate passes: the review is recorded for the user he acts     *)
(* for, the policy looks at himself.                                       *)
EXTENDS Handlers, SodPolicy

CONSTANTS
  Documents,
  Kinds,        \* the kinds of document a behaviour may be about
  Journals,     \* bound: journals that can be created
  Delegations   \* <<u, v>>: u may act for v

ASSUME SourceAssumption ==
  /\ Delegations \subseteq Users \X Users
  /\ Kinds \subseteq {"checked", "open", "receipt", "own"}
  /\ None \notin Users \cup Journals

VARIABLES
  documents,
  journals

postingTables == <<documents, journals>>
postingVars == <<postingTables, handlerVars>>

(* A request is made by somebody for himself or under a delegation.        *)
Actors ==
  {[real |-> u, acting |-> u] : u \in Users}
    \cup {[real |-> d[1], acting |-> d[2]] : d \in Delegations}

(* Kinds: "checked" documents are staged and PermissionsGuard asks the     *)
(* policy before approve and post (bills, payments, credit notes); "open"  *)
(* ones are staged without that check (refunds, invoices, assets);         *)
(* "receipt" and "own" post in one transaction, the journal of an "own"    *)
(* document being created in the name of whoever posts it.                 *)
Staged(k) == k \in {"checked", "open"}

DocumentRow ==
  [kind : Kinds, status : {"SUBMITTED", "APPROVED", "POSTED"},
   createdBy : Users, approvedBy : Users \cup {None},
   postedBy : Users \cup {None}, journal : Journals \cup {None}]

JournalRow ==
  [source : Documents, status : {"SUBMITTED", "REVIEWED", "POSTED"},
   createdBy : Users, reviewedBy : Users \cup {None}, postedBy : Users \cup {None},
   initiatedBy : {None}]

(* Documents that need no approval (AR invoices, assets, receipts, runs)   *)
(* begin APPROVED, ready to be posted.                                     *)
NoJournal == [status |-> "NONE"]

PostingInit ==
  /\ documents \in [Documents -> {[kind |-> k, status |-> s, createdBy |-> u,
                                   approvedBy |-> None, postedBy |-> None, journal |-> None] :
                                     k \in Kinds, s \in {"SUBMITTED", "APPROVED"}, u \in Users}]
  /\ \A d \in Documents :
       /\ documents[d].kind = "checked" => documents[d].status = "SUBMITTED"
       /\ ~Staged(documents[d].kind) => documents[d].status = "APPROVED"
  /\ journals = [j \in Journals |-> NoJournal]

Entry(d, maker) ==
  [source |-> d, status |-> "SUBMITTED", createdBy |-> maker,
   reviewedBy |-> None, postedBy |-> None, initiatedBy |-> None]

(* Mutant: the journal is created by the user acted for.                   *)
ActingMaker(d, actor) == actor.acting

Maker(d, actor) ==
  IF documents[d].kind = "own" THEN actor.real ELSE documents[d].createdBy

(* Mutant: a policy that forgets who approved.                             *)
GuardForgetsApprover(action, actor, row) == actor # row.createdBy

(* evaluateSoD for the generic actions APPROVE and POST.                   *)
DocumentPolicy(action, actor, row) ==
  /\ actor # row.createdBy
  /\ action = "POST" => actor # row.approvedBy

(* enforceLifecycleSoD: what the guard reads before the handler runs.      *)
GuardAllows(action, actor, d) ==
  documents[d].kind = "checked" => DocumentPolicy(action, actor.real, documents[d])

-----------------------------------------------------------------------------
(* approve: SUBMITTED, then an UPDATE by id.                               *)
Approve(r, actor, d) ==
  /\ GuardAllows("APPROVE", actor, d)
  /\ documents[d].status = "SUBMITTED"
  /\ Begin(r, "approve", d, actor, None)
  /\ UNCHANGED postingTables

WriteApproved(r) ==
  /\ At(r, "approve")
  /\ documents' = [documents EXCEPT
       ![running[r].doc].status = "APPROVED",
       ![running[r].doc].approvedBy = running[r].by.real]
  /\ Finish(r)
  /\ UNCHANGED journals

(* The guard of a post lets the request through.                           *)
PostGuard(r, actor, d) ==
  /\ GuardAllows("POST", actor, d)
  /\ Begin(r, "load", d, actor, None)
  /\ UNCHANGED postingTables

(* The handler loads the document and makes its own checks.                *)
LoadDocument(r) ==
  LET d == running[r].doc IN
  /\ At(r, "load")
  /\ IF documents[d].status # "APPROVED" THEN Finish(r)
     ELSE IF Staged(documents[d].kind) THEN Goto(r, "create", None)
     ELSE Goto(r, "transaction", None)
  /\ UNCHANGED postingTables

CreateJournal(r) ==
  /\ At(r, "create")
  /\ \E j \in Journals :
       /\ journals[j] = NoJournal
       /\ journals' = [journals EXCEPT
            ![j] = Entry(running[r].doc, Maker(running[r].doc, running[r].by))]
       /\ Goto(r, "review", j)
  /\ UNCHANGED documents

(* systemReviewJournal: no policy, the reviewer is the acting user.        *)
SystemReview(r) ==
  /\ At(r, "review")
  /\ journals' = [journals EXCEPT
       ![running[r].saw].status = "REVIEWED",
       ![running[r].saw].reviewedBy = running[r].by.acting]
  /\ Goto(r, "post", running[r].saw)
  /\ UNCHANGED documents

MayPost(actor, row) ==
  row.status = "REVIEWED" /\ EvaluateSoD("GL_JOURNAL_POST", actor.real, row)

PostedBy(row, actor) == [row EXCEPT !.status = "POSTED", !.postedBy = actor.real]

(* Mutant: the answer of postJournal is not looked at.                     *)
PostIgnoringRefusal(r) ==
  /\ At(r, "post")
  /\ IF MayPost(running[r].by, journals[running[r].saw])
       THEN journals' = [journals EXCEPT ![running[r].saw] = PostedBy(@, running[r].by)]
       ELSE UNCHANGED journals
  /\ Goto(r, "mark", running[r].saw)
  /\ UNCHANGED documents

(* postJournal; a refusal ends the handler and leaves the journal REVIEWED. *)
PostJournal(r) ==
  /\ At(r, "post")
  /\ IF MayPost(running[r].by, journals[running[r].saw])
       THEN /\ journals' = [journals EXCEPT ![running[r].saw] = PostedBy(@, running[r].by)]
            /\ Goto(r, "mark", running[r].saw)
       ELSE /\ Goto(r, "refused", running[r].saw)
            /\ UNCHANGED journals
  /\ UNCHANGED documents

MarkPosted(r) ==
  /\ At(r, "mark")
  /\ documents' = [documents EXCEPT
       ![running[r].doc].status = "POSTED",
       ![running[r].doc].postedBy = running[r].by.real,
       ![running[r].doc].journal = running[r].saw]
  /\ Finish(r)
  /\ UNCHANGED journals

(* The one-transaction protocol: the transaction re-reads the document; a  *)
(* receipt that is POSTED by now answers the request.                      *)
RecheckDocument(r) ==
  /\ At(r, "transaction")
  /\ IF documents[running[r].doc].status = "APPROVED"
       THEN Goto(r, "commit", None)
       ELSE Finish(r)
  /\ UNCHANGED postingTables

(* Journal, review, posting and mark are committed together, or nothing is. *)
PostInTransaction(r) ==
  LET d == running[r].doc
      actor == running[r].by
      row == [Entry(d, Maker(d, actor)) EXCEPT
                !.status = "REVIEWED", !.reviewedBy = actor.acting]
  IN
  /\ At(r, "commit")
  /\ IF MayPost(actor, row)
       THEN \E j \in Journals :
              /\ journals[j] = NoJournal
              /\ journals' = [journals EXCEPT ![j] = PostedBy(row, actor)]
              /\ documents' = [documents EXCEPT
                   ![d].status = "POSTED", ![d].postedBy = actor.real, ![d].journal = j]
              /\ Finish(r)
       ELSE Goto(r, "refused", None) /\ UNCHANGED postingTables

(* A journal a refused posting left behind is REVIEWED and listed; anybody *)
(* the policy allows can post it at POST /gl/journals/:id/post.            *)
PostLeftover(r, actor, j) ==
  /\ journals[j].status = "REVIEWED"
  /\ MayPost(actor, journals[j])
  /\ AtOnce(r)
  /\ journals' = [journals EXCEPT ![j] = PostedBy(@, actor)]
  /\ UNCHANGED documents

PostingStep ==
  \E r \in Requests :
    \/ \E actor \in Actors :
         \/ \E d \in Documents : Approve(r, actor, d) \/ PostGuard(r, actor, d)
         \/ \E j \in Journals : PostLeftover(r, actor, j)
    \/ WriteApproved(r) \/ LoadDocument(r)
    \/ CreateJournal(r) \/ SystemReview(r) \/ PostJournal(r) \/ MarkPosted(r)
    \/ RecheckDocument(r) \/ PostInTransaction(r)
    \/ Fail(r) /\ UNCHANGED postingTables

PostingSpec == PostingInit /\ HandlersInit /\ [][PostingStep]_postingVars

-----------------------------------------------------------------------------
Posted(j) == journals[j].status = "POSTED"

(* Whatever overlaps, stops and is posted by hand in between: a document   *)
(* marked POSTED names a POSTED journal of its own.                        *)
PostedHasJournal ==
  \A d \in Documents : documents[d].status = "POSTED" =>
    /\ documents[d].journal # None
    /\ Posted(documents[d].journal)
    /\ journals[documents[d].journal].source = d

(* Whatever delegations are in force and whoever posts what was left       *)
(* behind: nobody takes into the ledger a document he prepared himself.    *)
PreparerNeverPosts ==
  \A j \in Journals : Posted(j) =>
    journals[j].postedBy # documents[journals[j].source].createdBy

(* One request at a time: a bill, payment or credit note is prepared,      *)
(* approved and posted by three people.  (The guard reads the approver     *)
(* before the handler loads the document: an approval that commits in      *)
(* between is not seen.)                                                   *)
ThreePeople ==
  ~overlap => \A d \in Documents :
    documents[d].kind = "checked" /\ documents[d].status = "POSTED" =>
      /\ documents[d].approvedBy # documents[d].createdBy
      /\ documents[d].postedBy \notin {documents[d].createdBy, documents[d].approvedBy}

(* The end-to-end tests post as a third user and expect 201: a user who    *)
(* neither prepared nor approved the document is not refused.              *)
ThirdUserPosts ==
  ~overlap => \A r \in Requests :
    At(r, "refused") /\ Staged(documents[running[r].doc].kind) =>
      running[r].by.real \in {documents[running[r].doc].createdBy,
                              documents[running[r].doc].approvedBy}

=============================================================================
