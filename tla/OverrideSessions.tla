-------------------------- MODULE OverrideSessions --------------------------
(* Posting against the policy                                              *)
(* (src/.../governance/governance-override-session.service.ts and          *)
(* postJournalOverride of src/.../gl/gl.service.ts): a user asks for an    *)
(* override session, somebody approves it, and a post that names it may    *)
(* pass over a segregation-of-duties conflict; after the post has          *)
(* committed the session is marked EXECUTED.                               *)
EXTENDS Handlers, SodPolicy

CONSTANTS
  Overrides,   \* ids of GovernanceOverrideSession rows
  Entries      \* journals

ASSUME OverrideAssumption == None \notin Users \cup Overrides

VARIABLES
  overrides,
  entries

overrideTables == <<overrides, entries>>
overrideVars == <<overrideTables, handlerVars>>

NoOverride == [status |-> "NONE", requestedBy |-> None, approvedBy |-> None, expired |-> "no"]

(* Somebody prepared the journal, somebody else reviewed it.               *)
OverrideInit ==
  /\ overrides = [o \in Overrides |-> NoOverride]
  /\ \E maker, reviewer \in Users :
       /\ maker # reviewer
       /\ entries = [e \in Entries |->
            [status |-> "REVIEWED", createdBy |-> maker, reviewedBy |-> reviewer,
             initiatedBy |-> None, postedBy |-> None, under |-> None]]

Requested(o) == overrides[o].status # "NONE"

(* Mutant: a session is good until somebody says no.                       *)
NotRefused(o) ==
  overrides[o].expired = "no" /\ overrides[o].status \notin {"REJECTED", "REVOKED"}

(* assertActiveApproved                                                    *)
ActiveApproved(o) == overrides[o].expired = "no" /\ overrides[o].status = "APPROVED"

-----------------------------------------------------------------------------
CreateOverride(r, by, o) ==
  /\ ~Requested(o)
  /\ AtOnce(r)
  /\ overrides' = [overrides EXCEPT ![o].status = "REQUESTED", ![o].requestedBy = by]
  /\ UNCHANGED entries

(* approveSession: whoever asks, whatever the status is.                   *)
ApproveOverride(r, by, o) ==
  /\ Requested(o)
  /\ AtOnce(r)
  /\ overrides' = [overrides EXCEPT ![o].status = "APPROVED", ![o].approvedBy = by]
  /\ UNCHANGED entries

(* rejectSession, revokeSession                                            *)
RefuseOverride(r, o, status) ==
  /\ Requested(o)
  /\ AtOnce(r)
  /\ overrides' = [overrides EXCEPT ![o].status = status]
  /\ UNCHANGED entries

OverrideExpires(o) ==
  /\ Requested(o)
  /\ overrides' = [overrides EXCEPT ![o].expired = "yes"]
  /\ UNCHANGED <<entries, handlerVars>>

(* The normal route: postJournal asks the policy.                          *)
PostByPolicy(r, by, e) ==
  /\ entries[e].status = "REVIEWED"
  /\ EvaluateSoD("GL_JOURNAL_POST", by, entries[e])
  /\ AtOnce(r)
  /\ entries' = [entries EXCEPT ![e].status = "POSTED", ![e].postedBy = by]
  /\ UNCHANGED overrides

(* postJournalOverride looks at the session, postJournalCore at the        *)
(* journal and at the session again.                                       *)
PostOverride(r, by, e, o) ==
  /\ ActiveApproved(o)
  /\ Begin(r, "recheckOverride", e, by, o)
  /\ UNCHANGED overrideTables

RecheckOverride(r) ==
  /\ At(r, "recheckOverride")
  /\ IF entries[running[r].doc].status = "REVIEWED" /\ ActiveApproved(running[r].saw)
       THEN Goto(r, "postOverride", running[r].saw)
       ELSE Finish(r)
  /\ UNCHANGED overrideTables

(* The policy has been asked and its refusal passed over; the immutability *)
(* guard is the last look at the row.                                      *)
WriteOverride(r) ==
  LET e == running[r].doc IN
  /\ At(r, "postOverride")
  /\ IF entries[e].status = "POSTED"
       THEN Finish(r) /\ UNCHANGED entries
       ELSE /\ entries' = [entries EXCEPT
                 ![e].status = "POSTED", ![e].postedBy = running[r].by, ![e].under = running[r].saw]
            /\ Goto(r, "execute", running[r].saw)
  /\ UNCHANGED overrides

(* markExecuted, after the post has committed.                             *)
MarkExecuted(r) ==
  /\ At(r, "execute")
  /\ overrides' = [overrides EXCEPT ![running[r].saw].status = "EXECUTED"]
  /\ Finish(r)
  /\ UNCHANGED entries

OverrideStep ==
  \/ \E o \in Overrides : OverrideExpires(o)
  \/ \E r \in Requests :
       \/ \E by \in Users, o \in Overrides :
            \/ CreateOverride(r, by, o) \/ ApproveOverride(r, by, o)
            \/ \E e \in Entries : PostOverride(r, by, e, o)
       \/ \E o \in Overrides, status \in {"REJECTED", "REVOKED"} : RefuseOverride(r, o, status)
       \/ \E by \in Users, e \in Entries : PostByPolicy(r, by, e)
       \/ RecheckOverride(r) \/ WriteOverride(r) \/ MarkExecuted(r)
       \/ Fail(r) /\ UNCHANGED overrideTables

OverrideSpec == OverrideInit /\ HandlersInit /\ [][OverrideStep]_overrideVars

-----------------------------------------------------------------------------
(* However approvals, revocations, expiry and posts overlap: who posts     *)
(* against the policy does so under a session somebody approved.           *)
ConflictNeedsApproval ==
  \A e \in Entries :
    entries[e].status = "POSTED" /\ entries[e].postedBy \in
      {entries[e].createdBy, entries[e].reviewedBy} =>
        entries[e].under # None /\ overrides[entries[e].under].approvedBy # None

=============================================================================
