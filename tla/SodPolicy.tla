----------------------------- MODULE SodPolicy -----------------------------
(* The segregation-of-duties policy of src/.../rbac/sod-policy.ts          *)
(* (evaluateSoD), the pure function every lifecycle handler consults       *)
(* through sod.service.ts.  It is stated as the set of users an action is  *)
(* closed to; the caller always passes the REAL user, never the user a     *)
(* delegation lets him act for.  None stands for a column that is NULL.    *)

(* Users a journal action is closed to, given the row the caller loaded.   *)
(* GL_JOURNAL_VOID has no rule in the policy, so it is closed to nobody.   *)
ConflictedUsers(action, entry) ==
  CASE action \in {"GL_JOURNAL_REVIEW", "GL_JOURNAL_REJECT"} ->
         {entry.createdBy, entry.submittedBy, entry.initiatedBy}
    [] action = "GL_JOURNAL_POST" ->
         {entry.initiatedBy, entry.createdBy, entry.reviewedBy}
    [] action = "GL_JOURNAL_RETURN_TO_REVIEW" ->
         {entry.createdBy, entry.reviewedBy}
    [] action = "GL_JOURNAL_REVERSE" -> {entry.createdBy}
    [] OTHER -> {}

(* Mutants: a policy that forgets the maker, one that forgets the reviewer. *)
PolicyForgetsMaker(action, actor, entry) ==
  actor \notin ConflictedUsers(action, entry) \ {entry.createdBy}
PolicyForgetsReviewer(action, actor, entry) ==
  actor \notin ConflictedUsers(action, entry) \ {entry.reviewedBy}

(* evaluateSoD(...).allowed for a journal action.                          *)
EvaluateSoD(action, actor, entry) == actor \notin ConflictedUsers(action, entry)

(* The rule PERIOD_CLOSE_APPROVE: whoever ticked an item of the period's   *)
(* checklist may not close the period.                                     *)
PeriodCloseAllowed(actor, completedBy) == actor \notin completedBy

=============================================================================
