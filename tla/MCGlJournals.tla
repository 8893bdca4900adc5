--------------------------- MODULE MCGlJournals ---------------------------
(* Instances of GlJournals for TLC.                                        *)
EXTENDS GlJournals, TLC

(* Users, journals and requests are interchangeable when nobody holds a    *)
(* delegation.                                                             *)
Interchangeable ==
  Permutations(Users) \cup Permutations(Journals) \cup Permutations(Requests)

NoDelegation == {}

(* One user may act for another; requests stay interchangeable.            *)
OneDelegation == {CHOOSE d \in Users \X Users : d[1] # d[2]}
InterchangeableRequests == Permutations(Requests)

=============================================================================
