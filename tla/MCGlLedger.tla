---------------------------- MODULE MCGlLedger ----------------------------
(* Instances of GlLedger for TLC.                                          *)
EXTENDS GlLedger, TLC

NoDelegation == {}

(* Nobody holds a delegation: users, journals and periods are              *)
(* interchangeable; months are not.                                        *)
Interchangeable ==
  Permutations(Users) \cup Permutations(Journals) \cup Permutations(Periods)

=============================================================================
