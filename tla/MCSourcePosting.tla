-------------------------- MODULE MCSourcePosting --------------------------
(* SourcePosting for TLC, with nobody delegating.                          *)
EXTENDS SourcePosting, TLC
CONSTANTS u1, u2, u3
NoDelegation == {}
Interchangeable == Permutations(Users) \cup Permutations(Journals)
=============================================================================
