----------------------- MODULE MCAccountingPeriods -----------------------
(* Instances of AccountingPeriods for TLC.                                 *)
EXTENDS AccountingPeriods, TLC

(* Users, periods, items and calls are interchangeable; months are not.    *)
Interchangeable ==
  Permutations(Users) \cup Permutations(Periods) \cup Permutations(Items)
    \cup Permutations(Calls)

=============================================================================
