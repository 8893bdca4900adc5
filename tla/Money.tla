-------------------------------- MODULE Money --------------------------------
(* Amounts of money in whole units of one currency: the rounding to two    *)
(* decimals the services do before they compare is left out.               *)
EXTENDS Naturals

CONSTANT MaxAmount   \* bound: amounts are 1..MaxAmount

ASSUME MoneyAssumption == MaxAmount \in Nat \ {0}

Amounts == 1..MaxAmount

=============================================================================
