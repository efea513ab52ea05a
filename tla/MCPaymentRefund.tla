--------------------------- MODULE MCPaymentRefund ---------------------------
(***************************************************************************)
(* Orders of 3 units of quota for 1 unit of money, so that one unit of     *)
(* quota is worth nothing, two or three are worth one.  Their key's balance *)
(* is what both bought, minus a consumption that may exceed what is left.  *)
(***************************************************************************)
EXTENDS PaymentRefund, FiniteSets, TLC

MCKeyOf == [o \in Orders |-> CHOOSE k \in Keys : TRUE]
MCQuota == [o \in Orders |-> 3]
MCPrice == [o \in Orders |-> 1]
MCCredit == [k \in Keys |-> 3 * Cardinality(Orders)]

Symmetry == Permutations(Workers) \cup Permutations(Orders)
=============================================================================
