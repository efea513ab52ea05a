--------------------------- MODULE MCPaymentOrder ---------------------------
(***************************************************************************)
(* Two orders of one API key on one channel instance that has room for one *)
(* of them, and two handlers at a time: every pair of handlers of the      *)
(* service races on an order, and the two orders race on both limits.      *)
(***************************************************************************)
EXTENDS PaymentOrder, TLC

MCKeyOf == [o \in Orders |-> CHOOSE k \in Keys : TRUE]
MCPayAmount == [o \in Orders |-> 1]
MCRoomForOne == [i \in Instances |-> 1]

Symmetry == Permutations(Workers) \cup Permutations(Orders)
=============================================================================
