---------------------------- MODULE RefundPromise ----------------------------
(***************************************************************************)
(* What a refund promises.  Quota is held back before money goes out,      *)
(* money goes out once and for exactly the quota held, and quota is given  *)
(* back only while no money is out: the customer never has both.           *)
(***************************************************************************)
EXTENDS RefundRules

CONSTANTS
  Orders,   \* the orders that may be refunded
  Quota,    \* the quota an order bought
  Price     \* the price it was bought at

VARIABLES
  held,     \* quota taken back from the customer
  paid      \* money given back to the customer

Init ==
  /\ held = [o \in Orders |-> 0]
  /\ paid = [o \in Orders |-> 0]

Hold(o) ==
  /\ held[o] = 0
  /\ \E q \in 1..Quota[o] : held' = [held EXCEPT ![o] = q]
  /\ UNCHANGED paid

GiveBack(o) ==
  /\ paid[o] = 0
  /\ held' = [held EXCEPT ![o] = 0]
  /\ UNCHANGED paid

PayOut(o) ==
  /\ held[o] > 0 /\ paid[o] = 0
  /\ paid' = [paid EXCEPT ![o] = RefundAmount(Price[o], Quota[o], held[o])]
  /\ UNCHANGED held

Next == \E o \in Orders : Hold(o) \/ GiveBack(o) \/ PayOut(o)

Spec == Init /\ [][Next]_<<held, paid>>
=============================================================================
