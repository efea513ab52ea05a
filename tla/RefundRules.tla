----------------------------- MODULE RefundRules -----------------------------
(***************************************************************************)
(* The arithmetic of a refund (payment_rules.js), with quota and money     *)
(* counted in their smallest units.                                        *)
(***************************************************************************)
EXTENDS Integers

\* the lesser of two numbers
Lesser(a, b) == IF a <= b THEN a ELSE b

\* mutant: a negative balance is not taken for zero
RefundableQuotaUnclamped(quota, balance) == Lesser(quota, balance)

\* what may be taken back of an order: not more than it bought, nor than is left
RefundableQuota(quota, balance) ==
  IF balance <= 0 THEN 0 ELSE Lesser(quota, balance)

\* price * q / quota, rounded half up to a unit
RefundAmount(price, quota, q) ==
  IF quota > 0 THEN (2 * price * q + quota) \div (2 * quota) ELSE 0
=============================================================================
