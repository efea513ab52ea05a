---------------------------- MODULE MCGroupPolicy ----------------------------
(***************************************************************************)
(* Instances of GroupPolicy for TLC: a daily and a monthly axis.           *)
(***************************************************************************)
EXTENDS GroupPolicy, TLC

MCAxes == {"daily", "monthly"}
MCRolls == {"daily"}
MCBothLimited == [a \in MCAxes |-> IF a = "daily" THEN 2 ELSE 3]

Symmetry == Permutations(Requests)

=============================================================================
