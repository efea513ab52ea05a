------------------------- MODULE MCGeminiSettlement -------------------------
(***************************************************************************)
(* Instances of GeminiSettlement for TLC.                                  *)
(***************************************************************************)
EXTENDS GeminiSettlement, TLC

Symmetry == Permutations(Clients)

=============================================================================
