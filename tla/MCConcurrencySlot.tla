-------------------------- MODULE MCConcurrencySlot --------------------------
(***************************************************************************)
(* Two HTTP requests and a WebSocket turn for one lease, with room for one *)
(* of them in the queue: probes collide, the queue fills up and a freed    *)
(* lease is fought for.  Requests of one kind are interchangeable.         *)
(***************************************************************************)
EXTENDS ConcurrencySlot, TLC

Symmetry == Permutations(Requests \ Turns) \cup Permutations(Turns)
=============================================================================
