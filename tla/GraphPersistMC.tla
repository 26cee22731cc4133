---------------------------- MODULE GraphPersistMC ----------------------------
(* Small instances of GraphPersist. *)
EXTENDS GraphPersist, TLC

CONSTANTS w1, w2

Renaming == Permutations({w1, w2})
=============================================================================
