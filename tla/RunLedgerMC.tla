----------------------------- MODULE RunLedgerMC -----------------------------
(* Small instances of RunLedger. *)
EXTENDS RunLedger, TLC

CONSTANTS c1, c2

CallerSymmetry == Permutations({c1, c2})
=============================================================================
