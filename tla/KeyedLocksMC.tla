----------------------------- MODULE KeyedLocksMC -----------------------------
(* Small instances of KeyedLocks. *)
EXTENDS KeyedLocks

CONSTANTS t1, t2, k1, k2
=============================================================================
