------------------------- MODULE SandboxLifecycleMC -------------------------
(* Small instances of SandboxLifecycle. *)
EXTENDS SandboxLifecycle, TLC

CONSTANTS c1, c2

CallerSymmetry == Permutations({c1, c2})
=============================================================================
