------------------------- MODULE AgentProvisioningMC -------------------------
(* Runs for model checking AgentProvisioning.  The worker processes are alike. *)
EXTENDS AgentProvisioning, TLC

CONSTANTS jobA, jobB, teardown, w1, w2

OneJob == {jobA}
TwoJobs == {jobA, jobB}
OneTeardown == {teardown}
TwoWorkers == {w1, w2}
SameWorkers == Permutations(TwoWorkers)
=============================================================================
