----------------------------- MODULE JobStoreMC -----------------------------
(* Request mixes and bounds for model checking JobStore. *)
EXTENDS JobStore, TLC

CONSTANTS c1, c2, c3, j1, j2

CallerSet == {c1, c2, c3}
OneJob == {j1}
TwoJobs == {j1, j2}

Req(op, j, st, w, b) == [op |-> op, job |-> j, status |-> st, waiting |-> w, beat |-> b]

\* A guarded worker with its canceller and deleter, the whole-row and partial
\* writers that could disturb them, the unguarded writes and the sweeps.
MixedRequests ==
    { Req("create", j1, "pending", Keep, TRUE),
      Req("create", j2, "running", Keep, TRUE),
      Req("replace", j2, "pending", "yes", TRUE),
      Req("guarded", j1, "completed", Keep, TRUE),
      Req("update", j1, "running", "no", FALSE),
      Req("patch", j1, Keep, "yes", TRUE),
      Req("event", j1, "completed", Keep, TRUE),
      Req("heartbeat", j1, Keep, Keep, TRUE),
      Req("cancel", j1, Keep, Keep, TRUE),
      Req("delete", j1, Keep, Keep, TRUE),
      Req("sweep", j1, Keep, Keep, TRUE),
      Req("failall", j1, Keep, Keep, TRUE),
      Req("interruptall", j1, Keep, Keep, TRUE) }

\* A guarded write racing the deletion and re-creation of its job.
ReuseRequests ==
    { Req("create", j1, "pending", Keep, TRUE),
      Req("guarded", j1, "completed", Keep, TRUE),
      Req("delete", j1, Keep, Keep, TRUE) }

Callers3 == Permutations(CallerSet)
=============================================================================
