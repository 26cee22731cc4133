----------------------------- MODULE BacktestJob -----------------------------
(***************************************************************************)
(* One backtest job of the investment team (api/main.py and temporal/      *)
(* workflows.py): submitted, dispatched as a workflow or to a thread of the*)
(* API process, run in attempts, cancelled, deleted and swept while it     *)
(* runs.                                                                   *)
(*                                                                         *)
(* The status is a row of the job service: every write below is one of its *)
(* conditional updates (JobStore has their inside).  A POST whose answer is*)
(* lost raises in its caller, applied or not, and is not retried.          *)
(***************************************************************************)
EXTENDS Naturals

CONSTANTS
  MaxAttempts,   \* maximum_attempts of _ACTIVITY_RETRY
  LastMayCrash,  \* whether faults also hit what nothing retries
  MaxFaults      \* bound

ASSUME BacktestAssumption ==
  MaxAttempts \in Nat \ {0} /\ LastMayCrash \in BOOLEAN /\ MaxFaults \in Nat

Thread == 0   \* _run_backtest_background on a daemon thread of the API process
Attempts == 1 .. MaxAttempts
Runners == {Thread} \union Attempts

VARIABLES
  status,     \* of the job's row
  record,     \* the job's record in _backtests
  pc, out,    \* _run_backtest_background by runner: where it is, what it returned
  request,    \* run_backtest
  wf,         \* the workflow
  attempt,    \* the activity attempt it waits for
  watched,    \* attempts whose poller has seen a cancellation (_resolved)
  faults

vars == <<status, record, pc, out, request, wf, attempt, watched, faults>>

Init ==
  /\ status = "absent" /\ record = "none"
  /\ pc = [r \in Runners |-> "idle"] /\ out = [r \in Runners |-> "none"]
  /\ request = "none" /\ wf = "none" /\ attempt = 0 /\ watched = {} /\ faults = 0

Active == status \in {"pending", "running"}

-----------------------------------------------------------------------------
(* The row *)

\* (mutant) The worker's writes are unconditional on an existing row.
Guarded_Unguarded == status # "absent"

\* update_job_if_not_cancelled
Guarded == status \notin {"absent", "cancelled"}

\* cancel_active_job
CancelActive == status' = IF Active THEN "cancelled" ELSE status

Fault == faults < MaxFaults /\ faults' = faults + 1

\* Only an attempt the workflow would retry has a successor.
Exposed(r) == LastMayCrash \/ (wf = "open" /\ r = attempt /\ r < MaxAttempts)

Goes(r, to) == pc' = [pc EXCEPT ![r] = to]

Returns(r, verdict) == Goes(r, "done") /\ out' = [out EXCEPT ![r] = verdict]

\* _bt_terminal_status_for_write
Refused(r) == Returns(r, IF status = "absent" THEN "missing" ELSE "cancelled")

-----------------------------------------------------------------------------
(* Submission *)

Create ==
  /\ request = "none"
  /\ status' = "pending" /\ request' = "created"
  /\ UNCHANGED <<record, pc, out, wf, attempt, watched, faults>>

\* The workflow is started; or it is not and a thread runs the job; or the
\* start timed out, both.
Dispatch ==
  /\ request = "created"
  /\ request' = "answered"
  /\ \/ wf' = "open" /\ UNCHANGED <<pc, faults>>
     \/ Goes(Thread, "starting") /\ UNCHANGED <<wf, faults>>
     \/ Fault /\ wf' = "open" /\ Goes(Thread, "starting")
  /\ UNCHANGED <<status, record, out, attempt, watched>>

-----------------------------------------------------------------------------
(* _run_backtest_background *)

\* A guarded write of the worker, which goes on at next if it was made.  One
\* whose answer is lost raises: the broad handler fails the job.
Writes(r, to, next) ==
  \/ /\ Guarded
     /\ status' = to
     /\ Goes(r, next)
     /\ UNCHANGED <<out, faults>>
  \/ /\ ~Guarded
     /\ Refused(r)
     /\ UNCHANGED <<status, faults>>
  \/ /\ Fault
     /\ status' \in {status, IF Guarded THEN to ELSE status}
     /\ Goes(r, "failing")
     /\ UNCHANGED out

Start(r) ==
  /\ pc[r] = "starting"
  /\ Writes(r, "running", "running")
  /\ UNCHANGED <<record, request, wf, attempt, watched>>

\* The engine returns, and the cancellation is looked at; or it raises.
Run(r) ==
  /\ pc[r] = "running"
  /\ \/ status = "cancelled" /\ Returns(r, "cancelled")
     \/ status # "cancelled" /\ Goes(r, "publishing") /\ UNCHANGED out
     \/ Goes(r, "failing") /\ UNCHANGED out
  /\ UNCHANGED <<status, record, request, wf, attempt, watched, faults>>

\* (mutant) The record is published after the job was completed.
Publishes_Late(r) ==
  /\ Writes(r, "completed", "completing")
  /\ UNCHANGED record

\* The record is published under an id derived from the job's; a write that
\* raises, made or not, fails the job.
Publishes(r) ==
  /\ \/ /\ record' = "stored"
        /\ Goes(r, "completing")
        /\ UNCHANGED faults
     \/ /\ Fault
        /\ record' \in {record, "stored"}
        /\ Goes(r, "failing")
  /\ UNCHANGED <<status, out>>

Publish(r) ==
  /\ pc[r] = "publishing"
  /\ Publishes(r)
  /\ UNCHANGED <<request, wf, attempt, watched>>

Complete(r) ==
  /\ pc[r] = "completing"
  /\ \/ Guarded /\ status' = "completed" /\ Returns(r, "completed") /\ UNCHANGED faults
     \/ ~Guarded /\ Refused(r) /\ UNCHANGED <<status, faults>>
     \/ Fault /\ status' \in {status, IF Guarded THEN "completed" ELSE status}
        /\ Goes(r, "failing") /\ UNCHANGED out
  /\ UNCHANGED <<record, request, wf, attempt, watched>>

\* The handler's own write: its error leaves the worker.
Fail(r) ==
  /\ pc[r] = "failing"
  /\ \/ Guarded /\ status' = "failed" /\ Returns(r, "failed") /\ UNCHANGED faults
     \/ ~Guarded /\ Refused(r) /\ UNCHANGED <<status, faults>>
     \/ Exposed(r) /\ Fault /\ status' \in {status, IF Guarded THEN "failed" ELSE status}
        /\ Returns(r, "raised")
  /\ UNCHANGED <<record, request, wf, attempt, watched>>

Worker(r) == Start(r) \/ Run(r) \/ Publish(r) \/ Complete(r) \/ Fail(r)

-----------------------------------------------------------------------------
(* The workflow and its activity *)

Enter(n) ==
  /\ pc[n] = "entering"
  /\ IF status = "completed" THEN Returns(n, "completed")
     ELSE Goes(n, "starting") /\ UNCHANGED out
  /\ UNCHANGED <<status, record, request, wf, attempt, watched, faults>>

\* An attempt is due: the first, or one after an attempt that failed.
Retriable(n) == pc[n] = "done" /\ out[n] \in {"failed", "raised"}

Scheduled(n) == attempt' = n /\ pc' = [pc EXCEPT ![n] = "entering"]

Schedule ==
  /\ wf = "open" /\ attempt < MaxAttempts
  /\ attempt = 0 \/ Retriable(attempt)
  /\ Scheduled(attempt + 1)
  /\ UNCHANGED <<status, record, out, request, wf, watched, faults>>

\* (mutant) A heartbeat timeout is not retried.
TimedOut_Closes(n) == wf' = "failed" /\ UNCHANGED <<attempt, pc>>

TimedOut(n) ==
  IF n < MaxAttempts THEN Scheduled(n + 1) /\ UNCHANGED wf
  ELSE wf' = "failed" /\ UNCHANGED <<attempt, pc>>

\* The worker process dies.
Crash(n) ==
  /\ Exposed(n) /\ pc[n] \notin {"idle", "done", "dead"}
  /\ Fault
  /\ Goes(n, "dead")
  /\ UNCHANGED <<status, record, out, request, wf, attempt, watched>>

\* No heartbeat in time, of a dead worker or of a live one.
TimeOut ==
  /\ wf = "open" /\ attempt > 0 /\ pc[attempt] = "dead"
  /\ TimedOut(attempt)
  /\ UNCHANGED <<status, record, out, request, watched, faults>>

TimeOutLive ==
  /\ wf = "open" /\ attempt > 0 /\ pc[attempt] \notin {"done", "dead"}
  /\ Exposed(attempt) /\ Fault
  /\ TimedOut(attempt)
  /\ UNCHANGED <<status, record, out, request, watched>>

CloseWorkflow ==
  /\ wf = "open" /\ attempt > 0 /\ pc[attempt] = "done"
  /\ ~Retriable(attempt) \/ attempt = MaxAttempts
  /\ wf' = IF out[attempt] = "raised" THEN "failed" ELSE out[attempt]
  /\ UNCHANGED <<status, record, pc, out, request, attempt, watched, faults>>

\* The workflow is cancelled at the Temporal server.
CancelWorkflow ==
  /\ wf = "open"
  /\ wf' = "cancelling"
  /\ UNCHANGED <<status, record, pc, out, request, attempt, watched, faults>>

\* _watch_cancellation, once, of the attempt the cancellation is delivered to.
Watch ==
  /\ wf \in {"cancelling", "cancelled"} /\ attempt \notin watched \union {0}
  /\ pc[attempt] \notin {"done", "dead", "entering"}
  /\ watched' = watched \union {attempt}
  /\ CancelActive
  /\ UNCHANGED <<record, pc, out, request, wf, attempt, faults>>

\* The compensation, or the activity dropped before it ever ran.
Compensate ==
  /\ wf = "cancelling"
  /\ wf' = "cancelled"
  /\ \/ CancelActive /\ UNCHANGED faults
     \/ LastMayCrash /\ Fault /\ UNCHANGED status
  /\ UNCHANGED <<record, pc, out, request, attempt, watched>>

Workflow == Schedule \/ TimeOut \/ CloseWorkflow \/ Compensate

-----------------------------------------------------------------------------
(* The routes and the shutdown of the API process *)

Cancel ==
  /\ Active
  /\ CancelActive
  /\ UNCHANGED <<record, pc, out, request, wf, attempt, watched, faults>>

Delete ==
  /\ status # "absent"
  /\ status' = "absent"
  /\ UNCHANGED <<record, pc, out, request, wf, attempt, watched, faults>>

\* The records are rows of the jobs' team, and the route takes their ids too.
DeleteRecord ==
  /\ record = "stored"
  /\ record' = "deleted"
  /\ UNCHANGED <<status, pc, out, request, wf, attempt, watched, faults>>

\* mark_all_running_jobs_failed; daemon threads run on until the process exits.
Shutdown ==
  /\ request = "answered"
  /\ request' = "stopped"
  /\ status' = IF Active THEN "failed" ELSE status
  /\ UNCHANGED <<record, pc, out, wf, attempt, watched, faults>>

Exit ==
  /\ request = "stopped" /\ pc[Thread] \notin {"done", "dead"}
  /\ LastMayCrash \/ ~Active
  /\ Goes(Thread, "dead")
  /\ UNCHANGED <<status, record, out, request, wf, attempt, watched, faults>>

Next ==
  \/ Create \/ Dispatch \/ Cancel \/ Delete \/ DeleteRecord \/ Shutdown \/ Exit
  \/ \E r \in Runners : Worker(r)
  \/ \E n \in Attempts : Enter(n) \/ Crash(n)
  \/ Workflow \/ TimeOutLive \/ CancelWorkflow \/ Watch

\* Requests in progress go on, workers run, Temporal schedules, and it times
\* out an attempt whose worker is gone.
Fairness ==
  /\ WF_vars(Dispatch) /\ WF_vars(Workflow)
  /\ \A r \in Runners : WF_vars(Worker(r))
  /\ \A n \in Attempts : WF_vars(Enter(n))

Spec == Init /\ [][Next]_vars

FairSpec == Spec /\ Fairness

-----------------------------------------------------------------------------
(* Properties *)

\* Every variable keeps its type.
TypeOK ==
  /\ status \in {"absent", "pending", "running", "completed", "failed", "cancelled"}
  /\ record \in {"none", "stored", "deleted"}
  /\ pc \in [Runners -> {"idle", "entering", "starting", "running", "publishing", "completing",
                         "failing", "done", "dead"}]
  /\ out \in [Runners -> {"none", "completed", "failed", "cancelled", "missing", "raised"}]
  /\ request \in {"none", "created", "answered", "stopped"}
  /\ wf \in {"none", "open", "cancelling", "completed", "failed", "cancelled", "missing"}
  /\ attempt \in 0 .. MaxAttempts /\ watched \subseteq Attempts
  /\ faults \in 0 .. MaxFaults

\* A job that says completed got its record first, whichever of its runners said
\* so and whatever happened to the others: its id is the same for all of them, and
\* it is gone only where a client deleted it by that id.
CompletedHasRecord == status = "completed" => record # "none"

\* The same without the exception: DELETE /backtests/jobs/{id} asks for the id of
\* a job in its docstring, and does not look.
CompletedKeepsRecord == status = "completed" => record = "stored"

\* A cancellation a client was told of is never overwritten by a worker, a
\* retry, a late attempt or the shutdown sweep; only a deletion ends it.
CancellationStands == [][status = "cancelled" => status' \in {"cancelled", "absent"}]_vars

\* The job does not stay pending or running for ever, though attempts crash,
\* time out and are retried.
JobSettles == <>[](~Active)

\* A completed job stays completed: a retry short-circuits (run_backtest_activity).
CompletionStands == [][status = "completed" => status' \in {"completed", "absent"}]_vars

\* The thread runs the job only when no workflow was started
\* (_dispatch_via_temporal).
OneDispatch == ~(pc[Thread] # "idle" /\ wf # "none")
=============================================================================
