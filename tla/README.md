# Khala: models, checks and proofs

TLA+ modules for the coordination logic of Khala, a platform of agent teams
(`src/backend`, Python).  Each module follows one part of the code: its state,
its operations, their guards and early returns, and the order of their writes.
The language models, the HTTP framework, PostgreSQL, Temporal, git and Docker are
outside the code; a module takes from them what the code relies on.

    tlc -workers 2 -config JobStore_run.cfg JobStoreMC.tla      # one run
    tlapm JobStore_proofs.tla                                   # one set of proofs

`PROJECT.json` lists the runs, the theorems, the source lines behind every
definition, the hazards, and for every property a plausible bug in the code
that breaks it.  Operators named `X_Something` next to an operator `X` are these bugs.

## 1. The system

| part | state it keeps | operations | interacts with |
|---|---|---|---|
| job service (`job_service/`) | the table of job rows: status, heartbeat, a JSON document | create, replace, update, guarded update, patch, append event, cancel, delete, heartbeat, sweeps | every team, over HTTP |
| job store client (`agents/job_service_client.py`) | pooled connections, heartbeat threads | the same, with retries; resume and restart gates | job service |
| coding team: task graph and swarm (`software_engineering_team/task_graph.py`, `swarm_*.py`, `coding_team_orchestrator.py`, `graph_persist.py`) | tasks, who works on what, revisions; a snapshot in the job record | plan, assign, implement, gate, review, escalate, merge, fail, cascade, persist, resume, cancel | job record, git, language models |
| coding team: pauses (`pause_cycle.py`, `api/routes/coding_team_hitl.py`, `temporal/coding_team_workflow.py`) | the pause envelope in the job record; the workflow's fields; queued signals | pause, answer, resume, signal, consume | job record, Temporal, clients |
| software engineering pipeline (`orchestrator.py` and the specialists) | the job record, a checkout | plan, delegate, review, publish | coding team, job record |
| agent provisioning (`agent_team_studio/agent_provisioning_team/`) | the lock record and its token; the environment record and its mark; workflow variables; Docker | acquire, renew, release; setup, record accounts, deliver; compensate, deprovision | Temporal, Docker, files |
| sandboxes (`agent_platform/sandbox/`) | a state object and a lock per agent, a checkpoint file | acquire, status, note activity, teardown, reap, checkpoint | Docker |
| invoke gate and run ledger (`agent_cognition/context.py`, `invoke_gate.py`, `unified_api/routes/agents.py`) | a row per idempotency key: lease, body hash, stored answer; memory events | claim, replay, complete, block, abandon, collect | PostgreSQL, the agent's container |
| registry, studio, console (`agent_platform/`) | rows in PostgreSQL | create, read, update, delete | gateway |
| gateway (`unified_api/`) | circuit breakers; credentials | route, proxy, integrate | teams, Slack, GitHub |
| LLM service (`agents/llm_service/`) | slots, provider configuration, usage | acquire and release a slot, call, retry | providers |
| shared helpers (`shared/`) | mailboxes, keyed locks and lazy registries, thread registry, event bus | enqueue, drain, write now, stop, lock a batch, build once, claim, publish, replay | everything |
| investment team (`agents/investment_team/`) | backtest jobs, sessions | run, cancel, delete, sweep | job service, Temporal |
| the rest of agent cognition, agentic team provisioning, founder, some twenty domain teams | a job record and rows of their own | chains of prompts | job service, LLM service |
| user interface (`user-interface/`) | none the server relies on | | gateway |

What is hard, and what makes each part correct:

* **Job rows** are written by many requests at once.  Several writes are
  read-modify-write, and one decides its answer in a second statement.  Correct
  means: no appended item, cancellation or counter value is lost, and the
  answer of a guarded write is true.
* **The swarm** runs one thread per worker over a shared graph.  A snapshot of
  the graph reaches the record late, and a dead process resumes from it.
  Correct means: dependencies first, one thread per task, two records of an
  assignment that agree, a branch that stays with its worktree, merged work
  that stays merged (while one invocation works on a record), failures that reach
  dependents, and an outcome that says what happened.
* **A pause** is spread over a record, a durable workflow, retried activities
  and two HTTP routes, with no lock around any two steps.  Correct means: a
  pause is left only because its own token came back, no answer in time is
  lost, nothing new is started while the user is asked, and an acknowledged pause
  is always left.
* **Provisioning** relies on leases that expire and on attempts that run on
  after their workflow has given up on them.  Correct means: tokens that
  identify their owner, leases that exclude one another as far as late releases
  let them, and a store that never refuses the present holder and whose processes
  never take back their own marks.
* **A sandbox** is an object in memory, a record in a file and a stack in Docker,
  and every Docker command is an await.  Correct means: a handle that says warm is
  of a stack that was seen to run, and what is idle goes away.
* **The run ledger** is what makes a retried POST safe.  Correct means: a replay
  is the answer of the attempt that last claimed the key, for the same body; a stored answer
  stands; of the agents that execute for one key at one moment at most one is within
  its lease.
* **The persist path** is three kinds of writers (a daemon, direct updates,
  checkpoints) over one record.  Correct means: the record never goes back, a
  checkpoint is on it, and `stop()` returns and leaves silence.
* **Keyed locks** are taken in batches and nested.  Correct means: they exclude,
  no set of threads waits in a circle, and a value is built once.
* **A backtest** may be run by a thread and by a workflow's attempts, while it is
  cancelled two ways, deleted and swept.  Correct means: a cancellation stands, a
  completed job got its record first, a job settles.
* **Not modelled yet:** a breaker's half-open state under concurrent requests, an
  uncounted slot release, the block-mode pause (a timeout against a late answer),
  the eviction and replay of the event bus, the thread registry across a restart,
  the check-then-act of resume and restart in the job store client.

## 2. Modules

| module | models |
|---|---|
| `JobStore`, `JobStoreMC`, `JobStore_proofs` | `job_service/db.py` |
| `PauseProtocol` | what a pause promises, abstractly |
| `CodingTeamHitl`, `CodingTeamHitlMC`, `CodingTeamHitl_proofs` | the pause protocol of the coding team under Temporal |
| `TaskGraph` | `TaskGraphService`: operators on a graph value |
| `CodingSwarm`, `CodingSwarmMC`, `CodingSwarm_proofs` | the coordinator, its workers, snapshots, crashes, resumes, cancellation |
| `AgentProvisioning`, `AgentProvisioningMC`, `AgentProvisioning_proofs` | the agent lock, the environment record, both workflows and their attempts |
| `GraphPersist`, `GraphPersistMC`, `SharedConcurrency_proofs` | `LatestValueFlusher` under `GraphPersistCoordinator`: how the graph reaches the record |
| `KeyedLocks`, `KeyedLocksMC`, `SharedConcurrency_proofs` | `KeyedLockManager` and `KeyedLazyRegistry` |
| `SandboxLifecycle`, `SandboxLifecycleMC`, `SandboxLifecycle_proofs` | acquire, teardown, status, note activity, the reaper, the checkpoint |
| `RunLedger`, `RunLedgerMC`, `RunLedger_proofs` | the invoke gate and its ledger |
| `BacktestJob`, `BacktestJobMC`, `BacktestJob_proofs` | one backtest job: dispatch, worker, workflow, retries, cancel, delete, sweep |

**JobStore.**  `jobs` is the table; `call` is what each request handler is
doing; `lock` is who holds a row lock.  A handler is in flight from `Begin` (the
server reads its clock) to `Return`.  Each operation of `db.py` is one action,
because it is one committed statement, except that `apply_patch` is two
(`PatchSelect` takes the row lock, `PatchWrite` writes the whole document back),
and `update_job_if_not_cancelled` is two when its UPDATE matched nothing
(`GuardedUpdate`, `GuardedProbe`).  `Abort` is a transaction that rolls back.  A
document is reduced to one flag, one counter and one list, whose items are the
ids of the requests that appended them.  Ids are used once (`UniqueIds`), as
the uuid4 ids of the teams are.

**CodingTeamHitl.**  `job` is the part of the record the protocol uses, `run` the
orchestrator invocation each activity attempt executes, `wf` the workflow, `signals`
what the server accepted and has not delivered, `client` the route handler of each
client.  Every read and every write of the record is its own step.  The
implementation of a round is fanned out to workers (`StartRound`), which are
counted: `busy` are still at work, `committed` says that one of them has a pause to
write, and the invocation reports the pause when all are back (`FanOutJoins`), so
the other workers of the round finish while its pause is on the record.  A worker
whose pause write is applied but raises goes on (`PauseWriteLost`).  An attempt can
fail anywhere (`AttemptFails`); with a second attempt it can be timed out and run on
beside its successor (`AttemptTimesOut`, `ZombieEnds`), as its thread does.  Whether
a worker or the Tech Lead asks is a choice, since a language model makes it.
`PauseProtocol` is the abstract specification (working, paused, finished);
`ImplementsPauseProtocol` maps the workflow to the stage, the number of minted
tokens to the round and "its token was carried by some signal" to acknowledged.

**TaskGraph** has one operator per method of `TaskGraphService`, over a graph
value, so the live graph and the snapshot are of the same kind.  `Cascade` fails
the least set closed under "a task that depends on it", which is what the
method's loop computes.

**CodingSwarm.**  `graph` is the live graph, `store` the snapshot in the record,
`phase`, `round` and `todo` the coordinator's position, `thread` the task and
next step of each worker and of the coordinator's own review.  The phases of
`_run_once` are actions of the coordinator; between two graph mutations of one
worker the others may step.  `Flush` is the background writer, which writes the
latest graph or is still behind; `Crash` loses everything but the record;
`RetryActivity`, `ResumeJob` and `RetryFailedTasks` are the three ways back, and none
waits for the invocation before it: the activity's thread outlives its timeout, the
resume route accepts a job that is pending or running, and the retry route refuses
only one that says running.  Such an invocation is parked in `others` (`Overtake`),
with its own graph and threads, and `Switch` makes it the present one again, so both
write the one record.  `ResumeRefused` is the resume whose workflow the server does
not start because the first is open; the route then marks the job failed.
`CancelLooks` and `CancelWrites` are the two steps of `request_cancel`.

**AgentProvisioning.**  `lock` and `env` are the two files of one agent, `run` the
local variables of each workflow, `work` the activity attempts that may still
write, each in a worker process, and `late` the calls of the lock nobody waits for
any more.  A workflow is named by its lock owner.  The lock file is locked across
processes; the store's `_lock` is of one process.  So an operation of the lock is
one step, and one of the environment store is a read with its check and, apart from
it, a write, between which attempts in another process may write.  Leases can change
hands in between, too.  A timed-out attempt, and every attempt of a terminated
workflow, becomes a stray, which may take its remaining steps at any later time;
its acquire or release of the lock may arrive late as well.
What is asked of Docker is answered either way, and so is every call that
touches a store the model leaves out.  `torn` counts removals cut in two by the
death of the process.

**GraphPersist** opens what `CodingSwarm` has as one action, `Flush`: there the
snapshot may be any number of mutations behind; here is why it is behind, and
never goes back.  `box`, `wake`, `idle`, `stopFlag`, `running`, `lock` and `admitted` are
the flusher's fields, `writer` the daemon, `user` every other thread.  What the code
does between two acquisitions of `_lock` is one action; `_write_lock` is a
variable, because it is held across the writes.  A graph is its revision.
`Mutate` and `Wake` are `enqueue` up to and after its lock; `Update` to `Settle` are
`write_now` (admitted, lock, flush of what is pending, the direct write, the
bookkeeping); `Checkpoint...` is `persist_sync`; `Stop` to `JoinWriter` are `stop()`.
A write lands or raises.  A round may be abandoned with its workers running on.

**KeyedLocks.** A thread has a stack of `lock()` calls (`stack`), each resolving its
keys, acquiring, in its body or releasing. A lock is the order its key was given at
first sight. `get_or_create` is a call of kind `build`: it reads the slot, locks,
reads it again, and builds or raises.

**SandboxLifecycle.**  `mem` is the dictionary with every object, `file` the
checkpoint, `stack` what Docker has, `lock` the asyncio lock of each agent, `proc`
the coroutines, `sweep` the reaper's pass.  A step is what runs between two awaits,
so a coroutine can be overtaken at the lock, at each Docker command, in the
health poll and in the file write, whose snapshot is older than the write.
`Restart` loses the memory and reads the checkpoint; `Dies` is a container that
exits by itself; `Cancel` is an activity timeout in the middle of a command.

**RunLedger.**  `ledger` is the table, `call` the requests, `running` the agents that
execute, whether or not anyone still waits for them, `events` the memory writes.
One ledger operation is one action, because it is one transaction.  `made` and
`served` are histories: what each token was claimed for, and which answers were
replayed.

**BacktestJob.**  `status` is the job's row, written by the guarded updates that
`JobStore` has the inside of; `pc` and `out` are `_run_backtest_background` for the thread
and for each attempt; `wf`, `attempt` and `watched` are the workflow, the attempt it
waits for and the cancellation poller.  A write whose answer is lost raises in
its caller, applied or not.  The publication of the record may raise too.  `record` is
that record: its rows are in the jobs' own team, so `DELETE /backtests/jobs/{id}`
takes its id as well (`DeleteRecord`), though the docstring asks for a job's.

## 3. Runs

| run | asks |
|---|---|
| `jobstore_run` | three callers, two jobs, one request of every operation, clock of 3 values, 4 requests: `PatchOwnsItsRow`, `GuardedAnswerTrue`, `CancelHolds`, `NoLostAppend`, `CounterValuesDistinct` |
| `hitl_protocol` | two clients, an entry question and a raised one, two rounds fanned out to two workers, 2 HTTP calls, 2 faults, a lost pause write, two attempts: one that was timed out runs on beside the next. `ActivePauseIsRecorded`, `OnlyStragglersWork`, `InTimeAnswersDecide`, `EntryQuestionsDecided`, `PauseLeftOnlyBySignal`, `PauseNotReplaced` |
| `hitl_refinement` | one attempt at a time, 3 HTTP calls, no lost pause write, under fairness: the abstract pause, liveness included |
| `swarm_rounds` | four tasks (a chain of three, its last for a team nobody serves, and one beside it), two workers, a cancellation, no crash, rounds enough to finish: `PoolTasksAreFree`, `FailureReachesDependents`, `OutcomeMeansSettled`, `RevisionsBounded` |
| `swarm_crash` | two dependent tasks, two workers, two rounds, and a second invocation of any kind that starts after a crash, after the end or beside the first: `DependenciesFirst`, `OneThreadPerTask`, `AssignmentsAgree`, `BranchStaysHome`, `MergedStaysMerged` |
| `provisioning_run` | a job that may be terminated and restarted and a teardown, two worker processes, leases of one tick, clock of 3 values, 2 tokens, one stray or late call at a time: `TokensNameOneOwner`, `OneLeaseHolder`, `HolderIsAccepted`, `OwnMarkNeverFalls` |
| `graph_persist` | two workers, the orchestrator and the heartbeat, 2 mutations, 2 updates, a round and what is left of it, a failed write: `CheckpointOnRecord`, `RecordOnlyAdvances`, `StoppedIsQuiet`, `StopReturns` |
| `keyed_locks` | two threads, two keys, batches of two, nested once, 4 calls: `Exclusive`, `NoWaitCycle`, `BuiltOnce`, `CallsReturn` |
| `sandbox_run` | two callers and the reaper, one agent, two boots, a Docker failure of any kind, a restart: `WarmHandleIsReal`, `IdleIsReaped` |
| `run_ledger` | two requests with one key and either of two bodies, 3 claims, clock of 4 values, 2 faults: `ReplaysAreTheRunsOwn`, `LeaseGuardsRun`, `StoredAnswerStands` |
| `backtest` | three attempts, a thread, 2 faults, the job and its record deleted at any time: `CompletedHasRecord`, `CancellationStands`, `JobSettles` |
| `hitl_contradiction` | refuted: see section 6 |

Why the bounds are enough. A lost update needs two writers and one interleaving of
their statements; three callers and four requests allow a third party (a delete, a
sweep) in the middle. A pause is confused with the next one, or lost: two calls give
two clients an answer or a resume each for one pause, or one for each of two, and
two faults allow a crash on either side of the pause write, or an attempt that is
timed out and then one that fails; two workers are one that asks and one that is
still at work, and two rounds one after the pause. `hitl_refinement` has a third
call, for a signal that comes twice, and leaves lost pause writes out: a worker that
takes its recorded pause for a failure goes on, and may complete the job with the
pause on record, which the abstract pause does not do. In the swarm a chain of three
is the shortest in which a failure must reach a dependent of a dependent. One more
invocation is enough for a snapshot that lags, and for two invocations that write
over one another; two workers collide if any do; the theorems cover any number of
either. For the lock, two owners, a restart of one of them and two tokens give an
expiry, a takeover, a renewal and a late release; two processes are the fewest that
can overtake one another between a read and a write, one stray is enough because
strays do not talk to one another, and the theorems cover more. A record goes back
when an older snapshot overtakes a newer one: two mutations, two updates and one
failure give each of the three kinds of writers one to overtake and one to be
overtaken by. Two threads and two keys close the shortest circle, and the theorems
cover any number. Two boots let a sandbox meet the stack of its predecessor, and one
restart lets a process meet a checkpoint that is behind. Three claims are a first
attempt, one that takes its lease over and one that takes over that. Three attempts
are the code's own number.

`MAX_TASK_REVISIONS` is 20 and the round cap 50 in the code; the models use 2
with 5 (the same proportion) for the configuration about the round cap, and 2
with 12 for `swarm_rounds`, where 12 is more than a plan of that size can use: the
round cap is not reached there, and that the outcome is not true where it is reached
is `CodingSwarm_roundcap.cfg` alone.
`RevisionsBounded` is the cap plus 2 for each invocation that works on the job: a
task goes at most two revisions past the cap, and an invocation that comes up from
a snapshot may allow it two more.  It is checked with a no-change cap of 2.
The code's default is 3, and with the configurable minimum of 1 a task goes
one revision further (`CodingSwarm_window.cfg`); the theorem holds from 2 on.

Deadlock is checked in the `CodingTeamHitl` runs, where the only rest is
`Quiet` (done, or waiting with no call left).  The other systems stop by
themselves: their requests are used up, their job has ended, or every run has.

Liveness is claimed in five runs, each under the `FairSpec` of its module.
Nothing is ever assumed of a client: no request has to come.

* `hitl_refinement`: an attempt that runs goes on (calls to language models return or
  raise), the Temporal server delivers signals it accepted and schedules the
  next activity, and a route handler that has begun ends.  The claim is about
  acknowledged pauses only.  With failures bounded, an attempt that is retried
  succeeds in the end: the activity has no retry policy of its own, so the
  server retries it without a limit.
* `graph_persist`: threads run, a write returns or raises, a worker's turn ends.
  `_write_lock` is not fair, and nothing stronger than weak fairness is needed.
* `keyed_locks`: a thread that can go on does, and a `with` body or a factory ends.
  That a waiting thread gets its lock follows from the bound on calls, not
  from the locks, which are not fair either.
* `sandbox_run`: a Docker command ends (each has a timeout), a file write ends, and
  the reaper's loop goes on for as long as the process lives.
* `backtest`: the request that dispatches ends, a worker runs, Temporal schedules
  attempts and times out one whose worker is gone.  Crashes hit only what is
  retried; with the others the claim fails (`BacktestJob_limbo.cfg`).

Configurations without a run of their own are recorded counterexamples, each of
a statement that does not hold, kept as witnesses of a hazard:

| configuration | what TLC shows |
|---|---|
| `JobStore_reuse.cfg` | with ids used twice, a guarded update can answer None for a job deleted and created again: why `UniqueIds` is assumed |
| `CodingTeamHitl_zombie.cfg` | an attempt that was timed out replaces the recorded pause: the workflow waits for a token no client can learn |
| `CodingTeamHitl_cap.cfg` | a worker may escalate without end: the cap counts entries the return-mode pause never writes |
| `CodingSwarm_overlap.cfg` | a second invocation works beside the first: the snapshot of the one takes back what the other has merged |
| `CodingSwarm_crashed.cfg` | a crash between a failure and its cascade leaves dependents waiting for a failed task; one between the two mutations that return a task to the pool leaves its agent mapped to it, never free again; one while the plan is being added leaves a snapshot with part of it, which the next process takes for the plan |
| `CodingSwarm_cancel.cfg` | a cancellation the swarm has honoured, or one that comes after its last look at the flag, is overwritten by the outcome |
| `CodingSwarm_roundcap.cfg` | the round cap ends the job as completed with tasks neither merged nor failed |
| `CodingSwarm_window.cfg` | with a no-change cap of 1 a task exceeds the revision cap by more than 2 |
| `AgentProvisioning_refuted.cfg` | four statements, each refuted when it is left in alone. `SupersededWritesRefused`: a write with a superseded token is accepted, the attempt checked its token before the lock changed hands, and the store has not been written with the newer one. `DeliveryHasEnvironment`: a run that waits out another's lease and teardown acquires again and delivers an environment that is gone; `update_status`'s False is dropped. `NobodyElseBegins`: the release of a terminated workflow arrives after its restarted job has renewed the lease with the same token, passes both checks and ends that lease, and a teardown acquires. `MarkNeverFalls`: an attempt in one process read the record before another process wrote a newer token, and writes its older one over it |
| `RunLedger_latestart.cfg` | an attempt is held up between its claim and its dispatch past its lease: it is started beside the one that has reclaimed the key and executes within its lease, for nothing looks at the lease again in between |
| `GraphPersist_drain.cfg` | `drain()` returns while a write is in flight: the daemon, done with its own snapshot, finds the mailbox empty because a caller has claimed the next one, and sets the idle flag while that caller writes |
| `SandboxLifecycle_orphan.cfg` | `compose up` fails after the stack came up; the object has no container id, so a teardown forgets it without stopping it (a restart in the middle of `compose up` has the same effect) |
| `SandboxLifecycle_reaper.cfg` | the reaper's decision is older than its turn at the lock: a sandbox used or acquired in between is torn down |
| `SandboxLifecycle_cancel.cfg` | an activity is timed out in the middle of a Docker command, which runs on without the lock and takes down the next stack |
| `BacktestJob_limbo.cfg` | the last attempt, the thread or the compensation dies and nothing retries: the job is active for ever |
| `BacktestJob_completed.cfg` | a completion that was applied but whose answer was lost raises in the worker, and its broad handler turns the completed job into a failed one; and a client that names the record's own id deletes it under the completed job |
| `BacktestJob_dispatch.cfg` | the start of the workflow times out although it was accepted: the thread runs the job as well |

The first of `AgentProvisioning` contradicts `AgentProvisioningWorkflow.run` ("writes
are rejected at the point of mutation", `temporal/workflows.py:804-809`), the third
"a second workflow cannot even begin until the first fully releases"
(`shared/agent_lock.py:19-20`). What does hold
is proved below: a process never takes back a mark of its own, so where one process
serves the agent's activities an older owner cannot write once the newer one has.

## 4. Proofs

Theorems hold for every value of the constants. They rest on the modules'
assumptions only: distinct names, natural bounds, at least one agent, requests of
the right shape, and dependencies that are tasks of the plan. Nothing is assumed of
the shape of the dependencies: a plan with a cycle only has tasks that are never
ready. A theorem that needs more of a constant says so as a hypothesis in its
statement, and the paragraph of its component says where the code grants it.

**JobStore** (`TypeCorrect`, `PatchIsolation`, `CancellationStands`, `AppendsKept`,
`CountersUnique`, `GuardedAnswersAreTrue`). `PatchOwnsItsRow` carries the argument:
between its two statements a patch holds the row lock and its buffer is the present
row, so writing the buffer back loses nothing. `CounterValuesDistinct` is not
inductive. `CounterBound` is added: no value was handed out that the row's counter
has not reached. `GuardedAnswersAreTrue` is about the two statements of
`update_job_if_not_cancelled`: the reason its UPDATE matched nothing (`MissReason`)
must outlive the wait for its SELECT. A cancelled row that is gone by then is
reported as missing, which it then is; a missing row must not come back. It comes
back only by a create, which `UniqueIds` rules out (`JobStore_reuse.cfg` is the
counterexample without it), or by a replace, which `GuardedNotReplaced` rules out:
`replace_job` serves the reset of the software engineering team
(`software_engineering_team/shared/job_store.py:149`), guarded writes are those of
the backtests, branding and job matching, and no job belongs to two teams. Without
it TLC finds a call that answers False of a job that was never cancelled.

**CodingSwarm** (`TypeCorrect`, `DependenciesComeFirst`, `ThreadsDoNotCollide`,
`AssignmentsStayConsistent`, `BranchesStayHome`, `MergedWorkIsKept`, `RevisionsStayBounded`,
`FailureSpreads`, `PoolIsFree`, `PlansAreWhole`, `OutcomesAreSettled`).  The
argument has two layers.  A graph is `Sound` when its dependencies are respected and its two
records of an assignment agree; one lemma per method of `TaskGraphService` shows
that it keeps a sound graph sound under a precondition.  The invariant then says
what each thread may assume of its task at each step, and the coordinator of the
tasks it has listed, which is where the preconditions come from.  It covers the
snapshot as well as the live graph, since a crash swaps one for the other; and the
graph of every invocation that was overtaken (`OthersOK`), since a switch does the
same.  An invocation assumes nothing of the record while it runs, which is why the
invariant survives two of them writing it.  `MergedWorkIsKept` is the one that does
not: it speaks of runs in which no live invocation has been overtaken (`Alone`).

The last five need more than that invariant, and most of them a condition.

* `RevisionsStayBounded` (`RevsInv`): how far a task may be past the cap depends on
  where its thread stands (`Within`).  A task of the pool is below it, one that is
  worked on or looked at for what it changed is at most at it, and the step
  beyond finds a counter of unchanged revisits that was just reset, which with
  a no-change cap of 2 or more leaves one revisit and then the failure.  With 1
  it does not (`CodingSwarm_window.cfg`).
* `FailureSpreads` and `PoolIsFree` hold of behaviours in which no process dies and
  no live invocation is overtaken (`Undisturbed`), retries included.  `CleanInv`
  says who owes what: a failure has reached its dependents or a thread is about to
  see to it, and an agent that is mapped to a task not in flight is about to release
  it. A crash forgets the thread and keeps the debt, and so does the snapshot of an
  invocation that runs on.  `PlansAreWhole` is the same for the loop that adds the
  plan.  `CodingSwarm_crashed.cfg` has the runs with a crash.
* `OutcomesAreSettled` (`OutcomeInv`) holds through any number of crashes.  Besides a
  truncated plan, which its condition excludes, only the round cap
  (`CodingSwarm_roundcap.cfg`), a cancellation and another invocation beside this one
  let a run report an outcome with a task left behind, and all three are in its
  conclusion.

**AgentProvisioning** (`TypeCorrect`, `TokensIdentifyOwners`, `LeasesExclude`,
`HolderAccepted`, `OwnMarkIsMonotone`, `OneProcessKeepsMark`).  None of the
properties is inductive alone. `BearersBounded` is needed because a new token is the
lock's plus one: it is new only if nobody, stray or workflow, bears a higher one.
`LeasesRecorded` ties the lease a workflow still counts on to the record; exclusion
follows, because a takeover needs an expired record.  A lease counts until a release
in the name of its owner ends it, and the late one of a terminated predecessor is in
its name (`cut`): past that the leases of the code do not exclude one another.
`OwnedHasToken` rules out a renewal at token 0, and `FlowsOK` that a workflow
without a token compensates.  The lemmas split steps into those that grant a lease
(`GrantStep`) and those that do not (`QuietStep`); an attempt only ever bears a
token that was borne before.  `MarkInv` says what a process knows of a mark it left
itself: one attempt of a process is inside the store at a time (`OneInStore`, its
`_lock`), and if the mark is its process's own that is what it has read
(`MarkKnown`), so its check refuses an older token.  Of a mark another process left
it knows nothing.  `OneProcessKeepsMark` is the corollary for a single worker
process.

**CodingTeamHitl** (`TypeCorrect`, `PauseRecorded`, `StragglersOnly`, `InTimeKept`,
`EntryDecided`, `PauseLeft`, `NotReplaced`, `StepsPause`).  Two parts of the
invariant carry the rest. `OneRuns`: until something goes astray (`astray`: an
attempt is timed out, or a worker takes its recorded pause for a failure) only the
attempt the workflow listens to runs.  `PauseIsLive`: while the record shows a pause
it is the one of the present round, or reported, waited on or about to be consumed,
and nothing new is started; `FanOut` says which workers of that round may still be
busy.  With `Minted` (every token anywhere was minted, so a new one is in no signal)
the only step that removes a pause is `Consume`, of a token some signal carried, and
the only one that writes a pause finds none.  `StepsPause` is the safety half of
`ImplementsPauseProtocol`: `Consume` is `Continue`, `WritePause` is `Pause`,
`Signal` is `Acknowledge`, `WorkflowEnds` is `Finish`, and every other step is
unseen. `EntryQuestionsDecided` needs no such care: an answer never leaves the
record, so it holds of attempts that run on as well.

**GraphPersist** (`TypeCorrect`, `CheckpointsHold`, `RecordAdvances`, `StopIsFinal`).
The record is squeezed between what the coordinator has confirmed and what the
process has (`Squeezed`); a snapshot on its way to the record is ahead of the
record and behind the mailbox (`InFlight`), which the write lock (`LockHeld`) makes
stable.  For the end of the run the admitted calls are counted by their set
(`Counted`, over finite sets), so a count of zero leaves nobody to write.

**KeyedLocks** (`LocksTypeCorrect`, `MutualExclusion`, `NoDeadlock`, `ValuesStand`).  The
invariant speaks of one thread: what an outer call holds comes before what an
inner one asks for (`Above`, `Stacked`), and what a call holds before what it
waits for (`Sorted`).  Along a chain of waiting threads the awaited orders only
grow, so of any set of threads that wait for one another the one that waits for the
highest order has nobody to wait for.  The last step is an induction over a
well-founded order on a nonempty set of orders, with finitely many threads.
`SharedConcurrency_proofs` holds the proofs of both helpers of `shared/concurrency`;
hence the names `LocksInit`, `LocksNext` and `LocksSpec` in `KeyedLocks`.

**RunLedger** (`TypeCorrect`, `ReplaysCorrect`, `LeaseExcludes`, `AnswerStands`).  A token
lives in the row, the request, the running agent and the history of claims; the
invariant ties them together.  Its heart is `LiveHeld`: until the lease of an
attempt that may still reach its agent has run out the row is its own, so
nobody can claim the key.  `LiveApart` follows: of two attempts of a key that execute or
may be started, the lease of the earlier had run out when the later was claimed.
`LeaseGuardsRun` is what that says of agents that execute, at whatever moment they
were started; that none is started beside one within its lease is more, and does
not hold (`RunLedger_latestart.cfg`).

**SandboxLifecycle** (`TypeCorrect`, `WarmHandlesAreReal`). The heart of the
invariant is `LockInv`: a coroutine that is past `async with lock` (`Locks`), at
whichever await, holds the lock of its agent, also while its checkpoint is being
written. Stacks are replaced and objects become warm only under that lock
(`MoveKeepsWarm`), so a coroutine that has seen its stack run and still holds the
lock finds it in place. Status, note activity and a container that exits do without
the lock, and do neither. The theorem is about `Spec`; a coroutine that is cancelled
in the middle of a Docker command gives its lock up while the command runs on, and
`SandboxLifecycle_cancel.cfg` shows what then happens.

**BacktestJob** (`TypeCorrect`, `RecordsComplete`, `CancellationsStand`).  Whoever
is about to complete the job has published its record (`RecordFirst`), which can
since have been deleted by its own id, but is never missing from the start; and the
worker's writes and the shutdown sweep's spare a cancelled row.

The types of every proved module are a theorem (`TypeCorrect`) rather than an
invariant of a run; `TypeOK` is part of each inductive invariant.

Every invariant and every action property that a passing run checks is stated by
a theorem.  Only model-checked are the liveness properties (`ImplementsPauseProtocol` as
a whole, `StopReturns`, `CallsReturn`, `IdleIsReaped`, `JobSettles`), since liveness under
fairness is out of the proof system's reach.

## 5. What is left out

* In JobStore: reads and listings, and the schema.  In the documents: all but a
  flag, a counter and a list.
* In CodingTeamHitl: the block-mode wait loop, and what the workflow does after
  the pipeline (publishing to GitHub).  Cancelling a paused job through the
  generic jobs proxy leaves its workflow waiting, as the code documents.
* In CodingSwarm: subtasks, the cache of review verdicts, git itself (only that a
  branch lives in one worktree), the statuses that LLM limits put in place of an
  outcome, and questions to the user, which CodingTeamHitl has.  The retry route's look
  at the record and the write of its activity are one step, and `OneThreadPerTask` is
  about the threads of one invocation: two invocations beside each other do work on
  one task, each in a graph of its own.
* In AgentProvisioning: the container provisioner's own fenced state and the
  credential store (a rejection by them is a possible outcome of an attempt), the
  fan-out over tools, resumes that skip phases, histories recorded before the lock
  existed and legacy environment files.
* In GraphPersist: `start()` and `stop()` racing one another and calls on the writer's own
  thread, which the coordinator never makes; a PATCH that is applied and raises
  all the same, which would leave the record ahead of what is confirmed until the
  next write repeats it.
* In KeyedLocks: timeouts, which the code does not have, and calls refused before
  a key is resolved.
* In SandboxLifecycle: metrics and listings, the secrets file, images and the
  content of the compose project.
* In RunLedger: rules, roll-ups and retrieval of memories, the console rows of a run.
  The lease is not renewed, and an agent may outlive it: the design accepts that
  window as at-least-once (`agents/agent_cognition/DESIGN.md:301-304`), and the
  properties are about what lies within a lease.
* In BacktestJob: the engine, the strategies, paper trading, and the other routes.
* The hazards without a property, with the reason, are in `PROJECT.json`.  Each is
  a statement that does not hold of the code, with a configuration above that shows it.
* Other parts of section 1 without a module: the job store client's retries and
  gates, the gateway, the slot limiter, the event bus and the thread registry are
  planned; the rest is plain I/O, single statements or prompts.

## 6. Disagreements between the code and its own words

* `hitl_contradiction` (a run): two answers to one question of one pause both become
  decisions; validation is per batch and any number of batches is accepted.

The others are kept as configurations:

* `CodingTeamHitl_zombie`: the workflow's wait assumes that the pause it armed is the one
  on the record.
* `CodingSwarm_cancel`: the job is reported completed although its cancellation was
  confirmed.
* `CodingSwarm_overlap`: `_plan_and_groom` keeps merged work on a resume, and a second
  invocation beside the first takes it back.
* `CodingSwarm_crashed`, `CodingSwarm_roundcap`: a plan with part of its tasks, and an
  outcome with tasks that have none.
* `AgentProvisioning_refuted`: the four statements of section 3, with their lines in the
  comments of the module.
* `GraphPersist_drain`: `drain` says "Block until there is no pending payload and no write
  in flight"; the idle flag it waits for is set while another thread's write is.
* `BacktestJob_dispatch`: `_dispatch_via_temporal` falls back to the thread when starting
  the workflow raises, but a start can time out and still have been accepted.
* `BacktestJob_completed`: `run_backtest_activity` short-circuits a completed job, but the
  worker itself turns one into a failed job when the answer to its last write is lost;
  and `delete_backtest_job` deletes the record behind a completed job when it is given
  the record's id, which its docstring excludes and its code does not.
* `SandboxLifecycle_reaper`: `reap_once` tears down what was idle when it looked.
* Without a configuration: `check_fencing_token` (`shared/agent_lock.py:376-381`)
  says the token only rises for a different owner; `acquire` also raises it for the
  same owner once the lease has expired (lines 259-268), as its own docstring says.

## 7. Plan

Done, in this order: `JobStore`, `PauseProtocol` and `CodingTeamHitl`, `TaskGraph` and
`CodingSwarm`, `AgentProvisioning`; then `SandboxLifecycle`, `RunLedger`, `KeyedLocks`,
`GraphPersist` and `BacktestJob`; proofs of all of them.  Next:

1. `BlockPause`, the wait loop of `pause_cycle.py`, where a timeout races a late
   answer; it should implement `PauseProtocol` but for the timeout.
2. `CircuitBreaker`: concurrent requests around the three states, late results.
3. The job store client over `JobStore`: a DELETE replayed after a lost answer, the
   check-then-act of resume and restart, the stale-job monitor.
4. The slot limiter, the event bus (replay against eviction) and the thread
   registry (claim, register and clear across a restart).
5. An abstract specification of a job's status as its clients see it, which
   `BacktestJob` and, through `CancelHolds`, the store implement.
