---------------------------- MODULE CodingSwarm ----------------------------
(***************************************************************************)
(* One coding job: the coordinator (the Tech Lead) and its implementation  *)
(* workers take a planned task graph to a verdict (software_engineering_   *)
(* team, coding_team_orchestrator.py and the swarm_* mixins).              *)
(*                                                                         *)
(* A round assigns ready tasks to free workers, lets every worker          *)
(* implement its task in parallel, and reviews what was handed in, one     *)
(* task after the other.  A background writer brings every mutation of the *)
(* graph to the job record some time later; a process that dies is         *)
(* replaced by one that resumes from that record.  Nothing keeps a retry,  *)
(* a resume or a retry of failed tasks from starting beside a process that *)
(* still runs: it is parked in others, and Switch makes it the present one *)
(* again, so that what is said of graph and thread is said of each.        *)
(*                                                                         *)
(* Outside the model: questions to the user (CodingTeamHitl has them),     *)
(* status texts, and what the LLM-limit statuses override afterwards.      *)
(***************************************************************************)
EXTENDS TaskGraph, FiniteSets

CONSTANTS
    Lead,          \* the coordinator's thread
    MaxRevisions,  \* MAX_TASK_REVISIONS
    NoChangeCap,   \* the no-change revisit cap
    MaxRounds,     \* max_rounds of the swarm loop
    MaxRestarts,   \* bound of the model on invocations after the first
    MaxOverlaps,   \* bound of the model on those that overtake a live one
    Cancels        \* whether a user cancels the job

ASSUME CodingSwarmAssumption ==
    /\ Lead \notin Agents
    /\ MaxRevisions \in Nat \ {0} /\ NoChangeCap \in Nat \ {0}
    /\ MaxRounds \in Nat /\ MaxRestarts \in Nat /\ MaxOverlaps \in Nat /\ Cancels \in BOOLEAN

VARIABLES
    graph,     \* the task graph of the present invocation
    store,     \* the snapshot in the job record
    job,       \* the rest of the job record: its status, its cancel flag and
               \* whether it lists failed tasks
    phase,     \* where the coordinator is
    round,     \* rounds begun by this invocation
    thread,    \* per thread, the task it works on and its next step
    todo,      \* tasks the coordinator has listed and not dealt with yet
    restarts,  \* invocations after the first
    canceller, \* the cancel request
    others     \* the invocations that were overtaken while they ran

vars == <<graph, store, job, phase, round, thread, todo, restarts, canceller, others>>
control == <<job, phase, round, todo, restarts, canceller, others>>

Threads == Agents \cup {Lead}

Idle == [pc |-> "idle", task |-> NoTask]

Resting == [th \in Threads |-> Idle]

Running(ph) == ph \notin {"new", "crashed", "ended"}

Live == Running(phase)

Nobody ==
    [graph |-> EmptyGraph, phase |-> "new", round |-> 0, thread |-> Resting, todo |-> {}]

\* An invocation that is over leaves nothing behind but the record.
Over == [Nobody EXCEPT !.phase = "ended"]

Present ==
    IF Live THEN [graph |-> graph, phase |-> phase, round |-> round,
                  thread |-> thread, todo |-> todo]
            ELSE Over

Finished == {"completed", "completed_with_failures", "already_complete"}

JobStatus == Finished \cup {"pending", "running", "failed", "cancelled"}

Init ==
    /\ graph = EmptyGraph
    /\ store = EmptyGraph
    /\ job = [status |-> "pending", cancel |-> FALSE, failed |-> FALSE]
    /\ phase = "new"
    /\ round = 0
    /\ thread = Resting
    /\ todo = {}
    /\ restarts = 0
    /\ canceller = IF Cancels THEN "idle" ELSE "off"
    /\ others = [i \in 1..MaxRestarts |-> Nobody]

-----------------------------------------------------------------------------
(* Invocations of run_coding_team_orchestrator *)

\* The graph an invocation starts from: the plan when the record holds no
\* task, what the record holds otherwise.
Resumed(retryFailed) ==
    IF retryFailed THEN ResetFailed(ResetInFlight(store)) ELSE ResetInFlight(store)

Invoke(retryFailed) ==
    /\ graph' = Resumed(retryFailed)
    /\ phase' = IF store.task = EmptyGraph.task THEN "plan" ELSE "planned"
    /\ round' = 0 /\ thread' = Resting /\ todo' = {}
    /\ UNCHANGED <<store, canceller>>

Start ==
    /\ phase = "new"
    /\ Invoke(FALSE)
    /\ UNCHANGED <<job, restarts, others>>

Overtaken == {i \in 1..MaxRestarts : others[i] # Nobody}

\* Nothing stops the present invocation: if it runs, it goes on beside the next.
Overtake ==
    /\ phase # "new" /\ restarts < MaxRestarts
    /\ restarts' = restarts + 1
    /\ IF Live THEN /\ Cardinality(Overtaken) < MaxOverlaps
                    /\ others' = [others EXCEPT ![restarts'] = Present]
               ELSE UNCHANGED others

\* The workflow runs the activity again, whatever the record says: its process
\* died, its answer was lost, or it ran into its timeout and its thread runs on.
RetryActivity ==
    /\ Overtake
    /\ Invoke(FALSE)
    /\ UNCHANGED job

Resumable == {"pending", "running", "failed"}

\* resume_run_team_job looks at the job's status only.
ResumeJob ==
    /\ job.status \in Resumable
    /\ Overtake
    /\ job' = [job EXCEPT !.status = "running"]
    /\ Invoke(FALSE)

\* The server does not start a second workflow of one name while the first is open.
ResumeRefused ==
    /\ job.status \in Resumable
    /\ Live /\ restarts < MaxRestarts
    /\ job' = [job EXCEPT !.status = "failed"]
    /\ UNCHANGED <<graph, store, phase, round, thread, todo, restarts, canceller, others>>

\* retry_failed_tasks, for a job that is not marked running and lists failed
\* tasks; its workflow has a name of its own.
RetryFailedTasks ==
    /\ job.status # "running" /\ job.failed
    /\ Overtake
    /\ job' = [job EXCEPT !.status = "running", !.failed = FALSE]
    /\ Invoke(TRUE)

\* An invocation that was overtaken takes its next steps.
Switch(i) ==
    /\ Running(others[i].phase)
    /\ graph' = others[i].graph
    /\ phase' = others[i].phase
    /\ round' = others[i].round
    /\ thread' = others[i].thread
    /\ todo' = others[i].todo
    /\ others' = [others EXCEPT ![i] = Present]
    /\ UNCHANGED <<store, job, restarts, canceller>>

PlanTask(t) ==
    /\ phase = "plan"
    /\ Is(graph, t, "absent")
    /\ graph' = AddTask(graph, t)
    /\ UNCHANGED <<store, thread, control>>

Planned ==
    /\ phase = "plan"
    /\ With(graph, "absent") = {}
    /\ phase' = "planned"
    /\ UNCHANGED <<graph, store, job, round, thread, todo, restarts, canceller, others>>

\* persist_sync of the finished graph, then the write that marks the job running.
EnterCoding ==
    /\ phase = "planned"
    /\ phase' = "coding"
    /\ store' = graph
    /\ job' = [job EXCEPT !.status = "running"]
    /\ UNCHANGED <<graph, round, thread, todo, restarts, canceller, others>>

\* The swarm gives up its run when it sees the cancel flag, on entry and at
\* the top of every round.
HonorCancel ==
    /\ phase \in {"coding", "round"}
    /\ phase = "round" => round < MaxRounds
    /\ job.cancel
    /\ job' = [job EXCEPT !.status = "cancelled"]
    /\ phase' = "verdict"
    /\ UNCHANGED <<graph, store, round, thread, todo, restarts, canceller, others>>

PrepareWorktrees ==
    /\ phase = "coding" /\ ~job.cancel
    /\ phase' = "round"
    /\ UNCHANGED <<graph, store, job, round, thread, todo, restarts, canceller, others>>

\* No worktrees: the job fails and the run counts as aborted, without a verdict.
WorktreesFail ==
    /\ phase = "coding" /\ ~job.cancel
    /\ job' = [job EXCEPT !.status = "failed", !.failed = With(store, "failed") # {}]
    /\ phase' = "ended"
    /\ UNCHANGED <<graph, store, round, thread, todo, restarts, canceller, others>>

-----------------------------------------------------------------------------
(* Assignment *)

BeginRound ==
    /\ phase = "round" /\ ~job.cancel
    /\ round < MaxRounds
    /\ round' = round + 1
    /\ phase' = "assign"
    /\ UNCHANGED <<graph, store, job, thread, todo, restarts, canceller, others>>

RoundsExhausted ==
    /\ phase = "round" /\ round = MaxRounds
    /\ phase' = "verdict"
    /\ UNCHANGED <<graph, store, job, round, thread, todo, restarts, canceller, others>>

Pinned(t) == graph.task[t].pin # NoAgent
Targeted(t) == Target[t] # AnyTeam

\* Agents that ready tasks are pinned to are theirs before anyone proposes.
Reserved(free) ==
    {a \in free : \E t \in Ready(graph) : Pinned(t) /\ Eligible(graph, t, a)}

Candidates(t, free) == {a \in free : Eligible(graph, t, a)}

\* The unpinned tasks can be placed without asking the Tech Lead: either each
\* has a worker of its own, or all want the same, sufficiently large team.
Unambiguous(tasks, free) ==
    /\ tasks # {} /\ free # {}
    /\ \/ \E f \in [tasks -> free] :
            /\ \A t \in tasks : Candidates(t, free) = {f[t]}
            /\ \A t, u \in tasks : f[t] = f[u] => t = u
       \/ /\ \A t \in tasks : Targeted(t)
          /\ \A t, u \in tasks : Candidates(t, free) = Candidates(u, free)
          /\ \E t \in tasks : \E f \in [tasks -> Candidates(t, free)] :
               \A u, v \in tasks : f[u] = f[v] => u = v

\* What _assign_tasks may decide: f is a set of placements, of different
\* agents, that leaves no pinned or targeted task idle beside a worker that
\* is free for it, and no unpinned task at all when the choice is unambiguous.
Assignment(f) ==
    LET free == FreeAgents(graph)
        open == {t \in Ready(graph) : ~Pinned(t)}
        used == {f[t] : t \in DOMAIN f}
    IN  /\ \A t \in DOMAIN f : Eligible(graph, t, f[t])
        /\ \A t, u \in DOMAIN f : f[t] = f[u] => t = u
        /\ \A a \in Reserved(free) : \E t \in DOMAIN f : Pinned(t) /\ f[t] = a
        /\ Unambiguous(open, free \ Reserved(free)) => open \subseteq DOMAIN f
        /\ \A t \in Ready(graph) \ DOMAIN f :
             Pinned(t) \/ Targeted(t) => Candidates(t, free) \subseteq used

Unroutable(t) == Targeted(t) /\ \A a \in Agents : ~CanServe(t, a)

\* A bug: a dependency need only have been started.
AssignTasks_DepsStarted ==
    /\ phase = "assign"
    /\ \E ts \in SUBSET {t \in With(graph, "to_do") :
                           \A d \in Deps[t] : ~Is(graph, d, "to_do")} :
         \E f \in [ts -> FreeAgents(graph)] :
           /\ \A t \in ts : Eligible(graph, t, f[t])
           /\ \A t, u \in ts : f[t] = f[u] => t = u
           /\ graph' = Placed(graph, f)
    /\ phase' = "route" /\ todo' = {}
    /\ UNCHANGED <<store, job, round, thread, restarts, canceller, others>>

AssignTasks ==
    /\ phase = "assign"
    /\ \E ts \in SUBSET Ready(graph) : \E f \in [ts -> FreeAgents(graph)] :
         /\ Assignment(f)
         /\ graph' = Placed(graph, f)
         /\ todo' = IF FreeAgents(graph) = {} THEN {}
                    ELSE {t \in Ready(graph) \ ts : Unroutable(t)}
    /\ phase' = "route"
    /\ UNCHANGED <<store, job, round, thread, restarts, canceller, others>>

\* A ready task for a team the roster does not have fails, then its dependents.
FailUnroutable(t) ==
    /\ phase = "route" /\ thread[Lead] = Idle
    /\ t \in todo
    /\ todo' = todo \ {t}
    /\ graph' = Fail(graph, t, graph.task[t].revs)
    /\ thread' = [thread EXCEPT ![Lead] = [pc |-> "cascade", task |-> t]]
    /\ UNCHANGED <<store, job, phase, round, restarts, canceller, others>>

\* persist_sync, then every worker that holds a task in progress goes to work.
StartImplementing ==
    /\ phase = "route" /\ thread[Lead] = Idle /\ todo = {}
    /\ store' = graph
    /\ thread' = [th \in Threads |->
                    IF th \in Agents /\ Current(graph, th) \in With(graph, "in_progress")
                    THEN [pc |-> "work", task |-> Current(graph, th)]
                    ELSE Idle]
    /\ phase' = "implement"
    /\ UNCHANGED <<graph, job, round, todo, restarts, canceller, others>>

-----------------------------------------------------------------------------
(* One task on its way through a thread, one graph mutation per step *)

At(th, pc) == thread[th].pc = pc
TaskOf(th) == thread[th].task
State(th) == graph.task[TaskOf(th)]

\* The thread writes its task and goes on to pc, or is done with it.
Step(th, g, pc) ==
    /\ graph' = g
    /\ thread' = [thread EXCEPT ![th] = IF pc = "idle" THEN Idle
                                        ELSE [pc |-> pc, task |-> TaskOf(th)]]
    /\ UNCHANGED <<store, control>>

Write(th, s, pc) == Step(th, Put(graph, TaskOf(th), s), pc)

\* The branch is recorded and pinned to this worker before the gates run.
HandOff(a) ==
    /\ At(a, "work")
    /\ Write(a, [State(a) EXCEPT !.pin = a], "gates")

PassGates(a) ==
    /\ At(a, "gates")
    /\ Write(a, [State(a) EXCEPT !.status = "in_review"], "idle")

\* _note_revision_progress: the branch either is what it was at the last bounce
\* or has changed; too many revisits without a change go to the Tech Lead.
NoteProgress(th, same, next) ==
    LET still == IF same THEN State(th).still + 1 ELSE 0
    IN  /\ same => State(th).based
        /\ Write(th, [State(th) EXCEPT !.still = still, !.based = TRUE],
                 IF still >= NoChangeCap THEN "stalled" ELSE next)

\* The worker's attempt failed or is not ready for review.
FallShort(a, same) ==
    /\ At(a, "work")
    /\ NoteProgress(a, same, "retry")

FailGates(a, same) ==
    /\ At(a, "gates")
    /\ NoteProgress(a, same, "bounce")

\* A bug: the cap is met exactly or not at all.
Retry_AtCapOnly(th) ==
    LET revs == State(th).revs + 1
    IN  /\ At(th, "retry")
        /\ IF revs = MaxRevisions
           THEN Step(th, Fail(graph, TaskOf(th), revs), "cascade")
           ELSE Write(th, [State(th) EXCEPT !.status = "in_progress", !.revs = revs], "idle")

\* One more attempt for the same worker, or none left: the task fails.
Retry(th) ==
    LET revs == State(th).revs + 1
    IN  /\ At(th, "retry")
        /\ IF revs >= MaxRevisions
           THEN Step(th, Fail(graph, TaskOf(th), revs), "cascade")
           ELSE Write(th, [State(th) EXCEPT !.status = "in_progress", !.revs = revs], "idle")

\* A task the gates sent back goes to the pool, unless its revisions are used
\* up: then it goes to review as it is.
Bounce(a) ==
    LET revs == State(a).revs + 1
    IN  /\ At(a, "bounce")
        /\ IF revs >= MaxRevisions
           THEN Write(a, [State(a) EXCEPT !.revs = revs], "submit")
           ELSE Write(a, [State(a) EXCEPT !.status = "to_do", !.revs = revs], "release")

Submit(a) ==
    /\ At(a, "submit")
    /\ Write(a, [State(a) EXCEPT !.status = "in_review"], "idle")

Release(a) ==
    /\ At(a, "release")
    /\ Step(a, Unassign(graph, TaskOf(a)), "idle")

\* The Tech Lead's verdicts on a task that no longer changes.
GrantWindow(th) ==
    /\ At(th, "stalled")
    /\ Write(th, [State(th) EXCEPT !.status = "in_progress", !.still = 0, !.based = FALSE],
             "idle")

JudgeDone(th, noop) ==
    /\ At(th, "stalled")
    /\ Write(th, [State(th) EXCEPT !.noop = noop], "land")

Land(th) ==
    /\ At(th, "land")
    /\ Step(th, Merge(graph, TaskOf(th)), "idle")

JudgeFailed(th) ==
    /\ At(th, "stalled")
    /\ Step(th, Fail(graph, TaskOf(th), State(th).revs), "cascade")

FailDependents(th) ==
    /\ At(th, "cascade")
    /\ Step(th, Cascade(graph), "idle")

-----------------------------------------------------------------------------
(* Review *)

\* persist_sync, then the coordinator lists what is to be reviewed.
StartReview ==
    /\ phase = "implement"
    /\ \A a \in Agents : thread[a] = Idle
    /\ store' = graph
    /\ todo' = With(graph, "in_review")
    /\ phase' = "review"
    /\ UNCHANGED <<graph, job, round, thread, restarts, canceller, others>>

\* The verdicts are applied one task at a time.
TakeReview(t) ==
    /\ phase = "review" /\ thread[Lead] = Idle
    /\ t \in todo
    /\ todo' = todo \ {t}
    /\ thread' = [thread EXCEPT ![Lead] = [pc |-> "judge", task |-> t]]
    /\ UNCHANGED <<graph, store, job, phase, round, restarts, canceller, others>>

\* Approved and merged, or the merge raised and it is marked merged anyway.
Approve ==
    /\ At(Lead, "judge")
    /\ Step(Lead, Merge(graph, TaskOf(Lead)), "idle")

\* Not approved, or approved and the merge was refused.
Reject(same) ==
    /\ At(Lead, "judge")
    /\ NoteProgress(Lead, same, "retry")

ReviewError ==
    /\ At(Lead, "judge")
    /\ Step(Lead, Fail(graph, TaskOf(Lead), State(Lead).revs), "cascade")

\* A bug: a round that leaves nothing running or in review ends the job.
IsComplete_IgnoresPool ==
    /\ With(graph, "in_review") = {}
    /\ FreeAgents(graph) = Agents

IsComplete ==
    /\ With(graph, "to_do") = {} /\ With(graph, "in_review") = {}
    /\ FreeAgents(graph) = Agents

EndRound ==
    /\ phase = "review" /\ thread[Lead] = Idle /\ todo = {}
    /\ store' = graph
    /\ phase' = IF IsComplete THEN "verdict" ELSE "round"
    /\ UNCHANGED <<graph, job, round, thread, todo, restarts, canceller, others>>

Outcome ==
    LET merged == With(graph, "merged")
    IN  IF With(graph, "failed") # {} THEN "completed_with_failures"
        ELSE IF /\ merged # {} /\ merged = Tasks \ With(graph, "absent")
                /\ \A t \in merged : graph.task[t].noop
             THEN "already_complete"
        ELSE "completed"

\* The module-level _review_and_merge, then the coordinator stops, which drains
\* the background writer.
Verdict ==
    /\ phase = "verdict"
    /\ job' = [job EXCEPT !.status = Outcome, !.failed = With(graph, "failed") # {}]
    /\ store' = graph
    /\ phase' = "ended"
    /\ UNCHANGED <<graph, round, thread, todo, restarts, canceller, others>>

-----------------------------------------------------------------------------
(* The environment *)

\* The background writer writes the latest mutation.
Flush ==
    /\ Live /\ store # graph
    /\ store' = graph
    /\ UNCHANGED <<graph, thread, control>>

Crash ==
    /\ Live /\ restarts < MaxRestarts
    /\ phase' = "crashed"
    /\ graph' = EmptyGraph
    /\ thread' = Resting
    /\ todo' = {}
    /\ UNCHANGED <<store, job, round, restarts, canceller, others>>

\* request_cancel: a look at the record, then an unconditional write.
CancelLooks ==
    /\ canceller = "idle" /\ phase # "new"
    /\ job.status \notin {"completed", "already_complete", "failed", "cancelled"}
    /\ canceller' = "seen"
    /\ UNCHANGED <<graph, store, job, phase, round, thread, todo, restarts, others>>

CancelWrites ==
    /\ canceller = "seen"
    /\ canceller' = "confirmed"
    /\ job' = [job EXCEPT !.status = "cancelled", !.cancel = TRUE]
    /\ UNCHANGED <<graph, store, phase, round, thread, todo, restarts, others>>

-----------------------------------------------------------------------------
Coordinate ==
    \/ Start \/ \E t \in Tasks : PlanTask(t)
    \/ Planned \/ EnterCoding \/ HonorCancel \/ PrepareWorktrees \/ WorktreesFail
    \/ BeginRound \/ RoundsExhausted \/ AssignTasks
    \/ \E t \in Tasks : FailUnroutable(t) \/ TakeReview(t)
    \/ StartImplementing \/ StartReview \/ EndRound \/ Verdict

Work(a) ==
    \/ HandOff(a) \/ PassGates(a) \/ Bounce(a) \/ Submit(a) \/ Release(a)
    \/ \E same \in BOOLEAN : FallShort(a, same) \/ FailGates(a, same)

Review == Approve \/ ReviewError \/ \E same \in BOOLEAN : Reject(same)

Conclude(th) ==
    \/ Retry(th) \/ GrantWindow(th) \/ Land(th) \/ JudgeFailed(th) \/ FailDependents(th)
    \/ \E noop \in BOOLEAN : JudgeDone(th, noop)

Restart ==
    \/ RetryActivity \/ ResumeJob \/ ResumeRefused \/ RetryFailedTasks
    \/ \E i \in 1..MaxRestarts : Switch(i)

Next ==
    \/ Coordinate \/ Review \/ Restart \/ Flush \/ Crash \/ CancelLooks \/ CancelWrites
    \/ \E a \in Agents : Work(a)
    \/ \E th \in Threads : Conclude(th)

Spec == Init /\ [][Next]_vars

-----------------------------------------------------------------------------
(* Properties *)

PC == {"idle", "work", "gates", "bounce", "submit", "release", "retry", "stalled",
       "land", "cascade", "judge"}

Thread == [pc : PC, task : Tasks \cup {NoTask}]

Phase == {"new", "plan", "planned", "coding", "round", "assign", "route",
          "implement", "review", "verdict", "ended", "crashed"}

Process == [graph : Graph, phase : Phase, round : Nat,
            thread : [Threads -> Thread], todo : SUBSET Tasks]

\* Every variable keeps its type: the snapshot in the record is always a graph
\* TaskGraphService.restore can take back.
TypeOK ==
    /\ graph \in Graph /\ store \in Graph
    /\ job \in [status : JobStatus, cancel : BOOLEAN, failed : BOOLEAN]
    /\ phase \in Phase
    /\ round \in Nat
    /\ thread \in [Threads -> Thread]
    /\ todo \subseteq Tasks
    /\ restarts \in Nat
    /\ canceller \in {"off", "idle", "seen", "confirmed"}
    /\ others \in [1..MaxRestarts -> Process]

Begun(g, t) == g.task[t].status \in InFlight \cup {"merged"}

\* A task is worked on, reviewed or merged only when everything it depends on
\* is merged, in the graph of every invocation and in every snapshot a crash can
\* leave behind (assign_task_to_agent's precondition, which restore, the resets and the
\* failure cascade could each undo).
DependenciesFirst ==
    \A t \in Tasks : /\ Begun(graph, t) => DepsMerged(graph, t)
                     /\ Begun(store, t) => DepsMerged(store, t)

\* No two threads of one invocation work on one task: neither two workers nor a
\* worker and the reviewing coordinator (unassign_task's "two workers, one task").
OneThreadPerTask ==
    \A th, other \in Threads :
        TaskOf(th) # NoTask /\ TaskOf(th) = TaskOf(other) => th = other

\* The two records of an assignment agree: an agent holds only tasks that name
\* it, and a task in flight is held by the agent it names, so some worker or
\* the reviewer will come back to it.
AssignmentsAgree ==
    /\ \A a \in Agents : graph.held[a] # NoTask => graph.task[graph.held[a]].agent = a
    /\ \A t \in Tasks : graph.task[t].status \in InFlight =>
         \E a \in Agents : graph.task[t].agent = a /\ graph.held[a] = t

\* Work on a branch continues in the worktree the branch is checked out in,
\* also when the task went through the pool, a crash or a retry in between
\* (_pinned_agent_for).
BranchStaysHome ==
    \A t \in Tasks : graph.task[t].status \in InFlight =>
        graph.task[t].pin \in {NoAgent, graph.task[t].agent}

Alone == Overtaken = {}

\* As long as no invocation has been overtaken while it ran, what the record
\* says is merged is never lost again: no crash, resume or retry does the work a
\* second time (_plan_and_groom on a resume: "re-doing finished work").
MergedStaysMerged ==
    [][Alone => \A t \in Tasks : Is(store, t, "merged") => Is(store', t, "merged")]_vars

\* The same of every record.  Two invocations beside each other each write their
\* whole graph, so that the one takes back what the other has merged.
MergedWorkIsNeverLost ==
    [][\A t \in Tasks : Is(store, t, "merged") => Is(store', t, "merged")]_vars

\* Between two rounds an agent is busy only with a task in flight; an agent
\* that keeps a task of the pool takes no other and the task is pinned to it,
\* so neither moves again (unassign_task's postcondition).
PoolTasksAreFree ==
    phase \in {"round", "ended"} =>
        \A a \in Agents : graph.held[a] # NoTask => graph.task[graph.held[a]].status \in InFlight

\* Once no cascade is under way, a task with a failed dependency has failed too
\* (mark_dependents_failed's postcondition).
FailureReachesDependents ==
    phase \in {"round", "review", "ended"} /\ (\A th \in Threads : ~At(th, "cascade")) =>
        \A t \in Tasks : ~Is(graph, t, "absent") /\ (\E d \in Deps[t] : Is(graph, d, "failed"))
                         => Is(graph, t, "failed")

\* A job that reports an outcome, and was not cancelled, has settled every task
\* of its plan: none is left behind neither merged nor failed.
OutcomeMeansSettled ==
    phase = "ended" /\ job.status \in Finished /\ ~job.cancel =>
        \A t \in Tasks : store.task[t].status \in Terminal

\* The revision cap bounds every task, also one the Tech Lead grants fresh
\* windows: at most one window opens past the cap, in each invocation, so that
\* each adds at most two revisions (_escalate_to_tech_lead: "the 20-revision cap
\* still ultimately bounds it").
RevisionsBounded == \A t \in Tasks : graph.task[t].revs <= MaxRevisions + 2 * (restarts + 1)

\* The coding rounds run over the whole plan (_plan_and_groom: "fully
\* populated").
PlanIsWhole ==
    phase \notin {"new", "plan", "planned", "crashed"} => With(graph, "absent") = {}

\* A job whose cancellation was confirmed ends as cancelled.
CancelledJobEndsCancelled ==
    phase = "ended" /\ canceller = "confirmed" => job.status = "cancelled"
=============================================================================
