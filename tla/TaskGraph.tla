----------------------------- MODULE TaskGraph -----------------------------
(***************************************************************************)
(* The task graph of one coding job (software_engineering_team,            *)
(* task_graph.py): tasks with dependencies, and which worker holds which   *)
(* task.  Every method of TaskGraphService runs under one lock, so each is *)
(* one operator from a graph to the graph it leaves behind.                *)
(*                                                                         *)
(* The graph keeps an assignment twice: a task names its agent, and the    *)
(* agent map (held) names the task of an agent.  The two are written       *)
(* together by some methods and apart by others.                           *)
(***************************************************************************)
EXTENDS Integers

CONSTANTS
    Tasks,   \* the tasks of the plan
    Agents,  \* the implementation workers
    NoTask, NoAgent,
    Deps,    \* per task, the tasks it depends on, as the plan gives them
    Target,  \* per task, the team the plan wants it done by, or AnyTeam
    Team,    \* per agent, its team
    AnyTeam

ASSUME TaskGraphAssumption ==
    /\ NoTask \notin Tasks /\ NoAgent \notin Agents
    /\ Deps \in [Tasks -> SUBSET Tasks]

Status == {"absent", "to_do", "in_progress", "in_review", "merged", "failed"}
InFlight == {"in_progress", "in_review"}
Terminal == {"merged", "failed"}

\* pin: the agent whose worktree holds the feature branch.  still and based:
\* the revisits without a change since the recorded branch digest, and whether
\* one is recorded.  noop: resolved without changes.  Counters are bounded by
\* what the revision caps of the swarm allow.
TaskState == [status : Status, agent : Agents \cup {NoAgent},
              pin : Agents \cup {NoAgent}, revs : Nat, still : Nat,
              based : BOOLEAN, noop : BOOLEAN]

Graph == [task : [Tasks -> TaskState], held : [Agents -> Tasks \cup {NoTask}]]

Blank == [status |-> "absent", agent |-> NoAgent, pin |-> NoAgent, revs |-> 0,
          still |-> 0, based |-> FALSE, noop |-> FALSE]

EmptyGraph == [task |-> [t \in Tasks |-> Blank], held |-> [a \in Agents |-> NoTask]]

-----------------------------------------------------------------------------
(* Queries *)

Is(g, t, status) == g.task[t].status = status
With(g, status) == {t \in Tasks : Is(g, t, status)}

DepsMerged(g, t) == \A d \in Deps[t] : Is(g, d, "merged")

\* What get_task_for_agent answers: a terminal task is not a current task.
Current(g, a) ==
    LET t == g.held[a]
    IN  IF t # NoTask /\ g.task[t].status \notin Terminal THEN t ELSE NoTask

Ready(g) == {t \in With(g, "to_do") : DepsMerged(g, t)}
FreeAgents(g) == {a \in Agents : Current(g, a) = NoTask}

CanServe(t, a) == Target[t] \in {AnyTeam, Team[a]}

\* A bug: the branch is forgotten when the task is placed again.
Eligible_IgnoresPin(g, t, a) == CanServe(t, a)

\* Where task t may be placed: the worker its branch is checked out at if it
\* has one, any worker of its team otherwise.
Eligible(g, t, a) ==
    /\ CanServe(t, a)
    /\ g.task[t].pin \in {NoAgent, a}

-----------------------------------------------------------------------------
(* Mutations *)

\* _free_agent: the agent a task names lets go of it, if it still holds it.
FreedBy(g, ts) ==
    [a \in Agents |-> IF \E t \in ts : g.task[t].agent = a /\ g.held[a] = t
                      THEN NoTask ELSE g.held[a]]

Put(g, t, s) == [task |-> [g.task EXCEPT ![t] = s], held |-> g.held]

AddTask(g, t) == Put(g, t, [Blank EXCEPT !.status = "to_do"])

\* Several placements at once: f names the agent of each task it is defined on.
Placed(g, f) ==
    [task |-> [t \in Tasks |->
                 IF t \in DOMAIN f
                 THEN [g.task[t] EXCEPT !.status = "in_progress", !.agent = f[t]]
                 ELSE g.task[t]],
     held |-> [a \in Agents |->
                 IF \E t \in DOMAIN f : f[t] = a
                 THEN CHOOSE t \in DOMAIN f : f[t] = a
                 ELSE g.held[a]]]

Merge(g, t) == [task |-> [g.task EXCEPT ![t].status = "merged"], held |-> FreedBy(g, {t})]

Fail(g, t, revs) ==
    [task |-> [g.task EXCEPT ![t].status = "failed", ![t].revs = revs],
     held |-> FreedBy(g, {t})]

\* A bug: only the task forgets the assignment.
Unassign_KeepsAgentBusy(g, t) == Put(g, t, [g.task[t] EXCEPT !.agent = NoAgent])

Unassign(g, t) ==
    [task |-> [g.task EXCEPT ![t].agent = NoAgent], held |-> FreedBy(g, {t})]

\* A set of tasks that failure cannot leave: it holds every failed task and
\* every task that depends on one of its own.
ClosedUnderFailure(g, ts) ==
    /\ With(g, "failed") \subseteq ts
    /\ \A t \in Tasks : ~Is(g, t, "absent") /\ Deps[t] \cap ts # {} => t \in ts

\* mark_dependents_failed: the least such set, which its fixpoint loop reaches.
Doomed(g) == {t \in Tasks : \A ts \in SUBSET Tasks : ClosedUnderFailure(g, ts) => t \in ts}

\* A bug: one pass instead of a fixpoint.
Cascade_OnePass(g) ==
    LET hit == {t \in Tasks : \E d \in Deps[t] : Is(g, d, "failed")}
    IN  [task |-> [t \in Tasks |-> IF t \in hit THEN [g.task[t] EXCEPT !.status = "failed"]
                                   ELSE g.task[t]],
         held |-> FreedBy(g, hit)]

Cascade(g) ==
    [task |-> [t \in Tasks |-> IF t \in Doomed(g)
                               THEN [g.task[t] EXCEPT !.status = "failed"]
                               ELSE g.task[t]],
     held |-> FreedBy(g, Doomed(g) \ With(g, "failed"))]

\* A bug: the agent map of the dead process is kept.
ResetInFlight_KeepsAgentMap(g) ==
    [g EXCEPT !.task = [t \in Tasks |->
        IF g.task[t].status \in InFlight
        THEN [g.task[t] EXCEPT !.status = "to_do", !.agent = NoAgent] ELSE g.task[t]]]

\* Crash recovery: what the dead workers were doing is to be done again.
ResetInFlight(g) ==
    LET ts == {t \in Tasks : g.task[t].status \in InFlight}
    IN  [task |-> [t \in Tasks |-> IF t \in ts
                     THEN [g.task[t] EXCEPT !.status = "to_do", !.agent = NoAgent]
                     ELSE g.task[t]],
         held |-> FreedBy(g, ts)]

\* A bug: every settled task is taken back.
ResetFailed_AllSettled(g) ==
    [g EXCEPT !.task = [t \in Tasks |->
        IF g.task[t].status \in Terminal
        THEN [Blank EXCEPT !.status = "to_do", !.pin = g.task[t].pin] ELSE g.task[t]]]

\* An explicit retry: the failed tasks get a fresh revision budget.
ResetFailed(g) ==
    LET ts == With(g, "failed")
    IN  [task |-> [t \in Tasks |-> IF t \in ts
                     THEN [g.task[t] EXCEPT !.status = "to_do", !.agent = NoAgent,
                                            !.revs = 0, !.still = 0, !.based = FALSE]
                     ELSE g.task[t]],
         held |-> FreedBy(g, ts)]
=============================================================================
