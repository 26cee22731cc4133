------------------------------ MODULE JobStore ------------------------------
(***************************************************************************)
(* The central job service (backend/job_service): one Postgres table of    *)
(* job rows, written by the concurrent requests of every agent team.       *)
(*                                                                         *)
(* A request is in flight between Begin (the server reads its clock and    *)
(* has not reached the row yet) and one of the operations below, each of   *)
(* which is one committed SQL statement.  Two operations take two          *)
(* statements, and other requests may run between them:                    *)
(*   - apply_patch: SELECT ... FOR UPDATE, then UPDATE under the row lock; *)
(*   - update_job_if_not_cancelled: the guarded UPDATE, then, when it      *)
(*     matched nothing, a SELECT that tells "cancelled" from "missing".    *)
(***************************************************************************)
EXTENDS Integers, FiniteSets

CONSTANTS
    Callers,    \* concurrent request handlers
    NoCaller,   \* the holder of a row lock nobody holds
    JobIds,     \* job ids of one team
    Requests,   \* the requests the callers make
    UniqueIds,  \* whether job ids are unique, as the uuid4 ids of the teams are
    Stale,      \* stale_after_seconds of the sweep
    MaxTime,    \* bound of the model on the clock
    MaxCalls    \* bound of the model on the number of requests

Active == {"pending", "running"}

Status == Active \cup {"completed", "failed", "cancelled", "interrupted"}

\* The value of a field that a request leaves alone.
Keep == "keep"

Ops == {"create", "replace", "delete", "update", "guarded", "patch", "cancel",
        "event", "heartbeat", "sweep", "failall", "interruptall"}

Request == [op : Ops, job : JobIds, status : Status \cup {Keep},
            waiting : {Keep, "yes", "no"}, beat : BOOLEAN]

ASSUME JobStoreAssumption ==
    /\ NoCaller \notin Callers
    /\ Requests \subseteq Request
    /\ UniqueIds \in BOOLEAN
    /\ Stale \in Nat /\ MaxTime \in Nat /\ MaxCalls \in Nat

\* hb: last_heartbeat_at, act: data.last_activity_at, gen: a counter field,
\* log: the request ids whose item a list field of data holds.
Row == [status : Status \cup {"absent"}, waiting : BOOLEAN, hb : Nat, act : Nat,
        gen : Nat, log : SUBSET Nat]

Absent == [status |-> "absent", waiting |-> FALSE, hb |-> 0, act |-> 0,
           gen |-> 0, log |-> {}]

VARIABLES
    jobs,   \* the table
    lock,   \* per row, the transaction that holds its row lock
    call,   \* per caller, its request in flight
    now,    \* the clock
    nCalls, \* number of requests made so far, which numbers them
    used,   \* ids a create was requested for
    \* history, read by the properties only
    seen,   \* per caller, the statuses its row had during the request
    owed,   \* per job, the items appended since its data was last replaced
    minted, \* the counter values handed out
    held    \* jobs whose cancellation was confirmed and not undone since

history == <<seen, owed, minted, held>>
vars == <<jobs, lock, call, now, nCalls, used, history>>

Idle == [pc |-> "idle"]

InFlight(c) == call[c].pc # "idle"

JobOf(c) == call[c].req.job

RowOf(c) == jobs[JobOf(c)]

Init ==
    /\ jobs = [j \in JobIds |-> Absent]
    /\ lock = [j \in JobIds |-> NoCaller]
    /\ call = [c \in Callers |-> Idle]
    /\ now = 0
    /\ nCalls = 0
    /\ used = {}
    /\ seen = [c \in Callers |-> {}]
    /\ owed = [j \in JobIds |-> {}]
    /\ minted = {}
    /\ held = {}

-----------------------------------------------------------------------------
(* Steps of a request *)

\* Ids that are unique are created once, and named by nobody before that is done.
Nameable(r) ==
    IF r.op = "create" THEN r.job \notin used
    ELSE /\ r.job \in used
         /\ \A c \in Callers : InFlight(c) /\ call[c].req.op = "create" => JobOf(c) # r.job

\* A request arrives: the handler has read its clock (now) and not the row.
Begin(c, r) ==
    /\ ~InFlight(c)
    /\ nCalls < MaxCalls
    /\ UniqueIds => Nameable(r)
    /\ call' = [call EXCEPT ![c] = [pc |-> "sent", id |-> nCalls + 1, req |-> r,
                                    t |-> now, buf |-> Absent, ret |-> "none"]]
    /\ nCalls' = nCalls + 1
    /\ used' = IF r.op = "create" THEN used \cup {r.job} ELSE used
    /\ seen' = [seen EXCEPT ![c] = {jobs[r.job].status}]
    /\ UNCHANGED <<jobs, lock, now, owed, minted, held>>

\* The caller of c receives the answer.
Return(c) ==
    /\ InFlight(c) /\ call[c].pc = "done"
    /\ call' = [call EXCEPT ![c] = Idle]
    /\ seen' = [seen EXCEPT ![c] = {}]
    /\ UNCHANGED <<jobs, lock, now, nCalls, used, owed, minted, held>>

\* The statement is about to run for a row no transaction holds.
AtStatement(c, op) ==
    /\ InFlight(c) /\ call[c].pc = "sent"
    /\ call[c].req.op = op
    /\ lock[JobOf(c)] = NoCaller

Goto(c, pc, ret) == call' = [call EXCEPT ![c].pc = pc, ![c].ret = ret]

\* The rows become rows; every request in flight may have seen them.
SetRows(rows) ==
    /\ jobs' = rows
    /\ seen' = [c \in Callers |-> IF InFlight(c) THEN seen[c] \cup {rows[JobOf(c)].status}
                                  ELSE seen[c]]

SetRow(j, row) == SetRows([jobs EXCEPT ![j] = row])

\* The data of j is replaced or gone: what was appended or counted is past.
Forget(j) ==
    /\ owed' = [owed EXCEPT ![j] = {}]
    /\ minted' = {m \in minted : m.job # j}
    /\ held' = held \ {j}

Exists(j) == jobs[j].status # "absent"

Given(st, default) == IF st = Keep THEN default ELSE st

Flag(w, default) == IF w = Keep THEN default ELSE w = "yes"

\* data || fields, the status column, and the stamps of _prepare_update_fields.
Merged(row, r, t) ==
    [row EXCEPT !.status = Given(r.status, @), !.waiting = Flag(r.waiting, @),
                !.act = t, !.hb = IF r.beat THEN t ELSE @]

\* The row an upsert with the request's payload leaves.
Upserted(r, t) ==
    [Absent EXCEPT !.status = Given(r.status, "pending"), !.waiting = Flag(r.waiting, FALSE),
                   !.hb = t, !.act = t]

-----------------------------------------------------------------------------
(* Operations on one row, one statement each *)

create_job(c) ==
    /\ AtStatement(c, "create")
    /\ SetRow(JobOf(c), Upserted(call[c].req, call[c].t))
    /\ Forget(JobOf(c))
    /\ Goto(c, "done", "none")
    /\ UNCHANGED <<lock, now, nCalls, used>>

replace_job(c) ==
    /\ AtStatement(c, "replace")
    /\ SetRow(JobOf(c), Upserted(call[c].req, call[c].t))
    /\ Forget(JobOf(c))
    /\ Goto(c, "done", "none")
    /\ UNCHANGED <<lock, now, nCalls, used>>

delete_job(c) ==
    /\ AtStatement(c, "delete")
    /\ SetRow(JobOf(c), Absent)
    /\ Forget(JobOf(c))
    /\ Goto(c, "done", IF Exists(JobOf(c)) THEN "true" ELSE "false")
    /\ UNCHANGED <<lock, now, nCalls, used>>

\* update_job: no guard on the status; a missing row is not reported.
update_job(c) ==
    LET r == call[c].req
        j == JobOf(c)
    IN  /\ AtStatement(c, "update")
        /\ SetRow(j, IF Exists(j) THEN Merged(RowOf(c), r, call[c].t) ELSE RowOf(c))
        /\ held' = IF r.status = Keep THEN held ELSE held \ {j}
        /\ Goto(c, "done", "none")
        /\ UNCHANGED <<lock, now, nCalls, used, owed, minted>>

\* heartbeat: touches the heartbeat column and nothing of the data.
heartbeat(c) ==
    /\ AtStatement(c, "heartbeat")
    /\ SetRow(JobOf(c), IF Exists(JobOf(c)) THEN [RowOf(c) EXCEPT !.hb = call[c].t]
                        ELSE RowOf(c))
    /\ Goto(c, "done", IF Exists(JobOf(c)) THEN "true" ELSE "false")
    /\ UNCHANGED <<lock, now, nCalls, used, owed, minted, held>>

cancel_active_job(c) ==
    LET j == JobOf(c)
        hit == RowOf(c).status \in Active
        t == call[c].t
    IN  /\ AtStatement(c, "cancel")
        /\ SetRow(j, IF hit THEN [RowOf(c) EXCEPT !.status = "cancelled", !.hb = t, !.act = t]
                     ELSE RowOf(c))
        /\ held' = IF hit THEN held \cup {j} ELSE held
        /\ Goto(c, "done", IF hit THEN "true" ELSE "false")
        /\ UNCHANGED <<lock, now, nCalls, used, owed, minted>>

append_event(c) ==
    LET r == call[c].req
        j == JobOf(c)
        t == call[c].t
    IN  /\ AtStatement(c, "event")
        /\ IF Exists(j)
           THEN /\ SetRow(j, [RowOf(c) EXCEPT !.status = Given(r.status, @), !.hb = t,
                                   !.act = t, !.log = @ \cup {call[c].id}])
                /\ owed' = [owed EXCEPT ![j] = @ \cup {call[c].id}]
                /\ held' = IF r.status = Keep THEN held ELSE held \ {j}
           ELSE UNCHANGED <<jobs, seen, owed, held>>
        /\ Goto(c, "done", "none")
        /\ UNCHANGED <<lock, now, nCalls, used, minted>>

-----------------------------------------------------------------------------
(* update_job_if_not_cancelled, two statements *)

\* (mutant) The UPDATE has lost its status guard.
GuardedUpdate_NoGuard(c) ==
    /\ AtStatement(c, "guarded")
    /\ IF Exists(JobOf(c))
       THEN SetRow(JobOf(c), Merged(RowOf(c), call[c].req, call[c].t)) /\ Goto(c, "done", "true")
       ELSE Goto(c, "probe", "none") /\ UNCHANGED <<jobs, seen>>
    /\ UNCHANGED <<lock, now, nCalls, used, owed, minted, held>>

\* The guarded UPDATE matches the row and commits, or matches nothing.
GuardedUpdate(c) ==
    LET r == call[c].req
        j == JobOf(c)
    IN  /\ AtStatement(c, "guarded")
        /\ IF RowOf(c).status \notin {"absent", "cancelled"}
           THEN /\ SetRow(j, Merged(RowOf(c), r, call[c].t))
                /\ Goto(c, "done", "true")
           ELSE /\ Goto(c, "probe", "none")
                /\ UNCHANGED <<jobs, seen>>
        /\ UNCHANGED <<lock, now, nCalls, used, owed, minted, held>>

\* (mutant) Whatever the UPDATE did not match is reported as cancelled.
GuardedProbe_AlwaysFalse(c) ==
    /\ InFlight(c) /\ call[c].pc = "probe"
    /\ Goto(c, "done", "false")
    /\ UNCHANGED <<jobs, lock, now, nCalls, used, history>>

\* The SELECT that tells a cancelled row (False) from a missing one (None).
GuardedProbe(c) ==
    /\ InFlight(c) /\ call[c].pc = "probe"
    /\ Goto(c, "done", IF Exists(JobOf(c)) THEN "false" ELSE "none")
    /\ UNCHANGED <<jobs, lock, now, nCalls, used, history>>

-----------------------------------------------------------------------------
(* apply_patch: read, change and write the whole row under its lock *)

\* (mutant) A plain SELECT: the row is read without locking it.
PatchSelect_NoLock(c) ==
    /\ AtStatement(c, "patch")
    /\ IF Exists(JobOf(c)) THEN call' = [call EXCEPT ![c].pc = "locked", ![c].buf = RowOf(c)]
       ELSE Goto(c, "done", "none")
    /\ UNCHANGED <<jobs, lock, now, nCalls, used, history>>

PatchSelect(c) ==
    /\ AtStatement(c, "patch")
    /\ IF Exists(JobOf(c))
       THEN /\ lock' = [lock EXCEPT ![JobOf(c)] = c]
            /\ call' = [call EXCEPT ![c].pc = "locked", ![c].buf = RowOf(c)]
       ELSE /\ Goto(c, "done", "none")
            /\ UNCHANGED lock
    /\ UNCHANGED <<jobs, now, nCalls, used, history>>

\* merge_fields, one item appended and one counter incremented, written back
\* over the row that was read; the stamp is taken here, under the lock.
PatchWrite(c) ==
    LET r == call[c].req
        j == JobOf(c)
        row == [Merged(call[c].buf, r, now) EXCEPT
                    !.hb = now, !.gen = @ + 1, !.log = @ \cup {call[c].id}]
    IN  /\ InFlight(c) /\ call[c].pc = "locked"
        /\ SetRow(j, row)
        /\ lock' = [lock EXCEPT ![j] = NoCaller]
        /\ owed' = [owed EXCEPT ![j] = @ \cup {call[c].id}]
        /\ minted' = minted \cup {[job |-> j, gen |-> row.gen, id |-> call[c].id]}
        /\ held' = IF r.status = Keep THEN held ELSE held \ {j}
        /\ Goto(c, "done", "true")
        /\ UNCHANGED <<now, nCalls, used>>

-----------------------------------------------------------------------------
(* Sweeps over the active jobs of the team that wait for no user *)

Sweepable(j) == jobs[j].status \in Active /\ ~jobs[j].waiting

Sweep(c, op, victims, st) ==
    /\ InFlight(c) /\ call[c].pc = "sent" /\ call[c].req.op = op
    /\ \A j \in victims : lock[j] = NoCaller
    /\ SetRows([j \in JobIds |-> IF j \in victims THEN [jobs[j] EXCEPT !.status = st]
                                ELSE jobs[j]])
    /\ Goto(c, "done", "none")
    /\ UNCHANGED <<lock, now, nCalls, used, owed, minted, held>>

\* The cutoff comes from the clock the handler read on arrival.
mark_stale_active_jobs_failed(c) ==
    Sweep(c, "sweep", {j \in JobIds : Sweepable(j) /\ jobs[j].hb < call[c].t - Stale}, "failed")

mark_all_active_jobs_failed(c) ==
    Sweep(c, "failall", {j \in JobIds : Sweepable(j)}, "failed")

mark_all_active_jobs_interrupted(c) ==
    Sweep(c, "interruptall", {j \in JobIds : Sweepable(j)}, "interrupted")

-----------------------------------------------------------------------------

\* The connection or the handler dies before its statement committed: the
\* pool rolls the transaction back, which releases its row lock.
Abort(c) ==
    /\ InFlight(c) /\ call[c].pc \in {"sent", "probe", "locked"}
    /\ lock' = [j \in JobIds |-> IF lock[j] = c THEN NoCaller ELSE lock[j]]
    /\ call' = [call EXCEPT ![c] = Idle]
    /\ seen' = [seen EXCEPT ![c] = {}]
    /\ UNCHANGED <<jobs, now, nCalls, used, owed, minted, held>>

Tick ==
    /\ now < MaxTime
    /\ now' = now + 1
    /\ UNCHANGED <<jobs, lock, call, nCalls, used, history>>

CallerStep(c) ==
    \/ \E r \in Requests : Begin(c, r)
    \/ create_job(c) \/ replace_job(c) \/ delete_job(c) \/ update_job(c)
    \/ heartbeat(c) \/ cancel_active_job(c) \/ append_event(c)
    \/ GuardedUpdate(c) \/ GuardedProbe(c)
    \/ PatchSelect(c) \/ PatchWrite(c)
    \/ mark_stale_active_jobs_failed(c) \/ mark_all_active_jobs_failed(c)
    \/ mark_all_active_jobs_interrupted(c)
    \/ Return(c) \/ Abort(c)

Next == Tick \/ \E c \in Callers : CallerStep(c)

Spec == Init /\ [][Next]_vars

-----------------------------------------------------------------------------
(* Properties *)

Call == {Idle} \cup
        [pc : {"sent", "probe", "locked", "done"}, id : Nat, req : Requests, t : Nat,
         buf : Row, ret : {"none", "true", "false"}]

\* Types of the variables: the jobs table and the requests in flight of db.py.
TypeOK ==
    /\ jobs \in [JobIds -> Row]
    /\ lock \in [JobIds -> Callers \cup {NoCaller}]
    /\ call \in [Callers -> Call]
    /\ now \in Nat /\ nCalls \in Nat
    /\ used \subseteq JobIds
    /\ seen \in [Callers -> SUBSET (Status \cup {"absent"})]
    /\ owed \in [JobIds -> SUBSET Nat]
    /\ minted \subseteq [job : JobIds, gen : Nat, id : Nat]
    /\ held \subseteq JobIds

\* A row lock is held by a patch between its two statements and by nobody else,
\* and the row cannot change under it (FOR UPDATE in apply_patch): what the
\* patch writes back is based on the row's present content.
PatchOwnsItsRow ==
    \A c \in Callers : InFlight(c) /\ call[c].pc = "locked" =>
        /\ lock[JobOf(c)] = c
        /\ RowOf(c) = call[c].buf

\* The three answers of update_job_if_not_cancelled mean what its docstring
\* says, whatever other requests ran between its two statements: False only
\* for a job that was cancelled, None only for one that was missing, True only
\* for one it could write.
GuardedAnswerTrue ==
    \A c \in Callers :
        InFlight(c) /\ call[c].pc = "done" /\ call[c].req.op = "guarded" =>
            CASE call[c].ret = "false" -> "cancelled" \in seen[c]
              [] call[c].ret = "none" -> "absent" \in seen[c]
              [] call[c].ret = "true" -> seen[c] \ {"absent", "cancelled"} # {}

\* A cancellation that cancel_active_job confirmed stands until an operation
\* that replaces the row or names a status without a guard: no guarded update,
\* heartbeat, sweep, or merge of other fields undoes it, however they interleave.
CancelHolds == \A j \in held : jobs[j].status = "cancelled"

\* No appended item is lost: while the row's data is not replaced, its list has
\* the item of every append_event and apply_patch that committed, although
\* apply_patch writes the whole data back.
NoLostAppend == \A j \in JobIds : owed[j] \subseteq jobs[j].log

\* The counter of a row has reached every value handed out from it (apply_patch
\* only increments it), so the next increment is a value nobody has.
CounterBound == \A m \in minted : m.gen <= jobs[m.job].gen

\* Two increments of the same counter never read back the same value
\* (apply_patch: "a caller that increments a counter observes its OWN result").
CounterValuesDistinct ==
    \A m, n \in minted : m.job = n.job /\ m.gen = n.gen => m.id = n.id
=============================================================================
