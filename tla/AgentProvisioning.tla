------------------------- MODULE AgentProvisioning -------------------------
(* One agent id of the provisioning team: the ownership lock with its fencing
   tokens (shared/agent_lock.py), the environment record with its own mark
   (shared/environment_store.py), the provisioning and deprovisioning workflows
   that hold the lock for their whole run (temporal/workflows.py), and the
   activity attempts that write the record (temporal/activities.py).

   A run is named by its lock owner: a job id, or the id of a deprovisioning
   workflow.  An attempt the workflow has given up on (a heartbeat or a
   start_to_close timeout, a termination) is not stopped: it becomes a stray and
   may write at any later time, a late acquire or release of the lock included.
   An attempt runs in one of several worker processes.  The lock file is locked
   across processes (flock), the environment record only within one (the module's
   _lock), so an operation of the environment store is a read and, apart from it,
   a write.  The Docker container is outside the model: what is asked about it is
   answered either way. *)
EXTENDS Integers, FiniteSets

CONSTANTS
    Provisioners,   \* job ids
    Deprovisioners, \* deprovisioning workflow ids
    Workers,        \* worker processes
    NoRun,          \* the owner of a lock without a record
    NoWorker,       \* the writer of a mark that is not there
    TTL,            \* ttl_seconds of the lease
    MaxTime,        \* bound: the clock
    MaxToken,       \* bound: the tokens minted
    MaxStray        \* bound: strays and late calls of the lock at a time

Runs == Provisioners \cup Deprovisioners

ASSUME ProvisioningAssumption ==
    /\ NoRun \notin Runs /\ NoWorker \notin Workers
    /\ Provisioners \cap Deprovisioners = {}
    /\ TTL \in Nat \ {0}
    /\ MaxTime \in Nat /\ MaxToken \in Nat /\ MaxStray \in Nat

VARIABLES
    now,   \* time.time()
    lock,  \* the lock record of the agent
    env,   \* the environment file of the agent
    run,   \* the local variables of each workflow
    work,  \* the activity attempts that may still write
    late,  \* the attempts to acquire or release that nobody waits for any more
    mark   \* history: the last token written or removed with, and by which process

vars == <<now, lock, env, run, work, late, mark>>

NoToken == 0  \* None, in a caller or in a record

-----------------------------------------------------------------------------
(* The lock record *)

Lock == [owner : Runs \cup {NoRun}, expires : Int, token : Nat]

NoRecord == [owner |-> NoRun, expires |-> -1, token |-> NoToken]

\* (mutant) The lease ends one instant early for everybody else.
Expired_AtDeadline(l) == l.expires <= now

Expired(l) == l.expires < now

Busy(l, r) == l.owner # r /\ ~Expired(l)

\* (mutant) An expired lease is taken over with the token it had.
Acquired_KeepsToken(l, r) ==
    [owner |-> r, expires |-> now + TTL, token |-> IF l.owner = NoRun THEN 1 ELSE l.token]

\* Only the renewal of a live lease keeps its token.
Acquired(l, r) ==
    [owner |-> r, expires |-> now + TTL,
     token |-> IF l.owner = r /\ ~Expired(l) THEN l.token ELSE l.token + 1]

\* (mutant) The record is deleted, as it was before there were tokens.
Released_Deletes(l, r, t) ==
    IF l.owner = r /\ (t = NoToken \/ t >= l.token) THEN NoRecord ELSE l

\* The lease is ended in place: the token stays.
Released(l, r, t) ==
    IF l.owner = r /\ (t = NoToken \/ t >= l.token)
    THEN [owner |-> r, expires |-> now - 1, token |-> l.token]
    ELSE l

-----------------------------------------------------------------------------
(* The environment record *)

LiveStatus == {"running", "ready"}
Status == LiveStatus \cup {"absent", "tombstone"}

NoEnv == [status |-> "absent", token |-> NoToken]

Env == {NoEnv} \cup [status : LiveStatus \cup {"tombstone"}, token : Nat \ {NoToken}]

\* check_fencing_token of shared/fencing.py; a missing mark accepts everything.
Stale(e, t) == t < e.token

Live(e) == e.status \in LiveStatus

Written(st, t) == [status |-> st, token |-> t]

\* (mutant) Every file is deleted and the mark with it.
Removed_NoTombstone(t) == NoEnv

\* remove with a token leaves a tombstone that carries it.
Removed(t) == Written("tombstone", t)

-----------------------------------------------------------------------------
(* Workflows and attempts *)

Phases == {"setup", "record", "deliver"}
Closing == {"compensate", "teardown"} \* nothing but the release follows these
Acts == Phases \cup Closing

\* The stages inside an operation of the environment store: the record is read,
\* by on_registered's rollback too; the files are unlinked.
StoreStages == {"ready", "undoing", "unlinked"}

\* held: lock_acquired; own: not pre_existing_environment; settled:
\* account_provisioning_done.  History: until, the end of the lease it was given;
\* cut, a late release of the same owner has ended that lease.
Flow == [pc : {"acquire", "check", "release", "ended"} \cup Acts,
         token : Nat, held : BOOLEAN, own : BOOLEAN, settled : BOOLEAN, until : Int, cut : BOOLEAN]

NewRun == [pc |-> "acquire", token |-> NoToken, held |-> FALSE, own |-> FALSE,
           settled |-> FALSE, until |-> -1, cut |-> FALSE]

\* at: the worker process; was: the status run_setup read first; read: the record
\* as the running operation of the environment store read it; live: the workflow
\* still waits for it.
Attempt == [run : Runs, act : Acts, token : Nat \ {NoToken}, tearDown : BOOLEAN,
            at : Workers, stage : {"queued", "checked", "registered"} \cup StoreStages,
            was : Status, read : Env, live : BOOLEAN]

NewAttempt(r, act, t, tearDown, w) ==
    [run |-> r, act |-> act, token |-> t, tearDown |-> tearDown, at |-> w,
     stage |-> "queued", was |-> "absent", read |-> NoEnv, live |-> TRUE]

\* An attempt at the lock: a release with the token of its workflow.
LockCall == [run : Runs, act : {"acquire", "release"}, token : Nat]

Asking(r) == [run |-> r, act |-> "acquire", token |-> NoToken]
GivingBack(r, t) == [run |-> r, act |-> "release", token |-> t]

Unmarked == [token |-> NoToken, by |-> NoWorker]

Init ==
    /\ now = 0
    /\ lock = NoRecord
    /\ env = NoEnv
    /\ run = [r \in Runs |-> NewRun]
    /\ work = {}
    /\ late = {}
    /\ mark = Unmarked

Waiting(r) == \E a \in work : a.run = r /\ a.live

Room == Cardinality({a \in work : ~a.live}) + Cardinality(late) < MaxStray

\* The exception handler of run: it compensates only while it can prove that it
\* holds the lock and nothing of the account provisioning was recorded.
Failed(f, lost, stale) ==
    IF f.held /\ ~lost /\ ~stale /\ ~f.settled
    THEN [f EXCEPT !.pc = "compensate"]
    ELSE [f EXCEPT !.pc = "release", !.until = IF lost THEN -1 ELSE @]

Fail(r, lost, stale) == run' = [run EXCEPT ![r] = Failed(@, lost, stale)]

-----------------------------------------------------------------------------
(* Lock activities *)

CanMint(r) == Acquired(lock, r).token <= MaxToken

Granted(f, l) ==
    [f EXCEPT !.token = l.token, !.held = TRUE, !.until = l.expires, !.cut = FALSE]

\* acquire_agent_lock_activity, retried until the lock is free.
Acquire(r) ==
    /\ run[r].pc = "acquire" /\ ~Busy(lock, r) /\ CanMint(r)
    /\ lock' = Acquired(lock, r)
    /\ IF r \in Provisioners
       THEN /\ run' = [run EXCEPT ![r] = [Granted(@, lock') EXCEPT !.pc = "check"]]
            /\ UNCHANGED work
       ELSE /\ run' = [run EXCEPT ![r] = [Granted(@, lock') EXCEPT !.pc = "teardown"]]
            /\ \E w \in Workers :
                  work' = work \cup {NewAttempt(r, "teardown", lock'.token, FALSE, w)}
    /\ UNCHANGED <<now, env, late, mark>>

\* A call for the lock fails: it was never made, its answer got lost, or it is
\* still under way when the workflow stops waiting for it.
CallFails(r) ==
    \/ UNCHANGED <<lock, late>>
    \/ ~Busy(lock, r) /\ CanMint(r) /\ lock' = Acquired(lock, r) /\ UNCHANGED late
    \/ Room /\ late' = late \cup {Asking(r)} /\ UNCHANGED lock

\* LOCK_ACQUIRE_TIMEOUT, with the lock busy or with every answer lost.
AcquireFails(r) ==
    /\ run[r].pc = "acquire"
    /\ CallFails(r)
    /\ run' = [run EXCEPT ![r] = [@ EXCEPT !.pc = "release"]]
    /\ UNCHANGED <<now, env, work, mark>>

\* check_existing_environment_activity; an error counts as "it existed".
CheckExisting(r) ==
    /\ run[r].pc = "check"
    /\ \E own \in BOOLEAN : run' = [run EXCEPT ![r] = [@ EXCEPT !.pc = "setup", !.own = own]]
    /\ UNCHANGED <<now, lock, env, work, late, mark>>

\* _renew_or_mark_lost, and the phase's activity is scheduled with its token.
Renew(r) ==
    /\ run[r].pc \in Phases /\ ~Waiting(r) /\ ~Busy(lock, r) /\ CanMint(r)
    /\ lock' = Acquired(lock, r)
    /\ run' = [run EXCEPT ![r] = Granted(@, lock')]
    /\ \E w \in Workers :
          work' = work \cup {NewAttempt(r, run[r].pc, lock'.token, FALSE, w)}
    /\ UNCHANGED <<now, env, late, mark>>

RenewFails(r) ==
    /\ run[r].pc \in Phases /\ ~Waiting(r)
    /\ CallFails(r)
    /\ Fail(r, TRUE, FALSE)
    /\ UNCHANGED <<now, env, work, mark>>

\* A phase that does not write the environment record fails: the manifest, the
\* credentials, a tool, the audit or the documentation.
OtherPhaseFails(r) ==
    /\ run[r].pc \in {"record", "deliver"} /\ ~Waiting(r)
    /\ \E stale \in {FALSE, run[r].token < lock.token} : Fail(r, FALSE, stale)
    /\ UNCHANGED <<now, lock, env, work, late, mark>>

\* _compensate_failed_tools with the token of the last renewal.
Compensate(r) ==
    /\ run[r].pc = "compensate" /\ ~Waiting(r)
    /\ \E w \in Workers :
          work' = work \cup {NewAttempt(r, "compensate", run[r].token, run[r].own, w)}
    /\ UNCHANGED <<now, lock, env, run, late, mark>>

\* The finally block: release_agent_lock_activity, best effort.  A failure is
\* logged, and the attempt may still be under way after it.
Release(r) ==
    /\ run[r].pc = "release"
    /\ \/ lock' \in {lock, Released(lock, r, run[r].token)} /\ UNCHANGED late
       \/ Room /\ late' = late \cup {GivingBack(r, run[r].token)} /\ UNCHANGED lock
    /\ run' = [run EXCEPT ![r] = [@ EXCEPT !.pc = "ended", !.until = -1]]
    /\ UNCHANGED <<now, env, work, mark>>

\* The call of the lock a workflow may be waiting for.
InFlight(r) ==
    CASE run[r].pc = "acquire" -> {Asking(r)}
      [] run[r].pc \in Phases /\ ~Waiting(r) -> {Asking(r)}
      [] run[r].pc = "release" -> {GivingBack(r, run[r].token)}
      [] OTHER -> {}

\* The workflow is terminated (no finally); a job is started again under its own
\* job id.  The attempts it left run on, those at the lock included.
Terminate(r) ==
    /\ run[r].pc # "ended" \/ r \in Provisioners
    /\ Room
    /\ run' = [run EXCEPT ![r] =
                  [NewRun EXCEPT !.pc = IF r \in Provisioners THEN "acquire" ELSE "ended"]]
    /\ work' = {[a EXCEPT !.live = @ /\ a.run # r] : a \in work}
    /\ late' \in {late, late \cup InFlight(r)}
    /\ UNCHANGED <<now, lock, env, mark>>

\* An attempt at the lock nobody waits for reaches the record, or never does.
LateAcquire(c) ==
    /\ c.act = "acquire" /\ ~Busy(lock, c.run) /\ CanMint(c.run)
    /\ lock' = Acquired(lock, c.run)
    /\ late' = late \ {c}
    /\ UNCHANGED <<now, env, run, work, mark>>

LateRelease(c) ==
    /\ c.act = "release"
    /\ lock' = Released(lock, c.run, c.token)
    /\ run' = IF lock' = lock THEN run ELSE [run EXCEPT ![c.run] = [@ EXCEPT !.cut = TRUE]]
    /\ late' = late \ {c}
    /\ UNCHANGED <<now, env, work, mark>>

LateDies(c) ==
    /\ late' = late \ {c}
    /\ UNCHANGED <<now, lock, env, run, work, mark>>

-----------------------------------------------------------------------------
(* Activity attempts *)

At(a, stage, act) == a.stage = stage /\ a.act = act

Becomes(a, b) == work' = (work \ {a}) \cup {b}

\* The attempt is over; a stray tells nobody.  Setup that created the container
\* makes the environment the run's own.
Finish(a, own) ==
    /\ work' = work \ {a}
    /\ run' = IF ~a.live THEN run ELSE
              [run EXCEPT ![a.run] =
                  CASE a.act = "setup" -> [@ EXCEPT !.pc = "record", !.own = own]
                    [] a.act = "record" -> [@ EXCEPT !.pc = "deliver", !.settled = TRUE]
                    [] OTHER -> [@ EXCEPT !.pc = "release"]]

\* What the workflow does when the server reports the attempt failed.
GivenUp(a, stale) ==
    [run EXCEPT ![a.run] = IF a.act \in Closing THEN [@ EXCEPT !.pc = "release"]
                           ELSE Failed(@, FALSE, stale)]

\* StaleFencingTokenError is not retried.
Reject(a) ==
    /\ work' = work \ {a}
    /\ run' = IF a.live THEN GivenUp(a, TRUE) ELSE run

\* The retry policy starts the activity again, on any worker.
Again(a) == {NewAttempt(a.run, a.act, a.token, a.tearDown, w) : w \in Workers}

\* Any other error: the activity is started again, or its attempts are used up.
Break(a) ==
    \/ a.live /\ (\E b \in Again(a) : Becomes(a, b)) /\ UNCHANGED run
    \/ /\ work' = work \ {a}
       /\ run' = IF a.live THEN GivenUp(a, FALSE) ELSE run

\* The worker raises or dies between two of its steps; between the unlink and the
\* tombstone the mark is lost with it.
AttemptFails(a) ==
    /\ Break(a)
    /\ mark' = IF a.stage = "unlinked" /\ env = NoEnv THEN Unmarked ELSE mark
    /\ UNCHANGED <<now, lock, env, late>>

\* The server stops waiting for the attempt, and tries again or gives up (a
\* deprovisioning run gives up after DEPROVISION_CANCEL_GRACE).
AttemptTimesOut(a) ==
    /\ a.live /\ Room
    /\ LET left == (work \ {a}) \cup {[a EXCEPT !.live = FALSE]} IN
       \/ (\E b \in Again(a) : work' = left \cup {b}) /\ UNCHANGED run
       \/ work' = left /\ run' = GivenUp(a, FALSE)
    /\ UNCHANGED <<now, lock, env, late, mark>>

\* _reject_stale_fencing_token, and what run_setup reads first.
Preflight(a) ==
    /\ a.stage = "queued"
    /\ IF a.token < lock.token
       THEN Reject(a)
       ELSE /\ Becomes(a, [a EXCEPT !.stage = "checked",
                                    !.was = IF a.act = "setup" THEN env.status ELSE @])
            /\ UNCHANGED run
    /\ UNCHANGED <<now, lock, env, late, mark>>

\* Another fenced store the activity writes first (the provisioner's state, the
\* credentials) has already been written with a newer token.
RejectedElsewhere(a) ==
    /\ a.stage = "checked" /\ a.act \in {"setup", "record", "teardown"}
    /\ a.token < lock.token
    /\ Reject(a)
    /\ UNCHANGED <<now, lock, env, late, mark>>

\* run_setup finds a running environment whose container is there.  An earlier
\* attempt's checkpoint in the job record may show that it created it.
SetupReuse(a) ==
    /\ At(a, "checked", "setup") /\ a.was = "running"
    /\ \E own \in {run[a.run].own, TRUE} : Finish(a, own)
    /\ UNCHANGED <<now, lock, env, late, mark>>

\* (mutant) The operations of the store do not take _lock.
StoreFree_Unlocked(w) == TRUE

\* Nobody of this process is inside the store: its _lock is free.
StoreFree(w) == ~ \E a \in work : a.at = w /\ a.stage \in StoreStages

\* Does this attempt, at this stage, call the environment store next?  A
\* compensation that leaves the environment alone does not.
Calls(a) ==
    \/ a.stage = "registered"
    \/ a.stage = "checked" /\ (a.act = "compensate" => a.tearDown)

\* register, update_status, add_tools and remove take _lock and read the record;
\* after on_registered raised, _rollback_failed_setup calls one of them again.
ReadRecord(a) ==
    /\ Calls(a) /\ StoreFree(a.at)
    /\ Becomes(a, [a EXCEPT !.stage = IF @ = "registered" THEN "undoing" ELSE "ready", !.read = env])
    /\ UNCHANGED <<now, lock, env, run, late, mark>>

\* A write lands on whatever is there now: check_fencing_token looked at the
\* record as it was read.
Publish(a, e) == env' = e /\ mark' = [token |-> a.token, by |-> a.at]

Refused(a) == Stale(a.read, a.token)

\* The container is provisioned and the record registered.
SetupRegister(a) ==
    /\ At(a, "ready", "setup")
    /\ IF Refused(a)
       THEN Reject(a) /\ UNCHANGED <<env, mark>>
       ELSE /\ Publish(a, Written("running", a.token))
            /\ Becomes(a, [a EXCEPT !.stage = "registered", !.read = NoEnv])
            /\ UNCHANGED run
    /\ UNCHANGED <<now, lock, late>>

SetupDone(a) ==
    /\ a.stage = "registered"
    /\ \E own \in {run[a.run].own, TRUE} : Finish(a, own)
    /\ UNCHANGED <<now, lock, env, late, mark>>

\* _rollback_failed_setup puts the earlier record of a reused container back (or
\* removes its own, see Unlink); a rejection is only logged.
SetupRollback(a) ==
    /\ a.stage = "undoing"
    /\ IF Refused(a) THEN UNCHANGED <<env, mark>>
       ELSE a.was \in LiveStatus /\ Publish(a, Written(a.was, a.token))
    /\ Break(a)
    /\ UNCHANGED <<now, lock, late>>

\* record_account_provisioning_activity (add_tools) and deliver_activity
\* (update_status) write nothing when there is no record.  Neither looks at the
\* answer of the store; the job record is written after it and may fail.
WriteStatus(a) ==
    /\ a.act \in {"record", "deliver"} /\ a.stage = "ready"
    /\ IF Live(a.read) /\ Refused(a)
       THEN Reject(a) /\ UNCHANGED <<env, mark>>
       ELSE /\ IF Live(a.read)
               THEN Publish(a, Written(IF a.act = "deliver" THEN "ready" ELSE a.read.status, a.token))
               ELSE UNCHANGED <<env, mark>>
            /\ Finish(a, FALSE) \/ Break(a)
    /\ UNCHANGED <<now, lock, late>>

\* remove, first half: the file is unlinked.
Unlink(a) ==
    /\ \/ a.stage = "undoing"
       \/ a.stage = "ready" /\ a.act \in Closing
    /\ ~Refused(a)
    /\ Publish(a, NoEnv)
    /\ Becomes(a, [a EXCEPT !.stage = "unlinked", !.read = NoEnv])
    /\ UNCHANGED <<now, lock, run, late>>

\* remove, second half: the tombstone.  A rollback of setup raises afterwards, a
\* compensation does so when the container is still there.
Tombstone(a) ==
    /\ a.stage = "unlinked"
    /\ Publish(a, Removed(a.token))
    /\ \/ a.act \in Closing /\ Finish(a, FALSE)
       \/ a.act # "teardown" /\ Break(a)
    /\ UNCHANGED <<now, lock, late>>

\* remove is refused: deprovision_activity raises it, cleanup_setup only logs it.
RemovalRefused(a) ==
    /\ a.stage = "ready" /\ a.act \in Closing /\ Refused(a)
    /\ IF a.act = "teardown" THEN Reject(a) ELSE Finish(a, FALSE) \/ Break(a)
    /\ UNCHANGED <<now, lock, env, late, mark>>

\* compensate_activity for an environment that is not the run's own: only the
\* tools are rolled back.
CompensateTools(a) ==
    /\ At(a, "checked", "compensate") /\ ~a.tearDown
    /\ Finish(a, FALSE) \/ Break(a)
    /\ UNCHANGED <<now, lock, env, late, mark>>

Tick ==
    /\ now < MaxTime
    /\ now' = now + 1
    /\ UNCHANGED <<lock, env, run, work, late, mark>>

-----------------------------------------------------------------------------

RunStep(r) ==
    \/ Acquire(r) \/ AcquireFails(r) \/ CheckExisting(r)
    \/ Renew(r) \/ RenewFails(r) \/ OtherPhaseFails(r)
    \/ Compensate(r) \/ Release(r) \/ Terminate(r)

AttemptStep(a) ==
    \/ Preflight(a) \/ AttemptFails(a) \/ AttemptTimesOut(a) \/ RejectedElsewhere(a)
    \/ ReadRecord(a)
    \/ SetupReuse(a) \/ SetupRegister(a) \/ SetupDone(a) \/ SetupRollback(a)
    \/ WriteStatus(a)
    \/ Unlink(a) \/ Tombstone(a) \/ RemovalRefused(a) \/ CompensateTools(a)

LateStep(c) == LateAcquire(c) \/ LateRelease(c) \/ LateDies(c)

Next ==
    \/ Tick
    \/ \E r \in Runs : RunStep(r)
    \/ \E a \in work : AttemptStep(a)
    \/ \E c \in late : LateStep(c)

Spec == Init /\ [][Next]_vars

-----------------------------------------------------------------------------
(* Properties *)

\* Every variable keeps its type.
TypeOK ==
    /\ now \in Nat
    /\ lock \in Lock
    /\ env \in Env
    /\ run \in [Runs -> Flow]
    /\ work \subseteq Attempt
    /\ late \subseteq LockCall
    /\ mark \in [token : Nat, by : Workers \cup {NoWorker}]

\* Who presents which token: the record, the workflows and every attempt still
\* able to write, the strays included.
Bearers ==
    {[owner |-> lock.owner, token |-> lock.token]}
      \cup {[owner |-> r, token |-> run[r].token] : r \in {q \in Runs : run[q].held}}
      \cup {[owner |-> a.run, token |-> a.token] : a \in work}

\* A token is borne by one owner only, whatever expired, was released, was taken
\* over or was restarted in between (the minting rule of AgentLockStore.acquire);
\* without it a store could not tell a superseded writer from the present one.
TokensNameOneOwner == \A x, y \in Bearers : x.token = y.token => x.owner = y.owner

\* Two workflows are never both within a lease they were granted and that nobody
\* gave back in their name (agent_lock.py: "at most one owner token", with the
\* strict comparison of _is_expired against the now - 1 that release writes).
\* The second condition is needed: a release left by a terminated workflow is
\* taken for the one of its job's next workflow.
OneLeaseHolder ==
    \A r, s \in Runs :
       /\ run[r].until >= now /\ ~run[r].cut
       /\ run[s].until >= now /\ ~run[s].cut
       => r = s

\* "A second workflow cannot even begin until the first fully releases": refuted,
\* the restarted job renewed the lease with the token its predecessor's release
\* carries, and that release arrives now.
NobodyElseBegins ==
    \A r, s \in Runs : run[r].until >= now /\ run[s].until >= now => r = s

\* The mark of the environment store is never ahead of the lock's token: no
\* write of the present holder is taken for a stale one (register, update_status,
\* add_tools and remove compare with the mark, the workflows with the lock).
HolderIsAccepted == env.token <= lock.token

\* No worker process replaces a mark it left itself by an older one, not even when
\* the record was removed in between (EnvironmentStore's _lock, its check against
\* the mark, and its tombstones), unless it died between the unlink and the
\* tombstone.  So where one process serves the agent's activities, nothing a newer
\* owner wrote or removed is undone by an older one.
OwnMarkNeverFalls == [][mark'.token < mark.token => mark'.by # mark.by]_vars

\* The same for any number of worker processes ("the provided token or above"):
\* refuted, _lock excludes the threads of one process, and another one's attempt
\* that read the record before a newer token was written overwrites it.
MarkNeverFalls == [][mark'.token < mark.token => mark' = Unmarked]_vars

\* A write with a superseded token is refused at the point of mutation (the
\* invariants of AgentProvisioningWorkflow.run): refuted, the store knows of a
\* newer token only when it has been written with it.
SupersededWritesRefused == [][env' # env /\ env' # NoEnv => env'.token = lock.token]_vars

\* The holder of a live lease that is about to deliver has an environment to
\* deliver (run_deliver, "updating environment status to ready"): refuted, a run
\* that waited out another's lease goes on after that one's teardown, and
\* update_status's False is dropped.
DeliveryHasEnvironment ==
    \A a \in work :
       (/\ a.live /\ At(a, "checked", "deliver")
        /\ lock.owner = a.run /\ lock.token = a.token /\ ~Expired(lock)) => Live(env)
=============================================================================
