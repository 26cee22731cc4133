---------------------------- MODULE GraphPersist ----------------------------
(***************************************************************************)
(* How the coding team's task graph reaches its job record                 *)
(* (GraphPersistCoordinator over LatestValueFlusher): a mailbox of one, a  *)
(* daemon writer, direct writes serialized with it, checkpoints at round   *)
(* boundaries and the shutdown at the end of the run.                      *)
(*                                                                         *)
(* The graph is its revision, the live phase and status text are the       *)
(* number of the update that set them.  A step between two acquisitions of *)
(* _lock, _lifecycle_lock or the graph's RLock is atomic; _write_lock, held*)
(* across the writes, is a variable.  A write lands at once or raises.     *)
(***************************************************************************)
EXTENDS Naturals, FiniteSets

CONSTANTS
  Main,           \* the orchestrator's thread
  Workers,        \* threads of a round's fan-out
  Beat,           \* the heartbeat that flushes captured reasoning
  Daemon,         \* the flusher's writer thread
  Free,           \* no thread
  MaxMutations, MaxUpdates, MaxRounds, MaxFaults   \* bounds

Users == Workers \union {Main, Beat}

ASSUME PersistAssumption ==
  /\ Main \notin Workers /\ Beat \notin Workers /\ Main # Beat
  /\ IsFiniteSet(Workers) /\ Daemon \notin Users /\ Free \notin Users \union {Daemon}
  /\ MaxMutations \in Nat /\ MaxUpdates \in Nat /\ MaxRounds \in Nat /\ MaxFaults \in Nat

VARIABLES
  box,       \* _pending: the revision of the snapshot to write, or Empty
  wake, idle, stopFlag, running,   \* _wake, _idle, _stop_flag, _running
  lock,      \* _write_lock
  admitted,  \* _active_write_now_count
  writer,    \* the daemon: pc and the snapshot it writes
  user,      \* the others: pc, the snapshot they flush, what they update
  active,    \* workers of the fan-out that have not returned
  graph,     \* graph.revision
  live,      \* coord.phase and coord.status_text
  confirmed, \* _persist_state
  record,    \* the job record's snapshot and phase
  updates, rounds, faults

flusher == <<box, wake, idle, stopFlag, running, lock, admitted>>
vars == <<flusher, writer, user, active, graph, live, confirmed, record, updates, rounds, faults>>

Empty == 0
Saved == [rev : Nat, status : Nat]

Init ==
  /\ box = Empty /\ wake = FALSE /\ idle = TRUE /\ stopFlag = FALSE /\ running = TRUE
  /\ lock = Free /\ admitted = 0
  /\ writer = [pc |-> "waiting", job |-> Empty]
  /\ user = [u \in Users |-> [pc |-> "ready", job |-> Empty, sets |-> FALSE]]
  /\ active = {}
  /\ graph = 1 /\ live = 0
  /\ confirmed = [rev |-> 0, status |-> 0]
  /\ record = [rev |-> 0, status |-> 0]
  /\ updates = 0 /\ rounds = 0 /\ faults = 0

-----------------------------------------------------------------------------
At(u, pc) == user[u].pc = pc
Goes(u, pc) == user' = [user EXCEPT ![u].pc = pc]

\* _raw_update of a snapshot with the live phase: it lands, or it raises.
Lands(rev) ==
  /\ record' = [rev |-> rev, status |-> live]
  /\ UNCHANGED faults

Raises ==
  /\ faults < MaxFaults
  /\ faults' = faults + 1
  /\ UNCHANGED record

Confirms(rev) == confirmed' = [rev |-> rev, status |-> live]

\* The threads that may call the coordinator now: the fan-out's workers, the
\* orchestrator between its own calls, the heartbeat at any time.
MayCall(u) == At(u, "ready") /\ (u \in active \/ u = Main \/ u = Beat)

-----------------------------------------------------------------------------
(* The flusher *)

\* (mutant) The writer does not wait for the write lock.
WriteLockFree_Ignored == TRUE

WriteLockFree == lock = Free

\* The writer wakes, takes the write lock and empties the mailbox under it.
Claim ==
  /\ writer.pc = "waiting" /\ wake /\ WriteLockFree
  /\ wake' = FALSE /\ box' = Empty
  /\ IF box = Empty
     THEN writer' = [writer EXCEPT !.pc = "settling"] /\ UNCHANGED lock
     ELSE writer' = [pc |-> "writing", job |-> box] /\ lock' = Daemon
  /\ UNCHANGED <<idle, stopFlag, running, admitted, user, active, graph, live, confirmed,
                 record, updates, rounds, faults>>

\* (mutant) A write that raises ends the loop before the idle flag is set.
Write_RaisingEndsLoop ==
  /\ writer.pc = "writing"
  /\ \/ Lands(writer.job) /\ writer' = [writer EXCEPT !.pc = "confirming"] /\ UNCHANGED lock
     \/ Raises /\ writer' = [pc |-> "dead", job |-> Empty] /\ lock' = Free
  /\ UNCHANGED <<box, wake, idle, stopFlag, running, admitted, user, active, graph, live,
                 confirmed, updates, rounds>>

Write ==
  /\ writer.pc = "writing"
  /\ \/ Lands(writer.job) /\ writer' = [writer EXCEPT !.pc = "confirming"]
     \/ Raises /\ writer' = [writer EXCEPT !.pc = "unlocking"]
  /\ UNCHANGED <<flusher, user, active, graph, live, confirmed, updates, rounds>>

Confirm ==
  /\ writer.pc = "confirming"
  /\ Confirms(writer.job)
  /\ writer' = [writer EXCEPT !.pc = "unlocking"]
  /\ UNCHANGED <<flusher, user, active, graph, live, record, updates, rounds, faults>>

\* _report_error never raises, so a failed write ends like any other.
Unlock ==
  /\ writer.pc = "unlocking"
  /\ lock' = Free
  /\ writer' = [pc |-> "settling", job |-> Empty]
  /\ UNCHANGED <<box, wake, idle, stopFlag, running, admitted, user, active, graph, live,
                 confirmed, record, updates, rounds, faults>>

Settle ==
  /\ writer.pc = "settling"
  /\ idle' = (idle \/ box = Empty)
  /\ writer' = [writer EXCEPT !.pc = IF box = Empty /\ stopFlag THEN "dead" ELSE "waiting"]
  /\ UNCHANGED <<box, wake, stopFlag, running, lock, admitted, user, active, graph, live,
                 confirmed, record, updates, rounds, faults>>

-----------------------------------------------------------------------------
(* The task graph's mutators *)

\* A mutation, with persist_async under the graph's lock.  After stop() the
\* enqueue is refused and the graph swallows the refusal.
Mutate(u) ==
  /\ MayCall(u) /\ u # Beat
  /\ \A v \in Users : ~At(v, "waking")
  /\ graph <= MaxMutations
  /\ graph' = graph + 1
  /\ IF running /\ confirmed.rev # graph'
     THEN box' = graph' /\ idle' = FALSE /\ Goes(u, "waking")
     ELSE UNCHANGED <<box, idle, user>>
  /\ UNCHANGED <<wake, stopFlag, running, lock, admitted, writer, active, live, confirmed,
                 record, updates, rounds, faults>>

\* enqueue sets _wake after it has released its locks.
Wake(u) ==
  /\ At(u, "waking")
  /\ wake' = TRUE
  /\ Goes(u, "ready")
  /\ UNCHANGED <<box, idle, stopFlag, running, lock, admitted, writer, active, graph, live,
                 confirmed, record, updates, rounds, faults>>

-----------------------------------------------------------------------------
(* update(): write_now *)

\* The heartbeat's update carries no phase or status text.
Update(u) ==
  /\ MayCall(u) /\ running /\ updates < MaxUpdates
  /\ updates' = updates + 1
  /\ admitted' = admitted + 1
  /\ user' = [user EXCEPT ![u] = [pc |-> "queued", job |-> Empty, sets |-> u # Beat]]
  /\ UNCHANGED <<box, wake, idle, stopFlag, running, lock, writer, active, graph, live,
                 confirmed, record, rounds, faults>>

LockUpdate(u) ==
  /\ At(u, "queued") /\ lock = Free
  /\ lock' = u
  /\ Goes(u, "flushing")
  /\ UNCHANGED <<box, wake, idle, stopFlag, running, admitted, writer, active, graph, live,
                 confirmed, record, updates, rounds, faults>>

\* What is still in the mailbox is written before fn.
FlushClaim(u) ==
  /\ At(u, "flushing") /\ box # Empty
  /\ box' = Empty
  /\ user' = [user EXCEPT ![u].pc = "writing", ![u].job = box]
  /\ UNCHANGED <<wake, idle, stopFlag, running, lock, admitted, writer, active, graph, live,
                 confirmed, record, updates, rounds, faults>>

FlushWrite(u) ==
  /\ At(u, "writing")
  /\ \/ Lands(user[u].job) /\ Goes(u, "confirming")
     \/ Raises /\ Goes(u, "settling")
  /\ UNCHANGED <<flusher, writer, active, graph, live, confirmed, updates, rounds>>

FlushConfirm(u) ==
  /\ At(u, "confirming")
  /\ Confirms(user[u].job)
  /\ Goes(u, "settling")
  /\ UNCHANGED <<flusher, writer, active, graph, live, record, updates, rounds, faults>>

FlushSettle(u) ==
  /\ At(u, "settling")
  /\ idle' = (idle \/ box = Empty)
  /\ user' = [user EXCEPT ![u].pc = "flushing", ![u].job = Empty]
  /\ UNCHANGED <<box, wake, stopFlag, running, lock, admitted, writer, active, graph, live,
                 confirmed, record, updates, rounds, faults>>

Unlocked(u) ==
  /\ lock' = Free /\ admitted' = admitted - 1
  /\ Goes(u, "ready")
  /\ UNCHANGED <<box, wake, idle, stopFlag, running, writer, active, graph, confirmed,
                 updates, rounds>>

\* fn: the direct write lands and its phase becomes the live one, in that
\* order, or it raises and changes neither.
DirectWrite(u) ==
  /\ At(u, "flushing") /\ box = Empty
  /\ \/ /\ user[u].sets
        /\ live' = updates /\ record' = [record EXCEPT !.status = updates]
        /\ UNCHANGED faults
     \/ ~user[u].sets /\ UNCHANGED <<live, record, faults>>
     \/ Raises /\ UNCHANGED live
  /\ Unlocked(u)

-----------------------------------------------------------------------------
(* The orchestrator: rounds, checkpoints, the end *)

StartRound ==
  /\ At(Main, "ready") /\ active = {} /\ rounds < MaxRounds
  /\ rounds' = rounds + 1
  /\ active' = Workers
  /\ Goes(Main, "joining")
  /\ UNCHANGED <<flusher, writer, graph, live, confirmed, record, updates, faults>>

WorkerReturns(u) ==
  /\ u \in active /\ At(u, "ready")
  /\ active' = active \ {u}
  /\ UNCHANGED <<flusher, writer, user, graph, live, confirmed, record, updates, rounds, faults>>

Join ==
  /\ At(Main, "joining") /\ active = {}
  /\ Goes(Main, "ready")
  /\ UNCHANGED <<flusher, writer, active, graph, live, confirmed, record, updates, rounds,
                 faults>>

\* (mutant) The checkpoint does not drain the mailbox first.
Drained_NotAwaited == TRUE

Drained == idle

PersistSync ==
  /\ At(Main, "ready") /\ active = {}
  /\ Goes(Main, "draining")
  /\ UNCHANGED <<flusher, writer, active, graph, live, confirmed, record, updates, rounds,
                 faults>>

Checkpoint ==
  /\ At(Main, "draining") /\ Drained
  /\ IF confirmed = [rev |-> graph, status |-> live]
     THEN Goes(Main, "saved")
     ELSE user' = [user EXCEPT ![Main].pc = "saving", ![Main].job = graph]
  /\ UNCHANGED <<flusher, writer, active, graph, live, confirmed, record, updates, rounds,
                 faults>>

\* The checkpoint's own write is not under the write lock.  One that raises
\* ends the run.
CheckpointWrite ==
  /\ At(Main, "saving")
  /\ \/ Lands(user[Main].job) /\ Goes(Main, "committing")
     \/ Raises /\ user' = [user EXCEPT ![Main].pc = "leaving", ![Main].job = Empty]
  /\ UNCHANGED <<flusher, writer, active, graph, live, confirmed, updates, rounds>>

CheckpointConfirm ==
  /\ At(Main, "committing")
  /\ Confirms(graph)
  /\ user' = [user EXCEPT ![Main].pc = "saved", ![Main].job = Empty]
  /\ UNCHANGED <<flusher, writer, active, graph, live, record, updates, rounds, faults>>

Continue ==
  /\ At(Main, "saved")
  /\ Goes(Main, "ready")
  /\ UNCHANGED <<flusher, writer, active, graph, live, confirmed, record, updates, rounds,
                 faults>>

\* The finally block: the run is over, or a worker's exception came out of
\* the fan-out while the others run on (wait_for_stragglers=False).
Stop ==
  /\ At(Main, "ready") \/ At(Main, "joining") \/ At(Main, "leaving")
  /\ running' = FALSE
  /\ Goes(Main, "emptying")
  /\ UNCHANGED <<box, wake, idle, stopFlag, lock, admitted, writer, active, graph, live,
                 confirmed, record, updates, rounds, faults>>

StopDrained ==
  /\ At(Main, "emptying") /\ idle
  /\ Goes(Main, "outwaiting")
  /\ UNCHANGED <<flusher, writer, active, graph, live, confirmed, record, updates, rounds,
                 faults>>

\* (mutant) The direct writes already admitted are not waited for.
NoneAdmitted_Ignored == TRUE

NoneAdmitted == admitted = 0

SignalStop ==
  /\ At(Main, "outwaiting") /\ NoneAdmitted
  /\ stopFlag' = TRUE /\ wake' = TRUE
  /\ Goes(Main, "ending")
  /\ UNCHANGED <<box, idle, running, lock, admitted, writer, active, graph, live, confirmed,
                 record, updates, rounds, faults>>

JoinWriter ==
  /\ At(Main, "ending") /\ writer.pc = "dead"
  /\ Goes(Main, "stopped")
  /\ UNCHANGED <<flusher, writer, active, graph, live, confirmed, record, updates, rounds,
                 faults>>

-----------------------------------------------------------------------------
Writer == Claim \/ Write \/ Confirm \/ Unlock \/ Settle

Direct(u) ==
  \/ Wake(u) \/ LockUpdate(u) \/ FlushClaim(u) \/ FlushWrite(u) \/ FlushConfirm(u)
  \/ FlushSettle(u) \/ DirectWrite(u)

Orchestrator ==
  \/ StartRound \/ Join \/ PersistSync \/ Checkpoint \/ CheckpointWrite \/ CheckpointConfirm
  \/ Continue \/ Stop \/ StopDrained \/ SignalStop \/ JoinWriter

Next ==
  \/ Writer \/ Orchestrator
  \/ \E u \in Users : Mutate(u) \/ Update(u) \/ Direct(u) \/ WorkerReturns(u)

\* Threads run, writes return and a worker's turn ends.
Fairness ==
  /\ WF_vars(Writer) /\ WF_vars(Orchestrator)
  /\ \A u \in Users : WF_vars(Direct(u)) /\ WF_vars(WorkerReturns(u))

Spec == Init /\ [][Next]_vars

FairSpec == Spec /\ Fairness

-----------------------------------------------------------------------------
(* Properties *)

\* Every variable keeps its type.
TypeOK ==
  /\ box \in Nat
  /\ wake \in BOOLEAN /\ idle \in BOOLEAN /\ stopFlag \in BOOLEAN /\ running \in BOOLEAN
  /\ lock \in Users \union {Daemon, Free} /\ admitted \in Nat
  /\ writer \in [pc : {"waiting", "writing", "confirming", "unlocking", "settling", "dead"},
                 job : Nat]
  /\ user \in [Users ->
       [pc : {"ready", "waking", "queued", "flushing", "writing", "confirming", "settling",
              "joining", "draining", "saving", "committing", "saved", "leaving", "emptying",
              "outwaiting", "ending", "stopped"},
        job : Nat, sets : BOOLEAN]]
  /\ active \subseteq Workers
  /\ graph \in Nat \ {0} /\ live \in Nat /\ confirmed \in Saved /\ record \in Saved
  /\ updates \in Nat /\ rounds \in Nat /\ faults \in Nat

\* The record's snapshot and its phase never go back: no write overtakes a
\* newer one on the wire, though three kinds of writers share the record.
RecordOnlyAdvances == [][record'.rev >= record.rev /\ record'.status >= record.status]_vars

\* When persist_sync has returned, the record holds the graph and the phase
\* the orchestrator has, whatever background writes failed before.
CheckpointOnRecord == At(Main, "saved") => record = [rev |-> graph, status |-> live]

\* Once stop() has returned no write that goes through this run's coordinator
\* reaches the record, even when workers of an abandoned fan-out run on.
StoppedIsQuiet == [][At(Main, "stopped") => UNCHANGED record]_vars

\* stop() returns: no wakeup is lost, no lock is left held and the idle flag
\* is set again after every write, failed or not.
StopReturns == At(Main, "emptying") ~> At(Main, "stopped")

\* drain() returns when there is no pending payload and no write of one in
\* flight (its docstring).
DrainFindsNoWrite ==
  At(Main, "outwaiting") \/ At(Main, "saving") =>
    /\ writer.pc # "writing"
    /\ \A u \in Users : ~At(u, "writing")
=============================================================================
