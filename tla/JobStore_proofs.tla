--------------------------- MODULE JobStore_proofs ---------------------------
(***************************************************************************)
(* Proofs about JobStore for any callers, jobs, requests and bounds: the   *)
(* row lock makes apply_patch a read-modify-write of the present row, so   *)
(* no confirmed cancellation, appended item or counter value is lost; and  *)
(* what update_job_if_not_cancelled answers was so during the call.        *)
(***************************************************************************)
EXTENDS JobStore, TLAPS

Running == [pc : {"sent", "probe", "locked", "done"}, id : Nat, req : Requests, t : Nat,
            buf : Row, ret : {"none", "true", "false"}]

\* A request in flight has its fields; Idle has none of them.
LEMMA InFlightType ==
    ASSUME TypeOK, NEW c \in Callers, InFlight(c)
    PROVE  /\ call[c] \in Running
           /\ JobOf(c) \in JobIds
           /\ RowOf(c) \in Row
           /\ call[c].req \in Request
<1>1. call[c] \in Call
  BY DEF TypeOK
<1>2. call[c] \in Running
  BY <1>1 DEF Call, Running, Idle, InFlight
<1>3. call[c].req \in Request
  BY <1>2, JobStoreAssumption DEF Running
<1> QED
  BY <1>2, <1>3 DEF TypeOK, JobOf, RowOf, Request

\* The rows the writes build are rows, and a merge keeps counter and list.
LEMMA MergedType ==
    ASSUME NEW row \in Row, NEW r \in Request, NEW t \in Nat
    PROVE  /\ Merged(row, r, t) \in Row
           /\ Merged(row, r, t).gen = row.gen
           /\ Merged(row, r, t).log = row.log
           /\ r.status = Keep => Merged(row, r, t).status = row.status
BY DEF Merged, Row, Request, Given, Flag, Keep, Status, Active

LEMMA UpsertedType ==
    ASSUME NEW r \in Request, NEW t \in Nat
    PROVE  Upserted(r, t) \in Row
BY DEF Upserted, Absent, Row, Request, Given, Flag, Keep, Status, Active

LEMMA AbsentType == Absent \in Row
BY DEF Absent, Row

\* Moving a request along keeps the calls well typed.
LEMMA GotoType ==
    ASSUME TypeOK, NEW c \in Callers, InFlight(c),
           NEW pc \in {"sent", "probe", "locked", "done"}, NEW ret \in {"none", "true", "false"},
           Goto(c, pc, ret)
    PROVE  call' \in [Callers -> Call]
<1>1. call[c] \in Running
  BY InFlightType
<1>2. [call[c] EXCEPT !.pc = pc, !.ret = ret] \in Running
  BY <1>1 DEF Running
<1>3. [call[c] EXCEPT !.pc = pc, !.ret = ret] \in Call
  BY <1>2 DEF Call, Running
<1>4. call' = [call EXCEPT ![c] = [call[c] EXCEPT !.pc = pc, !.ret = ret]]
  BY DEF Goto, TypeOK
<1> QED
  BY <1>3, <1>4 DEF TypeOK

LEMMA SetRowsType ==
    ASSUME TypeOK, NEW rows \in [JobIds -> Row], SetRows(rows)
    PROVE  /\ jobs' \in [JobIds -> Row]
           /\ seen' \in [Callers -> SUBSET (Status \cup {"absent"})]
<1>1. ASSUME NEW c \in Callers, InFlight(c)
      PROVE  rows[JobOf(c)].status \in Status \cup {"absent"}
  BY <1>1, InFlightType DEF Row
<1> QED
  BY <1>1 DEF SetRows, TypeOK

LEMMA SetRowType ==
    ASSUME TypeOK, NEW j \in JobIds, NEW row \in Row, SetRow(j, row)
    PROVE  /\ jobs' \in [JobIds -> Row]
           /\ seen' \in [Callers -> SUBSET (Status \cup {"absent"})]
<1>1. [jobs EXCEPT ![j] = row] \in [JobIds -> Row]
  BY DEF TypeOK
<1> QED
  BY <1>1, SetRowsType DEF SetRow

LEMMA ForgetType ==
    ASSUME TypeOK, NEW j \in JobIds, Forget(j)
    PROVE  /\ owed' \in [JobIds -> SUBSET Nat]
           /\ minted' \subseteq [job : JobIds, gen : Nat, id : Nat]
           /\ held' \subseteq JobIds
BY DEF TypeOK, Forget

LEMMA TypeCorrectInit == Init => TypeOK
BY AbsentType DEF Init, TypeOK, Call, Idle

LEMMA BeginType ==
    ASSUME TypeOK, NEW c \in Callers, NEW r \in Requests, Begin(c, r)
    PROVE  TypeOK'
<1> r \in Request /\ r.job \in JobIds
  BY JobStoreAssumption DEF Request
<1>1. [pc |-> "sent", id |-> nCalls + 1, req |-> r, t |-> now, buf |-> Absent,
       ret |-> "none"] \in Call
  BY AbsentType DEF Call, TypeOK
<1>2. call' \in [Callers -> Call]
  BY <1>1 DEF Begin, TypeOK
<1>3. seen' \in [Callers -> SUBSET (Status \cup {"absent"})]
  BY DEF Begin, TypeOK, Row
<1>4. used' \subseteq JobIds /\ nCalls' \in Nat
  BY DEF Begin, TypeOK
<1> QED
  BY <1>2, <1>3, <1>4 DEF Begin, TypeOK

\* The one-statement operations on the row of one job.
LEMMA RowOperationType ==
    ASSUME TypeOK, NEW c \in Callers,
           \/ create_job(c) \/ replace_job(c) \/ delete_job(c) \/ update_job(c)
           \/ heartbeat(c) \/ cancel_active_job(c) \/ append_event(c)
    PROVE  TypeOK'
<1> InFlight(c)
  BY DEF AtStatement, create_job, replace_job, delete_job, update_job, heartbeat,
         cancel_active_job, append_event
<1> DEFINE j == JobOf(c)
           r == call[c].req
           t == call[c].t
<1>0. j \in JobIds /\ RowOf(c) \in Row /\ r \in Request /\ t \in Nat /\ call[c].id \in Nat
  BY InFlightType DEF Running
<1>1. CASE create_job(c) \/ replace_job(c)
  <2>1. SetRow(j, Upserted(r, t)) /\ Forget(j) /\ Goto(c, "done", "none")
    BY <1>1 DEF create_job, replace_job
  <2> QED
    BY <1>0, <1>1, <2>1, UpsertedType, SetRowType, ForgetType, GotoType
       DEF TypeOK, create_job, replace_job
<1>2. CASE delete_job(c)
  <2>1. call' \in [Callers -> Call]
    BY <1>2, GotoType DEF delete_job
  <2> QED
    BY <1>0, <1>2, <2>1, AbsentType, SetRowType, ForgetType DEF TypeOK, delete_job
<1>3. CASE update_job(c)
  <2>1. call' \in [Callers -> Call]
    BY <1>3, GotoType DEF update_job
  <2>2. (IF Exists(j) THEN Merged(RowOf(c), r, t) ELSE RowOf(c)) \in Row
    BY <1>0, MergedType
  <2> QED
    BY <1>0, <1>3, <2>1, <2>2, SetRowType DEF TypeOK, update_job
<1>4. CASE heartbeat(c)
  <2>1. call' \in [Callers -> Call]
    BY <1>4, GotoType DEF heartbeat
  <2>2. (IF Exists(j) THEN [RowOf(c) EXCEPT !.hb = t] ELSE RowOf(c)) \in Row
    BY <1>0 DEF Row
  <2> QED
    BY <1>0, <1>4, <2>1, <2>2, SetRowType DEF TypeOK, heartbeat
<1>5. CASE cancel_active_job(c)
  <2> DEFINE hit == RowOf(c).status \in Active
  <2>1. call' \in [Callers -> Call]
    BY <1>5, GotoType DEF cancel_active_job
  <2>2. (IF hit THEN [RowOf(c) EXCEPT !.status = "cancelled", !.hb = t, !.act = t]
         ELSE RowOf(c)) \in Row
    BY <1>0 DEF Row, Status
  <2>3. jobs' \in [JobIds -> Row] /\ seen' \in [Callers -> SUBSET (Status \cup {"absent"})]
    BY <1>0, <1>5, <2>2, SetRowType DEF cancel_active_job
  <2> QED
    BY <1>0, <1>5, <2>1, <2>3 DEF TypeOK, cancel_active_job
<1>6. CASE append_event(c)
  <2>1. call' \in [Callers -> Call]
    BY <1>6, GotoType DEF append_event
  <2>2. [RowOf(c) EXCEPT !.status = Given(r.status, @), !.hb = t, !.act = t,
                         !.log = @ \cup {call[c].id}] \in Row
    BY <1>0 DEF Row, Request, Given
  <2>3. jobs' \in [JobIds -> Row] /\ seen' \in [Callers -> SUBSET (Status \cup {"absent"})]
    BY <1>0, <1>6, <2>2, SetRowType DEF append_event, TypeOK
  <2>4. owed' \in [JobIds -> SUBSET Nat] /\ held' \subseteq JobIds
    BY <1>0, <1>6 DEF append_event, TypeOK
  <2> QED
    BY <1>6, <2>1, <2>3, <2>4 DEF TypeOK, append_event
<1> QED
  BY <1>1, <1>2, <1>3, <1>4, <1>5, <1>6

LEMMA GuardedType ==
    ASSUME TypeOK, NEW c \in Callers, GuardedUpdate(c) \/ GuardedProbe(c)
    PROVE  TypeOK'
<1>1. CASE GuardedUpdate(c)
  <2> InFlight(c)
    BY <1>1 DEF GuardedUpdate, AtStatement
  <2>1. call' \in [Callers -> Call]
    BY <1>1, GotoType DEF GuardedUpdate
  <2>2. Merged(RowOf(c), call[c].req, call[c].t) \in Row /\ JobOf(c) \in JobIds
    BY InFlightType, MergedType DEF Running
  <2>3. jobs' \in [JobIds -> Row] /\ seen' \in [Callers -> SUBSET (Status \cup {"absent"})]
    BY <1>1, <2>2, SetRowType DEF GuardedUpdate, TypeOK
  <2> QED
    BY <1>1, <2>1, <2>3 DEF TypeOK, GuardedUpdate
<1>2. CASE GuardedProbe(c)
  <2>1. call' \in [Callers -> Call]
    BY <1>2, GotoType DEF GuardedProbe
  <2> QED
    BY <1>2, <2>1 DEF TypeOK, GuardedProbe, history
<1> QED
  BY <1>1, <1>2

\* The row a patch writes back.
PatchedRow(c) ==
    [Merged(call[c].buf, call[c].req, now) EXCEPT
        !.hb = now, !.gen = @ + 1, !.log = @ \cup {call[c].id}]

LEMMA PatchedRowType ==
    ASSUME TypeOK, NEW c \in Callers, InFlight(c)
    PROVE  /\ PatchedRow(c) \in Row
           /\ PatchedRow(c).gen = call[c].buf.gen + 1
           /\ PatchedRow(c).log = call[c].buf.log \cup {call[c].id}
           /\ call[c].req.status = Keep => PatchedRow(c).status = call[c].buf.status
<1> DEFINE m == Merged(call[c].buf, call[c].req, now)
<1>1. call[c].buf \in Row /\ call[c].req \in Request /\ now \in Nat /\ call[c].id \in Nat
  BY InFlightType DEF Running, TypeOK
<1>2. /\ m \in Row /\ m.gen = call[c].buf.gen /\ m.log = call[c].buf.log
      /\ call[c].req.status = Keep => m.status = call[c].buf.status
  BY <1>1, MergedType
<1>3. PICK n \in Nat : n = m.gen + 1
  BY <1>2 DEF Row
<1>4. PICK l \in SUBSET Nat : l = m.log \cup {call[c].id}
  BY <1>1, <1>2 DEF Row
<1>5. PatchedRow(c) = [m EXCEPT !.hb = now, !.gen = n, !.log = l]
  BY <1>3, <1>4 DEF PatchedRow
<1> HIDE DEF m
<1>6. [m EXCEPT !.hb = now, !.gen = n, !.log = l] \in Row
  BY <1>1, <1>2, <1>3, <1>4 DEF Row
<1>7. /\ [m EXCEPT !.hb = now, !.gen = n, !.log = l].gen = n
      /\ [m EXCEPT !.hb = now, !.gen = n, !.log = l].log = l
      /\ [m EXCEPT !.hb = now, !.gen = n, !.log = l].status = m.status
  BY <1>2 DEF Row
<1> QED
  BY <1>2, <1>3, <1>4, <1>5, <1>6, <1>7

LEMMA PatchType ==
    ASSUME TypeOK, NEW c \in Callers, PatchSelect(c) \/ PatchWrite(c)
    PROVE  TypeOK'
<1>0. InFlight(c)
  BY DEF PatchSelect, PatchWrite, AtStatement
<1>1. CASE PatchSelect(c)
  <2>1. call[c] \in Running /\ RowOf(c) \in Row /\ JobOf(c) \in JobIds
    BY <1>0, InFlightType
  <2>2. [call[c] EXCEPT !.pc = "locked", !.buf = RowOf(c)] \in Call
    BY <2>1 DEF Running, Call
  <2>3. call' \in [Callers -> Call]
    BY <1>0, <1>1, <2>2, GotoType DEF PatchSelect, TypeOK
  <2>4. lock' \in [JobIds -> Callers \cup {NoCaller}]
    BY <1>1 DEF PatchSelect, TypeOK
  <2> QED
    BY <1>1, <2>3, <2>4 DEF PatchSelect, TypeOK, history
<1>2. CASE PatchWrite(c)
  <2>1. JobOf(c) \in JobIds /\ call[c].id \in Nat /\ PatchedRow(c).gen \in Nat
    BY <1>0, InFlightType, PatchedRowType DEF Running, Row
  <2>2. /\ SetRow(JobOf(c), PatchedRow(c))
        /\ minted' = minted \cup {[job |-> JobOf(c), gen |-> PatchedRow(c).gen,
                                   id |-> call[c].id]}
    BY <1>2 DEF PatchWrite, PatchedRow
  <2>3. jobs' \in [JobIds -> Row] /\ seen' \in [Callers -> SUBSET (Status \cup {"absent"})]
    BY <1>0, <2>1, <2>2, SetRowType, PatchedRowType
  <2>4. call' \in [Callers -> Call]
    BY <1>0, <1>2, GotoType DEF PatchWrite
  <2>5. /\ lock' \in [JobIds -> Callers \cup {NoCaller}]
        /\ owed' \in [JobIds -> SUBSET Nat]
        /\ held' \subseteq JobIds
    BY <1>2, <2>1 DEF PatchWrite, TypeOK
  <2>6. minted' \subseteq [job : JobIds, gen : Nat, id : Nat]
    BY <2>1, <2>2 DEF TypeOK
  <2> QED
    BY <1>2, <2>3, <2>4, <2>5, <2>6 DEF PatchWrite, TypeOK
<1> QED
  BY <1>1, <1>2

LEMMA SweepType ==
    ASSUME TypeOK, NEW c \in Callers, NEW op, NEW victims, NEW st \in Status,
           Sweep(c, op, victims, st)
    PROVE  TypeOK'
<1> DEFINE rows == [j \in JobIds |-> IF j \in victims THEN [jobs[j] EXCEPT !.status = st]
                                    ELSE jobs[j]]
<1>1. rows \in [JobIds -> Row]
  BY DEF TypeOK, Row
<1>2. jobs' \in [JobIds -> Row] /\ seen' \in [Callers -> SUBSET (Status \cup {"absent"})]
  <2> HIDE DEF rows
  <2>1. SetRows(rows)
    BY DEF Sweep, rows
  <2> QED
    BY <1>1, <2>1, SetRowsType
<1>3. call' \in [Callers -> Call]
  BY GotoType DEF Sweep
<1> QED
  BY <1>2, <1>3 DEF Sweep, TypeOK

LEMMA BookkeepingType ==
    ASSUME TypeOK, NEW c \in Callers, Return(c) \/ Abort(c)
    PROVE  TypeOK'
<1>1. Idle \in Call
  BY DEF Call
<1>2. call' \in [Callers -> Call] /\ seen' \in [Callers -> SUBSET (Status \cup {"absent"})]
  BY <1>1 DEF Return, Abort, TypeOK
<1>3. lock' \in [JobIds -> Callers \cup {NoCaller}]
  BY DEF Return, Abort, TypeOK
<1> QED
  BY <1>2, <1>3 DEF Return, Abort, TypeOK

LEMMA TypeCorrectStep == TypeOK /\ [Next]_vars => TypeOK'
<1> SUFFICES ASSUME TypeOK, [Next]_vars PROVE TypeOK'
  OBVIOUS
<1>1. CASE Tick
  BY <1>1 DEF Tick, TypeOK, history
<1>2. CASE UNCHANGED vars
  BY <1>2 DEF vars, history, TypeOK
<1>3. ASSUME NEW c \in Callers, CallerStep(c) PROVE TypeOK'
  <2>1. CASE \E r \in Requests : Begin(c, r)
    BY <2>1, BeginType
  <2>2. CASE \/ create_job(c) \/ replace_job(c) \/ delete_job(c) \/ update_job(c)
             \/ heartbeat(c) \/ cancel_active_job(c) \/ append_event(c)
    BY <2>2, RowOperationType
  <2>3. CASE GuardedUpdate(c) \/ GuardedProbe(c)
    BY <2>3, GuardedType
  <2>4. CASE PatchSelect(c) \/ PatchWrite(c)
    BY <2>4, PatchType
  <2>5. CASE \/ mark_stale_active_jobs_failed(c) \/ mark_all_active_jobs_failed(c)
             \/ mark_all_active_jobs_interrupted(c)
    <3> "failed" \in Status /\ "interrupted" \in Status
      BY DEF Status
    <3> QED
      BY <2>5, SweepType DEF mark_stale_active_jobs_failed, mark_all_active_jobs_failed,
                             mark_all_active_jobs_interrupted
  <2>6. CASE Return(c) \/ Abort(c)
    BY <2>6, BookkeepingType
  <2> QED
    BY <1>3, <2>1, <2>2, <2>3, <2>4, <2>5, <2>6 DEF CallerStep
<1> QED
  BY <1>1, <1>2, <1>3 DEF Next

\* The jobs table and the requests in flight keep their types (db.py).
THEOREM TypeCorrect == Spec => []TypeOK
BY TypeCorrectInit, TypeCorrectStep, PTL DEF Spec

-----------------------------------------------------------------------------
(***************************************************************************)
(* The inductive invariant.  PatchOwnsItsRow makes the buffered row of a   *)
(* patch the present row, which the other conjuncts need at PatchWrite;    *)
(* CounterBound makes the incremented counter a fresh value.               *)
(***************************************************************************)
StoreInv ==
    /\ PatchOwnsItsRow
    /\ CancelHolds
    /\ NoLostAppend
    /\ CounterBound
    /\ CounterValuesDistinct

LEMMA StoreInvInit == Init => StoreInv
BY DEF Init, StoreInv, PatchOwnsItsRow, CancelHolds, NoLostAppend, CounterBound,
       CounterValuesDistinct, Idle, InFlight

\* A write to the row of one request, which no transaction holds.
LEMMA RowWrite ==
    ASSUME TypeOK, StoreInv, NEW c \in Callers, InFlight(c), call[c].pc = "sent",
           NEW j \in JobIds, j = JobOf(c), lock[j] = NoCaller,
           NEW row \in Row, SetRow(j, row), NEW ret, Goto(c, "done", ret), UNCHANGED lock,
           \A k \in JobIds : k # j => owed'[k] = owed[k],
           owed'[j] \subseteq row.log,
           \A k \in held' : k = j \/ k \in held,
           j \in held' => row.status = "cancelled",
           minted' \subseteq minted,
           \A m \in minted' : m.job = j => m.gen <= row.gen
    PROVE  StoreInv'
<1>0. /\ jobs' = [jobs EXCEPT ![j] = row]
      /\ jobs'[j] = row
      /\ \A k \in JobIds : k # j => jobs'[k] = jobs[k]
  BY DEF SetRow, SetRows, TypeOK
<1>1. PatchOwnsItsRow'
  <2> SUFFICES ASSUME NEW d \in Callers, InFlight(d)', call'[d].pc = "locked"
               PROVE  lock'[JobOf(d)'] = d /\ jobs'[JobOf(d)'] = call'[d].buf
    BY DEF PatchOwnsItsRow, RowOf
  <2>1. d # c
    BY InFlightType DEF Goto, TypeOK, Running
  <2>2. call'[d] = call[d]
    BY <2>1 DEF Goto, TypeOK
  <2>3. InFlight(d) /\ JobOf(d)' = JobOf(d) /\ JobOf(d) \in JobIds
    BY <2>2, InFlightType DEF InFlight, JobOf
  <2>4. lock[JobOf(d)] = d /\ jobs[JobOf(d)] = call[d].buf
    BY <2>2, <2>3 DEF StoreInv, PatchOwnsItsRow, RowOf
  <2>5. JobOf(d) # j
    BY <2>4, JobStoreAssumption
  <2> QED
    BY <1>0, <2>2, <2>3, <2>4, <2>5
<1>2. CancelHolds'
  BY <1>0 DEF StoreInv, CancelHolds, TypeOK
<1>3. NoLostAppend'
  BY <1>0 DEF StoreInv, NoLostAppend
<1>4. CounterBound'
  <2> SUFFICES ASSUME NEW m \in minted' PROVE m.gen <= jobs'[m.job].gen
    BY DEF CounterBound
  <2>1. m \in minted /\ m.job \in JobIds
    BY DEF TypeOK
  <2> QED
    BY <1>0, <2>1 DEF StoreInv, CounterBound
<1>5. CounterValuesDistinct'
  BY DEF StoreInv, CounterValuesDistinct
<1> QED
  BY <1>1, <1>2, <1>3, <1>4, <1>5 DEF StoreInv

\* A request that only moves along, and does not enter the lock.
LEMMA NoRowChange ==
    ASSUME TypeOK, StoreInv, NEW c \in Callers, InFlight(c),
           NEW pc, pc # "locked", NEW ret, Goto(c, pc, ret),
           UNCHANGED <<jobs, lock, owed, minted, held>>
    PROVE  StoreInv'
<1>1. PatchOwnsItsRow'
  <2> SUFFICES ASSUME NEW d \in Callers, InFlight(d)', call'[d].pc = "locked"
               PROVE  lock'[JobOf(d)'] = d /\ jobs'[JobOf(d)'] = call'[d].buf
    BY DEF PatchOwnsItsRow, RowOf
  <2>1. d # c
    BY InFlightType DEF Goto, TypeOK, Running
  <2>2. call'[d] = call[d]
    BY <2>1 DEF Goto, TypeOK
  <2> QED
    BY <2>2 DEF StoreInv, PatchOwnsItsRow, RowOf, InFlight, JobOf
<1> QED
  BY <1>1 DEF StoreInv, CancelHolds, NoLostAppend, CounterBound, CounterValuesDistinct

LEMMA RowOperationInv ==
    ASSUME TypeOK, StoreInv, NEW c \in Callers,
           \/ create_job(c) \/ replace_job(c) \/ delete_job(c) \/ update_job(c)
           \/ heartbeat(c) \/ cancel_active_job(c) \/ append_event(c)
    PROVE  StoreInv'
<1> DEFINE j == JobOf(c)
           r == call[c].req
           t == call[c].t
<1>0. /\ InFlight(c) /\ call[c].pc = "sent" /\ lock[j] = NoCaller
  BY DEF AtStatement, create_job, replace_job, delete_job, update_job, heartbeat,
         cancel_active_job, append_event
<1>1. /\ j \in JobIds /\ RowOf(c) \in Row /\ RowOf(c) = jobs[j]
      /\ r \in Request /\ t \in Nat /\ call[c].id \in Nat
  BY <1>0, InFlightType DEF Running, RowOf
<1>2. /\ \A m \in minted : m.job = j => m.gen <= RowOf(c).gen
      /\ owed[j] \subseteq RowOf(c).log
      /\ j \in held => RowOf(c).status = "cancelled"
      /\ held \subseteq JobIds
  BY <1>1 DEF StoreInv, CounterBound, NoLostAppend, CancelHolds, TypeOK
<1>3. ASSUME NEW row \in Row, NEW ret, SetRow(j, row), Forget(j), Goto(c, "done", ret),
             UNCHANGED lock
      PROVE  StoreInv'
  <2>1. /\ \A k \in JobIds : k # j => owed'[k] = owed[k]
        /\ owed'[j] = {} /\ held' = held \ {j}
        /\ minted' \subseteq minted /\ \A m \in minted' : m.job # j
    BY <1>1, <1>3 DEF Forget, TypeOK
  <2> QED
    BY <1>0, <1>1, <1>3, <2>1, RowWrite
<1>4. CASE create_job(c) \/ replace_job(c)
  BY <1>1, <1>3, <1>4, UpsertedType DEF create_job, replace_job
<1>5. CASE delete_job(c)
  BY <1>3, <1>5, AbsentType DEF delete_job
<1>6. CASE update_job(c)
  <2> DEFINE row == IF Exists(j) THEN Merged(RowOf(c), r, t) ELSE RowOf(c)
  <2>1. /\ row \in Row /\ row.gen = RowOf(c).gen /\ row.log = RowOf(c).log
        /\ r.status = Keep => row.status = RowOf(c).status
    BY <1>1, MergedType
  <2>2. /\ SetRow(j, row) /\ Goto(c, "done", "none")
        /\ UNCHANGED <<lock, owed, minted>>
        /\ held' = IF r.status = Keep THEN held ELSE held \ {j}
    BY <1>6 DEF update_job
  <2> HIDE DEF row
  <2> QED
    BY <1>0, <1>1, <1>2, <2>1, <2>2, RowWrite
<1>7. CASE heartbeat(c)
  <2> DEFINE row == IF Exists(j) THEN [RowOf(c) EXCEPT !.hb = t] ELSE RowOf(c)
  <2>1. /\ row \in Row /\ row.gen = RowOf(c).gen /\ row.log = RowOf(c).log
        /\ row.status = RowOf(c).status
    BY <1>1 DEF Row
  <2>2. SetRow(j, row) /\ UNCHANGED <<lock, owed, minted, held>>
    BY <1>7 DEF heartbeat
  <2>3. PICK ret : Goto(c, "done", ret)
    BY <1>7 DEF heartbeat
  <2> HIDE DEF row
  <2> QED
    BY <1>0, <1>1, <1>2, <2>1, <2>2, <2>3, RowWrite
<1>8. CASE cancel_active_job(c)
  <2> DEFINE hit == RowOf(c).status \in Active
             row == IF hit THEN [RowOf(c) EXCEPT !.status = "cancelled", !.hb = t, !.act = t]
                    ELSE RowOf(c)
  <2>1. /\ row \in Row /\ row.gen = RowOf(c).gen /\ row.log = RowOf(c).log
        /\ row.status = IF hit THEN "cancelled" ELSE RowOf(c).status
    BY <1>1 DEF Row, Status
  <2>2. /\ SetRow(j, row) /\ UNCHANGED <<lock, owed, minted>>
        /\ held' = IF hit THEN held \cup {j} ELSE held
    BY <1>8 DEF cancel_active_job
  <2>3. PICK ret : Goto(c, "done", ret)
    BY <1>8 DEF cancel_active_job
  <2> HIDE DEF row, hit
  <2> QED
    BY <1>0, <1>1, <1>2, <2>1, <2>2, <2>3, RowWrite
<1>9. CASE append_event(c)
  <2> DEFINE row == [RowOf(c) EXCEPT !.status = Given(r.status, @), !.hb = t, !.act = t,
                                     !.log = @ \cup {call[c].id}]
  <2>1. /\ row \in Row /\ row.gen = RowOf(c).gen
        /\ row.log = RowOf(c).log \cup {call[c].id}
        /\ r.status = Keep => row.status = RowOf(c).status
    BY <1>1 DEF Row, Request, Given
  <2>2. Goto(c, "done", "none") /\ UNCHANGED <<lock, minted>>
    BY <1>9 DEF append_event
  <2>3. CASE Exists(j)
    <3>1. /\ SetRow(j, row)
          /\ owed' = [owed EXCEPT ![j] = @ \cup {call[c].id}]
          /\ held' = IF r.status = Keep THEN held ELSE held \ {j}
      BY <1>9, <2>3 DEF append_event
    <3>2. owed'[j] = owed[j] \cup {call[c].id} /\ \A k \in JobIds : k # j => owed'[k] = owed[k]
      BY <1>1, <3>1 DEF TypeOK
    <3> HIDE DEF row
    <3> QED
      BY <1>0, <1>1, <1>2, <2>1, <2>2, <3>1, <3>2, RowWrite
  <2>4. CASE ~Exists(j)
    <3>1. UNCHANGED <<jobs, seen, owed, held>>
      BY <1>9, <2>4 DEF append_event
    <3> QED
      BY <1>0, <2>2, <3>1, NoRowChange
  <2> QED
    BY <2>3, <2>4
<1> QED
  BY <1>4, <1>5, <1>6, <1>7, <1>8, <1>9

\* Here the status guard is what keeps a confirmed cancellation.
LEMMA GuardedInv ==
    ASSUME TypeOK, StoreInv, NEW c \in Callers, GuardedUpdate(c) \/ GuardedProbe(c)
    PROVE  StoreInv'
<1>1. CASE GuardedUpdate(c) /\ RowOf(c).status \notin {"absent", "cancelled"}
  <2> DEFINE j == JobOf(c)
             row == Merged(RowOf(c), call[c].req, call[c].t)
  <2>1. InFlight(c) /\ call[c].pc = "sent" /\ lock[j] = NoCaller
    BY <1>1 DEF GuardedUpdate, AtStatement
  <2>2. /\ j \in JobIds /\ RowOf(c) \in Row /\ RowOf(c) = jobs[j]
        /\ row \in Row /\ row.gen = RowOf(c).gen /\ row.log = RowOf(c).log
    BY <2>1, InFlightType, MergedType DEF Running, RowOf
  <2>3. SetRow(j, row) /\ Goto(c, "done", "true") /\ UNCHANGED <<lock, owed, minted, held>>
    BY <1>1 DEF GuardedUpdate
  <2>4. /\ \A m \in minted : m.job = j => m.gen <= RowOf(c).gen
        /\ owed[j] \subseteq RowOf(c).log
        /\ j \notin held
    BY <1>1, <2>2 DEF StoreInv, CounterBound, NoLostAppend, CancelHolds
  <2> HIDE DEF row
  <2> QED
    BY <2>1, <2>2, <2>3, <2>4, RowWrite
<1>2. CASE GuardedUpdate(c) /\ RowOf(c).status \in {"absent", "cancelled"}
  BY <1>2, NoRowChange DEF GuardedUpdate, AtStatement
<1>3. CASE GuardedProbe(c)
  <2>1. PICK ret : Goto(c, "done", ret)
    BY <1>3 DEF GuardedProbe
  <2> QED
    BY <1>3, <2>1, NoRowChange DEF GuardedProbe, history
<1> QED
  BY <1>1, <1>2, <1>3

LEMMA PatchSelectInv ==
    ASSUME TypeOK, StoreInv, NEW c \in Callers, PatchSelect(c)
    PROVE  StoreInv'
<1>0. InFlight(c) /\ call[c].pc = "sent" /\ lock[JobOf(c)] = NoCaller
  BY DEF PatchSelect, AtStatement
<1>1. CASE ~Exists(JobOf(c))
  BY <1>0, <1>1, NoRowChange DEF PatchSelect, history
<1>2. CASE Exists(JobOf(c))
  <2>0. call[c] \in Running /\ JobOf(c) \in JobIds /\ RowOf(c) \in Row
    BY <1>0, InFlightType
  <2>1. /\ lock' = [lock EXCEPT ![JobOf(c)] = c]
        /\ call' = [call EXCEPT ![c] = [call[c] EXCEPT !.pc = "locked", !.buf = RowOf(c)]]
        /\ jobs' = jobs
    BY <1>2 DEF PatchSelect, TypeOK
  <2>2. PatchOwnsItsRow'
    <3> SUFFICES ASSUME NEW d \in Callers, InFlight(d)', call'[d].pc = "locked"
                 PROVE  lock'[JobOf(d)'] = d /\ jobs'[JobOf(d)'] = call'[d].buf
      BY DEF PatchOwnsItsRow, RowOf
    <3>1. CASE d = c
      <4>1. call'[c].req = call[c].req /\ call'[c].buf = RowOf(c)
        BY <2>0, <2>1 DEF TypeOK, Running
      <4> QED
        BY <2>0, <2>1, <3>1, <4>1 DEF TypeOK, JobOf, RowOf
    <3>2. CASE d # c
      <4>1. call'[d] = call[d]
        BY <2>1, <3>2 DEF TypeOK
      <4>2. InFlight(d) /\ JobOf(d)' = JobOf(d)
        BY <4>1 DEF InFlight, JobOf
      <4>3. lock[JobOf(d)] = d /\ jobs[JobOf(d)] = call[d].buf
        BY <4>1, <4>2 DEF StoreInv, PatchOwnsItsRow, RowOf
      <4>4. JobOf(d) # JobOf(c)
        BY <1>0, <4>3, JobStoreAssumption
      <4> QED
        BY <2>1, <4>1, <4>2, <4>3, <4>4 DEF TypeOK
    <3> QED
      BY <3>1, <3>2
  <2> QED
    BY <2>1, <2>2 DEF StoreInv, PatchSelect, history, CancelHolds, NoLostAppend,
                      CounterBound, CounterValuesDistinct
<1> QED
  BY <1>1, <1>2

\* The buffer is the present row, so writing it back loses nothing, and the
\* incremented counter exceeds every value handed out.
LEMMA PatchWriteInv ==
    ASSUME TypeOK, StoreInv, NEW c \in Callers, PatchWrite(c)
    PROVE  StoreInv'
<1> DEFINE j == JobOf(c)
           row == PatchedRow(c)
<1>0. InFlight(c) /\ call[c].pc = "locked"
  BY DEF PatchWrite
<1>1. /\ call[c] \in Running /\ j \in JobIds /\ jobs[j] \in Row
      /\ lock[j] = c /\ call[c].buf = jobs[j]
  BY <1>0, InFlightType DEF StoreInv, PatchOwnsItsRow, RowOf
<1>2. /\ row \in Row /\ row.gen = jobs[j].gen + 1
      /\ row.log = jobs[j].log \cup {call[c].id}
      /\ call[c].req.status = Keep => row.status = jobs[j].status
  BY <1>0, <1>1, PatchedRowType
<1>3. /\ SetRow(j, row) /\ Goto(c, "done", "true")
      /\ lock' = [lock EXCEPT ![j] = NoCaller]
      /\ owed' = [owed EXCEPT ![j] = @ \cup {call[c].id}]
      /\ minted' = minted \cup {[job |-> j, gen |-> row.gen, id |-> call[c].id]}
      /\ held' = IF call[c].req.status = Keep THEN held ELSE held \ {j}
  BY DEF PatchWrite, PatchedRow
<1> HIDE DEF row
<1>4. jobs' = [jobs EXCEPT ![j] = row]
  BY <1>3 DEF SetRow, SetRows
<1>5. PatchOwnsItsRow'
  <2> SUFFICES ASSUME NEW d \in Callers, InFlight(d)', call'[d].pc = "locked"
               PROVE  lock'[JobOf(d)'] = d /\ jobs'[JobOf(d)'] = call'[d].buf
    BY DEF PatchOwnsItsRow, RowOf
  <2>1. d # c
    BY <1>1, <1>3 DEF Goto, TypeOK, Running
  <2>2. call'[d] = call[d]
    BY <1>3, <2>1 DEF Goto, TypeOK
  <2>3. InFlight(d) /\ JobOf(d)' = JobOf(d)
    BY <2>2 DEF InFlight, JobOf
  <2>4. lock[JobOf(d)] = d /\ jobs[JobOf(d)] = call[d].buf
    BY <2>2, <2>3 DEF StoreInv, PatchOwnsItsRow, RowOf
  <2> QED
    BY <1>1, <1>3, <1>4, <2>1, <2>2, <2>3, <2>4 DEF TypeOK
<1>6. CancelHolds'
  BY <1>1, <1>2, <1>3, <1>4 DEF StoreInv, CancelHolds, TypeOK
<1>7. NoLostAppend'
  BY <1>1, <1>2, <1>3, <1>4 DEF StoreInv, NoLostAppend, TypeOK
<1>8. \A m \in minted : m.job = j => m.gen < row.gen /\ m.gen \in Nat
  BY <1>1, <1>2 DEF StoreInv, CounterBound, TypeOK, Row
<1>9. CounterBound'
  <2> SUFFICES ASSUME NEW m \in minted' PROVE m.gen <= jobs'[m.job].gen
    BY DEF CounterBound
  <2>1. CASE m \in minted
    BY <1>1, <1>2, <1>4, <1>8, <2>1 DEF StoreInv, CounterBound, TypeOK, Row
  <2>2. CASE m = [job |-> j, gen |-> row.gen, id |-> call[c].id]
    BY <1>1, <1>2, <1>4, <2>2 DEF TypeOK, Row
  <2> QED
    BY <1>3, <2>1, <2>2
<1>10. CounterValuesDistinct'
  BY <1>3, <1>8 DEF StoreInv, CounterValuesDistinct
<1> QED
  BY <1>5, <1>6, <1>7, <1>9, <1>10 DEF StoreInv

LEMMA SweepInv ==
    ASSUME TypeOK, StoreInv, NEW c \in Callers, NEW op, NEW victims \in SUBSET JobIds,
           NEW st \in Status, \A j \in victims : Sweepable(j), Sweep(c, op, victims, st)
    PROVE  StoreInv'
<1>1. /\ InFlight(c) /\ call[c].pc = "sent" /\ Goto(c, "done", "none")
      /\ \A j \in victims : lock[j] = NoCaller
      /\ UNCHANGED <<lock, owed, minted, held>>
      /\ jobs' = [j \in JobIds |-> IF j \in victims THEN [jobs[j] EXCEPT !.status = st]
                                   ELSE jobs[j]]
  BY DEF Sweep, SetRows
<1>2. ASSUME NEW j \in JobIds
      PROVE  /\ jobs'[j].gen = jobs[j].gen /\ jobs'[j].log = jobs[j].log
             /\ j \notin victims => jobs'[j] = jobs[j]
  BY <1>1 DEF TypeOK, Row
<1>3. PatchOwnsItsRow'
  <2> SUFFICES ASSUME NEW d \in Callers, InFlight(d)', call'[d].pc = "locked"
               PROVE  lock'[JobOf(d)'] = d /\ jobs'[JobOf(d)'] = call'[d].buf
    BY DEF PatchOwnsItsRow, RowOf
  <2>1. d # c
    BY <1>1, InFlightType DEF Goto, TypeOK, Running
  <2>2. call'[d] = call[d]
    BY <1>1, <2>1 DEF Goto, TypeOK
  <2>3. InFlight(d) /\ JobOf(d)' = JobOf(d) /\ JobOf(d) \in JobIds
    BY <2>2, InFlightType DEF InFlight, JobOf
  <2>4. lock[JobOf(d)] = d /\ jobs[JobOf(d)] = call[d].buf
    BY <2>2, <2>3 DEF StoreInv, PatchOwnsItsRow, RowOf
  <2>5. JobOf(d) \notin victims
    BY <1>1, <2>4, JobStoreAssumption
  <2> QED
    BY <1>1, <1>2, <2>2, <2>3, <2>4, <2>5
<1>4. CancelHolds'
  <2>1. \A j \in held : j \in JobIds /\ j \notin victims
    BY DEF StoreInv, CancelHolds, Sweepable, Active, TypeOK
  <2> QED
    BY <1>1, <1>2, <2>1 DEF StoreInv, CancelHolds
<1>5. NoLostAppend' /\ CounterBound' /\ CounterValuesDistinct'
  BY <1>1, <1>2 DEF StoreInv, NoLostAppend, CounterBound, CounterValuesDistinct, TypeOK
<1> QED
  BY <1>3, <1>4, <1>5 DEF StoreInv

\* Arrival, answer, loss of a request, and time: no row changes, and no
\* request other than c moves.
LEMMA BookkeepingInv ==
    ASSUME TypeOK, StoreInv, NEW c \in Callers,
           (\E r \in Requests : Begin(c, r)) \/ Return(c) \/ Abort(c)
    PROVE  StoreInv'
<1>1. /\ UNCHANGED <<jobs, owed, minted, held>>
      /\ \A d \in Callers : d # c => call'[d] = call[d]
      /\ call'[c].pc # "locked"
      /\ \A j \in JobIds : lock[j] # c => lock'[j] = lock[j]
  <2>1. CASE \E r \in Requests : Begin(c, r)
    BY <2>1 DEF Begin, TypeOK
  <2>2. CASE Return(c) \/ Abort(c)
    BY <2>2 DEF Return, Abort, Idle, TypeOK
  <2> QED
    BY <2>1, <2>2
<1>2. PatchOwnsItsRow'
  <2> SUFFICES ASSUME NEW d \in Callers, InFlight(d)', call'[d].pc = "locked"
               PROVE  lock'[JobOf(d)'] = d /\ jobs'[JobOf(d)'] = call'[d].buf
    BY DEF PatchOwnsItsRow, RowOf
  <2>1. call'[d] = call[d] /\ d # c
    BY <1>1
  <2>2. InFlight(d) /\ JobOf(d)' = JobOf(d) /\ JobOf(d) \in JobIds
    BY <2>1, InFlightType DEF InFlight, JobOf
  <2> QED
    BY <1>1, <2>1, <2>2 DEF StoreInv, PatchOwnsItsRow, RowOf
<1> QED
  BY <1>1, <1>2 DEF StoreInv, CancelHolds, NoLostAppend, CounterBound, CounterValuesDistinct

LEMMA StoreInvStep == TypeOK /\ StoreInv /\ [Next]_vars => StoreInv'
<1> SUFFICES ASSUME TypeOK, StoreInv, [Next]_vars PROVE StoreInv'
  OBVIOUS
<1>1. CASE Tick \/ UNCHANGED vars
  BY <1>1 DEF Tick, vars, history, StoreInv, PatchOwnsItsRow, InFlight, JobOf, RowOf, CancelHolds,
              NoLostAppend, CounterBound, CounterValuesDistinct
<1>2. ASSUME NEW c \in Callers, CallerStep(c) PROVE StoreInv'
  <2>1. CASE (\E r \in Requests : Begin(c, r)) \/ Return(c) \/ Abort(c)
    BY <2>1, BookkeepingInv
  <2>2. CASE \/ create_job(c) \/ replace_job(c) \/ delete_job(c) \/ update_job(c)
             \/ heartbeat(c) \/ cancel_active_job(c) \/ append_event(c)
    BY <2>2, RowOperationInv
  <2>3. CASE GuardedUpdate(c) \/ GuardedProbe(c)
    BY <2>3, GuardedInv
  <2>4. CASE PatchSelect(c)
    BY <2>4, PatchSelectInv
  <2>5. CASE PatchWrite(c)
    BY <2>5, PatchWriteInv
  <2>6. CASE mark_stale_active_jobs_failed(c)
    <3> DEFINE victims == {j \in JobIds : Sweepable(j) /\ jobs[j].hb < call[c].t - Stale}
    <3>1. Sweep(c, "sweep", victims, "failed") /\ \A j \in victims : Sweepable(j)
      BY <2>6 DEF mark_stale_active_jobs_failed
    <3>2. victims \in SUBSET JobIds /\ "failed" \in Status
      BY DEF Status
    <3> QED
      BY <3>1, <3>2, SweepInv
  <2>7. CASE mark_all_active_jobs_failed(c) \/ mark_all_active_jobs_interrupted(c)
    <3> DEFINE victims == {j \in JobIds : Sweepable(j)}
    <3>1. /\ victims \in SUBSET JobIds /\ \A j \in victims : Sweepable(j)
          /\ "failed" \in Status /\ "interrupted" \in Status
      BY DEF Status
    <3>2. CASE mark_all_active_jobs_failed(c)
      BY <3>1, <3>2, SweepInv DEF mark_all_active_jobs_failed
    <3>3. CASE mark_all_active_jobs_interrupted(c)
      BY <3>1, <3>3, SweepInv DEF mark_all_active_jobs_interrupted
    <3> QED
      BY <2>7, <3>2, <3>3
  <2> QED
    BY <1>2, <2>1, <2>2, <2>3, <2>4, <2>5, <2>6, <2>7 DEF CallerStep
<1> QED
  BY <1>1, <1>2 DEF Next

LEMMA StoreInvHolds == Spec => []StoreInv
<1>1. TypeOK /\ StoreInv /\ [Next]_vars => (TypeOK /\ StoreInv)'
  BY TypeCorrectStep, StoreInvStep
<1> QED
  BY <1>1, StoreInvInit, TypeCorrectInit, PTL DEF Spec

\* FOR UPDATE gives apply_patch the present row for as long as it needs it.
THEOREM PatchIsolation == Spec => []PatchOwnsItsRow
BY StoreInvHolds, PTL DEF StoreInv

\* A confirmed cancellation stands until a write that is meant to be unguarded.
THEOREM CancellationStands == Spec => []CancelHolds
BY StoreInvHolds, PTL DEF StoreInv

\* No item appended by append_event or apply_patch is lost.
THEOREM AppendsKept == Spec => []NoLostAppend
BY StoreInvHolds, PTL DEF StoreInv

\* No two increments of a counter read back the same value.
THEOREM CountersUnique == Spec => []CounterValuesDistinct
BY StoreInvHolds, PTL DEF StoreInv

-------------------------------------------------------------------------------
(***************************************************************************)
(* The answers of update_job_if_not_cancelled.  Between its UPDATE, which  *)
(* found no row to write, and its SELECT the row may change.  A cancelled  *)
(* row that is gone by then is reported as missing, which it is; a missing *)
(* row must not come back, or it would be reported as cancelled.  It comes *)
(* back only by a create, which a job id of its own rules out, or by a     *)
(* replace, which the teams that write guarded never ask for.              *)
(***************************************************************************)

\* replace_job serves reset_job of the software engineering team, guarded writes
\* the backtest, branding and job matching teams: jobs belong to one team.
GuardedNotReplaced ==
    \A r, s \in Requests : r.op = "guarded" /\ s.op = "replace" => r.job # s.job

Guarding(c) == InFlight(c) /\ call[c].req.op = "guarded"

MissReason(c) == "cancelled" \in seen[c] \/ RowOf(c).status = "absent"

AnswerTrue(c) ==
    CASE call[c].ret = "false" -> "cancelled" \in seen[c]
      [] call[c].ret = "none" -> "absent" \in seen[c]
      [] call[c].ret = "true" -> seen[c] \ {"absent", "cancelled"} # {}

NotCreated(j) ==
    /\ j \in used
    /\ \A d \in Callers : InFlight(d) /\ call[d].req.op = "create" => JobOf(d) # j

AnswerInv ==
    /\ \A c \in Callers : InFlight(c) => RowOf(c).status \in seen[c]
    /\ \A c \in Callers : InFlight(c) /\ call[c].pc = "locked" =>
         ~Guarding(c) /\ call[c].buf.status # "absent"
    /\ \A c \in Callers : InFlight(c) /\ call[c].pc = "probe" => Guarding(c) /\ MissReason(c)
    /\ \A c \in Callers : Guarding(c) => NotCreated(JobOf(c))
    /\ \A c \in Callers : Guarding(c) /\ call[c].pc = "done" => AnswerTrue(c)

\* A request moves along: what it has seen it keeps, and no row that a guarded
\* write misses comes into being.
LEMMA MoveKeepsAnswers ==
    ASSUME TypeOK, AnswerInv, NEW c \in Callers, InFlight(c),
           \A d \in Callers : d # c => call'[d] = call[d],
           InFlight(c)', call'[c].req = call[c].req, UNCHANGED used,
           \A d \in Callers : InFlight(d) => jobs'[JobOf(d)].status \in seen'[d] /\ seen[d] \subseteq seen'[d],
           \A j \in JobIds : jobs[j].status = "absent" /\ jobs'[j].status # "absent"
               => \A d \in Callers : Guarding(d) => JobOf(d) # j,
           call'[c].pc = "locked" => ~Guarding(c) /\ call'[c].buf.status # "absent",
           call'[c].pc = "probe" => Guarding(c) /\ MissReason(c),
           Guarding(c) /\ call'[c].pc = "done" => AnswerTrue(c)'
    PROVE  AnswerInv'
<1>1. ASSUME NEW d \in Callers
      PROVE  /\ InFlight(d)' = InFlight(d) /\ JobOf(d)' = JobOf(d)
             /\ Guarding(d)' = Guarding(d) /\ call'[d].req = call[d].req
             /\ InFlight(d) => JobOf(d) \in JobIds
  <2>1. CASE d = c BY <2>1, InFlightType DEF JobOf, Guarding
  <2>2. CASE d # c
    <3>1. call'[d] = call[d] BY <2>2
    <3> QED BY <3>1, InFlightType DEF InFlight, JobOf, Guarding
  <2> QED BY <2>1, <2>2
<1>2. ASSUME NEW d \in Callers, InFlight(d)
      PROVE  /\ RowOf(d)'.status \in seen'[d]
             /\ seen[d] \subseteq seen'[d]
             /\ Guarding(d) /\ MissReason(d) => MissReason(d)'
  <2>1. RowOf(d)' = jobs'[JobOf(d)] /\ RowOf(d) = jobs[JobOf(d)] BY <1>1 DEF RowOf
  <2>2. RowOf(d)'.status \in seen'[d] /\ seen[d] \subseteq seen'[d] BY <1>2, <2>1
  <2>3. ASSUME Guarding(d), MissReason(d) PROVE MissReason(d)'
    BY <1>1, <1>2, <2>1, <2>2, <2>3 DEF MissReason
  <2> QED BY <2>2, <2>3
<1>3. ASSUME NEW d \in Callers, Guarding(d) PROVE NotCreated(JobOf(d))'
  <2>1. NotCreated(JobOf(d)) BY <1>3 DEF AnswerInv
  <2> QED BY <1>1, <2>1 DEF NotCreated
<1>4. ASSUME NEW d \in Callers, Guarding(d), call'[d].pc = "done" PROVE AnswerTrue(d)'
  <2>1. CASE d = c BY <1>4, <2>1
  <2>2. CASE d # c
    <3>1. call'[d] = call[d] /\ AnswerTrue(d) BY <1>4, <2>2 DEF AnswerInv
    <3>2. seen[d] \subseteq seen'[d] BY <1>2, <1>4 DEF Guarding
    <3>3. call[d].ret \in {"none", "true", "false"} BY <1>4, InFlightType DEF Running, Guarding
    <3> QED BY <3>1, <3>2, <3>3 DEF AnswerTrue
  <2> QED BY <2>1, <2>2
<1>5. ASSUME NEW d \in Callers, InFlight(d), call'[d].pc = "locked"
      PROVE  ~Guarding(d) /\ call'[d].buf.status # "absent"
  BY <1>5 DEF AnswerInv
<1>6. ASSUME NEW d \in Callers, InFlight(d), call'[d].pc = "probe"
      PROVE  Guarding(d) /\ MissReason(d)'
  <2>1. Guarding(d) /\ MissReason(d) BY <1>6 DEF AnswerInv
  <2> QED BY <1>2, <1>6, <2>1
<1> QED BY <1>1, <1>2, <1>3, <1>4, <1>5, <1>6 DEF AnswerInv

\* What SetRows shows the requests in flight.
LEMMA RowsSeen ==
    ASSUME TypeOK, NEW rows \in [JobIds -> Row], SetRows(rows)
    PROVE  \A d \in Callers : InFlight(d) =>
               jobs'[JobOf(d)].status \in seen'[d] /\ seen[d] \subseteq seen'[d]
BY DEF SetRows, TypeOK

\* Moving a request along by Goto.
LEMMA GotoFacts ==
    ASSUME TypeOK, NEW c \in Callers, InFlight(c), NEW pc, pc # "idle", NEW ret, Goto(c, pc, ret)
    PROVE  /\ \A d \in Callers : d # c => call'[d] = call[d]
           /\ InFlight(c)' /\ call'[c].req = call[c].req
           /\ call'[c].pc = pc /\ call'[c].ret = ret
<1>1. call[c] \in Running BY InFlightType
<1>2. call'[c] = [call[c] EXCEPT !.pc = pc, !.ret = ret] BY DEF Goto, TypeOK
<1>3. call'[c].req = call[c].req /\ call'[c].pc = pc /\ call'[c].ret = ret
  BY <1>1, <1>2 DEF Running
<1>4. \A d \in Callers : d # c => call'[d] = call[d] BY DEF Goto, TypeOK
<1> QED BY <1>3, <1>4 DEF InFlight

\* One statement that is not part of a guarded write.
LEMMA StatementKeepsAnswers ==
    ASSUME TypeOK, AnswerInv, NEW c \in Callers, InFlight(c), call[c].req.op # "guarded",
           NEW rows \in [JobIds -> Row], SetRows(rows), NEW ret, Goto(c, "done", ret),
           UNCHANGED used,
           \A j \in JobIds : jobs[j].status = "absent" /\ rows[j].status # "absent"
               => \A d \in Callers : Guarding(d) => JobOf(d) # j
    PROVE  AnswerInv'
<1>1. jobs' = rows BY DEF SetRows
<1>2. \A d \in Callers : InFlight(d) =>
          jobs'[JobOf(d)].status \in seen'[d] /\ seen[d] \subseteq seen'[d]
  BY RowsSeen
<1>3. /\ \A d \in Callers : d # c => call'[d] = call[d]
      /\ InFlight(c)' /\ call'[c].req = call[c].req /\ call'[c].pc = "done"
  BY GotoFacts
<1>4. ~Guarding(c) BY DEF Guarding
<1> QED BY <1>1, <1>2, <1>3, <1>4, MoveKeepsAnswers

LEMMA RowStatementKeepsAnswers ==
    ASSUME TypeOK, AnswerInv, NEW c \in Callers, InFlight(c), call[c].req.op # "guarded",
           NEW row \in Row, SetRow(JobOf(c), row), NEW ret, Goto(c, "done", ret), UNCHANGED used,
           RowOf(c).status = "absent" /\ row.status # "absent"
               => \A d \in Callers : Guarding(d) => JobOf(d) # JobOf(c)
    PROVE  AnswerInv'
<1> DEFINE rows == [jobs EXCEPT ![JobOf(c)] = row]
<1>1. JobOf(c) \in JobIds BY InFlightType
<1>2. rows \in [JobIds -> Row] BY DEF TypeOK
<1>3. SetRows(rows) BY DEF SetRow
<1>4. \A j \in JobIds : rows[j] = IF j = JobOf(c) THEN row ELSE jobs[j] BY DEF TypeOK
<1>5. RowOf(c) = jobs[JobOf(c)] BY DEF RowOf
<1> HIDE DEF rows
<1> QED BY <1>2, <1>3, <1>4, <1>5, StatementKeepsAnswers

LEMMA RowOperationAnswers ==
    ASSUME TypeOK, AnswerInv, GuardedNotReplaced, NEW c \in Callers,
           \/ create_job(c) \/ replace_job(c) \/ delete_job(c) \/ update_job(c)
           \/ heartbeat(c) \/ cancel_active_job(c) \/ append_event(c)
    PROVE  AnswerInv'
<1> DEFINE r == call[c].req
           t == call[c].t
<1>0. /\ InFlight(c) /\ r.op # "guarded" /\ UNCHANGED used
  BY DEF AtStatement, create_job, replace_job, delete_job, update_job, heartbeat,
         cancel_active_job, append_event
<1>1. /\ JobOf(c) \in JobIds /\ RowOf(c) \in Row /\ r \in Request /\ r \in Requests /\ t \in Nat
      /\ call[c].id \in Nat
  BY <1>0, InFlightType DEF Running
<1>2. CASE create_job(c)
  <2>1. \A d \in Callers : Guarding(d) => JobOf(d) # JobOf(c)
    BY <1>0, <1>2 DEF AnswerInv, NotCreated, create_job, AtStatement
  <2> QED BY <1>0, <1>1, <1>2, <2>1, UpsertedType, RowStatementKeepsAnswers DEF create_job
<1>3. CASE replace_job(c)
  <2>1. r.op = "replace" BY <1>3 DEF replace_job, AtStatement
  <2>2. ASSUME NEW d \in Callers, Guarding(d) PROVE JobOf(d) # JobOf(c)
    <3>1. call[d].req \in Requests /\ call[d].req.op = "guarded"
      BY <2>2, InFlightType DEF Guarding, Running
    <3> QED BY <1>1, <2>1, <3>1 DEF GuardedNotReplaced, JobOf
  <2> QED BY <1>0, <1>1, <1>3, <2>2, UpsertedType, RowStatementKeepsAnswers DEF replace_job
<1>4. CASE delete_job(c)
  <2>1. PICK ret : Goto(c, "done", ret) BY <1>4 DEF delete_job
  <2>2. Absent.status = "absent" BY DEF Absent
  <2> QED
    BY <1>0, <1>4, <2>1, <2>2, AbsentType, RowStatementKeepsAnswers DEF delete_job
<1>5. CASE update_job(c)
  <2> DEFINE row == IF Exists(JobOf(c)) THEN Merged(RowOf(c), r, t) ELSE RowOf(c)
  <2>1. row \in Row BY <1>1, MergedType
  <2>2. RowOf(c).status = "absent" => row.status = "absent" BY DEF Exists, RowOf
  <2>3. SetRow(JobOf(c), row) /\ Goto(c, "done", "none") BY <1>5 DEF update_job
  <2> HIDE DEF row
  <2> QED BY <1>0, <2>1, <2>2, <2>3, RowStatementKeepsAnswers
<1>6. CASE heartbeat(c)
  <2> DEFINE row == IF Exists(JobOf(c)) THEN [RowOf(c) EXCEPT !.hb = t] ELSE RowOf(c)
  <2>1. row \in Row BY <1>1 DEF Row
  <2>2. RowOf(c).status = "absent" => row.status = "absent" BY DEF Exists, RowOf
  <2>3. SetRow(JobOf(c), row) BY <1>6 DEF heartbeat
  <2>4. PICK ret : Goto(c, "done", ret) BY <1>6 DEF heartbeat
  <2> HIDE DEF row
  <2> QED BY <1>0, <2>1, <2>2, <2>3, <2>4, RowStatementKeepsAnswers
<1>7. CASE cancel_active_job(c)
  <2> DEFINE hit == RowOf(c).status \in Active
             row == IF hit THEN [RowOf(c) EXCEPT !.status = "cancelled", !.hb = t, !.act = t]
                    ELSE RowOf(c)
  <2>1. row \in Row BY <1>1 DEF Row, Status
  <2>2. RowOf(c).status = "absent" => row.status = "absent" BY DEF Active
  <2>3. SetRow(JobOf(c), row) BY <1>7 DEF cancel_active_job
  <2>4. PICK ret : Goto(c, "done", ret) BY <1>7 DEF cancel_active_job
  <2> HIDE DEF row, hit
  <2> QED BY <1>0, <2>1, <2>2, <2>3, <2>4, RowStatementKeepsAnswers
<1>8. CASE append_event(c)
  <2>1. Goto(c, "done", "none") BY <1>8 DEF append_event
  <2>2. CASE Exists(JobOf(c))
    <3> DEFINE row == [RowOf(c) EXCEPT !.status = Given(r.status, @), !.hb = t, !.act = t,
                                       !.log = @ \cup {call[c].id}]
    <3>1. row \in Row BY <1>1 DEF Row, Request, Given
    <3>2. RowOf(c).status # "absent" BY <2>2 DEF Exists, RowOf
    <3>3. SetRow(JobOf(c), row) BY <1>8, <2>2 DEF append_event
    <3> HIDE DEF row
    <3> QED BY <1>0, <2>1, <3>1, <3>2, <3>3, RowStatementKeepsAnswers
  <2>3. CASE ~Exists(JobOf(c))
    <3>1. UNCHANGED <<jobs, seen>> BY <1>8, <2>3 DEF append_event
    <3>2. /\ \A d \in Callers : d # c => call'[d] = call[d]
          /\ InFlight(c)' /\ call'[c].req = call[c].req /\ call'[c].pc = "done"
      BY <1>0, <2>1, GotoFacts
    <3>3. \A d \in Callers : InFlight(d) =>
            jobs'[JobOf(d)].status \in seen'[d] /\ seen[d] \subseteq seen'[d]
      BY <3>1 DEF AnswerInv, RowOf
    <3>4. ~Guarding(c) BY <1>0 DEF Guarding
    <3> QED BY <1>0, <3>1, <3>2, <3>3, <3>4, MoveKeepsAnswers
  <2> QED BY <2>2, <2>3
<1> QED BY <1>2, <1>3, <1>4, <1>5, <1>6, <1>7, <1>8

LEMMA GuardedAnswers ==
    ASSUME TypeOK, AnswerInv, NEW c \in Callers, GuardedUpdate(c) \/ GuardedProbe(c)
    PROVE  AnswerInv'
<1>0. InFlight(c) BY DEF GuardedUpdate, GuardedProbe, AtStatement
<1>1. /\ JobOf(c) \in JobIds /\ RowOf(c) \in Row /\ RowOf(c) = jobs[JobOf(c)]
      /\ RowOf(c).status \in seen[c] /\ seen \in [Callers -> SUBSET (Status \cup {"absent"})]
  BY <1>0, InFlightType DEF RowOf, AnswerInv, TypeOK
<1>2. CASE GuardedUpdate(c) /\ RowOf(c).status \notin {"absent", "cancelled"}
  <2> DEFINE row == Merged(RowOf(c), call[c].req, call[c].t)
             rows == [jobs EXCEPT ![JobOf(c)] = row]
  <2>1. row \in Row BY <1>0, <1>1, InFlightType, MergedType DEF Running
  <2>2. SetRows(rows) /\ Goto(c, "done", "true") /\ UNCHANGED used
    BY <1>2 DEF GuardedUpdate, SetRow
  <2>3. rows \in [JobIds -> Row] /\ \A j \in JobIds : j # JobOf(c) => rows[j] = jobs[j]
    BY <2>1 DEF TypeOK
  <2> HIDE DEF rows, row
  <2>4. jobs' = rows /\ \A d \in Callers : InFlight(d) =>
          jobs'[JobOf(d)].status \in seen'[d] /\ seen[d] \subseteq seen'[d]
    BY <2>2, <2>3, RowsSeen DEF SetRows
  <2>5. /\ \A d \in Callers : d # c => call'[d] = call[d]
        /\ InFlight(c)' /\ call'[c].req = call[c].req /\ call'[c].pc = "done"
        /\ call'[c].ret = "true"
    BY <1>0, <2>2, GotoFacts
  <2>6. AnswerTrue(c)'
    <3>1. RowOf(c).status \in seen'[c] BY <1>0, <1>1, <2>4
    <3> QED BY <1>2, <2>5, <3>1 DEF AnswerTrue
  <2>7. \A j \in JobIds : jobs[j].status = "absent" => jobs'[j].status = "absent"
    BY <1>1, <1>2, <2>3, <2>4
  <2> QED BY <1>0, <2>2, <2>4, <2>5, <2>6, <2>7, MoveKeepsAnswers
<1>3. CASE GuardedUpdate(c) /\ RowOf(c).status \in {"absent", "cancelled"}
  <2>1. Goto(c, "probe", "none") /\ UNCHANGED <<jobs, seen, used>> /\ Guarding(c)
    BY <1>3 DEF GuardedUpdate, AtStatement, Guarding
  <2>2. MissReason(c) BY <1>1, <1>3 DEF MissReason
  <2>3. \A d \in Callers : InFlight(d) =>
          jobs'[JobOf(d)].status \in seen'[d] /\ seen[d] \subseteq seen'[d]
    BY <2>1 DEF AnswerInv, RowOf
  <2>4. /\ \A d \in Callers : d # c => call'[d] = call[d]
        /\ InFlight(c)' /\ call'[c].req = call[c].req /\ call'[c].pc = "probe"
    BY <1>0, <2>1, GotoFacts
  <2> QED BY <1>0, <2>1, <2>2, <2>3, <2>4, MoveKeepsAnswers
<1>4. CASE GuardedProbe(c)
  <2>1. /\ call[c].pc = "probe" /\ UNCHANGED <<jobs, seen, used>>
        /\ Goto(c, "done", IF Exists(JobOf(c)) THEN "false" ELSE "none")
    BY <1>4 DEF GuardedProbe, history
  <2>2. MissReason(c) BY <1>0, <2>1 DEF AnswerInv
  <2>3. \A d \in Callers : InFlight(d) =>
          jobs'[JobOf(d)].status \in seen'[d] /\ seen[d] \subseteq seen'[d]
    BY <2>1 DEF AnswerInv, RowOf
  <2>4. /\ \A d \in Callers : d # c => call'[d] = call[d]
        /\ InFlight(c)' /\ call'[c].req = call[c].req /\ call'[c].pc = "done"
        /\ call'[c].ret = IF Exists(JobOf(c)) THEN "false" ELSE "none"
    BY <1>0, <2>1, GotoFacts
  <2>5. AnswerTrue(c)'
    BY <1>1, <2>1, <2>2, <2>4 DEF AnswerTrue, MissReason, Exists
  <2> QED BY <1>0, <2>1, <2>3, <2>4, <2>5, MoveKeepsAnswers
<1> QED BY <1>2, <1>3, <1>4

LEMMA PatchAnswers ==
    ASSUME TypeOK, StoreInv, AnswerInv, NEW c \in Callers, PatchSelect(c) \/ PatchWrite(c)
    PROVE  AnswerInv'
<1>0. InFlight(c) BY DEF PatchSelect, PatchWrite, AtStatement
<1>1. CASE PatchSelect(c)
  <2>1. call[c] \in Running BY <1>0, InFlightType
  <2>2. ~Guarding(c) /\ UNCHANGED <<jobs, seen, used>>
    BY <1>1 DEF PatchSelect, AtStatement, history, Guarding
  <2>3. \A d \in Callers : InFlight(d) =>
          jobs'[JobOf(d)].status \in seen'[d] /\ seen[d] \subseteq seen'[d]
    BY <2>2 DEF AnswerInv, RowOf
  <2>4. CASE Exists(JobOf(c))
    <3>1. call' = [call EXCEPT ![c] = [call[c] EXCEPT !.pc = "locked", !.buf = RowOf(c)]]
      BY <1>1, <2>4 DEF PatchSelect, TypeOK
    <3>2. /\ \A d \in Callers : d # c => call'[d] = call[d]
          /\ call'[c] = [call[c] EXCEPT !.pc = "locked", !.buf = RowOf(c)]
      BY <3>1 DEF TypeOK
    <3>3. call'[c].req = call[c].req /\ call'[c].pc = "locked" /\ call'[c].buf = RowOf(c)
      BY <2>1, <3>2 DEF Running
    <3>4. \A d \in Callers : d # c => call'[d] = call[d] BY <3>2
    <3>5. InFlight(c)' /\ RowOf(c).status # "absent" BY <2>4, <3>3 DEF InFlight, Exists, RowOf
    <3> QED BY <1>0, <2>2, <2>3, <3>3, <3>4, <3>5, MoveKeepsAnswers
  <2>5. CASE ~Exists(JobOf(c))
    <3>1. Goto(c, "done", "none") BY <1>1, <2>5 DEF PatchSelect
    <3>2. /\ \A d \in Callers : d # c => call'[d] = call[d]
          /\ InFlight(c)' /\ call'[c].req = call[c].req /\ call'[c].pc = "done"
      BY <1>0, <3>1, GotoFacts
    <3> QED BY <1>0, <2>2, <2>3, <3>2, MoveKeepsAnswers
  <2> QED BY <2>4, <2>5
<1>2. CASE PatchWrite(c)
  <2>1. /\ SetRow(JobOf(c), PatchedRow(c)) /\ Goto(c, "done", "true") /\ UNCHANGED used
        /\ call[c].pc = "locked"
    BY <1>2 DEF PatchWrite, PatchedRow
  <2>2. PatchedRow(c) \in Row BY <1>0, PatchedRowType
  <2>3. RowOf(c).status # "absent" /\ ~Guarding(c)
    BY <1>0, <2>1 DEF AnswerInv, StoreInv, PatchOwnsItsRow
  <2> DEFINE rows == [jobs EXCEPT ![JobOf(c)] = PatchedRow(c)]
  <2>4. SetRows(rows) BY <2>1 DEF SetRow
  <2>5. rows \in [JobIds -> Row] /\ \A j \in JobIds : j # JobOf(c) => rows[j] = jobs[j]
    BY <2>2 DEF TypeOK
  <2> HIDE DEF rows
  <2>6. jobs' = rows /\ \A d \in Callers : InFlight(d) =>
          jobs'[JobOf(d)].status \in seen'[d] /\ seen[d] \subseteq seen'[d]
    BY <2>4, <2>5, RowsSeen DEF SetRows
  <2>7. /\ \A d \in Callers : d # c => call'[d] = call[d]
        /\ InFlight(c)' /\ call'[c].req = call[c].req /\ call'[c].pc = "done"
        /\ call'[c].ret = "true"
    BY <1>0, <2>1, GotoFacts
  <2>8. \A j \in JobIds : jobs[j].status = "absent" => jobs'[j].status = "absent"
    BY <2>3, <2>5, <2>6 DEF RowOf
  <2> QED BY <1>0, <2>1, <2>3, <2>6, <2>7, <2>8, MoveKeepsAnswers
<1> QED BY <1>1, <1>2

LEMMA SweepAnswers ==
    ASSUME TypeOK, AnswerInv, NEW c \in Callers, NEW op, op # "guarded",
           NEW victims \in SUBSET JobIds, NEW st \in Status,
           \A j \in victims : Sweepable(j), Sweep(c, op, victims, st)
    PROVE  AnswerInv'
<1> DEFINE rows == [j \in JobIds |-> IF j \in victims THEN [jobs[j] EXCEPT !.status = st]
                                    ELSE jobs[j]]
<1>1. /\ InFlight(c) /\ call[c].req.op # "guarded" /\ Goto(c, "done", "none")
      /\ SetRows(rows) /\ UNCHANGED used
  BY DEF Sweep
<1>2. rows \in [JobIds -> Row] BY DEF TypeOK, Row
<1>3. \A j \in JobIds : jobs[j].status = "absent" => rows[j].status = "absent"
  BY DEF Sweepable, Active
<1> HIDE DEF rows
<1> QED BY <1>1, <1>2, <1>3, StatementKeepsAnswers

\* Arrival, answer and loss of a request.
LEMMA BookkeepingAnswers ==
    ASSUME TypeOK, AnswerInv, UniqueIds, NEW c \in Callers,
           (\E r \in Requests : Begin(c, r)) \/ Return(c) \/ Abort(c)
    PROVE  AnswerInv'
<1>1. ASSUME NEW r \in Requests, Begin(c, r) PROVE AnswerInv'
  <2>1. /\ ~InFlight(c) /\ Nameable(r) /\ UNCHANGED jobs
        /\ used' = IF r.op = "create" THEN used \cup {r.job} ELSE used
        /\ call'[c].pc = "sent" /\ call'[c].req = r /\ seen'[c] = {jobs[r.job].status}
        /\ \A d \in Callers : d # c => call'[d] = call[d] /\ seen'[d] = seen[d]
    BY <1>1 DEF Begin, TypeOK
  <2>2. ASSUME NEW d \in Callers, d # c
        PROVE  /\ call'[d] = call[d] /\ seen'[d] = seen[d]
               /\ InFlight(d)' = InFlight(d) /\ Guarding(d)' = Guarding(d)
               /\ JobOf(d)' = JobOf(d) /\ RowOf(d)' = RowOf(d) /\ MissReason(d)' = MissReason(d)
               /\ AnswerTrue(d)' = AnswerTrue(d)
    <3>1. call'[d] = call[d] /\ seen'[d] = seen[d] /\ jobs' = jobs BY <2>1, <2>2
    <3> QED BY <3>1 DEF InFlight, Guarding, JobOf, RowOf, MissReason, AnswerTrue
  <2>3. ASSUME NEW d \in Callers, Guarding(d)' PROVE NotCreated(JobOf(d))'
    <3>1. CASE d = c
      <4>1. r.op = "guarded" /\ JobOf(d)' = r.job BY <2>1, <2>3, <3>1 DEF Guarding, JobOf
      <4>2. r.job \in used /\ \A e \in Callers :
              InFlight(e) /\ call[e].req.op = "create" => JobOf(e) # r.job
        BY <2>1, <4>1 DEF Nameable
      <4> QED BY <2>1, <2>2, <4>1, <4>2 DEF NotCreated
    <3>2. CASE d # c
      <4>1. NotCreated(JobOf(d)) /\ JobOf(d)' = JobOf(d) BY <2>2, <2>3, <3>2 DEF AnswerInv
      <4>2. r.op = "create" => r.job # JobOf(d) BY <2>1, <4>1 DEF Nameable, NotCreated
      <4>3. ASSUME NEW e \in Callers, InFlight(e)', call'[e].req.op = "create"
            PROVE  JobOf(e)' # JobOf(d)
        <5>1. CASE e = c BY <2>1, <4>2, <4>3, <5>1 DEF JobOf
        <5>2. CASE e # c BY <2>2, <4>1, <4>3, <5>2 DEF NotCreated
        <5> QED BY <5>1, <5>2
      <4> QED BY <2>1, <4>1, <4>3 DEF NotCreated
    <3> QED BY <3>1, <3>2
  <2>4. RowOf(c)'.status \in seen'[c] BY <2>1 DEF RowOf, JobOf
  <2>5. \A d \in Callers : InFlight(d)' => RowOf(d)'.status \in seen'[d]
    BY <2>2, <2>4 DEF AnswerInv
  <2> QED BY <2>1, <2>2, <2>3, <2>5 DEF AnswerInv
<1>2. CASE Return(c) \/ Abort(c)
  <2>1. /\ ~InFlight(c)' /\ UNCHANGED <<jobs, used>>
        /\ \A d \in Callers : d # c => call'[d] = call[d] /\ seen'[d] = seen[d]
    BY <1>2 DEF Return, Abort, TypeOK, InFlight, Idle
  <2>2. ASSUME NEW d \in Callers, d # c
        PROVE  /\ call'[d] = call[d] /\ seen'[d] = seen[d]
               /\ InFlight(d)' = InFlight(d) /\ Guarding(d)' = Guarding(d)
               /\ JobOf(d)' = JobOf(d) /\ RowOf(d)' = RowOf(d) /\ MissReason(d)' = MissReason(d)
               /\ AnswerTrue(d)' = AnswerTrue(d)
    <3>1. call'[d] = call[d] /\ seen'[d] = seen[d] /\ jobs' = jobs BY <2>1, <2>2
    <3> QED BY <3>1 DEF InFlight, Guarding, JobOf, RowOf, MissReason, AnswerTrue
  <2>3. \A d \in Callers : InFlight(d)' => d # c /\ InFlight(d) BY <2>1, <2>2
  <2>4. ASSUME NEW d \in Callers, Guarding(d)' PROVE NotCreated(JobOf(d))'
    <3>1. d # c /\ Guarding(d) /\ JobOf(d)' = JobOf(d) BY <2>2, <2>3, <2>4 DEF Guarding
    <3> QED BY <2>1, <2>2, <2>3, <3>1 DEF AnswerInv, NotCreated
  <2>5. \A d \in Callers : Guarding(d)' => InFlight(d)' BY DEF Guarding
  <2> QED BY <2>2, <2>3, <2>4, <2>5 DEF AnswerInv
<1> QED BY <1>1, <1>2

LEMMA AnswerStep ==
    ASSUME UniqueIds, GuardedNotReplaced
    PROVE  TypeOK /\ StoreInv /\ AnswerInv /\ [Next]_vars => AnswerInv'
<1> SUFFICES ASSUME TypeOK, StoreInv, AnswerInv, [Next]_vars PROVE AnswerInv'
  OBVIOUS
<1>1. CASE Tick \/ UNCHANGED vars
  <2>1. UNCHANGED <<jobs, call, seen, used>> BY <1>1 DEF Tick, vars, history
  <2>2. AnswerInv' = AnswerInv
    BY <2>1 DEF AnswerInv, InFlight, Guarding, MissReason, AnswerTrue, NotCreated, RowOf, JobOf
  <2> QED BY <2>2
<1>2. ASSUME NEW c \in Callers, CallerStep(c) PROVE AnswerInv'
  <2>1. CASE (\E r \in Requests : Begin(c, r)) \/ Return(c) \/ Abort(c)
    BY <2>1, BookkeepingAnswers
  <2>2. CASE \/ create_job(c) \/ replace_job(c) \/ delete_job(c) \/ update_job(c)
             \/ heartbeat(c) \/ cancel_active_job(c) \/ append_event(c)
    BY <2>2, RowOperationAnswers
  <2>3. CASE GuardedUpdate(c) \/ GuardedProbe(c)
    BY <2>3, GuardedAnswers
  <2>4. CASE PatchSelect(c) \/ PatchWrite(c)
    BY <2>4, PatchAnswers
  <2>5. CASE mark_stale_active_jobs_failed(c)
    <3> DEFINE victims == {j \in JobIds : Sweepable(j) /\ jobs[j].hb < call[c].t - Stale}
    <3>1. Sweep(c, "sweep", victims, "failed") /\ \A j \in victims : Sweepable(j)
      BY <2>5 DEF mark_stale_active_jobs_failed
    <3>2. victims \in SUBSET JobIds /\ "failed" \in Status
      BY DEF Status
    <3> QED
      BY <3>1, <3>2, SweepAnswers
  <2>6. CASE mark_all_active_jobs_failed(c) \/ mark_all_active_jobs_interrupted(c)
    <3> DEFINE victims == {j \in JobIds : Sweepable(j)}
    <3>1. /\ victims \in SUBSET JobIds /\ \A j \in victims : Sweepable(j)
          /\ "failed" \in Status /\ "interrupted" \in Status
      BY DEF Status
    <3>2. CASE mark_all_active_jobs_failed(c)
      BY <3>1, <3>2, SweepAnswers DEF mark_all_active_jobs_failed
    <3>3. CASE mark_all_active_jobs_interrupted(c)
      BY <3>1, <3>3, SweepAnswers DEF mark_all_active_jobs_interrupted
    <3> QED
      BY <2>6, <3>2, <3>3
  <2> QED
    BY <1>2, <2>1, <2>2, <2>3, <2>4, <2>5, <2>6 DEF CallerStep
<1> QED
  BY <1>1, <1>2 DEF Next

LEMMA AnswerInit == Init => AnswerInv
BY DEF Init, AnswerInv, InFlight, Guarding, Idle

\* False from update_job_if_not_cancelled means the job was cancelled at some
\* moment of the call, None that it was missing, True that it was neither, when
\* job ids are never reused and no team resets the jobs it writes guarded.
THEOREM GuardedAnswersAreTrue ==
    UniqueIds /\ GuardedNotReplaced => (Spec => []GuardedAnswerTrue)
<1> SUFFICES ASSUME UniqueIds, GuardedNotReplaced PROVE Spec => []GuardedAnswerTrue
  OBVIOUS
<1>1. TypeOK /\ StoreInv /\ AnswerInv /\ [Next]_vars => (TypeOK /\ StoreInv /\ AnswerInv)'
  BY TypeCorrectStep, StoreInvStep, AnswerStep
<1>2. AnswerInv => GuardedAnswerTrue
  BY DEF AnswerInv, GuardedAnswerTrue, Guarding, AnswerTrue
<1> QED
  BY <1>1, <1>2, AnswerInit, StoreInvInit, TypeCorrectInit, PTL DEF Spec
=============================================================================
