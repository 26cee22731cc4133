------------------------- MODULE BacktestJob_proofs -------------------------
(***************************************************************************)
(* Proofs about BacktestJob, for any number of attempts and faults, those  *)
(* that nothing retries included: what a client was told of a cancellation *)
(* or a completion does not depend on who else works on the job.           *)
(***************************************************************************)
EXTENDS BacktestJob, TLAPS

-----------------------------------------------------------------------------
(* The inductive invariant *)

\* Whoever is about to complete the job has published its record.
RecordFirst == (\E r \in Runners : pc[r] = "completing") => record # "none"

\* A job is not there before it is created, and is created once.
NotYet == request = "none" => status = "absent"

IInv == TypeOK /\ RecordFirst /\ CompletedHasRecord /\ NotYet

-----------------------------------------------------------------------------
(* Typing *)

\* A runner that moves, and one that returns, keeps its type.
LEMMA RunnerTypes ==
  ASSUME TypeOK, NEW r \in Runners
  PROVE  /\ \A to \in {"idle", "entering", "starting", "running", "publishing", "completing",
                       "failing", "done", "dead"} :
              Goes(r, to) =>
                /\ pc' \in [Runners -> {"idle", "entering", "starting", "running", "publishing",
                                        "completing", "failing", "done", "dead"}]
                /\ pc'[r] = to /\ \A s \in Runners \ {r} : pc'[s] = pc[s]
         /\ \A verdict \in {"completed", "failed", "cancelled", "missing", "raised"} :
              Returns(r, verdict) =>
                /\ pc' \in [Runners -> {"idle", "entering", "starting", "running", "publishing",
                                        "completing", "failing", "done", "dead"}]
                /\ pc'[r] = "done" /\ \A s \in Runners \ {r} : pc'[s] = pc[s]
                /\ out' \in [Runners -> {"none", "completed", "failed", "cancelled", "missing",
                                         "raised"}]
<1>1. ASSUME NEW to \in {"idle", "entering", "starting", "running", "publishing", "completing",
                         "failing", "done", "dead"}, Goes(r, to)
      PROVE  /\ pc' \in [Runners -> {"idle", "entering", "starting", "running", "publishing",
                                     "completing", "failing", "done", "dead"}]
             /\ pc'[r] = to /\ \A s \in Runners \ {r} : pc'[s] = pc[s]
  BY <1>1 DEF Goes, TypeOK
<1>2. ASSUME NEW verdict \in {"completed", "failed", "cancelled", "missing", "raised"},
             Returns(r, verdict)
      PROVE  out' \in [Runners -> {"none", "completed", "failed", "cancelled", "missing",
                                   "raised"}]
  BY <1>2 DEF Returns, TypeOK
<1> QED BY <1>1, <1>2 DEF Returns

\* A fault is one of those that are counted.
LEMMA FaultTypes == TypeOK /\ Fault => faults' \in 0 .. MaxFaults
<1> QED BY BacktestAssumption DEF TypeOK, Fault

\* The workflow's attempts are runners.
LEMMA AttemptsRun == Attempts \subseteq Runners /\ Thread \in Runners
<1> QED BY DEF Runners

-----------------------------------------------------------------------------
(* The steps of the worker *)

\* Only a completion the job accepts makes it completed, and the record was
\* published by the runner that made it.
LEMMA WorkerKeeps == ASSUME IInv, NEW r \in Runners, Worker(r) PROVE IInv'
<1>1. TypeOK
  BY DEF IInv
<1>2. CASE Start(r)
  <2>1. CASE Guarded /\ status' = "running" /\ Goes(r, "running") /\ UNCHANGED <<out, faults>>
    <3>1. TypeOK' /\ RecordFirst'
      BY <1>1, <1>2, <2>1, RunnerTypes DEF Start, TypeOK, IInv, RecordFirst
    <3> QED BY <1>2, <2>1, <3>1 DEF Start, IInv, CompletedHasRecord, NotYet, Guarded
  <2>2. CASE ~Guarded /\ Refused(r) /\ UNCHANGED <<status, faults>>
    <3>1. TypeOK' /\ RecordFirst'
      BY <1>1, <1>2, <2>2, RunnerTypes DEF Start, TypeOK, IInv, RecordFirst, Refused
    <3> QED BY <1>2, <2>2, <3>1 DEF Start, IInv, CompletedHasRecord, NotYet
  <2>3. CASE Fault /\ status' \in {status, IF Guarded THEN "running" ELSE status}
             /\ Goes(r, "failing") /\ UNCHANGED out
    <3>1. TypeOK' /\ RecordFirst'
      BY <1>1, <1>2, <2>3, RunnerTypes, FaultTypes DEF Start, TypeOK, IInv, RecordFirst
    <3> QED BY <1>2, <2>3, <3>1 DEF Start, IInv, CompletedHasRecord, NotYet, Guarded
  <2> QED BY <1>2, <2>1, <2>2, <2>3 DEF Start, Writes
<1>3. CASE Run(r)
  <2>1. TypeOK' /\ RecordFirst'
    <3>1. CASE Returns(r, "cancelled")
      BY <1>1, <1>3, <3>1, RunnerTypes DEF Run, TypeOK, IInv, RecordFirst
    <3>2. CASE Goes(r, "publishing") /\ UNCHANGED out
      BY <1>1, <1>3, <3>2, RunnerTypes DEF Run, TypeOK, IInv, RecordFirst
    <3>3. CASE Goes(r, "failing") /\ UNCHANGED out
      BY <1>1, <1>3, <3>3, RunnerTypes DEF Run, TypeOK, IInv, RecordFirst
    <3> QED BY <1>3, <3>1, <3>2, <3>3 DEF Run
  <2> QED BY <1>3, <2>1 DEF Run, IInv, CompletedHasRecord, NotYet
<1>4. CASE Publish(r)
  <2>1. CASE record' = "stored" /\ Goes(r, "completing") /\ UNCHANGED <<status, out, faults>>
    <3>1. TypeOK' /\ record' = "stored"
      BY <1>1, <1>4, <2>1, RunnerTypes DEF Publish, TypeOK
    <3> QED BY <1>4, <2>1, <3>1 DEF Publish, IInv, RecordFirst, CompletedHasRecord, NotYet
  <2>2. CASE Fault /\ record' \in {record, "stored"} /\ Goes(r, "failing")
             /\ UNCHANGED <<status, out>>
    <3>1. TypeOK' /\ RecordFirst'
      BY <1>1, <1>4, <2>2, RunnerTypes, FaultTypes DEF Publish, TypeOK, IInv, RecordFirst
    <3> QED BY <1>4, <2>2, <3>1 DEF Publish, IInv, CompletedHasRecord, NotYet
  <2> QED BY <1>4, <2>1, <2>2 DEF Publish, Publishes
<1>5. CASE Complete(r)
  <2>0. record # "none"
    BY <1>5 DEF Complete, IInv, RecordFirst
  <2>1. CASE Guarded /\ status' = "completed" /\ Returns(r, "completed") /\ UNCHANGED faults
    <3>1. TypeOK'
      BY <1>1, <1>5, <2>1, RunnerTypes DEF Complete, TypeOK
    <3> QED BY <1>5, <2>0, <2>1, <3>1
            DEF Complete, IInv, RecordFirst, CompletedHasRecord, NotYet, Guarded
  <2>2. CASE ~Guarded /\ Refused(r) /\ UNCHANGED <<status, faults>>
    <3>1. TypeOK'
      BY <1>1, <1>5, <2>2, RunnerTypes DEF Complete, TypeOK, Refused
    <3> QED BY <1>5, <2>0, <2>2, <3>1 DEF Complete, IInv, RecordFirst, CompletedHasRecord, NotYet
  <2>3. CASE Fault /\ status' \in {status, IF Guarded THEN "completed" ELSE status}
             /\ Goes(r, "failing") /\ UNCHANGED out
    <3>1. TypeOK'
      BY <1>1, <1>5, <2>3, RunnerTypes, FaultTypes DEF Complete, TypeOK
    <3> QED BY <1>5, <2>0, <2>3, <3>1
            DEF Complete, IInv, RecordFirst, CompletedHasRecord, NotYet, Guarded
  <2> QED BY <1>5, <2>1, <2>2, <2>3 DEF Complete
<1>6. CASE Fail(r)
  <2>1. CASE Guarded /\ status' = "failed" /\ Returns(r, "failed") /\ UNCHANGED faults
    <3>1. TypeOK' /\ RecordFirst'
      BY <1>1, <1>6, <2>1, RunnerTypes DEF Fail, TypeOK, IInv, RecordFirst
    <3> QED BY <1>6, <2>1, <3>1 DEF Fail, IInv, CompletedHasRecord, NotYet, Guarded
  <2>2. CASE ~Guarded /\ Refused(r) /\ UNCHANGED <<status, faults>>
    <3>1. TypeOK' /\ RecordFirst'
      BY <1>1, <1>6, <2>2, RunnerTypes DEF Fail, TypeOK, IInv, RecordFirst, Refused
    <3> QED BY <1>6, <2>2, <3>1 DEF Fail, IInv, CompletedHasRecord, NotYet
  <2>3. CASE Fault /\ status' \in {status, IF Guarded THEN "failed" ELSE status}
             /\ Returns(r, "raised")
    <3>1. TypeOK' /\ RecordFirst'
      BY <1>1, <1>6, <2>3, RunnerTypes, FaultTypes DEF Fail, TypeOK, IInv, RecordFirst
    <3> QED BY <1>6, <2>3, <3>1 DEF Fail, IInv, CompletedHasRecord, NotYet, Guarded
  <2> QED BY <1>6, <2>1, <2>2, <2>3 DEF Fail
<1> QED BY <1>2, <1>3, <1>4, <1>5, <1>6 DEF Worker

-----------------------------------------------------------------------------
(* The other steps *)

\* A scheduled attempt starts at its entry.
LEMMA ScheduleTypes ==
  ASSUME TypeOK, NEW n \in Attempts, Scheduled(n)
  PROVE  /\ attempt' \in 0 .. MaxAttempts
         /\ pc' \in [Runners -> {"idle", "entering", "starting", "running", "publishing",
                                 "completing", "failing", "done", "dead"}]
         /\ \A r \in Runners : pc'[r] = "completing" => pc[r] = "completing"
<1>1. n \in Runners /\ n \in 0 .. MaxAttempts
  BY BacktestAssumption, AttemptsRun DEF Attempts
<1> QED BY <1>1 DEF Scheduled, TypeOK

\* The routes and the sweep complete nothing.
LEMMA RoutesKeep ==
  ASSUME IInv, Create \/ Cancel \/ Delete \/ DeleteRecord \/ Shutdown \/ CancelWorkflow PROVE IInv'
<1>1. TypeOK
  BY DEF IInv
<1>2. TypeOK' /\ pc' = pc /\ (record # "none" => record' # "none")
  BY <1>1 DEF Create, Cancel, Delete, DeleteRecord, Shutdown, CancelWorkflow, CancelActive, TypeOK
<1>3. RecordFirst'
  BY <1>2 DEF IInv, RecordFirst
<1>4. CompletedHasRecord' /\ NotYet'
  BY <1>2 DEF Create, Cancel, Delete, DeleteRecord, Shutdown, CancelWorkflow, CancelActive,
              Active, IInv, CompletedHasRecord, NotYet
<1> QED BY <1>2, <1>3, <1>4 DEF IInv

\* Nor do the dispatch, the process that exits and the worker that dies.
LEMMA ProcessKeeps ==
  ASSUME IInv, Dispatch \/ Exit \/ \E n \in Attempts : Enter(n) \/ Crash(n)
  PROVE  IInv'
<1>1. TypeOK
  BY DEF IInv
<1>2. CASE Dispatch
  <2>1. TypeOK' /\ RecordFirst'
    <3>1. CASE wf' = "open" /\ UNCHANGED <<pc, faults>>
      BY <1>1, <1>2, <3>1 DEF Dispatch, TypeOK, IInv, RecordFirst
    <3>2. CASE Goes(Thread, "starting") /\ UNCHANGED <<wf, faults>>
      BY <1>1, <1>2, <3>2, RunnerTypes, AttemptsRun DEF Dispatch, TypeOK, IInv, RecordFirst
    <3>3. CASE Fault /\ wf' = "open" /\ Goes(Thread, "starting")
      BY <1>1, <1>2, <3>3, RunnerTypes, FaultTypes, AttemptsRun
         DEF Dispatch, TypeOK, IInv, RecordFirst
    <3> QED BY <1>2, <3>1, <3>2, <3>3 DEF Dispatch
  <2> QED BY <1>2, <2>1 DEF Dispatch, IInv, CompletedHasRecord, NotYet
<1>3. CASE Exit
  <2>1. TypeOK' /\ RecordFirst'
    BY <1>1, <1>3, RunnerTypes, AttemptsRun DEF Exit, TypeOK, IInv, RecordFirst
  <2> QED BY <1>3, <2>1 DEF Exit, IInv, CompletedHasRecord, NotYet
<1>4. ASSUME NEW n \in Attempts, Enter(n)
      PROVE  IInv'
  <2>1. TypeOK' /\ RecordFirst'
    <3>1. CASE Returns(n, "completed")
      BY <1>1, <1>4, <3>1, RunnerTypes, AttemptsRun DEF Enter, TypeOK, IInv, RecordFirst
    <3>2. CASE Goes(n, "starting") /\ UNCHANGED out
      BY <1>1, <1>4, <3>2, RunnerTypes, AttemptsRun DEF Enter, TypeOK, IInv, RecordFirst
    <3> QED BY <1>4, <3>1, <3>2 DEF Enter
  <2> QED BY <1>4, <2>1 DEF Enter, IInv, CompletedHasRecord, NotYet
<1>5. ASSUME NEW n \in Attempts, Crash(n)
      PROVE  IInv'
  <2>1. TypeOK' /\ RecordFirst'
    BY <1>1, <1>5, RunnerTypes, FaultTypes, AttemptsRun DEF Crash, TypeOK, IInv, RecordFirst
  <2> QED BY <1>5, <2>1 DEF Crash, IInv, CompletedHasRecord, NotYet
<1> QED BY <1>2, <1>3, <1>4, <1>5

\* Nor does the workflow.
LEMMA WorkflowKeeps ==
  ASSUME IInv, Workflow \/ TimeOutLive \/ Watch PROVE IInv'
<1>1. TypeOK
  BY DEF IInv
<1>2. CASE Schedule
  <2>1. attempt + 1 \in Attempts
    BY <1>1, <1>2, BacktestAssumption DEF Schedule, TypeOK, Attempts
  <2>2. TypeOK' /\ RecordFirst'
    BY <1>1, <1>2, <2>1, ScheduleTypes DEF Schedule, TypeOK, IInv, RecordFirst
  <2> QED BY <1>2, <2>2 DEF Schedule, IInv, CompletedHasRecord, NotYet
<1>3. CASE TimeOut \/ TimeOutLive
  <2>1. /\ attempt > 0 /\ TimedOut(attempt) /\ faults' \in 0 .. MaxFaults
        /\ UNCHANGED <<status, record, out, request, watched>>
    BY <1>1, <1>3, FaultTypes DEF TimeOut, TimeOutLive, TypeOK
  <2>2. TypeOK' /\ RecordFirst'
    <3>1. CASE attempt < MaxAttempts
      <4>1. attempt + 1 \in Attempts
        BY <1>1, <3>1, BacktestAssumption DEF TypeOK, Attempts
      <4>2. Scheduled(attempt + 1) /\ UNCHANGED wf
        BY <2>1, <3>1 DEF TimedOut
      <4> QED BY <1>1, <2>1, <4>1, <4>2, ScheduleTypes DEF TypeOK, IInv, RecordFirst
    <3>2. CASE ~(attempt < MaxAttempts)
      BY <1>1, <2>1, <3>2 DEF TimedOut, TypeOK, IInv, RecordFirst
    <3> QED BY <3>1, <3>2
  <2> QED BY <2>1, <2>2 DEF IInv, CompletedHasRecord, NotYet
<1>4. CASE CloseWorkflow
  <2>1. attempt \in Runners
    BY <1>1, <1>4, BacktestAssumption, AttemptsRun DEF CloseWorkflow, TypeOK, Runners, Attempts
  <2>2. out[attempt] \in {"none", "completed", "failed", "cancelled", "missing", "raised"}
    BY <1>1, <2>1 DEF TypeOK
  <2>3. wf' \in {"none", "open", "cancelling", "completed", "failed", "cancelled", "missing"}
    BY <1>4, <2>2 DEF CloseWorkflow
  <2>4. TypeOK'
    BY <1>1, <1>4, <2>3 DEF CloseWorkflow, TypeOK
  <2> QED BY <1>4, <2>4 DEF CloseWorkflow, IInv, RecordFirst, CompletedHasRecord, NotYet
<1>5. CASE Compensate
  <2>1. TypeOK'
    BY <1>1, <1>5, FaultTypes DEF Compensate, CancelActive, TypeOK
  <2> QED BY <1>5, <2>1
          DEF Compensate, CancelActive, Active, IInv, RecordFirst, CompletedHasRecord, NotYet
<1>6. CASE Watch
  <2>1. attempt \in Attempts
    BY <1>1, <1>6, BacktestAssumption DEF Watch, TypeOK, Attempts
  <2>2. TypeOK'
    BY <1>1, <1>6, <2>1 DEF Watch, CancelActive, TypeOK
  <2> QED BY <1>6, <2>2
          DEF Watch, CancelActive, Active, IInv, RecordFirst, CompletedHasRecord, NotYet
<1> QED BY <1>2, <1>3, <1>4, <1>5, <1>6 DEF Workflow

-----------------------------------------------------------------------------
(* The specification *)

LEMMA InitInv == Init => IInv
<1>1. 0 \in 0 .. MaxAttempts /\ 0 \in 0 .. MaxFaults
  BY BacktestAssumption
<1>2. Init => TypeOK
  BY <1>1 DEF Init, TypeOK
<1>3. Init => RecordFirst /\ CompletedHasRecord /\ NotYet
  BY DEF Init, RecordFirst, CompletedHasRecord, NotYet
<1> QED BY <1>2, <1>3 DEF IInv

LEMMA NextInv == IInv /\ [Next]_vars => IInv'
<1> SUFFICES ASSUME IInv, [Next]_vars PROVE IInv'
  OBVIOUS
<1>1. CASE UNCHANGED vars
  BY <1>1 DEF vars, IInv, TypeOK, RecordFirst, CompletedHasRecord, NotYet
<1>2. CASE Next
  BY <1>2, WorkerKeeps, RoutesKeep, ProcessKeeps, WorkflowKeeps DEF Next
<1> QED BY <1>1, <1>2

THEOREM Invariance == Spec => []IInv
<1> QED BY InitInv, NextInv, PTL DEF Spec

\* Every variable keeps its type.
THEOREM TypeCorrect == Spec => []TypeOK
<1>1. IInv => TypeOK
  BY DEF IInv
<1> QED BY <1>1, Invariance, PTL

\* _run_backtest_background: a completed job has its record, however many
\* threads and attempts work on it and whatever writes are lost.
THEOREM RecordsComplete == Spec => []CompletedHasRecord
<1>1. IInv => CompletedHasRecord
  BY DEF IInv
<1> QED BY <1>1, Invariance, PTL

\* The guarded writes: no worker, attempt, sweep or compensation overwrites a
\* cancellation.
THEOREM CancellationsStand == Spec => CancellationStands
<1>1. ASSUME IInv, [Next]_vars, status = "cancelled"
      PROVE  status' \in {"cancelled", "absent"}
  <2>1. ~Guarded /\ ~Active /\ request # "none"
    BY <1>1 DEF Guarded, Active, IInv, NotYet
  <2>2. CASE UNCHANGED vars
    BY <2>2, <1>1 DEF vars
  <2>3. ASSUME NEW r \in Runners, Worker(r)
        PROVE  status' = status
    BY <2>1, <2>3 DEF Worker, Start, Writes, Run, Publish, Publishes, Complete, Fail
  <2>4. CASE Create \/ Cancel \/ Delete \/ DeleteRecord \/ Shutdown \/ CancelWorkflow
    BY <1>1, <2>1, <2>4 DEF Create, Cancel, Delete, DeleteRecord, Shutdown, CancelWorkflow,
           CancelActive
  <2>5. CASE Dispatch \/ Exit \/ \E n \in Attempts : Enter(n) \/ Crash(n)
    BY <2>5, <1>1 DEF Dispatch, Exit, Enter, Crash
  <2>6. CASE Workflow \/ TimeOutLive \/ Watch
    BY <1>1, <2>1, <2>6 DEF Workflow, Schedule, TimeOut, TimeOutLive, CloseWorkflow, Compensate,
                            Watch, CancelActive
  <2> QED BY <1>1, <2>2, <2>3, <2>4, <2>5, <2>6 DEF Next
<1>2. ASSUME IInv, [Next]_vars
      PROVE  [status = "cancelled" => status' \in {"cancelled", "absent"}]_vars
  BY <1>1, <1>2
<1> QED BY <1>2, Invariance, PTL DEF Spec, CancellationStands
=============================================================================
