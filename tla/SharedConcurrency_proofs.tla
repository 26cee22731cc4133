--------------------- MODULE SharedConcurrency_proofs ---------------------
(***************************************************************************)
(* Proofs about the helpers of shared/concurrency: KeyedLocks, for any     *)
(* threads and keys and any depth of nesting, and the flusher under        *)
(* GraphPersist, for any number of workers, mutations, updates, rounds and *)
(* failed writes.                                                          *)
(*                                                                         *)
(* Keyed locks: the invariant is about the calls of one thread.  Every     *)
(* call but the innermost is in its body; the locks of an outer call come  *)
(* before those of an inner one, since the inner one was checked against   *)
(* the highest order on record; and what a call holds comes before what it *)
(* waits for.  Along a chain of waiting threads the orders waited for thus *)
(* only grow, so no chain closes.                                          *)
(*                                                                         *)
(* Flusher: the record only advances, a checkpoint is on it, and after     *)
(* stop() nothing writes it.                                               *)
(***************************************************************************)
EXTENDS KeyedLocks, GraphPersist, SequenceTheorems, FiniteSetTheorems,
        WellFoundedInduction, TLAPS

(***************************************************************************)
(*                     The flusher and its graph                           *)
(***************************************************************************)

-----------------------------------------------------------------------------
(* The inductive invariant *)

\* The calls of update() that have been admitted and have not returned.
Serving == {u \in Users : user[u].pc \in {"queued", "flushing", "writing", "confirming",
                                          "settling"}}

\* The write lock is held exactly by the thread that is between its
\* acquisition and its release.
LockHeld ==
  /\ lock = Daemon <=> writer.pc \in {"writing", "confirming", "unlocking"}
  /\ \A u \in Users :
       lock = u <=> user[u].pc \in {"flushing", "writing", "confirming", "settling"}

\* Who does what: the heartbeat never waits, moves a phase or mutates, a worker
\* is busy only in its round, and only the orchestrator does the rest.
Roles ==
  /\ ~user[Beat].sets
  /\ \A u \in Users \ {Main} :
       user[u].pc \in {"ready", "waking"} \union
                      {"queued", "flushing", "writing", "confirming", "settling"}
  /\ user[Beat].pc # "waking"
  /\ \A w \in Workers : user[w].pc # "ready" => w \in active

\* The coordinator accepts calls exactly until its finally block.
Ending == running <=> user[Main].pc \notin {"emptying", "outwaiting", "ending", "stopped"}

\* From the checkpoint's wait on, no round is under way, and what the wait has
\* found empty stays so.
Alone ==
  /\ user[Main].pc \in {"draining", "saving", "committing", "saved"} => active = {}
  /\ user[Main].pc \in {"saving", "committing", "saved"} => box = Empty
  /\ user[Main].pc = "saving" => user[Main].job = graph

\* The mailbox holds the latest graph as long as calls are accepted.
BoxCurrent ==
  /\ idle => box = Empty
  /\ box # Empty => record.rev <= box /\ box <= graph /\ (running => box = graph)

\* A snapshot on its way to the record is ahead of the record, and behind it
\* in the mailbox there are newer ones only.
Ahead(rev) ==
  /\ record.rev <= rev /\ rev <= graph
  /\ box # Empty => rev <= box
  /\ running /\ box = Empty => rev = graph

InFlight ==
  /\ writer.pc = "writing" => Ahead(writer.job)
  /\ \A u \in Users : user[u].pc = "writing" => Ahead(user[u].job)

\* What is being confirmed is on the record.
Landed ==
  /\ writer.pc = "confirming" => writer.job <= record.rev /\ record.status = live
  /\ \A u \in Users : user[u].pc = "confirming" =>
       user[u].job <= record.rev /\ record.status = live
  /\ user[Main].pc = "committing" => record = [rev |-> graph, status |-> live]

\* The confirmed state is behind the record, and the record behind the process.
Squeezed ==
  /\ confirmed.rev <= record.rev /\ record.rev <= graph
  /\ confirmed.status <= record.status /\ record.status <= live /\ live <= updates

\* The admitted calls are counted, and stop() has waited for all of them and
\* for the writer.
Counted == admitted = Cardinality(Serving)

Quieted ==
  /\ user[Main].pc \in {"ending", "stopped"} => Serving = {}
  /\ user[Main].pc = "stopped" => writer.pc = "dead"

\* What speaks of the snapshots, the record and the end, apart from the count.
Advances ==
  /\ TypeOK /\ LockHeld /\ Roles /\ Ending /\ Alone /\ BoxCurrent /\ InFlight /\ Landed
  /\ Squeezed /\ CheckpointOnRecord /\ Quieted

IInv == Advances /\ Counted

-----------------------------------------------------------------------------
(* The calls that have been admitted *)

UserTypes ==
  [pc : {"ready", "waking", "queued", "flushing", "writing", "confirming", "settling",
         "joining", "draining", "saving", "committing", "saved", "leaving", "emptying",
         "outwaiting", "ending", "stopped"},
   job : Nat, sets : BOOLEAN]

\* There are finitely many, and none is counted twice.
LEMMA ServingFinite == IsFiniteSet(Serving)
<1>1. IsFiniteSet({Main}) /\ IsFiniteSet({Beat})
  BY FS_Singleton
<1>2. IsFiniteSet(Workers \union {Main})
  BY <1>1, FS_Union, PersistAssumption
<1>3. IsFiniteSet((Workers \union {Main}) \union {Beat})
  BY <1>1, <1>2, FS_Union
<1>4. Serving \subseteq (Workers \union {Main}) \union {Beat}
  BY DEF Serving, Users
<1> QED BY <1>3, <1>4, FS_Subset

\* Where somebody is counted the count is not zero.
LEMMA SomeoneServes == ASSUME NEW u \in Serving PROVE Cardinality(Serving) \in Nat \ {0}
<1> QED BY ServingFinite, FS_CardinalityType, FS_EmptySet

\* Update admits a call and DirectWrite ends one; no other step changes who is
\* admitted, or the count.
LEMMA CountKept ==
  ASSUME IInv, [Next]_vars
  PROVE  Counted'
<1>0. TypeOK /\ Counted
  BY DEF IInv, Advances
<1>1. ASSUME NEW u \in Users, Update(u)
      PROVE  Counted'
  <2>1. Serving' = Serving \union {u} /\ u \notin Serving /\ admitted' = admitted + 1
    BY <1>0, <1>1 DEF TypeOK, Serving, Update, MayCall, At
  <2> QED BY <1>0, <2>1, ServingFinite, FS_AddElement DEF Counted
<1>2. ASSUME NEW u \in Users, DirectWrite(u)
      PROVE  Counted'
  <2>1. Serving' = Serving \ {u} /\ u \in Serving /\ admitted' = admitted - 1
    BY <1>0, <1>2 DEF TypeOK, Serving, DirectWrite, Unlocked, At, Goes
  <2> QED BY <1>0, <2>1, ServingFinite, FS_RemoveElement DEF Counted
<1>3. CASE Writer \/ UNCHANGED vars
  <2>1. UNCHANGED <<user, admitted>>
    BY <1>3 DEF vars, flusher, Writer, Claim, Write, Confirm, Unlock, Settle
  <2> QED BY <1>0, <2>1 DEF Counted, Serving
<1>4. CASE Orchestrator
  <2>1. Serving' = Serving
    BY <1>0, <1>4, PersistAssumption
    DEF TypeOK, Serving, Users, Orchestrator, StartRound, Join, PersistSync, Checkpoint,
        CheckpointWrite, CheckpointConfirm, Continue, Stop, StopDrained, SignalStop,
        JoinWriter, At, Goes
  <2>2. UNCHANGED admitted
    BY <1>4 DEF flusher, Orchestrator, StartRound, Join, PersistSync, Checkpoint,
                CheckpointWrite, CheckpointConfirm, Continue, Stop, StopDrained, SignalStop,
                JoinWriter
  <2> QED BY <1>0, <2>1, <2>2 DEF Counted
<1>5. ASSUME NEW u \in Users,
             \/ Mutate(u) \/ WorkerReturns(u) \/ Wake(u) \/ LockUpdate(u) \/ FlushClaim(u)
             \/ FlushWrite(u) \/ FlushConfirm(u) \/ FlushSettle(u)
      PROVE  Counted'
  <2>1. Serving' = Serving
    BY <1>0, <1>5
    DEF TypeOK, Serving, Mutate, MayCall, WorkerReturns, Wake, LockUpdate, FlushClaim,
        FlushWrite, FlushConfirm, FlushSettle, At, Goes
  <2>2. UNCHANGED admitted
    BY <1>5 DEF flusher, Mutate, WorkerReturns, Wake, LockUpdate, FlushClaim, FlushWrite,
                FlushConfirm, FlushSettle
  <2> QED BY <1>0, <2>1, <2>2 DEF Counted
<1> QED BY <1>1, <1>2, <1>3, <1>4, <1>5 DEF Next, Direct

-----------------------------------------------------------------------------
(* The steps of the writer thread *)

\* The daemon takes the latest snapshot, which no other write is ahead of.
LEMMA ClaimKeeps == ASSUME IInv, Claim PROVE Advances'
<1>1. TypeOK'
  <2>1. CASE box = Empty
    BY <2>1 DEF IInv, Advances, TypeOK, Claim, Empty
  <2>2. CASE box # Empty
    <3>1. writer' = [pc |-> "writing", job |-> box] /\ lock' = Daemon
      BY <2>2 DEF Claim
    <3> QED BY <3>1 DEF IInv, Advances, TypeOK, Claim, Empty
  <2> QED BY <2>1, <2>2
<1>2. InFlight'
  BY PersistAssumption
  DEF IInv, Advances, Claim, InFlight, BoxCurrent, LockHeld, TypeOK, WriteLockFree, Ahead
<1>3. LockHeld' /\ Landed'
  BY PersistAssumption DEF IInv, Advances, Claim, TypeOK, LockHeld, Landed, WriteLockFree
<1>4. Roles' /\ Ending' /\ Alone' /\ BoxCurrent' /\ Squeezed' /\ CheckpointOnRecord' /\
      Quieted'
  BY DEF IInv, Advances, Claim, Roles, Ending, Alone, BoxCurrent, Squeezed,
         CheckpointOnRecord, Quieted, WriteLockFree, At, Serving
<1> QED BY <1>1, <1>2, <1>3, <1>4 DEF Advances

\* The daemon's write lands over an older snapshot, or raises.
LEMMA WriteKeeps == ASSUME IInv, Write PROVE Advances'
<1>1. BoxCurrent'
  BY DEF IInv, Advances, Write, BoxCurrent, InFlight, Lands, Raises, flusher, Ahead
<1>2. InFlight'
  BY PersistAssumption DEF IInv, Advances, Write, InFlight, LockHeld, TypeOK
<1>3. Landed'
  BY DEF IInv, Advances, Write, Landed, InFlight, TypeOK, Lands, Raises, Ahead, Saved
<1>4. Squeezed'
  BY DEF IInv, Advances, Write, Squeezed, InFlight, TypeOK, Lands, Raises, Ahead, Saved
<1>5. CheckpointOnRecord'
  BY DEF IInv, Advances, Write, CheckpointOnRecord, Alone, Ending, InFlight, Lands, Raises,
         At, Ahead
<1>6. LockHeld'
  BY DEF IInv, Advances, Write, TypeOK, LockHeld, flusher
<1>7. TypeOK' /\ Roles' /\ Ending' /\ Alone' /\ Quieted'
  BY DEF IInv, Advances, Write, TypeOK, Roles, Ending, Alone, Quieted, Lands, Raises,
         flusher, Saved, Serving
<1> QED BY <1>1, <1>2, <1>3, <1>4, <1>5, <1>6, <1>7 DEF Advances

\* What the daemon confirms is on the record already.
LEMMA ConfirmKeeps == ASSUME IInv, Confirm PROVE Advances'
<1>1. Squeezed'
  BY DEF IInv, Advances, Confirm, Squeezed, Landed, Confirms
<1>2. TypeOK' /\ LockHeld' /\ Roles' /\ Ending' /\ Alone' /\ BoxCurrent' /\ InFlight' /\
      Landed' /\ CheckpointOnRecord' /\ Quieted'
  BY DEF IInv, Advances, Confirm, TypeOK, LockHeld, Roles, Ending, Alone, BoxCurrent,
         InFlight, Landed, CheckpointOnRecord, Quieted, Confirms, flusher, Saved, Ahead, At,
         Serving
<1> QED BY <1>1, <1>2 DEF Advances

\* The lock is let go, whatever became of the write.
LEMMA UnlockKeeps == ASSUME IInv, Unlock PROVE Advances'
<1>1. TypeOK' /\ LockHeld' /\ Roles' /\ Ending' /\ Alone' /\ BoxCurrent' /\ InFlight' /\
      Landed' /\ Squeezed' /\ CheckpointOnRecord' /\ Quieted'
  BY PersistAssumption
  DEF IInv, Advances, Unlock, TypeOK, LockHeld, Roles, Ending, Alone, BoxCurrent, InFlight,
      Landed, Squeezed, CheckpointOnRecord, Quieted, Empty, At, Serving
<1> QED BY <1>1 DEF Advances

\* The mailbox is found empty only when it is.
LEMMA SettleKeeps == ASSUME IInv, Settle PROVE Advances'
<1>1. TypeOK' /\ LockHeld' /\ Roles' /\ Ending' /\ Alone' /\ BoxCurrent' /\ InFlight' /\
      Landed' /\ Squeezed' /\ CheckpointOnRecord' /\ Quieted'
  BY DEF IInv, Advances, Settle, TypeOK, LockHeld, Roles, Ending, Alone, BoxCurrent,
         InFlight, Landed, Squeezed, CheckpointOnRecord, Quieted, Ahead, At, Serving
<1> QED BY <1>1 DEF Advances

-----------------------------------------------------------------------------
(* The steps of a mutation and of a direct write *)

\* A mutation fills the mailbox with the new graph, or calls are refused.
LEMMA MutateKeeps == ASSUME IInv, NEW u \in Users, Mutate(u) PROVE Advances'
<1>1. TypeOK'
  <2>1. CASE running /\ confirmed.rev # graph'
    <3>1. user' \in [Users -> UserTypes]
      BY <2>1 DEF IInv, Advances, TypeOK, UserTypes, Mutate, Goes
    <3>2. graph' \in Nat \ {0} /\ box' = graph' /\ idle' = FALSE
      BY <2>1 DEF IInv, Advances, TypeOK, Mutate
    <3> QED BY <3>1, <3>2 DEF IInv, Advances, TypeOK, UserTypes, Mutate
  <2>2. CASE ~(running /\ confirmed.rev # graph')
    BY <2>2 DEF IInv, Advances, TypeOK, Mutate
  <2> QED BY <2>1, <2>2
<1>2. BoxCurrent'
  BY DEF IInv, Advances, Mutate, BoxCurrent, Squeezed, TypeOK, Saved
<1>3. InFlight'
  BY DEF IInv, Advances, Mutate, InFlight, Squeezed, TypeOK, Goes, Ahead, Saved, Empty
<1>4. Landed'
  BY DEF IInv, Advances, Mutate, Landed, Alone, TypeOK, MayCall, Users, At, Goes
<1>5. CheckpointOnRecord'
  BY DEF IInv, Advances, Mutate, CheckpointOnRecord, Alone, TypeOK, MayCall, Users, At, Goes
<1>6. LockHeld' /\ Roles' /\ Ending' /\ Alone' /\ Squeezed' /\ Quieted'
  BY PersistAssumption
  DEF IInv, Advances, Mutate, TypeOK, LockHeld, Roles, Ending, Alone, Squeezed, Quieted,
      MayCall, Users, At, Goes, Saved, Serving
<1> QED BY <1>1, <1>2, <1>3, <1>4, <1>5, <1>6 DEF Advances

\* A wakeup changes nothing the invariant speaks of.
LEMMA WakeKeeps == ASSUME IInv, NEW u \in Users, Wake(u) PROVE Advances'
<1>1. TypeOK' /\ LockHeld' /\ Roles' /\ Ending' /\ Alone' /\ BoxCurrent' /\ InFlight' /\
      Landed' /\ Squeezed' /\ CheckpointOnRecord' /\ Quieted'
  BY DEF IInv, Advances, Wake, TypeOK, LockHeld, Roles, Ending, Alone, BoxCurrent, InFlight,
         Landed, Squeezed, CheckpointOnRecord, Quieted, At, Goes, Ahead, Serving
<1> QED BY <1>1 DEF Advances

\* A direct write is admitted while calls are accepted, and so before the end.
LEMMA UpdateKeeps == ASSUME IInv, NEW u \in Users, Update(u) PROVE Advances'
<1>1. Quieted'
  BY DEF IInv, Advances, Update, Quieted, Ending
<1>2. Roles' /\ Squeezed'
  BY PersistAssumption DEF IInv, Advances, Update, TypeOK, Roles, Squeezed, MayCall
<1>3. TypeOK' /\ LockHeld' /\ Ending' /\ Alone' /\ BoxCurrent' /\ InFlight' /\ Landed' /\
      CheckpointOnRecord'
  BY DEF IInv, Advances, Update, TypeOK, LockHeld, Ending, Alone, BoxCurrent, InFlight,
         Landed, CheckpointOnRecord, MayCall, Empty, Ahead, At
<1> QED BY <1>1, <1>2, <1>3 DEF Advances

\* A direct write takes the free lock.
LEMMA LockUpdateKeeps == ASSUME IInv, NEW u \in Users, LockUpdate(u) PROVE Advances'
<1>1. LockHeld'
  BY PersistAssumption DEF IInv, Advances, LockUpdate, TypeOK, LockHeld, Goes
<1>2. TypeOK' /\ Roles' /\ Ending' /\ Alone' /\ BoxCurrent' /\ InFlight' /\ Landed' /\
      Squeezed' /\ CheckpointOnRecord' /\ Quieted'
  BY DEF IInv, Advances, LockUpdate, TypeOK, Roles, Ending, Alone, BoxCurrent, InFlight,
         Landed, Squeezed, CheckpointOnRecord, Quieted, At, Goes, Ahead, Serving
<1> QED BY <1>1, <1>2 DEF Advances

\* A direct write takes the snapshot in the mailbox under the lock.
LEMMA FlushClaimKeeps == ASSUME IInv, NEW u \in Users, FlushClaim(u) PROVE Advances'
<1>1. InFlight'
  BY PersistAssumption
  DEF IInv, Advances, FlushClaim, InFlight, BoxCurrent, LockHeld, TypeOK, At, Ahead
<1>2. LockHeld' /\ Roles' /\ Ending' /\ Alone' /\ Landed' /\ CheckpointOnRecord' /\ Quieted'
  BY DEF IInv, Advances, FlushClaim, TypeOK, LockHeld, Roles, Ending, Alone, Landed,
         CheckpointOnRecord, Quieted, At, Users, Serving
<1>3. TypeOK'
  <2>1. user' \in [Users -> UserTypes]
    <3>1. user \in [Users -> UserTypes] /\ box \in Nat
      BY DEF IInv, Advances, TypeOK, UserTypes
    <3> QED BY <3>1 DEF FlushClaim, UserTypes, Empty
  <2>2. /\ box' \in Nat /\ idle' \in BOOLEAN
        /\ UNCHANGED <<wake, stopFlag, running, lock, admitted, writer, active, graph, live,
                       confirmed, record, updates, rounds, faults>>
    BY DEF IInv, Advances, TypeOK, FlushClaim, Empty
  <2> QED BY <2>1, <2>2 DEF IInv, Advances, TypeOK, UserTypes
<1>4. BoxCurrent'
  BY DEF IInv, Advances, FlushClaim, TypeOK, BoxCurrent, Empty
<1>5. Squeezed'
  BY DEF IInv, Advances, FlushClaim, TypeOK, Squeezed, Empty
<1> QED BY <1>1, <1>2, <1>3, <1>4, <1>5 DEF Advances

\* The flushed snapshot lands over an older one, or raises.
LEMMA FlushWriteKeeps == ASSUME IInv, NEW u \in Users, FlushWrite(u) PROVE Advances'
<1>1. BoxCurrent'
  BY DEF IInv, Advances, FlushWrite, BoxCurrent, InFlight, At, Lands, Raises, flusher, Ahead
<1>2. InFlight'
  BY PersistAssumption DEF IInv, Advances, FlushWrite, InFlight, LockHeld, TypeOK, At, Goes
<1>3. Landed'
  BY DEF IInv, Advances, FlushWrite, Landed, InFlight, TypeOK, At, Lands, Goes, Raises,
         Users, Ahead, Saved
<1>4. Squeezed'
  BY DEF IInv, Advances, FlushWrite, Squeezed, InFlight, TypeOK, At, Lands, Raises, Ahead,
         Saved
<1>5. CheckpointOnRecord'
  BY DEF IInv, Advances, FlushWrite, CheckpointOnRecord, InFlight, TypeOK, At, Lands, Goes,
         Raises, Ahead, Users
<1>6. LockHeld' /\ Roles' /\ Ending' /\ Alone' /\ Quieted'
  BY DEF IInv, Advances, FlushWrite, TypeOK, LockHeld, Roles, Ending, Alone, Quieted, At,
         Goes, flusher, Users, Serving
<1>7. TypeOK'
  BY DEF IInv, Advances, FlushWrite, TypeOK, Lands, Goes, Raises, flusher, Saved
<1> QED BY <1>1, <1>2, <1>3, <1>4, <1>5, <1>6, <1>7 DEF Advances

\* What a direct write confirms is on the record already.
LEMMA FlushConfirmKeeps == ASSUME IInv, NEW u \in Users, FlushConfirm(u) PROVE Advances'
<1>1. Squeezed'
  BY DEF IInv, Advances, FlushConfirm, Squeezed, Landed, At, Confirms
<1>2. TypeOK' /\ LockHeld' /\ Roles' /\ Ending' /\ Alone' /\ BoxCurrent' /\ InFlight' /\
      Landed' /\ CheckpointOnRecord' /\ Quieted'
  BY DEF IInv, Advances, FlushConfirm, TypeOK, LockHeld, Roles, Ending, Alone, BoxCurrent,
         InFlight, Landed, CheckpointOnRecord, Quieted, At, Confirms, Goes, flusher, Saved,
         Ahead, Serving
<1> QED BY <1>1, <1>2 DEF Advances

\* The flush is over and the direct write is next.
LEMMA FlushSettleKeeps == ASSUME IInv, NEW u \in Users, FlushSettle(u) PROVE Advances'
<1>1. LockHeld' /\ Roles' /\ Ending' /\ Alone' /\ InFlight' /\ Landed' /\
      CheckpointOnRecord' /\ Quieted'
  BY DEF IInv, Advances, FlushSettle, TypeOK, LockHeld, Roles, Ending, Alone, InFlight,
         Landed, CheckpointOnRecord, Quieted, At, Users, Ahead, Serving
<1>2. TypeOK'
  <2>1. user' \in [Users -> UserTypes]
    <3>1. user \in [Users -> UserTypes] /\ box \in Nat
      BY DEF IInv, Advances, TypeOK, UserTypes
    <3> QED BY <3>1 DEF FlushSettle, UserTypes, Empty
  <2>2. /\ box' \in Nat /\ idle' \in BOOLEAN
        /\ UNCHANGED <<wake, stopFlag, running, lock, admitted, writer, active, graph, live,
                       confirmed, record, updates, rounds, faults>>
    BY DEF IInv, Advances, TypeOK, FlushSettle, Empty
  <2> QED BY <2>1, <2>2 DEF IInv, Advances, TypeOK, UserTypes
<1>3. BoxCurrent'
  BY DEF IInv, Advances, FlushSettle, TypeOK, BoxCurrent, Empty
<1>4. Squeezed'
  BY DEF IInv, Advances, FlushSettle, TypeOK, Squeezed, Empty
<1> QED BY <1>1, <1>2, <1>3, <1>4 DEF Advances

\* The direct write itself moves the phase of the record and of the process
\* together, and nobody else is writing.
LEMMA DirectWriteKeeps == ASSUME IInv, NEW u \in Users, DirectWrite(u) PROVE Advances'
<1>1. TypeOK'
  <2>1. admitted - 1 \in Nat
    BY SomeoneServes DEF IInv, Advances, TypeOK, Counted, Serving, DirectWrite, At
  <2>2. user' \in [Users -> UserTypes]
    BY DEF IInv, Advances, TypeOK, UserTypes, DirectWrite, Unlocked, Goes
  <2>3. live' \in Nat /\ record' \in Saved /\ faults' \in Nat
    BY DEF IInv, Advances, TypeOK, DirectWrite, Raises, Saved
  <2> QED BY <2>1, <2>2, <2>3 DEF IInv, Advances, TypeOK, UserTypes, DirectWrite, Unlocked
<1>2. LockHeld' /\ InFlight' /\ Landed' /\ Squeezed'
  BY PersistAssumption
  DEF IInv, Advances, DirectWrite, TypeOK, LockHeld, InFlight, Landed, Squeezed, At, Raises,
      Unlocked, Saved, Goes
<1>3. Roles' /\ Ending' /\ Alone' /\ BoxCurrent' /\ CheckpointOnRecord' /\ Quieted'
  BY DEF IInv, Advances, DirectWrite, Roles, Ending, Alone, BoxCurrent, CheckpointOnRecord,
         Quieted, At, Raises, Unlocked, Serving, Goes
<1> QED BY <1>1, <1>2, <1>3 DEF Advances

\* A worker that has returned is not in a call.
LEMMA WorkerReturnsKeeps == ASSUME IInv, NEW u \in Users, WorkerReturns(u) PROVE Advances'
<1>1. TypeOK' /\ LockHeld' /\ Roles' /\ Ending' /\ Alone' /\ BoxCurrent' /\ InFlight' /\
      Landed' /\ Squeezed' /\ CheckpointOnRecord' /\ Quieted'
  BY DEF IInv, Advances, WorkerReturns, TypeOK, LockHeld, Roles, Ending, Alone, BoxCurrent,
         InFlight, Landed, Squeezed, CheckpointOnRecord, Quieted, At, flusher, Ahead,
         Serving
<1> QED BY <1>1 DEF Advances

-----------------------------------------------------------------------------
(* The steps of the orchestrator *)

\* A round starts from rest.
LEMMA StartRoundKeeps == ASSUME IInv, StartRound PROVE Advances'
<1>1. TypeOK' /\ LockHeld' /\ Roles' /\ Ending' /\ Alone' /\ BoxCurrent' /\ InFlight' /\
      Landed' /\ Squeezed' /\ CheckpointOnRecord' /\ Quieted'
  BY DEF IInv, Advances, StartRound, TypeOK, LockHeld, Roles, Ending, Alone, BoxCurrent,
         InFlight, Landed, Squeezed, CheckpointOnRecord, Quieted, At, Goes, flusher, Users,
         Ahead
<1> QED BY <1>1 DEF Advances

\* A round ends when its workers have.
LEMMA JoinKeeps == ASSUME IInv, Join PROVE Advances'
<1>1. TypeOK' /\ LockHeld' /\ Roles' /\ Ending' /\ Alone' /\ BoxCurrent' /\ InFlight' /\
      Landed' /\ Squeezed' /\ CheckpointOnRecord' /\ Quieted'
  BY DEF IInv, Advances, Join, TypeOK, LockHeld, Roles, Ending, Alone, BoxCurrent, InFlight,
         Landed, Squeezed, CheckpointOnRecord, Quieted, At, Goes, flusher, Users, Ahead
<1> QED BY <1>1 DEF Advances

\* A checkpoint begins with no round under way.
LEMMA PersistSyncKeeps == ASSUME IInv, PersistSync PROVE Advances'
<1>1. TypeOK' /\ LockHeld' /\ Roles' /\ Ending' /\ Alone' /\ BoxCurrent' /\ InFlight' /\
      Landed' /\ Squeezed' /\ CheckpointOnRecord' /\ Quieted'
  BY PersistAssumption
  DEF IInv, Advances, PersistSync, TypeOK, LockHeld, Roles, Ending, Alone, BoxCurrent,
      InFlight, Landed, Squeezed, CheckpointOnRecord, Quieted, At, Goes, flusher, Users,
      Ahead
<1> QED BY <1>1 DEF Advances

\* With the mailbox empty and no round under way, a confirmed graph is on the
\* record: the record is between what is confirmed and what the process has.
LEMMA CheckpointKeeps == ASSUME IInv, Checkpoint PROVE Advances'
<1>1. Alone'
  BY DEF IInv, Advances, Checkpoint, Alone, BoxCurrent, TypeOK, At, Drained, Goes, flusher
<1>2. CheckpointOnRecord'
  BY DEF IInv, Advances, Checkpoint, CheckpointOnRecord, Squeezed, TypeOK, At, Drained,
         Saved
<1>3. LockHeld' /\ Roles' /\ Ending' /\ InFlight' /\ Landed' /\ Quieted'
  BY DEF IInv, Advances, Checkpoint, TypeOK, LockHeld, Roles, Ending, InFlight, Landed,
         Quieted, At, Drained, Goes, flusher, Users, Ahead
<1>4. TypeOK' /\ BoxCurrent' /\ Squeezed'
  BY DEF IInv, Advances, Checkpoint, TypeOK, BoxCurrent, Squeezed, Drained, Goes, flusher
<1> QED BY <1>1, <1>2, <1>3, <1>4 DEF Advances

\* The checkpoint's own write lands beside the lock; what it may meet in
\* flight is the same snapshot.
LEMMA CheckpointWriteKeeps == ASSUME IInv, CheckpointWrite PROVE Advances'
<1>1. BoxCurrent'
  BY DEF IInv, Advances, CheckpointWrite, BoxCurrent, Alone, At, flusher
<1>2. InFlight'
  BY DEF IInv, Advances, CheckpointWrite, InFlight, Alone, Ending, TypeOK, At, Lands, Goes,
         Raises, flusher, Ahead
<1>3. Landed'
  BY DEF IInv, Advances, CheckpointWrite, Landed, Alone, Squeezed, TypeOK, At, Lands, Goes,
         Raises, Saved
<1>4. Squeezed'
  BY DEF IInv, Advances, CheckpointWrite, Squeezed, Alone, TypeOK, At, Lands, Raises, Saved
<1>5. LockHeld' /\ Roles' /\ Ending' /\ Alone' /\ CheckpointOnRecord' /\ Quieted'
  BY DEF IInv, Advances, CheckpointWrite, TypeOK, LockHeld, Roles, Ending, Alone,
         CheckpointOnRecord, Quieted, At, Goes, flusher, Users
<1>6. TypeOK'
  BY DEF IInv, Advances, CheckpointWrite, TypeOK, Lands, Goes, Raises, flusher, Users, Saved
<1> QED BY <1>1, <1>2, <1>3, <1>4, <1>5, <1>6 DEF Advances

\* The checkpoint confirms what it wrote.
LEMMA CheckpointConfirmKeeps == ASSUME IInv, CheckpointConfirm PROVE Advances'
<1>1. TypeOK'
  <2>1. confirmed' \in Saved
    BY DEF IInv, Advances, TypeOK, CheckpointConfirm, Confirms, Saved
  <2>2. user' \in [Users -> UserTypes]
    <3>1. user \in [Users -> UserTypes]
      BY DEF IInv, Advances, TypeOK, UserTypes
    <3> QED BY <3>1 DEF CheckpointConfirm, UserTypes, Empty
  <2> QED BY <2>1, <2>2 DEF IInv, Advances, TypeOK, UserTypes, CheckpointConfirm, flusher
<1>2. Squeezed'
  BY DEF IInv, Advances, CheckpointConfirm, Squeezed, Landed, At, Confirms
<1>3. CheckpointOnRecord'
  BY DEF IInv, Advances, CheckpointConfirm, CheckpointOnRecord, Landed, At
<1>4. LockHeld' /\ Roles' /\ Ending' /\ Alone' /\ InFlight' /\ Landed' /\ Quieted'
  BY DEF IInv, Advances, CheckpointConfirm, TypeOK, LockHeld, Roles, Ending, Alone,
         InFlight, Landed, Quieted, At, flusher, Users, Ahead
<1>5. BoxCurrent'
  BY DEF IInv, Advances, CheckpointConfirm, BoxCurrent, flusher
<1> QED BY <1>1, <1>2, <1>3, <1>4, <1>5 DEF Advances

\* The orchestrator goes on.
LEMMA ContinueKeeps == ASSUME IInv, Continue PROVE Advances'
<1>1. TypeOK' /\ LockHeld' /\ Roles' /\ Ending' /\ Alone' /\ BoxCurrent' /\ InFlight' /\
      Landed' /\ Squeezed' /\ CheckpointOnRecord' /\ Quieted'
  BY DEF IInv, Advances, Continue, TypeOK, LockHeld, Roles, Ending, Alone, BoxCurrent,
         InFlight, Landed, Squeezed, CheckpointOnRecord, Quieted, At, Goes, flusher, Users,
         Ahead
<1> QED BY <1>1 DEF Advances

\* From here on calls are refused.
LEMMA StopKeeps == ASSUME IInv, Stop PROVE Advances'
<1>1. TypeOK'
  <2>1. user' \in [Users -> UserTypes]
    BY DEF IInv, Advances, TypeOK, UserTypes, Stop, Goes
  <2> QED BY <2>1 DEF IInv, Advances, TypeOK, UserTypes, Stop
<1>2. Ending'
  BY DEF IInv, Advances, Stop, TypeOK, Ending, Goes, Users
<1>3. LockHeld' /\ Roles' /\ Alone' /\ BoxCurrent' /\ InFlight' /\ Landed' /\ Squeezed' /\
      CheckpointOnRecord' /\ Quieted'
  BY PersistAssumption
  DEF IInv, Advances, Stop, LockHeld, Roles, Alone, BoxCurrent, InFlight, Landed, Squeezed,
      CheckpointOnRecord, Quieted, At, Goes, Ahead
<1> QED BY <1>1, <1>2, <1>3 DEF Advances

\* The mailbox is empty.
LEMMA StopDrainedKeeps == ASSUME IInv, StopDrained PROVE Advances'
<1>1. TypeOK' /\ LockHeld' /\ Roles' /\ Ending' /\ Alone' /\ BoxCurrent' /\ InFlight' /\
      Landed' /\ Squeezed' /\ CheckpointOnRecord' /\ Quieted'
  BY DEF IInv, Advances, StopDrained, TypeOK, LockHeld, Roles, Ending, Alone, BoxCurrent,
         InFlight, Landed, Squeezed, CheckpointOnRecord, Quieted, At, Goes, flusher, Users,
         Ahead
<1> QED BY <1>1 DEF Advances

\* The count of the admitted calls is zero, so there are none.
LEMMA SignalStopKeeps == ASSUME IInv, SignalStop PROVE Advances'
<1>1. Quieted'
  <2>1. Serving = {}
    BY ServingFinite, FS_EmptySet DEF IInv, Advances, Counted, SignalStop, NoneAdmitted
  <2>2. Serving' = Serving
    BY DEF IInv, Advances, TypeOK, Serving, SignalStop, At, Goes
  <2> QED BY <2>1, <2>2 DEF IInv, Advances, TypeOK, Quieted, SignalStop, At, Goes
<1>2. TypeOK' /\ LockHeld' /\ Roles' /\ Ending' /\ Alone' /\ BoxCurrent' /\ InFlight' /\
      Landed' /\ Squeezed' /\ CheckpointOnRecord'
  BY DEF IInv, Advances, SignalStop, TypeOK, LockHeld, Roles, Ending, Alone, BoxCurrent,
         InFlight, Landed, Squeezed, CheckpointOnRecord, At, NoneAdmitted, Goes, Users,
         Ahead
<1> QED BY <1>1, <1>2 DEF Advances

\* The writer has ended.
LEMMA JoinWriterKeeps == ASSUME IInv, JoinWriter PROVE Advances'
<1>1. TypeOK' /\ LockHeld' /\ Roles' /\ Ending' /\ Alone' /\ BoxCurrent' /\ InFlight' /\
      Landed' /\ Squeezed' /\ CheckpointOnRecord' /\ Quieted'
  BY DEF IInv, Advances, JoinWriter, TypeOK, LockHeld, Roles, Ending, Alone, BoxCurrent,
         InFlight, Landed, Squeezed, CheckpointOnRecord, Quieted, At, Goes, flusher, Users,
         Serving
<1> QED BY <1>1 DEF Advances

-----------------------------------------------------------------------------
(* The invariant is inductive *)

LEMMA Initially == Init => IInv
<1> SUFFICES ASSUME Init PROVE IInv
  OBVIOUS
<1>1. Serving = {}
  BY DEF Init, Serving
<1>2. Counted
  BY <1>1, FS_EmptySet DEF Init, Counted
<1>3. TypeOK
  <2>1. user \in [Users -> UserTypes]
    BY DEF Init, UserTypes, Empty
  <2>2. writer \in [pc : {"waiting", "writing", "confirming", "unlocking", "settling", "dead"},
                    job : Nat]
    BY DEF Init, Empty
  <2>3. confirmed \in Saved /\ record \in Saved
    BY DEF Init, Saved
  <2>4. /\ box \in Nat /\ admitted \in Nat /\ graph \in Nat \ {0} /\ live \in Nat
        /\ updates \in Nat /\ rounds \in Nat /\ faults \in Nat
        /\ lock \in Users \union {Daemon, Free} /\ active \subseteq Workers
    BY DEF Init, Empty
  <2>5. /\ wake \in BOOLEAN /\ idle \in BOOLEAN /\ stopFlag \in BOOLEAN
        /\ running \in BOOLEAN
    BY DEF Init
  <2> QED BY <2>1, <2>2, <2>3, <2>4, <2>5 DEF TypeOK, UserTypes
<1>4. LockHeld /\ Roles
  BY PersistAssumption DEF Init, LockHeld, Roles, Users
<1>5. Ending /\ Alone /\ BoxCurrent /\ InFlight /\ Landed
  BY DEF Init, Ending, Alone, BoxCurrent, InFlight, Landed, Users, Empty
<1>6. Squeezed /\ CheckpointOnRecord /\ Quieted
  BY DEF Init, Squeezed, CheckpointOnRecord, Quieted, At, Users
<1> QED BY <1>2, <1>3, <1>4, <1>5, <1>6 DEF IInv, Advances

LEMMA Stutters == ASSUME IInv, UNCHANGED vars PROVE Advances'
<1> QED
  BY DEF vars, flusher, IInv, Advances, TypeOK, LockHeld, Roles, Ending, Alone, BoxCurrent,
         InFlight, Ahead, Landed, Squeezed, CheckpointOnRecord, Quieted, At, Serving

LEMMA Inductive == IInv /\ [Next]_vars => IInv'
<1> SUFFICES ASSUME IInv, [Next]_vars PROVE IInv'
  OBVIOUS
<1>1. ASSUME Writer PROVE Advances'
  BY <1>1, ClaimKeeps, WriteKeeps, ConfirmKeeps, UnlockKeeps, SettleKeeps DEF Writer
<1>2. ASSUME Orchestrator PROVE Advances'
  BY <1>2, StartRoundKeeps, JoinKeeps, PersistSyncKeeps, CheckpointKeeps, CheckpointWriteKeeps,
     CheckpointConfirmKeeps, ContinueKeeps, StopKeeps, StopDrainedKeeps, SignalStopKeeps,
     JoinWriterKeeps
  DEF Orchestrator
<1>3. ASSUME NEW u \in Users, Mutate(u) \/ Update(u) \/ Direct(u) \/ WorkerReturns(u)
      PROVE  Advances'
  BY <1>3, MutateKeeps, WakeKeeps, UpdateKeeps, LockUpdateKeeps, FlushClaimKeeps,
     FlushWriteKeeps, FlushConfirmKeeps, FlushSettleKeeps, DirectWriteKeeps,
     WorkerReturnsKeeps
  DEF Direct
<1>4. Advances'
  BY <1>1, <1>2, <1>3, Stutters DEF Next
<1> QED BY <1>4, CountKept DEF IInv

-----------------------------------------------------------------------------
(* The theorems *)

LEMMA Invariance == Spec => []IInv
<1> QED BY Initially, Inductive, PTL DEF Spec

\* Every variable keeps its type.
THEOREM TypeCorrect == Spec => []TypeOK
<1>1. IInv => TypeOK
  BY DEF IInv, Advances
<1> QED BY <1>1, Invariance, PTL

\* persist_sync: when it has returned, the record holds the graph and the phase
\* the orchestrator has.
THEOREM CheckpointsHold == Spec => []CheckpointOnRecord
<1>1. IInv => CheckpointOnRecord
  BY DEF IInv, Advances
<1> QED BY <1>1, Invariance, PTL

\* LatestValueFlusher: no write overtakes a newer one on its way to the record.
THEOREM RecordAdvances == Spec => RecordOnlyAdvances
<1>1. IInv /\ [Next]_vars => [record'.rev >= record.rev /\ record'.status >= record.status]_vars
  <2> SUFFICES ASSUME IInv, [Next]_vars
               PROVE  record'.rev >= record.rev /\ record'.status >= record.status
    OBVIOUS
  <2>0. TypeOK /\ InFlight /\ Squeezed /\ Alone
    BY DEF IInv, Advances
  <2>1. CASE Write
    BY <2>0, <2>1 DEF Write, Lands, Raises, TypeOK, Saved, InFlight, Ahead, Squeezed
  <2>2. CASE CheckpointWrite
    BY <2>0, <2>2 DEF CheckpointWrite, Lands, Raises, At, TypeOK, Saved, Alone, Squeezed
  <2>3. ASSUME NEW u \in Users, FlushWrite(u)
        PROVE  record'.rev >= record.rev /\ record'.status >= record.status
    BY <2>0, <2>3 DEF FlushWrite, Lands, Raises, At, TypeOK, Saved, InFlight, Ahead, Squeezed
  <2>4. ASSUME NEW u \in Users, DirectWrite(u)
        PROVE  record'.rev >= record.rev /\ record'.status >= record.status
    BY <2>0, <2>4 DEF DirectWrite, Raises, TypeOK, Saved, Squeezed
  <2>5. CASE UNCHANGED record
    BY <2>0, <2>5 DEF TypeOK, Saved
  <2> QED
    BY <2>1, <2>2, <2>3, <2>4, <2>5
    DEF Next, Writer, Orchestrator, Direct, vars, Claim, Confirm, Unlock, Settle, Mutate,
        Update, WorkerReturns, Wake, LockUpdate, FlushClaim, FlushConfirm, FlushSettle,
        StartRound, Join, PersistSync, Checkpoint, CheckpointConfirm, Continue, Stop,
        StopDrained, SignalStop, JoinWriter
<1> QED BY <1>1, Invariance, PTL DEF Spec, RecordOnlyAdvances

\* GraphPersistCoordinator.stop: when it has returned, no thread of the run
\* writes the record, the workers of an abandoned fan-out included.
THEOREM StopIsFinal == Spec => StoppedIsQuiet
<1>1. IInv /\ [Next]_vars => [At(Main, "stopped") => UNCHANGED record]_vars
  <2> SUFFICES ASSUME IInv, [Next]_vars, At(Main, "stopped")
               PROVE  UNCHANGED record
    OBVIOUS
  <2>0. Serving = {} /\ writer.pc = "dead"
    BY DEF IInv, Advances, Quieted, At
  <2>1. ~Write /\ ~CheckpointWrite
    BY <2>0 DEF Write, CheckpointWrite, At
  <2>2. ASSUME NEW u \in Users
        PROVE  ~FlushWrite(u) /\ ~DirectWrite(u)
    BY <2>0 DEF Serving, FlushWrite, DirectWrite, At
  <2> QED
    BY <2>1, <2>2
    DEF Next, Writer, Orchestrator, Direct, vars, Claim, Confirm, Unlock, Settle, Mutate,
        Update, WorkerReturns, Wake, LockUpdate, FlushClaim, FlushConfirm, FlushSettle,
        StartRound, Join, PersistSync, Checkpoint, CheckpointConfirm, Continue, Stop,
        StopDrained, SignalStop, JoinWriter
<1> QED BY <1>1, Invariance, PTL DEF Spec, StoppedIsQuiet

(***************************************************************************)
(*                            The keyed locks                              *)
(***************************************************************************)

-----------------------------------------------------------------------------
(* The inductive invariant *)

\* Two keys never get the same lock.
Numbered ==
  /\ \A k \in Keys : order[k] <= seen
  /\ \A j, k \in Keys : order[j] = order[k] /\ order[j] # Unseen => j = k

\* Only the innermost call of a thread is outside its body.
Nested ==
  \A t \in Threads : \A i \in 1 .. Depth(t) - 1 : stack[t][i].phase = "body"

\* An admitted call's locks come after what the thread held when it called.
Above ==
  \A t \in Threads : \A i \in 1 .. Depth(t) :
    stack[t][i].phase # "resolving" =>
      \A k \in stack[t][i].todo \union stack[t][i].done : order[k] > stack[t][i].prev

\* A batch is acquired in lock order.
Sorted ==
  \A t \in Threads : \A i \in 1 .. Depth(t) :
    stack[t][i].phase = "acquiring" =>
      \A k \in stack[t][i].done, j \in stack[t][i].todo : order[k] < order[j]

\* What the outer calls hold is below what an inner one started from.
Stacked ==
  \A t \in Threads : \A j \in 1 .. Depth(t) : \A i \in 1 .. j - 1 :
    stack[t][j].phase # "resolving" =>
      \A k \in stack[t][i].done : order[k] <= stack[t][j].prev

\* The record covers every body that runs.
Recorded ==
  \A t \in Threads : \A i \in 1 .. Depth(t) :
    stack[t][i].phase = "body" => \A k \in stack[t][i].done : order[k] <= maxOrder[t]

\* A call has the locks it acquired, and a lock one thread.
Backed ==
  /\ \A t \in Threads : \A i \in 1 .. Depth(t) : \A k \in Keys :
       HoldsIn(t, i, k) => <<order[k], t>> \in held
  /\ \A n \in Nat : \A t, u \in Threads : <<n, t>> \in held /\ <<n, u>> \in held => t = u

\* While the factory runs its slot is empty.
Vacant ==
  \A t \in Threads : \A i \in 1 .. Depth(t) :
    stack[t][i].phase = "body" /\ stack[t][i].kind = "build" =>
      \A k \in stack[t][i].done : values[k] = Unbuilt

LocksInv ==
  LocksTypeOK /\ Numbered /\ Nested /\ Above /\ Sorted /\ Stacked /\ Recorded /\ Backed /\ Vacant

-----------------------------------------------------------------------------
(* The stack *)

\* The calls of a thread are frames.
LEMMA Frames ==
  ASSUME LocksTypeOK, NEW t \in Threads
  PROVE  /\ Depth(t) \in Nat
         /\ \A i \in 1 .. Depth(t) :
              /\ stack[t][i] \in Frame
              /\ stack[t][i].phase \in Phase /\ stack[t][i].kind \in Kind
              /\ stack[t][i].todo \subseteq Keys /\ stack[t][i].done \subseteq Keys
              /\ stack[t][i].prev \in Nat
<1>1. stack[t] \in Seq(Frame)
  BY DEF LocksTypeOK
<1>2. Depth(t) \in Nat
  BY <1>1 DEF Depth
<1>3. ASSUME NEW i \in 1 .. Depth(t) PROVE stack[t][i] \in Frame
  BY <1>1, <1>3, ElementOfSeq DEF Depth
<1> QED BY <1>2, <1>3 DEF Frame

\* A new innermost call.
LEMMA Pushed ==
  ASSUME LocksTypeOK, NEW t \in Threads, NEW f \in Frame, Enters(t, f)
  PROVE  /\ stack' \in [Threads -> Seq(Frame)]
         /\ Depth(t)' = Depth(t) + 1 /\ stack'[t][Depth(t) + 1] = f
         /\ \A i \in 1 .. Depth(t) : stack'[t][i] = stack[t][i]
         /\ \A u \in Threads \ {t} : stack'[u] = stack[u] /\ Depth(u)' = Depth(u)
<1>1. stack[t] \in Seq(Frame)
  BY DEF LocksTypeOK
<1>2. stack'[t] = Append(stack[t], f)
  BY DEF Enters, LocksTypeOK
<1>3. \A u \in Threads \ {t} : stack'[u] = stack[u]
  BY DEF Enters, LocksTypeOK
<1>4. /\ Append(stack[t], f) \in Seq(Frame)
      /\ Len(Append(stack[t], f)) = Len(stack[t]) + 1
      /\ Append(stack[t], f)[Len(stack[t]) + 1] = f
      /\ \A i \in 1 .. Len(stack[t]) : Append(stack[t], f)[i] = stack[t][i]
  BY <1>1
<1>5. stack' \in [Threads -> Seq(Frame)]
  BY <1>4 DEF Enters, LocksTypeOK
<1> QED BY <1>2, <1>3, <1>4, <1>5 DEF Depth

\* A change of the innermost call.
LEMMA Changed ==
  ASSUME LocksTypeOK, NEW t \in Threads, NEW f \in Frame, Depth(t) > 0, Becomes(t, f)
  PROVE  /\ stack' \in [Threads -> Seq(Frame)]
         /\ Depth(t)' = Depth(t) /\ stack'[t][Depth(t)] = f
         /\ \A i \in 1 .. Depth(t) - 1 : stack'[t][i] = stack[t][i]
         /\ \A u \in Threads \ {t} : stack'[u] = stack[u] /\ Depth(u)' = Depth(u)
<1>1. stack[t] \in Seq(Frame) /\ Depth(t) \in 1 .. Len(stack[t])
  BY DEF LocksTypeOK, Depth
<1>2. stack'[t] = [stack[t] EXCEPT ![Depth(t)] = f]
  BY DEF Becomes, LocksTypeOK
<1>3. \A u \in Threads \ {t} : stack'[u] = stack[u]
  BY DEF Becomes, LocksTypeOK
<1>4. stack'[t] \in Seq(Frame) /\ Len(stack'[t]) = Len(stack[t])
      /\ \A j \in 1 .. Len(stack[t]) :
           stack'[t][j] = IF j = Depth(t) THEN f ELSE stack[t][j]
  BY <1>1, <1>2, ExceptSeq
<1>5. stack' \in [Threads -> Seq(Frame)]
  BY <1>4, <1>2 DEF Becomes, LocksTypeOK
<1> QED BY <1>1, <1>3, <1>4, <1>5 DEF Depth

\* The innermost call returns.
LEMMA Popped ==
  ASSUME LocksTypeOK, NEW t \in Threads, Depth(t) > 0, Returns(t)
  PROVE  /\ stack' \in [Threads -> Seq(Frame)]
         /\ Depth(t)' = Depth(t) - 1
         /\ \A i \in 1 .. Depth(t) - 1 : stack'[t][i] = stack[t][i]
         /\ \A u \in Threads \ {t} : stack'[u] = stack[u] /\ Depth(u)' = Depth(u)
<1>1. stack[t] \in Seq(Frame) /\ Len(stack[t]) \in Nat /\ Len(stack[t]) > 0
  BY DEF LocksTypeOK, Depth
<1>2. stack'[t] = SubSeq(stack[t], 1, Len(stack[t]) - 1)
  BY DEF Returns, LocksTypeOK, Depth
<1>3. \A u \in Threads \ {t} : stack'[u] = stack[u]
  BY DEF Returns, LocksTypeOK
<1>4. /\ stack'[t] \in Seq(Frame) /\ Len(stack'[t]) = Len(stack[t]) - 1
      /\ \A i \in 1 .. Len(stack[t]) - 1 : stack'[t][i] = stack[t][i]
  <2>1. \A i \in 1 .. Len(stack[t]) - 1 : stack[t][i] \in Frame
    BY <1>1, ElementOfSeq
  <2> DEFINE s == stack[t]  m == Len(s) - 1
  <2>2. m \in Int /\ 1 \in Int
    BY <1>1
  <2>3. /\ SubSeq(s, 1, m) \in Seq(Frame)
        /\ Len(SubSeq(s, 1, m)) = IF 1 <= m THEN m - 1 + 1 ELSE 0
        /\ \A i \in 1 .. m - 1 + 1 : SubSeq(s, 1, m)[i] = s[1 + i - 1]
    BY <2>1, <2>2, SubSeqProperties
  <2> QED BY <1>1, <1>2, <2>2, <2>3
<1>5. stack' \in [Threads -> Seq(Frame)]
  BY <1>4, <1>2 DEF Returns, LocksTypeOK, Depth
<1> QED BY <1>1, <1>3, <1>4, <1>5 DEF Depth

-----------------------------------------------------------------------------
(* What a step does to the calls it does not touch *)

\* An admitted call's keys are registered, and an outer call's are on record.
LEMMA Registereds ==
  ASSUME LocksInv, NEW t \in Threads, NEW i \in 1 .. Depth(t)
  PROVE  /\ stack[t][i].phase # "resolving" =>
              \A k \in stack[t][i].todo \union stack[t][i].done : order[k] # Unseen
         /\ i < Depth(t) => /\ stack[t][i].phase = "body"
                            /\ \A k \in stack[t][i].done :
                                 /\ order[k] # Unseen /\ order[k] <= maxOrder[t]
                                 /\ <<order[k], t>> \in held
<1>1. Depth(t) \in Nat /\ stack[t][i].prev \in Nat
      /\ stack[t][i].todo \subseteq Keys /\ stack[t][i].done \subseteq Keys
      /\ order \in [Keys -> Nat]
  BY Frames DEF LocksInv, LocksTypeOK
<1>2. ASSUME stack[t][i].phase # "resolving",
             NEW k \in stack[t][i].todo \union stack[t][i].done
      PROVE  order[k] # Unseen
  <2>1. order[k] > stack[t][i].prev
    BY <1>2 DEF LocksInv, Above
  <2> QED BY <1>1, <2>1 DEF Unseen
<1>3. ASSUME i < Depth(t)
      PROVE  stack[t][i].phase = "body"
  BY <1>1, <1>3 DEF LocksInv, Nested
<1>4. ASSUME i < Depth(t), NEW k \in stack[t][i].done
      PROVE  order[k] <= maxOrder[t] /\ <<order[k], t>> \in held
  BY <1>1, <1>3, <1>4 DEF LocksInv, Recorded, Backed, HoldsIn
<1> QED BY <1>2, <1>3, <1>4

\* A change of the innermost call keeps the invariant if the new call does.
LEMMA ChangeKeeps ==
  ASSUME LocksInv, LocksTypeOK', Numbered',
         NEW t \in Threads, NEW f \in Frame, Depth(t) > 0, Becomes(t, f),
         \A k \in Keys : order[k] # Unseen => order'[k] = order[k],
         \A u \in Threads \ {t} : maxOrder'[u] = maxOrder[u],
         \A i \in 1 .. Depth(t) - 1 : \A k \in stack[t][i].done :
           order[k] <= maxOrder'[t] /\ <<order[k], t>> \in held',
         \A u \in Threads \ {t} : \A n \in Nat : <<n, u>> \in held => <<n, u>> \in held',
         \A n \in Nat : \A u, v \in Threads : <<n, u>> \in held' /\ <<n, v>> \in held' => u = v,
         \A u \in Threads : \A i \in 1 .. Depth(u) : \A k \in stack[u][i].done :
           stack[u][i].phase = "body" /\ stack[u][i].kind = "build" /\ (u = t => i # Depth(t))
             => values'[k] = Unbuilt,
         f.phase # "resolving" =>
           /\ \A k \in f.todo \union f.done : order'[k] > f.prev
           /\ \A i \in 1 .. Depth(t) - 1 : \A k \in stack[t][i].done : order[k] <= f.prev
           /\ \A k \in f.done : <<order'[k], t>> \in held',
         f.phase = "acquiring" => \A k \in f.done, j \in f.todo : order'[k] < order'[j],
         f.phase = "body" => \A k \in f.done : order'[k] <= maxOrder'[t],
         f.phase = "body" /\ f.kind = "build" => \A k \in f.done : values'[k] = Unbuilt
  PROVE  LocksInv'
<1> DEFINE d == Depth(t)
<1>1. LocksTypeOK
  BY DEF LocksInv
<1>2. /\ Depth(t)' = d /\ stack'[t][d] = f
      /\ \A i \in 1 .. d - 1 : stack'[t][i] = stack[t][i]
      /\ \A u \in Threads \ {t} : stack'[u] = stack[u] /\ Depth(u)' = Depth(u)
  BY <1>1, Changed
<1>3. \A u \in Threads : /\ Depth(u) \in Nat
                         /\ \A i \in 1 .. Depth(u) : /\ stack[u][i].todo \subseteq Keys
                                                     /\ stack[u][i].done \subseteq Keys
  BY <1>1, Frames
<1>4. f.todo \subseteq Keys /\ f.done \subseteq Keys /\ f.prev \in Nat
  BY DEF Frame
\* A call is the one that changed, an outer one of its thread or another's.
<1>5. \A u \in Threads : \A i \in 1 .. Depth(u)' :
        \/ u = t /\ i = d
        \/ /\ i \in 1 .. Depth(u) /\ stack'[u][i] = stack[u][i]
           /\ u = t => i \in 1 .. d - 1
  BY <1>2, <1>3
<1>6. \A u \in Threads : \A i \in 1 .. Depth(u) :
        stack[u][i].phase # "resolving" =>
          \A k \in stack[u][i].todo \union stack[u][i].done :
            order[k] # Unseen /\ order'[k] = order[k]
  BY <1>3, Registereds
<1>7. \A i \in 1 .. d - 1 :
        /\ i \in 1 .. Depth(t) /\ stack[t][i].phase = "body"
        /\ \A k \in stack[t][i].done : order'[k] = order[k]
  BY <1>3, <1>6 DEF LocksInv, Nested
<1>8. Nested'
  <2> SUFFICES ASSUME NEW u \in Threads, NEW i \in 1 .. Depth(u)' - 1
               PROVE  stack'[u][i].phase = "body"
    BY DEF Nested
  <2>1. CASE u = t
    BY <2>1, <1>2, <1>7
  <2>2. CASE u # t
    BY <2>2, <1>2 DEF LocksInv, Nested
  <2> QED BY <2>1, <2>2
<1>9. Above'
  <2> SUFFICES ASSUME NEW u \in Threads, NEW i \in 1 .. Depth(u)',
                      stack'[u][i].phase # "resolving",
                      NEW k \in stack'[u][i].todo \union stack'[u][i].done
               PROVE  order'[k] > stack'[u][i].prev
    BY DEF Above
  <2>1. CASE u = t /\ i = d
    BY <2>1, <1>2
  <2>2. CASE i \in 1 .. Depth(u) /\ stack'[u][i] = stack[u][i]
    <3>1. order'[k] = order[k] /\ order[k] > stack[u][i].prev
      BY <2>2, <1>6 DEF LocksInv, Above
    <3> QED BY <3>1, <2>2
  <2> QED BY <2>1, <2>2, <1>5
<1>10. Sorted'
  <2> SUFFICES ASSUME NEW u \in Threads, NEW i \in 1 .. Depth(u)',
                      stack'[u][i].phase = "acquiring",
                      NEW k \in stack'[u][i].done, NEW j \in stack'[u][i].todo
               PROVE  order'[k] < order'[j]
    BY DEF Sorted
  <2>1. CASE u = t /\ i = d
    BY <2>1, <1>2
  <2>2. CASE i \in 1 .. Depth(u) /\ stack'[u][i] = stack[u][i]
    <3>1. order'[k] = order[k] /\ order'[j] = order[j] /\ order[k] < order[j]
      BY <2>2, <1>6 DEF LocksInv, Sorted
    <3> QED BY <3>1
  <2> QED BY <2>1, <2>2, <1>5
<1>11. Stacked'
  <2> SUFFICES ASSUME NEW u \in Threads, NEW j \in 1 .. Depth(u)', NEW i \in 1 .. j - 1,
                      stack'[u][j].phase # "resolving", NEW k \in stack'[u][i].done
               PROVE  order'[k] <= stack'[u][j].prev
    BY DEF Stacked
  <2>1. CASE u = t /\ j = d
    <3>1. i \in 1 .. d - 1
      BY <2>1, <1>3
    <3>2. stack'[t][i] = stack[t][i] /\ order'[k] = order[k]
      BY <3>1, <2>1, <1>2, <1>7
    <3> QED BY <3>1, <3>2, <2>1, <1>2
  <2>2. CASE j \in 1 .. Depth(u) /\ stack'[u][j] = stack[u][j] /\ (u = t => j \in 1 .. d - 1)
    <3>1. i \in 1 .. Depth(u) /\ i \in 1 .. Depth(u) - 1 /\ stack'[u][i] = stack[u][i]
      BY <2>2, <1>2, <1>3
    <3>2. stack[u][i].phase = "body"
      BY <3>1 DEF LocksInv, Nested
    <3>3. order'[k] = order[k]
      BY <3>1, <3>2, <1>6
    <3>4. order[k] <= stack[u][j].prev
      BY <3>1, <2>2 DEF LocksInv, Stacked
    <3> QED BY <3>3, <3>4, <2>2
  <2> QED BY <2>1, <2>2, <1>5
<1>12. Recorded'
  <2> SUFFICES ASSUME NEW u \in Threads, NEW i \in 1 .. Depth(u)',
                      stack'[u][i].phase = "body", NEW k \in stack'[u][i].done
               PROVE  order'[k] <= maxOrder'[u]
    BY DEF Recorded
  <2>1. CASE u = t /\ i = d
    BY <2>1, <1>2
  <2>2. CASE i \in 1 .. Depth(u) /\ stack'[u][i] = stack[u][i] /\ (u = t => i \in 1 .. d - 1)
    <3>1. order'[k] = order[k] /\ order[k] <= maxOrder[u]
      BY <2>2, <1>6 DEF LocksInv, Recorded
    <3> QED BY <3>1, <2>2
  <2> QED BY <2>1, <2>2, <1>5
<1>13. Backed'
  <2>1. ASSUME NEW u \in Threads, NEW i \in 1 .. Depth(u)', NEW k \in Keys,
               stack'[u][i].phase # "resolving", k \in stack'[u][i].done
        PROVE  <<order'[k], u>> \in held'
    <3>1. CASE u = t /\ i = d
      BY <3>1, <2>1, <1>2
    <3>2. CASE i \in 1 .. Depth(u) /\ stack'[u][i] = stack[u][i] /\ (u = t => i \in 1 .. d - 1)
      <4>1. order'[k] = order[k] /\ <<order[k], u>> \in held
        BY <3>2, <2>1, <1>6 DEF LocksInv, Backed, HoldsIn
      <4>2. order[k] \in Nat
        BY <1>1 DEF LocksTypeOK
      <4> QED BY <4>1, <4>2, <3>2, <2>1
    <3> QED BY <3>1, <3>2, <1>5
  <2> QED BY <2>1 DEF Backed, HoldsIn
<1>14. Vacant'
  <2> SUFFICES ASSUME NEW u \in Threads, NEW i \in 1 .. Depth(u)',
                      stack'[u][i].phase = "body", stack'[u][i].kind = "build",
                      NEW k \in stack'[u][i].done
               PROVE  values'[k] = Unbuilt
    BY DEF Vacant
  <2>1. CASE u = t /\ i = d
    BY <2>1, <1>2
  <2>2. CASE i \in 1 .. Depth(u) /\ stack'[u][i] = stack[u][i] /\ (u = t => i \in 1 .. d - 1)
    BY <2>2
  <2> QED BY <2>1, <2>2, <1>5
<1> QED BY <1>8, <1>9, <1>10, <1>11, <1>12, <1>13, <1>14 DEF LocksInv

\* A call that only resolves its keys changes nothing the invariant is about.
LEMMA CallKeeps ==
  ASSUME LocksInv, NEW t \in Threads, NEW keys \in SUBSET Keys, NEW kind \in Kind,
         Calling(t, keys, kind)
  PROVE  LocksInv'
<1> DEFINE f == [phase |-> "resolving", todo |-> keys, done |-> {}, prev |-> 0, kind |-> kind]
           d == Depth(t)
<1>1. LocksTypeOK /\ f \in Frame
  BY DEF LocksInv, Frame, Phase
<1>2. /\ stack' \in [Threads -> Seq(Frame)]
      /\ Depth(t)' = d + 1 /\ stack'[t][d + 1] = f
      /\ \A i \in 1 .. d : stack'[t][i] = stack[t][i]
      /\ \A u \in Threads \ {t} : stack'[u] = stack[u] /\ Depth(u)' = Depth(u)
  BY <1>1, Pushed DEF Calling
<1>3. \A u \in Threads : Depth(u) \in Nat
  BY <1>1, Frames
<1>4. UNCHANGED <<order, seen, held, maxOrder, values, builds>>
  BY DEF Calling
<1>5. d > 0 => stack[t][d].phase = "body"
  BY <1>3 DEF Calling, In, Top
<1>6. LocksTypeOK'
  BY <1>1, <1>2, <1>4 DEF LocksTypeOK, Calling
<1>7. Numbered'
  BY <1>4 DEF LocksInv, Numbered
<1>8. \A u \in Threads : \A i \in 1 .. Depth(u)' :
        stack'[u][i].phase # "resolving" =>
          i \in 1 .. Depth(u) /\ stack'[u][i] = stack[u][i]
  BY <1>2, <1>3
<1>9. Nested'
  <2> SUFFICES ASSUME NEW u \in Threads, NEW i \in 1 .. Depth(u)' - 1
               PROVE  stack'[u][i].phase = "body"
    BY DEF Nested
  <2>1. CASE u = t
    <3>1. i \in 1 .. d /\ stack'[t][i] = stack[t][i]
      BY <2>1, <1>2, <1>3
    <3>2. i = d \/ i \in 1 .. d - 1
      BY <3>1, <1>3
    <3> QED BY <3>1, <3>2, <2>1, <1>3, <1>5 DEF LocksInv, Nested
  <2>2. CASE u # t
    BY <2>2, <1>2 DEF LocksInv, Nested
  <2> QED BY <2>1, <2>2
<1>10. Above' /\ Sorted'
  BY <1>4, <1>8 DEF LocksInv, Above, Sorted
<1>13. Recorded' /\ Vacant'
  BY <1>4, <1>8 DEF LocksInv, Recorded, Vacant
<1>11. Stacked'
  <2> SUFFICES ASSUME NEW u \in Threads, NEW j \in 1 .. Depth(u)', NEW i \in 1 .. j - 1,
                      stack'[u][j].phase # "resolving", NEW k \in stack'[u][i].done
               PROVE  order'[k] <= stack'[u][j].prev
    BY DEF Stacked
  <2>1. j \in 1 .. Depth(u) /\ stack'[u][j] = stack[u][j]
    BY <1>8
  <2>2. i \in 1 .. Depth(u) /\ stack'[u][i] = stack[u][i]
    BY <2>1, <1>2, <1>3
  <2> QED BY <2>1, <2>2, <1>4 DEF LocksInv, Stacked
<1>12. Backed'
  BY <1>4, <1>8 DEF LocksInv, Backed, HoldsIn
<1> QED BY <1>6, <1>7, <1>9, <1>10, <1>11, <1>12, <1>13 DEF LocksInv

\* Nor does a call that has given its locks back, or was refused.
LEMMA ReturnKeeps ==
  ASSUME LocksInv, NEW t \in Threads, Depth(t) > 0, Returns(t),
         UNCHANGED <<order, seen, held, maxOrder, values, builds, calls>>
  PROVE  LocksInv'
<1> DEFINE d == Depth(t)
<1>1. LocksTypeOK
  BY DEF LocksInv
<1>2. /\ stack' \in [Threads -> Seq(Frame)]
      /\ Depth(t)' = d - 1
      /\ \A i \in 1 .. d - 1 : stack'[t][i] = stack[t][i]
      /\ \A u \in Threads \ {t} : stack'[u] = stack[u] /\ Depth(u)' = Depth(u)
  BY <1>1, Popped
<1>3. \A u \in Threads : Depth(u) \in Nat
  BY <1>1, Frames
<1>4. \A u \in Threads : \A i \in 1 .. Depth(u)' :
        i \in 1 .. Depth(u) /\ stack'[u][i] = stack[u][i]
  BY <1>2, <1>3
<1>5. LocksTypeOK' /\ Numbered'
  BY <1>1, <1>2 DEF LocksTypeOK, LocksInv, Numbered
<1>6. Nested'
  <2> SUFFICES ASSUME NEW u \in Threads, NEW i \in 1 .. Depth(u)' - 1
               PROVE  stack'[u][i].phase = "body"
    BY DEF Nested
  <2>1. i \in 1 .. Depth(u)' /\ i \in 1 .. Depth(u) - 1
    BY <1>2, <1>3
  <2> QED BY <2>1, <1>4 DEF LocksInv, Nested
<1>7. Above' /\ Sorted' /\ Recorded' /\ Vacant'
  BY <1>4 DEF LocksInv, Above, Sorted, Recorded, Vacant
<1>8. Stacked'
  <2> SUFFICES ASSUME NEW u \in Threads, NEW j \in 1 .. Depth(u)', NEW i \in 1 .. j - 1,
                      stack'[u][j].phase # "resolving", NEW k \in stack'[u][i].done
               PROVE  order'[k] <= stack'[u][j].prev
    BY DEF Stacked
  <2>1. i \in 1 .. Depth(u)'
    BY <1>2, <1>3
  <2> QED BY <2>1, <1>4 DEF LocksInv, Stacked
<1>9. Backed'
  BY <1>4 DEF LocksInv, Backed, HoldsIn
<1> QED BY <1>5, <1>6, <1>7, <1>8, <1>9 DEF LocksInv

-----------------------------------------------------------------------------
(* The steps of a call *)

\* The innermost call and the others of its thread and of the rest.
LEMMA Innermost ==
  ASSUME LocksInv, NEW t \in Threads, Depth(t) > 0
  PROVE  /\ LocksTypeOK /\ Depth(t) \in 1 .. Depth(t) /\ Top(t) = stack[t][Depth(t)]
         /\ Top(t) \in Frame /\ Top(t).todo \subseteq Keys /\ Top(t).done \subseteq Keys
         /\ Top(t).prev \in Nat /\ Top(t).kind \in Kind
         /\ order \in [Keys -> Nat] /\ maxOrder \in [Threads -> Nat]
         /\ \A i \in 1 .. Depth(t) - 1 : \A k \in stack[t][i].done :
              /\ k \in Keys /\ order[k] <= maxOrder[t] /\ <<order[k], t>> \in held
              /\ Top(t).phase # "resolving" => order[k] <= Top(t).prev
         /\ Top(t).phase # "resolving" =>
              /\ \A k \in Top(t).todo \union Top(t).done : order[k] > Top(t).prev
              /\ \A k \in Top(t).done : <<order[k], t>> \in held
<1>1. LocksTypeOK /\ Depth(t) \in Nat
  BY Frames DEF LocksInv
<1>2. Depth(t) \in 1 .. Depth(t)
  BY <1>1
<1>3. /\ Top(t) \in Frame /\ Top(t).todo \subseteq Keys /\ Top(t).done \subseteq Keys
      /\ Top(t).prev \in Nat /\ Top(t).kind \in Kind
  BY <1>1, <1>2, Frames DEF Top
<1>4. ASSUME NEW i \in 1 .. Depth(t) - 1, NEW k \in stack[t][i].done
      PROVE  /\ k \in Keys /\ order[k] <= maxOrder[t] /\ <<order[k], t>> \in held
             /\ Top(t).phase # "resolving" => order[k] <= Top(t).prev
  <2>1. i \in 1 .. Depth(t) /\ i < Depth(t)
    BY <1>1
  <2>2. k \in Keys
    BY <2>1, <1>1, <1>4, Frames
  <2>3. order[k] <= maxOrder[t] /\ <<order[k], t>> \in held
    BY <2>1, <1>4, Registereds
  <2>4. Top(t).phase # "resolving" => order[k] <= Top(t).prev
    BY <1>2, <1>4 DEF LocksInv, Stacked, Top
  <2> QED BY <2>2, <2>3, <2>4
<1>5. Top(t).phase # "resolving" =>
        /\ \A k \in Top(t).todo \union Top(t).done : order[k] > Top(t).prev
        /\ \A k \in Top(t).done : <<order[k], t>> \in held
  BY <1>2, <1>3 DEF LocksInv, Above, Backed, HoldsIn, Top
<1> QED BY <1>1, <1>2, <1>3, <1>4, <1>5 DEF LocksTypeOK, Top

\* A step of the innermost call alone.
LEMMA PhaseKeeps ==
  ASSUME LocksInv, NEW t \in Threads, NEW f \in Frame, Depth(t) > 0, Becomes(t, f),
         UNCHANGED <<order, seen, held, maxOrder, values, builds, calls>>,
         f.phase # "resolving" =>
           /\ \A k \in f.todo \union f.done : order[k] > f.prev
           /\ \A i \in 1 .. Depth(t) - 1 : \A k \in stack[t][i].done : order[k] <= f.prev
           /\ \A k \in f.done : <<order[k], t>> \in held,
         f.phase = "acquiring" => f.done = {},
         f.phase # "body"
  PROVE  LocksInv'
<1>1. LocksTypeOK
  BY DEF LocksInv
<1>2. LocksTypeOK' /\ Numbered'
  BY <1>1, Changed DEF LocksTypeOK, LocksInv, Numbered
<1>3. \A i \in 1 .. Depth(t) - 1 : \A k \in stack[t][i].done :
        order[k] <= maxOrder'[t] /\ <<order[k], t>> \in held'
  BY Innermost
<1>4. \A n \in Nat : \A u, v \in Threads : <<n, u>> \in held' /\ <<n, v>> \in held' => u = v
  BY DEF LocksInv, Backed
<1>5. \A u \in Threads : \A i \in 1 .. Depth(u) : \A k \in stack[u][i].done :
        stack[u][i].phase = "body" /\ stack[u][i].kind = "build" => values'[k] = Unbuilt
  BY DEF LocksInv, Vacant
<1> QED BY <1>2, <1>3, <1>4, <1>5, ChangeKeeps

\* A key gets its number once.
LEMMA ResolveKeeps == ASSUME LocksInv, NEW t \in Threads, Resolve(t) PROVE LocksInv'
<1>1. PICK k \in Top(t).todo :
        /\ order' = [order EXCEPT ![k] = Registered(k)]
        /\ seen' = IF Registered(k) > seen THEN Registered(k) ELSE seen
        /\ Becomes(t, [Top(t) EXCEPT !.todo = @ \ {k}, !.done = @ \union {k}])
  BY DEF Resolve
<1> DEFINE f == [Top(t) EXCEPT !.todo = @ \ {k}, !.done = @ \union {k}]
<1>2. Depth(t) > 0 /\ Top(t).phase = "resolving"
      /\ UNCHANGED <<held, maxOrder, values, builds, calls>>
  BY DEF Resolve, In
<1>3. LocksTypeOK /\ k \in Keys /\ f \in Frame /\ f.phase = "resolving"
  BY <1>1, <1>2, Innermost DEF Frame
<1>4. order \in [Keys -> Nat] /\ seen \in Nat /\ Registered(k) \in Nat /\ seen' \in Nat
  BY <1>1, <1>3 DEF LocksTypeOK, Registered
<1>5. \A j \in Keys : order[j] # Unseen => order'[j] = order[j]
  BY <1>1, <1>3, <1>4 DEF Registered
<1>6. Numbered'
  <2>1. \A j \in Keys \ {k} : order'[j] = order[j] /\ order[j] <= seen
    BY <1>1, <1>3, <1>4 DEF LocksInv, Numbered
  <2>2. order'[k] = Registered(k) /\ Registered(k) <= seen' /\ seen <= seen'
    BY <1>1, <1>3, <1>4
  <2>3. \A j \in Keys \ {k} : order[j] = Registered(k) => order[j] = Unseen
    <3> SUFFICES ASSUME NEW j \in Keys \ {k}, order[j] = Registered(k), order[j] # Unseen
                 PROVE  FALSE
      OBVIOUS
    <3>1. CASE order[k] = Unseen
      BY <3>1, <2>1, <1>4 DEF Registered
    <3>2. CASE order[k] # Unseen
      BY <3>2, <1>3 DEF Registered, LocksInv, Numbered
    <3> QED BY <3>1, <3>2
  <2>4. \A j \in Keys : order'[j] <= seen'
    BY <2>1, <2>2, <1>4
  <2>5. ASSUME NEW i \in Keys, NEW j \in Keys, order'[i] = order'[j], order'[i] # Unseen
        PROVE  i = j
    <3>1. CASE i # k /\ j # k
      BY <3>1, <2>1, <2>5 DEF LocksInv, Numbered
    <3>2. CASE i = k \/ j = k
      BY <3>2, <2>1, <2>2, <2>3, <2>5
    <3> QED BY <3>1, <3>2
  <2> QED BY <2>4, <2>5 DEF Numbered
<1>7. LocksTypeOK'
  BY <1>1, <1>2, <1>3, <1>4, Changed DEF LocksTypeOK
<1>8. \A i \in 1 .. Depth(t) - 1 : \A j \in stack[t][i].done :
        order[j] <= maxOrder'[t] /\ <<order[j], t>> \in held'
  BY <1>2, Innermost
<1>9. \A n \in Nat : \A u, v \in Threads : <<n, u>> \in held' /\ <<n, v>> \in held' => u = v
  BY <1>2 DEF LocksInv, Backed
<1>10. \A u \in Threads : \A i \in 1 .. Depth(u) : \A j \in stack[u][i].done :
         stack[u][i].phase = "body" /\ stack[u][i].kind = "build" => values'[j] = Unbuilt
  BY <1>2 DEF LocksInv, Vacant
<1>11. \A u \in Threads \ {t} : maxOrder'[u] = maxOrder[u]
  BY <1>2
<1>12. Becomes(t, f)
  BY <1>1
<1> HIDE DEF f
<1> QED BY <1>2, <1>3, <1>5, <1>6, <1>7, <1>8, <1>9, <1>10, <1>11, <1>12, ChangeKeeps

\* An admitted call starts above everything its thread holds.
LEMMA AdmitKeeps == ASSUME LocksInv, NEW t \in Threads, Admit(t) PROVE LocksInv'
<1> DEFINE f == [phase |-> "acquiring", todo |-> Top(t).done, done |-> {},
                 prev |-> maxOrder[t], kind |-> Top(t).kind]
<1>1. Depth(t) > 0 /\ Becomes(t, f) /\ UNCHANGED <<order, seen, held, maxOrder, values, builds, calls>>
  BY DEF Admit, In
<1>2. f \in Frame
  BY <1>1, Innermost DEF Frame, Phase
<1>3. \A k \in f.todo \union f.done : order[k] > f.prev
  BY DEF Admit, Admissible
<1>4. \A i \in 1 .. Depth(t) - 1 : \A k \in stack[t][i].done : order[k] <= f.prev
  BY <1>1, Innermost
<1>5. f.phase = "acquiring" /\ f.done = {}
  OBVIOUS
<1> HIDE DEF f
<1> QED BY <1>1, <1>2, <1>3, <1>4, <1>5, PhaseKeeps

\* The lock that is acquired is the lowest of the rest, and nobody had it.
LEMMA AcquireKeeps == ASSUME LocksInv, NEW t \in Threads, Acquire(t) PROVE LocksInv'
<1>1. PICK k \in NextOf(Top(t)) :
        /\ Unowned(k)
        /\ held' = held \union {<<order[k], t>>}
        /\ Becomes(t, [Top(t) EXCEPT !.todo = @ \ {k}, !.done = @ \union {k}])
  BY DEF Acquire
<1> DEFINE f == [Top(t) EXCEPT !.todo = @ \ {k}, !.done = @ \union {k}]
<1>2. Depth(t) > 0 /\ Top(t).phase = "acquiring"
      /\ UNCHANGED <<order, seen, maxOrder, values, builds, calls>>
  BY DEF Acquire, In
<1>3. LocksTypeOK /\ k \in Keys /\ k \in Top(t).todo /\ f \in Frame /\ order \in [Keys -> Nat]
      /\ Top(t).todo \subseteq Keys /\ Top(t).done \subseteq Keys
  BY <1>2, Innermost DEF Frame, NextOf
<1>4. f.phase = "acquiring" /\ f.todo = Top(t).todo \ {k} /\ f.done = Top(t).done \union {k}
      /\ f.prev = Top(t).prev
  BY <1>2, <1>3, Innermost DEF Frame
<1>5. LocksTypeOK'
  <2>1. stack' \in [Threads -> Seq(Frame)]
    BY <1>1, <1>2, <1>3, Changed
  <2>2. held' \subseteq Nat \X Threads
    BY <1>1, <1>3 DEF LocksTypeOK
  <2> QED BY <1>2, <1>3, <2>1, <2>2 DEF LocksTypeOK
<1>6. Numbered'
  BY <1>2 DEF LocksInv, Numbered
<1>7. /\ \A j \in f.todo \union f.done : order'[j] > f.prev
      /\ \A i \in 1 .. Depth(t) - 1 : \A j \in stack[t][i].done :
           order[j] <= f.prev /\ order[j] <= maxOrder'[t] /\ <<order[j], t>> \in held'
      /\ \A j \in f.done : <<order'[j], t>> \in held'
  BY <1>1, <1>2, <1>3, <1>4, Innermost
<1>8. \A i \in f.done, j \in f.todo : order'[i] < order'[j]
  <2> SUFFICES ASSUME NEW i \in f.done, NEW j \in f.todo PROVE order[i] < order[j]
    BY <1>2
  <2>1. j \in Top(t).todo /\ j # k /\ j \in Keys
    BY <1>3, <1>4
  <2>2. CASE i = k
    <3>1. order[k] <= order[j]
      BY <2>1, <1>1 DEF NextOf
    <3>2. order[k] # Unseen
      BY <1>2, <1>3, Innermost DEF Unseen
    <3>3. order[k] # order[j]
      BY <3>2, <2>1, <1>3 DEF LocksInv, Numbered
    <3> QED BY <3>1, <3>3, <2>1, <2>2, <1>3
  <2>3. CASE i \in Top(t).done
    BY <2>1, <2>3, <1>2, Innermost DEF LocksInv, Sorted
  <2> QED BY <2>2, <2>3, <1>4
<1>9. \A n \in Nat : \A u, v \in Threads : <<n, u>> \in held' /\ <<n, v>> \in held' => u = v
  BY <1>1, <1>3 DEF LocksInv, Backed, Unowned, Owns
<1>10. \A u \in Threads : \A i \in 1 .. Depth(u) : \A j \in stack[u][i].done :
         stack[u][i].phase = "body" /\ stack[u][i].kind = "build" => values'[j] = Unbuilt
  BY <1>2 DEF LocksInv, Vacant
<1>11. /\ Becomes(t, f)
       /\ \A u \in Threads \ {t} : maxOrder'[u] = maxOrder[u]
       /\ \A u \in Threads \ {t} : \A n \in Nat : <<n, u>> \in held => <<n, u>> \in held'
       /\ \A j \in Keys : order[j] # Unseen => order'[j] = order[j]
  BY <1>1, <1>2
<1>12. /\ f.phase # "resolving" =>
            /\ \A j \in f.todo \union f.done : order'[j] > f.prev
            /\ \A i \in 1 .. Depth(t) - 1 : \A j \in stack[t][i].done : order[j] <= f.prev
            /\ \A j \in f.done : <<order'[j], t>> \in held'
       /\ f.phase = "acquiring" => \A i \in f.done, j \in f.todo : order'[i] < order'[j]
       /\ f.phase # "body"
       /\ \A i \in 1 .. Depth(t) - 1 : \A j \in stack[t][i].done :
            order[j] <= maxOrder'[t] /\ <<order[j], t>> \in held'
  BY <1>4, <1>7, <1>8
<1>13. Depth(t) > 0 /\ f \in Frame
  BY <1>2, <1>3
<1> HIDE DEF f
<1> QED BY <1>5, <1>6, <1>9, <1>10, <1>11, <1>12, <1>13, ChangeKeeps

\* The record is raised to the last lock of the batch.
LEMMA EnterKeeps ==
  ASSUME LocksInv, NEW t \in Threads, EnterBody(t), UNCHANGED <<values, builds>>,
         Top(t).kind = "build" => ~Found(Top(t))
  PROVE  LocksInv'
<1> DEFINE f == [Top(t) EXCEPT !.phase = "body"]
<1>1. Depth(t) > 0 /\ Top(t).phase = "acquiring" /\ Top(t).todo = {}
      /\ Becomes(t, f) /\ UNCHANGED <<order, seen, held, values, builds, calls>>
  BY DEF EnterBody, In
<1>2. LocksTypeOK /\ f \in Frame /\ order \in [Keys -> Nat] /\ maxOrder \in [Threads -> Nat]
      /\ Top(t).done \subseteq Keys /\ Top(t).prev \in Nat
  BY <1>1, Innermost DEF Frame, Phase
<1>3. f.phase = "body" /\ f.todo = {} /\ f.done = Top(t).done /\ f.prev = Top(t).prev
      /\ f.kind = Top(t).kind
  BY <1>1, <1>2, Innermost DEF Frame
<1>4. /\ maxOrder' \in [Threads -> Nat]
      /\ \A u \in Threads \ {t} : maxOrder'[u] = maxOrder[u]
      /\ \A k \in Top(t).done : order[k] <= maxOrder'[t]
      /\ maxOrder'[t] = maxOrder[t] \/ Top(t).prev < maxOrder'[t]
  <2>1. CASE Top(t).done = {}
    BY <2>1, <1>2 DEF EnterBody
  <2>2. CASE Top(t).done # {}
    <3>1. PICK k \in LastOf(Top(t)) : maxOrder' = [maxOrder EXCEPT ![t] = order[k]]
      BY <2>2 DEF EnterBody
    <3>2. k \in Keys /\ \A j \in Top(t).done : order[j] <= order[k]
      BY <3>1, <1>2 DEF LastOf
    <3>3. order[k] > Top(t).prev
      BY <3>1, <1>1, Innermost DEF LastOf
    <3> QED BY <3>1, <3>2, <3>3, <1>2
  <2> QED BY <2>1, <2>2
<1>5. LocksTypeOK'
  BY <1>1, <1>2, <1>4, Changed DEF LocksTypeOK
<1>6. Numbered'
  BY <1>1 DEF LocksInv, Numbered
<1>7. /\ \A j \in f.todo \union f.done : order'[j] > f.prev
      /\ \A j \in f.done : <<order'[j], t>> \in held'
  BY <1>1, <1>3, Innermost
<1>8. \A i \in 1 .. Depth(t) - 1 : \A j \in stack[t][i].done :
        order[j] <= f.prev /\ order[j] <= maxOrder'[t] /\ <<order[j], t>> \in held'
  <2> SUFFICES ASSUME NEW i \in 1 .. Depth(t) - 1, NEW j \in stack[t][i].done
               PROVE  order[j] <= f.prev /\ order[j] <= maxOrder'[t] /\ <<order[j], t>> \in held'
    OBVIOUS
  <2>1. j \in Keys /\ order[j] <= maxOrder[t] /\ <<order[j], t>> \in held
        /\ order[j] <= Top(t).prev
    BY <1>1, Innermost
  <2>2. order[j] \in Nat /\ maxOrder[t] \in Nat /\ maxOrder'[t] \in Nat
    BY <2>1, <1>2, <1>4
  <2> QED BY <2>1, <2>2, <1>1, <1>2, <1>3, <1>4
<1>9. \A n \in Nat : \A u, v \in Threads : <<n, u>> \in held' /\ <<n, v>> \in held' => u = v
  BY <1>1 DEF LocksInv, Backed
<1>10. \A u \in Threads : \A i \in 1 .. Depth(u) : \A j \in stack[u][i].done :
         stack[u][i].phase = "body" /\ stack[u][i].kind = "build" => values'[j] = Unbuilt
  BY <1>1 DEF LocksInv, Vacant
<1>11. f.kind = "build" => \A k \in f.done : values'[k] = Unbuilt
  BY <1>1, <1>3 DEF Found
<1>12. \A k \in f.done : order'[k] <= maxOrder'[t]
  BY <1>1, <1>3, <1>4
<1>13. /\ \A u \in Threads \ {t} : \A n \in Nat : <<n, u>> \in held => <<n, u>> \in held'
       /\ \A j \in Keys : order[j] # Unseen => order'[j] = order[j]
  BY <1>1
<1>14. /\ f.phase # "resolving" =>
            /\ \A j \in f.todo \union f.done : order'[j] > f.prev
            /\ \A i \in 1 .. Depth(t) - 1 : \A j \in stack[t][i].done : order[j] <= f.prev
            /\ \A j \in f.done : <<order'[j], t>> \in held'
       /\ f.phase # "acquiring"
       /\ \A i \in 1 .. Depth(t) - 1 : \A j \in stack[t][i].done :
            order[j] <= maxOrder'[t] /\ <<order[j], t>> \in held'
  BY <1>3, <1>7, <1>8
<1>15. Depth(t) > 0 /\ Becomes(t, f) /\ f \in Frame
       /\ \A u \in Threads \ {t} : maxOrder'[u] = maxOrder[u]
  BY <1>1, <1>2, <1>4
<1> HIDE DEF f
<1> QED BY <1>5, <1>6, <1>9, <1>10, <1>11, <1>12, <1>13, <1>14, <1>15, ChangeKeeps

\* The value was built meanwhile: the locks are given back at once.
LEMMA FindBuiltKeeps == ASSUME LocksInv, NEW t \in Threads, FindBuilt(t) PROVE LocksInv'
<1> DEFINE f == [Top(t) EXCEPT !.phase = "releasing"]
<1>1. Depth(t) > 0 /\ Top(t).phase = "acquiring" /\ Becomes(t, f)
      /\ UNCHANGED <<order, seen, held, maxOrder, values, builds, calls>>
  BY DEF FindBuilt, In
<1>2. f \in Frame /\ f.phase = "releasing" /\ f.todo = Top(t).todo /\ f.done = Top(t).done
      /\ f.prev = Top(t).prev
  BY <1>1, Innermost DEF Frame, Phase
<1>3. /\ \A k \in f.todo \union f.done : order[k] > f.prev
      /\ \A i \in 1 .. Depth(t) - 1 : \A k \in stack[t][i].done : order[k] <= f.prev
      /\ \A k \in f.done : <<order[k], t>> \in held
  BY <1>1, <1>2, Innermost
<1> HIDE DEF f
<1> QED BY <1>1, <1>2, <1>3, PhaseKeeps

\* No other call has a key of the innermost one.
LEMMA Unshared ==
  ASSUME LocksInv, NEW t \in Threads, Depth(t) > 0, Top(t).phase # "resolving",
         NEW k \in Top(t).done,
         NEW u \in Threads, NEW i \in 1 .. Depth(u), stack[u][i].phase # "resolving",
         k \in stack[u][i].done
  PROVE  u = t /\ i = Depth(t)
<1>1. k \in Keys /\ order[k] \in Nat /\ <<order[k], t>> \in held /\ order[k] > Top(t).prev
  BY Innermost
<1>2. <<order[k], u>> \in held
  BY <1>1 DEF LocksInv, Backed, HoldsIn
<1>3. u = t
  BY <1>1, <1>2 DEF LocksInv, Backed
<1>4. i \in 1 .. Depth(t) - 1 => order[k] <= Top(t).prev
  BY <1>3, Innermost
<1>5. Depth(t) \in Nat /\ Top(t).prev \in Nat
  BY Innermost
<1> QED BY <1>1, <1>3, <1>4, <1>5

\* The body ends: the record falls back to what the call started from, and
\* only its own slot may have been filled.
LEMMA LeavingKeeps ==
  ASSUME LocksInv, NEW t \in Threads, Leaving(t), builds' \in Nat, values' \in [Keys -> Nat],
         \A k \in Keys \ Top(t).done : values'[k] = values[k]
  PROVE  LocksInv'
<1> DEFINE f == [Top(t) EXCEPT !.phase = "releasing"]
<1>1. Depth(t) > 0 /\ Top(t).phase = "body" /\ Becomes(t, f)
      /\ maxOrder' = [maxOrder EXCEPT ![t] = Top(t).prev]
      /\ UNCHANGED <<order, seen, held, calls>>
  BY DEF Leaving, In
<1>2. LocksTypeOK /\ f \in Frame /\ f.phase = "releasing" /\ f.todo = Top(t).todo
      /\ f.done = Top(t).done /\ f.prev = Top(t).prev /\ maxOrder \in [Threads -> Nat]
      /\ Top(t).prev \in Nat
  BY <1>1, Innermost DEF Frame, Phase
<1>3. maxOrder' \in [Threads -> Nat] /\ maxOrder'[t] = Top(t).prev
      /\ \A u \in Threads \ {t} : maxOrder'[u] = maxOrder[u]
  BY <1>1, <1>2
<1>4. LocksTypeOK'
  BY <1>1, <1>2, <1>3, Changed DEF LocksTypeOK
<1>5. Numbered'
  BY <1>1 DEF LocksInv, Numbered
<1>6. /\ \A k \in f.todo \union f.done : order'[k] > f.prev
      /\ \A i \in 1 .. Depth(t) - 1 : \A k \in stack[t][i].done :
           order[k] <= f.prev /\ order[k] <= maxOrder'[t] /\ <<order[k], t>> \in held'
      /\ \A k \in f.done : <<order'[k], t>> \in held'
  BY <1>1, <1>2, <1>3, Innermost
<1>7. \A n \in Nat : \A u, v \in Threads : <<n, u>> \in held' /\ <<n, v>> \in held' => u = v
  BY <1>1 DEF LocksInv, Backed
<1>8. ASSUME NEW u \in Threads, NEW i \in 1 .. Depth(u), NEW k \in stack[u][i].done,
             stack[u][i].phase = "body", stack[u][i].kind = "build", u = t => i # Depth(t)
      PROVE  values'[k] = Unbuilt
  <2>1. k \in Keys /\ values[k] = Unbuilt
    BY <1>2, <1>8, Frames DEF LocksInv, Vacant
  <2>2. k \notin Top(t).done
    BY <1>1, <1>8, Unshared
  <2> QED BY <2>1, <2>2
<1>9. /\ \A u \in Threads \ {t} : \A n \in Nat : <<n, u>> \in held => <<n, u>> \in held'
      /\ \A j \in Keys : order[j] # Unseen => order'[j] = order[j]
  BY <1>1
<1>10. /\ f.phase # "resolving" =>
            /\ \A k \in f.todo \union f.done : order'[k] > f.prev
            /\ \A i \in 1 .. Depth(t) - 1 : \A k \in stack[t][i].done : order[k] <= f.prev
            /\ \A k \in f.done : <<order'[k], t>> \in held'
       /\ f.phase # "acquiring" /\ f.phase # "body"
       /\ \A i \in 1 .. Depth(t) - 1 : \A k \in stack[t][i].done :
            order[k] <= maxOrder'[t] /\ <<order[k], t>> \in held'
  BY <1>2, <1>6
<1>11. Depth(t) > 0 /\ Becomes(t, f) /\ f \in Frame
  BY <1>1, <1>2
<1>12. \A u \in Threads : \A i \in 1 .. Depth(u) : \A k \in stack[u][i].done :
         stack[u][i].phase = "body" /\ stack[u][i].kind = "build" /\ (u = t => i # Depth(t))
           => values'[k] = Unbuilt
  BY <1>8
<1> HIDE DEF f
<1> QED BY <1>3, <1>4, <1>5, <1>7, <1>9, <1>10, <1>11, <1>12, ChangeKeeps

\* The value is stored in the call's own slot.
LEMMA StoreKeeps == ASSUME LocksInv, NEW t \in Threads, Store(t) PROVE LocksInv'
<1>1. values \in [Keys -> Nat] /\ builds \in Nat
  BY DEF LocksInv, LocksTypeOK
<1>2. /\ Leaving(t) /\ builds' = builds + 1
      /\ values' = [k \in Keys |-> IF k \in Top(t).done THEN builds + 1 ELSE values[k]]
  BY DEF Store
<1>3. /\ builds' \in Nat /\ values' \in [Keys -> Nat]
      /\ \A k \in Keys \ Top(t).done : values'[k] = values[k]
  BY <1>1, <1>2
<1> QED BY <1>2, <1>3, LeavingKeeps

\* A lock that is released was the call's, and no other call of the thread
\* has it.
LEMMA ReleaseKeeps == ASSUME LocksInv, NEW t \in Threads, Release(t) PROVE LocksInv'
<1>1. PICK k \in LastOf(Top(t)) :
        /\ held' = held \ {<<order[k], t>>}
        /\ Becomes(t, [Top(t) EXCEPT !.done = @ \ {k}])
  BY DEF Release
<1> DEFINE f == [Top(t) EXCEPT !.done = @ \ {k}]
<1>2. Depth(t) > 0 /\ Top(t).phase = "releasing"
      /\ UNCHANGED <<order, seen, maxOrder, values, builds, calls>>
  BY DEF Release, In
<1>3. LocksTypeOK /\ k \in Keys /\ k \in Top(t).done /\ f \in Frame /\ f.phase = "releasing"
      /\ f.todo = Top(t).todo /\ f.done = Top(t).done \ {k} /\ f.prev = Top(t).prev
      /\ Top(t).done \subseteq Keys /\ order \in [Keys -> Nat]
  BY <1>2, Innermost DEF Frame, LastOf
<1>4. LocksTypeOK'
  BY <1>1, <1>2, <1>3, Changed DEF LocksTypeOK
<1>5. Numbered'
  BY <1>2 DEF LocksInv, Numbered
<1>6. order[k] # Unseen /\ \A j \in Keys \ {k} : order[j] # order[k]
  <2>1. order[k] > Top(t).prev /\ Top(t).prev \in Nat
    BY <1>2, <1>3, Innermost
  <2>2. order[k] # Unseen
    BY <2>1, <1>3 DEF Unseen
  <2> QED BY <2>2, <1>3 DEF LocksInv, Numbered
<1>7. \A j \in Keys \ {k} : <<order[j], t>> \in held => <<order[j], t>> \in held'
  BY <1>1, <1>6
<1>8. \A i \in 1 .. Depth(t) - 1 : \A j \in stack[t][i].done :
        order[j] <= f.prev /\ order[j] <= maxOrder'[t] /\ <<order[j], t>> \in held'
  <2> SUFFICES ASSUME NEW i \in 1 .. Depth(t) - 1, NEW j \in stack[t][i].done
               PROVE  order[j] <= f.prev /\ order[j] <= maxOrder'[t] /\ <<order[j], t>> \in held'
    OBVIOUS
  <2>1. j \in Keys /\ order[j] <= maxOrder[t] /\ <<order[j], t>> \in held
        /\ order[j] <= Top(t).prev
    BY <1>2, Innermost
  <2>2. order[k] > Top(t).prev /\ Top(t).prev \in Nat
    BY <1>2, <1>3, Innermost
  <2>3. j # k
    BY <2>1, <2>2, <1>3
  <2> QED BY <2>1, <2>3, <1>2, <1>3, <1>7
<1>9. /\ \A j \in f.todo \union f.done : order'[j] > f.prev
      /\ \A j \in f.done : <<order'[j], t>> \in held'
  BY <1>2, <1>3, <1>7, Innermost
<1>10. \A n \in Nat : \A u, v \in Threads : <<n, u>> \in held' /\ <<n, v>> \in held' => u = v
  BY <1>1 DEF LocksInv, Backed
<1>11. \A u \in Threads : \A i \in 1 .. Depth(u) : \A j \in stack[u][i].done :
         stack[u][i].phase = "body" /\ stack[u][i].kind = "build" => values'[j] = Unbuilt
  BY <1>2 DEF LocksInv, Vacant
<1>12. /\ \A u \in Threads \ {t} : maxOrder'[u] = maxOrder[u]
       /\ \A u \in Threads \ {t} : \A n \in Nat : <<n, u>> \in held => <<n, u>> \in held'
       /\ \A j \in Keys : order[j] # Unseen => order'[j] = order[j]
  BY <1>1, <1>2
<1>13. /\ f.phase # "resolving" =>
            /\ \A j \in f.todo \union f.done : order'[j] > f.prev
            /\ \A i \in 1 .. Depth(t) - 1 : \A j \in stack[t][i].done : order[j] <= f.prev
            /\ \A j \in f.done : <<order'[j], t>> \in held'
       /\ f.phase # "acquiring" /\ f.phase # "body"
       /\ \A i \in 1 .. Depth(t) - 1 : \A j \in stack[t][i].done :
            order[j] <= maxOrder'[t] /\ <<order[j], t>> \in held'
  BY <1>3, <1>8, <1>9
<1>14. Depth(t) > 0 /\ Becomes(t, f) /\ f \in Frame
  BY <1>1, <1>2, <1>3
<1> HIDE DEF f
<1> QED BY <1>4, <1>5, <1>10, <1>11, <1>12, <1>13, <1>14, ChangeKeeps

-----------------------------------------------------------------------------
(* The specification *)

LEMMA InitInv == LocksInit => LocksInv
<1> SUFFICES ASSUME LocksInit PROVE LocksInv
  OBVIOUS
<1>1. LocksTypeOK
  BY DEF LocksInit, LocksTypeOK, Unseen, Unbuilt
<1>2. \A t \in Threads : Depth(t) = 0
  BY DEF LocksInit, Depth
<1>3. Numbered
  BY DEF LocksInit, Numbered, Unseen
<1>4. Nested /\ Above /\ Sorted /\ Stacked /\ Recorded /\ Vacant
  BY <1>2 DEF Nested, Above, Sorted, Stacked, Recorded, Vacant
<1>5. Backed
  BY <1>2 DEF LocksInit, Backed
<1> QED BY <1>1, <1>3, <1>4, <1>5 DEF LocksInv

LEMMA NextInv == LocksInv /\ [LocksNext]_locksVars => LocksInv'
<1> SUFFICES ASSUME LocksInv, [LocksNext]_locksVars PROVE LocksInv'
  OBVIOUS
<1>1. CASE UNCHANGED locksVars
  BY <1>1 DEF locksVars, LocksInv, LocksTypeOK, Numbered, Nested, Above, Sorted, Stacked, Recorded, Backed,
             Vacant, HoldsIn, Depth
<1>2. ASSUME NEW t \in Threads, Step(t)
      PROVE  LocksInv'
  <2>1. CASE Call(t)
    <3>1. PICK keys \in SUBSET Keys : Calling(t, keys, "with")
      BY <2>1 DEF Call
    <3> QED BY <3>1, CallKeeps DEF Kind
  <2>2. CASE GetOrCreate(t)
    <3>1. PICK k \in Keys : Calling(t, {k}, "build")
      BY <2>2 DEF GetOrCreate
    <3>2. {k} \in SUBSET Keys /\ "build" \in Kind
      BY DEF Kind
    <3> QED BY <3>1, <3>2, CallKeeps
  <2>3. CASE Resolve(t)
    BY <2>3, ResolveKeeps
  <2>4. CASE Admit(t)
    BY <2>4, AdmitKeeps
  <2>5. CASE Refuse(t) \/ Return(t)
    BY <2>5, ReturnKeeps DEF Refuse, Return, In
  <2>6. CASE Acquire(t)
    BY <2>6, AcquireKeeps
  <2>7. CASE Begin(t) \/ BeginBuild(t)
    BY <2>7, EnterKeeps DEF Begin, BeginBuild
  <2>8. CASE Leave(t) \/ FactoryRaises(t)
    <3>1. values' = values /\ builds' = builds /\ LocksTypeOK
      BY <2>8 DEF Leave, FactoryRaises, LocksInv
    <3> QED BY <2>8, <3>1, LeavingKeeps DEF Leave, FactoryRaises, LocksTypeOK
  <2>9. CASE Store(t)
    BY <2>9, StoreKeeps
  <2>10. CASE FindBuilt(t)
    BY <2>10, FindBuiltKeeps
  <2>11. CASE Release(t)
    BY <2>11, ReleaseKeeps
  <2> QED BY <1>2, <2>1, <2>2, <2>3, <2>4, <2>5, <2>6, <2>7, <2>8, <2>9, <2>10, <2>11
          DEF Step, Proceeds
<1> QED BY <1>1, <1>2 DEF LocksNext

THEOREM LocksInvariance == LocksSpec => []LocksInv
<1> QED BY InitInv, NextInv, PTL DEF LocksSpec

\* Every variable keeps its type.
THEOREM LocksTypeCorrect == LocksSpec => []LocksTypeOK
<1>1. LocksInv => LocksTypeOK
  BY DEF LocksInv
<1> QED BY <1>1, LocksInvariance, PTL

\* KeyedLockManager.lock: two threads never both hold a key.
THEOREM MutualExclusion == LocksSpec => []Exclusive
<1>1. LocksInv => Exclusive
  <2> SUFFICES ASSUME LocksInv, NEW t \in Threads, NEW u \in Threads, NEW k \in Keys,
                      Holds(t, k), Holds(u, k)
               PROVE  t = u
    BY DEF Exclusive
  <2>1. <<order[k], t>> \in held /\ <<order[k], u>> \in held /\ order[k] \in Nat
    BY DEF Holds, LocksInv, Backed, LocksTypeOK
  <2> QED BY <2>1 DEF LocksInv, Backed
<1> QED BY <1>1, LocksInvariance, PTL

\* What a thread waits for comes after all it holds.
LEMMA Climbs ==
  ASSUME LocksInv, NEW t \in Threads, NEW k \in Keys, NEW j \in Keys, Holds(t, k), Awaits(t, j)
  PROVE  order[k] < order[j]
<1>1. Depth(t) > 0 /\ Top(t).phase = "acquiring" /\ j \in Top(t).todo
  BY DEF Awaits, In, NextOf
<1>2. order[j] > Top(t).prev /\ Top(t).prev \in Nat /\ order \in [Keys -> Nat]
  BY <1>1, Innermost
<1>3. PICK i \in 1 .. Depth(t) : stack[t][i].phase # "resolving" /\ k \in stack[t][i].done
  BY DEF Holds, HoldsIn
<1>4. CASE i = Depth(t)
  BY <1>1, <1>3, <1>4 DEF LocksInv, Sorted, Top
<1>5. CASE i \in 1 .. Depth(t) - 1
  <2>1. order[k] <= Top(t).prev
    BY <1>1, <1>3, <1>5, Innermost
  <2> QED BY <2>1, <1>2
<1>6. Depth(t) \in Nat
  BY Frames DEF LocksInv
<1> QED BY <1>3, <1>4, <1>5, <1>6

\* KeyedLockManager.lock: no threads wait for each other's keys, however their
\* calls are batched and nested.  The last lock that is waited for is held by
\* a thread that waits for none, or for a later one.
THEOREM NoDeadlock == LocksSpec => []NoWaitCycle
<1>1. LocksInv => NoWaitCycle
  <2> SUFFICES ASSUME LocksInv, NEW S \in SUBSET Threads, S # {},
                      \A t \in S : \E u \in S : \E k \in Keys : Awaits(t, k) /\ Holds(u, k)
               PROVE  FALSE
    BY DEF NoWaitCycle
  <2>1. order \in [Keys -> Nat] /\ seen \in Nat /\ \A k \in Keys : order[k] <= seen
    BY DEF LocksInv, LocksTypeOK, Numbered
  <2> DEFINE W == {k \in Keys : \E t \in S : Awaits(t, k)}
             M == {n \in Nat : \E k \in W : n = seen - order[k]}
  <2>2. M \subseteq Nat /\ M # {}
    <3>1. PICK t \in S : TRUE
      OBVIOUS
    <3>2. PICK k \in Keys : Awaits(t, k)
      BY <3>1
    <3>3. seen - order[k] \in Nat
      BY <2>1
    <3>4. k \in W
      BY <3>2
    <3> QED BY <3>3, <3>4
  <2> HIDE DEF M
  <2>3. PICK x \in M : \A y \in M : <<y, x>> \notin OpToRel(<, Nat)
    BY <2>2, NatLessThanWellFounded, WFMin
  <2> USE DEF M
  <2>4. PICK k \in W : x = seen - order[k]
    BY <2>3
  <2>5. PICK t \in S : Awaits(t, k)
    BY <2>4
  <2>6. PICK u \in S, j \in Keys : Awaits(t, j) /\ Holds(u, j)
    BY <2>5
  <2>7. PICK i \in Keys : Awaits(u, i)
    BY <2>6
  <2>8. order[j] < order[i]
    BY <2>6, <2>7, Climbs
  <2>9. k \in Keys /\ order[k] = order[j]
    <3>1. k \in Keys
      BY <2>4
    <3>2. /\ k \in Top(t).todo /\ \A l \in Top(t).todo : order[k] <= order[l]
          /\ j \in Top(t).todo /\ \A l \in Top(t).todo : order[j] <= order[l]
      BY <2>5, <2>6 DEF Awaits, NextOf
    <3>3. order[k] <= order[j] /\ order[j] <= order[k]
      BY <3>2
    <3> QED BY <3>1, <3>3, <2>1
  <2>10. i \in W
    BY <2>7
  <2>11. seen - order[i] \in Nat /\ seen - order[i] < x
    BY <2>1, <2>4, <2>8, <2>9
  <2>12. seen - order[i] \in M
    BY <2>10, <2>11
  <2>13. <<seen - order[i], x>> \in OpToRel(<, Nat)
    BY <2>11, <2>2 DEF OpToRel
  <2> QED BY <2>3, <2>12, <2>13
<1> QED BY <1>1, LocksInvariance, PTL

\* KeyedLazyRegistry.get_or_create: a value once built is never replaced.
THEOREM ValuesStand == LocksSpec => BuiltOnce
<1>1. ASSUME LocksInv, [LocksNext]_locksVars
      PROVE  [\A k \in Keys : values[k] # Unbuilt => values'[k] = values[k]]_locksVars
  <2>1. ASSUME NEW t \in Threads, Store(t), NEW k \in Keys, values[k] # Unbuilt
        PROVE  values'[k] = values[k]
    <3>1. Depth(t) > 0 /\ Top(t).phase = "body" /\ Top(t).kind = "build"
      BY <2>1 DEF Store, Leaving, In
    <3>2. Depth(t) \in 1 .. Depth(t) /\ Top(t) = stack[t][Depth(t)]
      BY <3>1, <1>1, Innermost
    <3>3. k \notin Top(t).done
      BY <2>1, <3>1, <3>2, <1>1 DEF LocksInv, Vacant
    <3> QED BY <2>1, <3>3 DEF Store
  <2>2. ASSUME NEW t \in Threads, Step(t), ~Store(t)
        PROVE  values' = values
    BY <2>2 DEF Step, Call, GetOrCreate, Calling, Proceeds, Resolve, Admit, Refuse, Acquire,
                Begin, Leave, Release, Return, FindBuilt, BeginBuild, FactoryRaises
  <2> QED BY <1>1, <2>1, <2>2 DEF LocksNext, locksVars
<1> QED BY <1>1, LocksInvariance, PTL DEF LocksSpec, BuiltOnce
=============================================================================
