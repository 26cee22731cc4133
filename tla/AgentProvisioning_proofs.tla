---------------------- MODULE AgentProvisioning_proofs ----------------------
(* Proofs about AgentProvisioning, for every number of jobs, of worker processes,
   lease, clock and bound.  The inductive invariant IInv adds to the properties
   what they rest on: no token in circulation is above the lock's, a workflow that
   compensates was granted the lock, and a lease a workflow still counts on is the
   one in the record.  On top of it MarkInv says what a worker process knows of a
   mark it left itself. *)
EXTENDS AgentProvisioning, TLAPS

\* A workflow that was granted the lock has a token; only such a one compensates;
\* one that still asks for it counts on no lease.
FlowOK(f) ==
    /\ f.held => f.token # NoToken
    /\ f.pc = "compensate" => f.held
    /\ f.pc = "acquire" => f.until = -1

FlowsOK == \A r \in Runs : FlowOK(run[r])

\* No token in circulation is above the lock's.
BearersBounded == \A x \in Bearers : x.token <= lock.token

\* Does this workflow count on a lease nobody gave back in its name?
Counts(f) == f.until >= now /\ ~f.cut

\* A lease a workflow counts on is the one in the record.
LeasesRecorded ==
    \A r \in Runs : Counts(run[r]) => lock.owner = r /\ lock.expires >= run[r].until

\* No lease was granted for longer than a renewal would grant it now.
LeasesBounded == \A r \in Runs : run[r].until <= now + TTL

\* A lock that was ever granted has a token.
OwnedHasToken == lock.owner # NoRun => lock.token # NoToken

IInv ==
    /\ TypeOK
    /\ FlowsOK
    /\ OwnedHasToken
    /\ BearersBounded
    /\ TokensNameOneOwner
    /\ LeasesRecorded
    /\ LeasesBounded
    /\ HolderIsAccepted

\* What a step that grants no lease does to a workflow, and to all of them.
Kept(f, g) ==
    /\ g \in Flow
    /\ FlowOK(g)
    /\ g.held => f.held /\ g.token = f.token
    /\ g.until \in {f.until, -1}
    /\ f.cut => g.cut \/ g.until = -1

RunKept == run' \in [Runs -> Flow] /\ \A r \in Runs : Kept(run[r], run'[r])

\* The attempts after the step bear tokens that were borne before it.
WorkKept ==
    /\ work' \subseteq Attempt
    /\ \A b \in work' : [owner |-> b.run, token |-> b.token] \in Bearers

\* The environment's mark stays between what it was and the lock's token.
MarkKept ==
    /\ env' \in Env
    /\ mark' \in [token : Nat, by : Workers \cup {NoWorker}]
    /\ env'.token <= lock.token

\* The attempts at the lock nobody waits for keep their type.
LateKept == late' \subseteq LockCall

USE DEF NoToken

-----------------------------------------------------------------------------
(* The operators *)

\* A granted lease is a lock record, of the caller, with the same token only if
\* the caller held it.
LEMMA AcquiredFacts ==
    ASSUME IInv, NEW r \in Runs
    PROVE  /\ Acquired(lock, r) \in Lock
           /\ Acquired(lock, r).owner = r
           /\ Acquired(lock, r).expires = now + TTL
           /\ \/ Acquired(lock, r).token = lock.token /\ lock.owner = r
              \/ Acquired(lock, r).token = lock.token + 1
BY ProvisioningAssumption DEF IInv, TypeOK, Acquired, Lock

\* Giving the lock back ends the lease and changes nothing else.
LEMMA ReleasedFacts ==
    ASSUME IInv, NEW r \in Runs, NEW t \in Nat
    PROVE  /\ Released(lock, r, t) \in Lock
           /\ Released(lock, r, t).owner = lock.owner
           /\ Released(lock, r, t).token = lock.token
           /\ lock.owner # r => Released(lock, r, t) = lock
BY DEF IInv, TypeOK, Released, Lock

\* An exception leaves the workflow compensating only if it was granted the lock.
LEMMA FailedKept ==
    ASSUME NEW f \in Flow, FlowOK(f), NEW lost \in BOOLEAN, NEW stale \in BOOLEAN
    PROVE  Kept(f, Failed(f, lost, stale))
<1> DEFINE c == [f EXCEPT !.pc = "compensate"]
           l == [f EXCEPT !.pc = "release", !.until = -1]
           k == [f EXCEPT !.pc = "release", !.until = @]
<1>1. f.held => Kept(f, c) BY DEF Kept, FlowOK, Flow, Acts, Phases, Closing
<1>2. Kept(f, l)
  <2>1. -1 \in Int OBVIOUS
  <2>2. l.until = -1 /\ l.held = f.held /\ l.token = f.token /\ l.pc = "release"
    BY DEF Flow
  <2>3. l \in Flow BY <2>1 DEF Flow
  <2> QED BY <2>2, <2>3 DEF Kept, FlowOK
<1>3. Kept(f, k) BY DEF Kept, FlowOK, Flow, Acts, Phases, Closing
<1>4. \/ f.held /\ Failed(f, lost, stale) = c
      \/ Failed(f, lost, stale) = l
      \/ Failed(f, lost, stale) = k
  BY DEF Failed
<1> HIDE DEF c, l, k
<1> QED BY <1>1, <1>2, <1>3, <1>4

\* A workflow that changes neither token nor lease keeps its promises.
LEMMA PcKept ==
    ASSUME NEW f \in Flow, FlowOK(f),
           NEW pc \in {"setup", "record", "deliver", "release"},
           NEW own \in BOOLEAN, NEW settled \in BOOLEAN
    PROVE  Kept(f, [f EXCEPT !.pc = pc, !.own = own, !.settled = settled])
BY DEF Kept, FlowOK, Flow, Acts, Phases, Closing

LEMMA SameKept ==
    ASSUME NEW f \in Flow, FlowOK(f)
    PROVE  Kept(f, f)
BY DEF Kept

\* One workflow changes, and keeps its promises: all of them do.
LEMMA OneRunKept ==
    ASSUME IInv, NEW r \in Runs, NEW g, Kept(run[r], g), run' = [run EXCEPT ![r] = g]
    PROVE  RunKept
<1>1. run \in [Runs -> Flow] /\ \A s \in Runs : run[s] \in Flow /\ FlowOK(run[s])
  BY DEF IInv, TypeOK, FlowsOK
<1>2. g \in Flow BY DEF Kept
<1>3. run' \in [Runs -> Flow] BY <1>1, <1>2
<1>4. ASSUME NEW s \in Runs PROVE Kept(run[s], run'[s])
  <2>1. CASE s = r BY <1>1, <2>1
  <2>2. CASE s # r
    <3>1. run'[s] = run[s] BY <1>1, <2>2
    <3> QED BY <1>1, <3>1, SameKept
  <2> QED BY <2>1, <2>2
<1> QED BY <1>3, <1>4 DEF RunKept

LEMMA NoRunKept ==
    ASSUME IInv, UNCHANGED run
    PROVE  RunKept
<1>1. run \in [Runs -> Flow] /\ \A s \in Runs : run[s] \in Flow /\ FlowOK(run[s])
  BY DEF IInv, TypeOK, FlowsOK
<1>2. \A s \in Runs : Kept(run[s], run'[s]) BY <1>1, SameKept
<1> QED BY <1>1, <1>2 DEF RunKept

\* The attempts in work bear their tokens.
LEMMA WorkBears ==
    ASSUME NEW a \in work
    PROVE  [owner |-> a.run, token |-> a.token] \in Bearers
BY DEF Bearers

\* An attempt is replaced by attempts of the same run and token, or dropped.
LEMMA ReplacedKept ==
    ASSUME IInv, NEW a \in work, NEW S, S \subseteq Attempt,
           \A b \in S : b.run = a.run /\ b.token = a.token,
           work' = (work \ {a}) \cup S
    PROVE  WorkKept
<1>1. work' \subseteq Attempt BY DEF IInv, TypeOK
<1>2. ASSUME NEW b \in work' PROVE [owner |-> b.run, token |-> b.token] \in Bearers
  <2>1. CASE b \in work BY <2>1, WorkBears
  <2>2. CASE b \in S BY <2>2, WorkBears
  <2> QED BY <2>1, <2>2
<1> QED BY <1>1, <1>2 DEF WorkKept

LEMMA DroppedKept ==
    ASSUME IInv, NEW a \in work, work' = work \ {a}
    PROVE  WorkKept
<1> DEFINE S == {}
<1>1. S \subseteq Attempt /\ work' = (work \ {a}) \cup S OBVIOUS
<1>2. \A b \in S : b.run = a.run /\ b.token = a.token OBVIOUS
<1> HIDE DEF S
<1> QED BY <1>1, <1>2, ReplacedKept

LEMMA NoWorkKept ==
    ASSUME IInv, UNCHANGED work
    PROVE  WorkKept
BY WorkBears DEF IInv, TypeOK, WorkKept

\* A new attempt is an attempt.
LEMMA NewAttemptFacts ==
    ASSUME NEW r \in Runs, NEW act \in Acts, NEW t \in Nat \ {NoToken}, NEW d \in BOOLEAN,
           NEW w \in Workers
    PROVE  /\ NewAttempt(r, act, t, d, w) \in Attempt
           /\ NewAttempt(r, act, t, d, w).run = r
           /\ NewAttempt(r, act, t, d, w).token = t
           /\ NewAttempt(r, act, t, d, w).stage = "queued"
BY DEF NewAttempt, Attempt, Status, Env

\* The attempts nobody waits for at the lock change in no other step.
LEMMA SameLate ==
    ASSUME IInv, UNCHANGED late
    PROVE  LateKept
BY DEF IInv, TypeOK, LateKept

-----------------------------------------------------------------------------
(* Steps that grant no lease *)

\* Tokens, owners and leases stay in order when the lock keeps its token and
\* owner, and every lease still counted on is in the record.
LEMMA QuietStep ==
    ASSUME IInv, RunKept, WorkKept, MarkKept, LateKept, now' = now,
           lock' \in Lock, lock'.owner = lock.owner, lock'.token = lock.token,
           \A r \in Runs : run'[r].until >= now /\ ~run'[r].cut => lock' = lock
    PROVE  IInv'
<1>1. TypeOK' BY DEF IInv, TypeOK, RunKept, WorkKept, MarkKept, LateKept
<1>2. FlowsOK' /\ OwnedHasToken' BY DEF FlowsOK, RunKept, Kept, IInv, OwnedHasToken
<1>3. Bearers' \subseteq Bearers
  <2>1. [owner |-> lock'.owner, token |-> lock'.token] \in Bearers BY DEF Bearers
  <2>2. ASSUME NEW r \in Runs, run'[r].held
        PROVE  [owner |-> r, token |-> run'[r].token] \in Bearers
    <3>1. run[r].held /\ run'[r].token = run[r].token BY <2>2 DEF RunKept, Kept
    <3> QED BY <3>1 DEF Bearers
  <2>3. \A b \in work' : [owner |-> b.run, token |-> b.token] \in Bearers BY DEF WorkKept
  <2>4. ASSUME NEW x \in Bearers' PROVE x \in Bearers
    <3>1. \/ x = [owner |-> lock'.owner, token |-> lock'.token]
          \/ \E r \in Runs : run'[r].held /\ x = [owner |-> r, token |-> run'[r].token]
          \/ \E b \in work' : x = [owner |-> b.run, token |-> b.token]
      BY <2>4 DEF Bearers
    <3> QED BY <2>1, <2>2, <2>3, <3>1
  <2> QED BY <2>4
<1>4. BearersBounded' BY <1>3 DEF IInv, BearersBounded
<1>5. TokensNameOneOwner' BY <1>3 DEF IInv, TokensNameOneOwner
<1>6. LeasesRecorded'
  <2> SUFFICES ASSUME NEW r \in Runs, run'[r].until >= now, ~run'[r].cut
               PROVE  lock'.owner = r /\ lock'.expires >= run'[r].until
    BY DEF LeasesRecorded, Counts
  <2>1. run'[r].until = run[r].until
    <3>1. now \in Nat /\ run'[r].until \in {run[r].until, -1}
      BY DEF IInv, TypeOK, RunKept, Kept
    <3> QED BY <3>1
  <2>2. ~run[r].cut
    <3>1. now \in Nat /\ (run[r].cut => run'[r].cut \/ run'[r].until = -1)
      BY DEF IInv, TypeOK, RunKept, Kept
    <3> QED BY <3>1
  <2>3. lock' = lock OBVIOUS
  <2> QED BY <2>1, <2>2, <2>3 DEF IInv, LeasesRecorded, Counts
<1>7. LeasesBounded'
  <2> SUFFICES ASSUME NEW r \in Runs PROVE run'[r].until <= now + TTL
    BY DEF LeasesBounded
  <2>1. now \in Nat /\ TTL \in Nat BY ProvisioningAssumption DEF IInv, TypeOK
  <2>2. run'[r].until \in {run[r].until, -1} BY DEF RunKept, Kept
  <2>3. run[r].until <= now + TTL BY DEF IInv, LeasesBounded
  <2> QED BY <2>1, <2>2, <2>3
<1>8. HolderIsAccepted' BY DEF MarkKept, HolderIsAccepted
<1> QED BY <1>1, <1>2, <1>4, <1>5, <1>6, <1>7, <1>8 DEF IInv

LEMMA SameLockStep ==
    ASSUME IInv, RunKept, WorkKept, MarkKept, LateKept, UNCHANGED <<now, lock>>
    PROVE  IInv'
<1>1. lock \in Lock BY DEF IInv, TypeOK
<1> QED BY <1>1, QuietStep

LEMMA SameEnv ==
    ASSUME IInv, UNCHANGED <<env, mark>>
    PROVE  MarkKept
BY DEF IInv, TypeOK, HolderIsAccepted, MarkKept

\* A record is written with a token in circulation, or unlinked.
LEMMA PublishedKept ==
    ASSUME IInv, NEW a \in work, NEW e, Publish(a, e),
           e = NoEnv \/ \E st \in LiveStatus \cup {"tombstone"} : e = Written(st, a.token)
    PROVE  MarkKept
<1>1. a.token \in Nat \ {NoToken} /\ a.at \in Workers /\ lock.token \in Nat
  BY DEF IInv, TypeOK, Attempt, Lock
<1>2. a.token <= lock.token BY WorkBears DEF IInv, BearersBounded
<1>3. mark' \in [token : Nat, by : Workers \cup {NoWorker}] BY <1>1 DEF Publish
<1>4. CASE e = NoEnv BY <1>1, <1>3, <1>4 DEF MarkKept, Publish, Env, NoEnv
<1>5. CASE \E st \in LiveStatus \cup {"tombstone"} : e = Written(st, a.token)
  <2>1. PICK st \in LiveStatus \cup {"tombstone"} : e = Written(st, a.token) BY <1>5
  <2>2. e \in Env /\ e.token = a.token BY <1>1, <2>1 DEF Written, Env
  <2> QED BY <1>2, <1>3, <2>2 DEF MarkKept, Publish
<1> QED BY <1>4, <1>5

\* The end of an attempt and what it does to its workflow.
LEMMA FinishKept ==
    ASSUME IInv, NEW a \in work, NEW own \in BOOLEAN, Finish(a, own)
    PROVE  RunKept /\ WorkKept
<1>1. a.run \in Runs BY DEF IInv, TypeOK, Attempt
<1>2. run[a.run] \in Flow /\ FlowOK(run[a.run]) BY <1>1 DEF IInv, TypeOK, FlowsOK
<1>3. WorkKept BY DroppedKept DEF Finish
<1>4. RunKept
  <2> DEFINE f == run[a.run]
  <2>0. f.own \in BOOLEAN /\ f.settled \in BOOLEAN BY <1>2 DEF Flow
  <2>1. CASE ~a.live BY <2>1, NoRunKept DEF Finish
  <2>2. CASE a.live
    <3>1. PICK pc \in {"record", "deliver", "release"}, o \in BOOLEAN, t \in BOOLEAN :
             run' = [run EXCEPT ![a.run] = [f EXCEPT !.pc = pc, !.own = o, !.settled = t]]
      <4>1. CASE a.act = "setup"
        <5>1. run' = [run EXCEPT ![a.run] = [f EXCEPT !.pc = "record", !.own = own]]
          BY <2>2, <4>1 DEF Finish
        <5>2. [f EXCEPT !.pc = "record", !.own = own]
                = [f EXCEPT !.pc = "record", !.own = own, !.settled = f.settled]
          BY <1>2 DEF Flow
        <5> QED BY <5>1, <5>2, <2>0
      <4>2. CASE a.act = "record"
        <5>1. run' = [run EXCEPT ![a.run] = [f EXCEPT !.pc = "deliver", !.settled = TRUE]]
          BY <2>2, <4>2 DEF Finish
        <5>2. [f EXCEPT !.pc = "deliver", !.settled = TRUE]
                = [f EXCEPT !.pc = "deliver", !.own = f.own, !.settled = TRUE]
          BY <1>2 DEF Flow
        <5> QED BY <5>1, <5>2, <2>0
      <4>3. CASE a.act \notin {"setup", "record"}
        <5>1. run' = [run EXCEPT ![a.run] = [f EXCEPT !.pc = "release"]]
          BY <2>2, <4>3 DEF Finish
        <5>2. [f EXCEPT !.pc = "release"]
                = [f EXCEPT !.pc = "release", !.own = f.own, !.settled = f.settled]
          BY <1>2 DEF Flow
        <5> QED BY <5>1, <5>2, <2>0
      <4> QED BY <4>1, <4>2, <4>3
    <3>2. Kept(f, [f EXCEPT !.pc = pc, !.own = o, !.settled = t]) BY <1>2, PcKept
    <3> HIDE DEF f
    <3> QED BY <1>1, <3>1, <3>2, OneRunKept DEF f
  <2> QED BY <2>1, <2>2
<1> QED BY <1>3, <1>4

\* What a rejection or an exhausted retry leaves of the workflow.
LEMMA GivenUpKept ==
    ASSUME IInv, NEW a \in work, NEW stale \in BOOLEAN, run' = GivenUp(a, stale)
    PROVE  RunKept
<1>1. a.run \in Runs BY DEF IInv, TypeOK, Attempt
<1> DEFINE f == run[a.run]
<1>2. f \in Flow /\ FlowOK(f) BY <1>1 DEF IInv, TypeOK, FlowsOK
<1>3. Kept(f, [f EXCEPT !.pc = "release"])
  <2>1. f.own \in BOOLEAN /\ f.settled \in BOOLEAN BY <1>2 DEF Flow
  <2>2. [f EXCEPT !.pc = "release"]
          = [f EXCEPT !.pc = "release", !.own = f.own, !.settled = f.settled]
    BY <1>2 DEF Flow
  <2> QED BY <1>2, <2>1, <2>2, PcKept
<1>4. Kept(f, Failed(f, FALSE, stale)) BY <1>2, FailedKept
<1>5. run' = [run EXCEPT ![a.run] = IF a.act \in Closing THEN [f EXCEPT !.pc = "release"]
                                    ELSE Failed(f, FALSE, stale)]
  BY DEF GivenUp
<1> HIDE DEF f
<1>6. CASE a.act \in Closing BY <1>1, <1>3, <1>5, <1>6, OneRunKept DEF f
<1>7. CASE a.act \notin Closing BY <1>1, <1>4, <1>5, <1>7, OneRunKept DEF f
<1> QED BY <1>6, <1>7

LEMMA RejectKept ==
    ASSUME IInv, NEW a \in work, Reject(a)
    PROVE  RunKept /\ WorkKept
<1>1. WorkKept BY DroppedKept DEF Reject
<1>2. CASE ~a.live BY <1>1, <1>2, NoRunKept DEF Reject
<1>3. CASE a.live BY <1>1, <1>3, GivenUpKept DEF Reject
<1> QED BY <1>1, <1>2, <1>3

LEMMA AttemptAgain ==
    ASSUME IInv, NEW a \in work, NEW b \in Again(a)
    PROVE  b \in Attempt /\ b.run = a.run /\ b.token = a.token /\ b.stage = "queued"
<1>1. /\ a.run \in Runs /\ a.act \in Acts
      /\ a.token \in Nat \ {NoToken} /\ a.tearDown \in BOOLEAN
  BY DEF IInv, TypeOK, Attempt
<1>2. PICK w \in Workers : b = NewAttempt(a.run, a.act, a.token, a.tearDown, w) BY DEF Again
<1> QED BY <1>1, <1>2, NewAttemptFacts

LEMMA BecomesKept ==
    ASSUME IInv, NEW a \in work, NEW b \in Attempt, b.run = a.run, b.token = a.token,
           Becomes(a, b)
    PROVE  WorkKept
<1> DEFINE S == {b}
<1>1. S \subseteq Attempt /\ \A c \in S : c.run = a.run /\ c.token = a.token OBVIOUS
<1>2. work' = (work \ {a}) \cup S BY DEF Becomes
<1> HIDE DEF S
<1> QED BY <1>1, <1>2, ReplacedKept

LEMMA BreakKept ==
    ASSUME IInv, NEW a \in work, Break(a)
    PROVE  RunKept /\ WorkKept
<1>1. CASE (\E b \in Again(a) : Becomes(a, b)) /\ UNCHANGED run
  <2>1. PICK b \in Again(a) : Becomes(a, b) BY <1>1
  <2>2. b \in Attempt /\ b.run = a.run /\ b.token = a.token BY AttemptAgain
  <2>3. WorkKept BY <2>1, <2>2, BecomesKept
  <2> QED BY <1>1, <2>3, NoRunKept
<1>2. CASE work' = work \ {a} /\ run' = IF a.live THEN GivenUp(a, FALSE) ELSE run
  <2>1. WorkKept BY <1>2, DroppedKept
  <2>2. CASE ~a.live BY <1>2, <2>1, <2>2, NoRunKept
  <2>3. CASE a.live BY <1>2, <2>1, <2>3, GivenUpKept
  <2> QED BY <2>1, <2>2, <2>3
<1> QED BY <1>1, <1>2 DEF Break

-----------------------------------------------------------------------------
(* Steps that grant a lease *)

\* The lock goes to r, which learns its token or not; nobody else changes.
LEMMA GrantStep ==
    ASSUME IInv, NEW r \in Runs, ~Busy(lock, r), lock' = Acquired(lock, r),
           UNCHANGED <<now, env, mark>>, LateKept,
           NEW g \in Flow, FlowOK(g), run' = [run EXCEPT ![r] = g],
           g.held => g.token = lock'.token \/ (run[r].held /\ g.token = run[r].token),
           g.until <= now + TTL,
           work' \subseteq Attempt,
           \A b \in work' : b \in work \/ (b.run = r /\ b.token = lock'.token)
    PROVE  IInv'
<1> DEFINE new == [owner |-> r, token |-> lock'.token]
<1>0. run \in [Runs -> Flow] /\ now \in Nat /\ lock \in Lock BY DEF IInv, TypeOK
<1>1. /\ lock' \in Lock /\ lock'.owner = r /\ lock'.expires = now + TTL
      /\ \/ lock'.token = lock.token /\ lock.owner = r
         \/ lock'.token = lock.token + 1
  BY AcquiredFacts
<1>2. run'[r] = g /\ \A s \in Runs : s # r => run'[s] = run[s] BY <1>0
<1>3. TypeOK' BY <1>0, <1>1 DEF IInv, TypeOK, LateKept
<1>4. FlowsOK' /\ OwnedHasToken'
  <2>1. OwnedHasToken' BY <1>0, <1>1, ProvisioningAssumption DEF IInv, OwnedHasToken, Lock
  <2>2. FlowsOK' BY <1>2 DEF IInv, FlowsOK
  <2> QED BY <2>1, <2>2
<1>5. Bearers' \subseteq Bearers \cup {new}
  <2> SUFFICES ASSUME NEW x \in Bearers' PROVE x \in Bearers \cup {new}
    OBVIOUS
  <2>1. \/ x = [owner |-> lock'.owner, token |-> lock'.token]
        \/ \E s \in Runs : run'[s].held /\ x = [owner |-> s, token |-> run'[s].token]
        \/ \E b \in work' : x = [owner |-> b.run, token |-> b.token]
    BY DEF Bearers
  <2>2. CASE x = [owner |-> lock'.owner, token |-> lock'.token] BY <1>1, <2>2
  <2>3. CASE \E s \in Runs : run'[s].held /\ x = [owner |-> s, token |-> run'[s].token]
    <3>1. PICK s \in Runs : run'[s].held /\ x = [owner |-> s, token |-> run'[s].token]
      BY <2>3
    <3>2. CASE s = r /\ g.token = lock'.token BY <1>2, <3>1, <3>2
    <3>3. CASE s = r /\ g.token # lock'.token
      <4>1. run[r].held /\ g.token = run[r].token BY <1>2, <3>1, <3>3
      <4> QED BY <1>2, <3>1, <3>3, <4>1 DEF Bearers
    <3>4. CASE s # r BY <1>2, <3>1, <3>4 DEF Bearers
    <3> QED BY <3>2, <3>3, <3>4
  <2>4. CASE \E b \in work' : x = [owner |-> b.run, token |-> b.token] BY <2>4, WorkBears
  <2> QED BY <2>1, <2>2, <2>3, <2>4
<1>6. \A x \in Bearers : x.token \in Nat /\ x.token <= lock.token
  <2>1. \A x \in Bearers : x.token \in Nat
    BY <1>0 DEF Bearers, IInv, TypeOK, Lock, Flow, Attempt
  <2> QED BY <2>1 DEF IInv, BearersBounded
<1>7. lock.token \in Nat BY <1>0 DEF Lock
<1>8. [owner |-> lock.owner, token |-> lock.token] \in Bearers BY DEF Bearers
<1>9. new \in Bearers \/ lock'.token = lock.token + 1 BY <1>1, <1>8
<1>10. new.owner = r /\ new.token = lock'.token OBVIOUS
<1> HIDE DEF new
<1>11. BearersBounded' BY <1>1, <1>5, <1>6, <1>7, <1>10 DEF BearersBounded
<1>12. TokensNameOneOwner'
  <2> SUFFICES ASSUME NEW x \in Bearers \cup {new}, NEW y \in Bearers \cup {new},
                      x.token = y.token
               PROVE  x.owner = y.owner
    BY <1>5 DEF TokensNameOneOwner
  <2>1. CASE new \in Bearers BY <2>1 DEF IInv, TokensNameOneOwner
  <2>2. CASE lock'.token = lock.token + 1
    <3>1. \A z \in Bearers : z.token # new.token BY <1>6, <1>7, <1>10, <2>2
    <3>2. CASE x \in Bearers /\ y \in Bearers BY <3>2 DEF IInv, TokensNameOneOwner
    <3>3. CASE ~(x \in Bearers /\ y \in Bearers) BY <3>1, <3>3
    <3> QED BY <3>2, <3>3
  <2> QED BY <1>9, <2>1, <2>2
<1>13. LeasesRecorded' /\ LeasesBounded'
  <2>1. ASSUME NEW s \in Runs, s # r, run'[s].until >= now, ~run'[s].cut PROVE FALSE
    <3>1. run[s].until >= now /\ run[s].until \in Int /\ ~run[s].cut
      BY <1>0, <1>2, <2>1 DEF Flow
    <3>2. lock.owner = s /\ lock.expires >= run[s].until
      BY <3>1 DEF IInv, LeasesRecorded, Counts
    <3>3. lock.expires \in Int BY <1>0 DEF Lock
    <3> QED BY <1>0, <2>1, <3>1, <3>2, <3>3 DEF Busy, Expired
  <2>2. run'[r].until <= lock'.expires BY <1>1, <1>2
  <2>3. run'[r].until \in Int /\ lock'.expires \in Int BY <1>1, <1>2 DEF Flow, Lock
  <2>4. LeasesRecorded' BY <1>1, <2>1, <2>2, <2>3 DEF LeasesRecorded, Counts
  <2>5. LeasesBounded' BY <1>2 DEF IInv, LeasesBounded
  <2> QED BY <2>4, <2>5
<1>14. HolderIsAccepted'
  <2>1. env.token \in Nat BY DEF IInv, TypeOK, Env, NoEnv
  <2> QED BY <1>1, <1>7, <2>1 DEF IInv, HolderIsAccepted
<1> QED BY <1>3, <1>4, <1>11, <1>12, <1>13, <1>14 DEF IInv

LEMMA GrantedFacts ==
    ASSUME NEW f \in Flow, NEW l \in Lock, l.token # NoToken,
           NEW pc \in {"check", "setup", "record", "deliver", "teardown"}
    PROVE  /\ [Granted(f, l) EXCEPT !.pc = pc] \in Flow
           /\ FlowOK([Granted(f, l) EXCEPT !.pc = pc])
           /\ [Granted(f, l) EXCEPT !.pc = pc].token = l.token
           /\ [Granted(f, l) EXCEPT !.pc = pc].until = l.expires
BY DEF Granted, Flow, Lock, FlowOK, Acts, Phases, Closing

\* The lock's next token is one: the bearers' tokens count from it.
LEMMA GrantedToken ==
    ASSUME IInv, NEW r \in Runs, lock' = Acquired(lock, r), ~Busy(lock, r)
    PROVE  lock' \in Lock /\ lock'.token # NoToken /\ lock'.expires <= now + TTL
<1>1. lock \in Lock /\ now \in Nat BY DEF IInv, TypeOK
<1>2. lock' \in Lock BY AcquiredFacts
<1>6. lock'.expires <= now + TTL BY <1>1, AcquiredFacts, ProvisioningAssumption
<1>3. lock.token \in Nat /\ lock.owner \in Runs \cup {NoRun} BY <1>1 DEF Lock
<1>4. ASSUME lock'.token = lock.token + 1 PROVE lock'.token # NoToken BY <1>3, <1>4
<1>5. ASSUME lock'.token = lock.token, lock.owner = r PROVE lock'.token # NoToken
  BY <1>3, <1>5, ProvisioningAssumption DEF IInv, OwnedHasToken
<1> QED BY <1>2, <1>4, <1>5, <1>6, AcquiredFacts

LEMMA AcquireStep ==
    ASSUME IInv, NEW r \in Runs, Acquire(r)
    PROVE  IInv'
<1>1. lock' \in Lock /\ lock'.token # NoToken /\ lock'.expires <= now + TTL
  BY GrantedToken DEF Acquire
<1>6. LateKept BY SameLate DEF Acquire
<1>2. run[r] \in Flow BY DEF IInv, TypeOK
<1>3. work \subseteq Attempt BY DEF IInv, TypeOK
<1>4. CASE r \in Provisioners
  <2> DEFINE g == [Granted(run[r], lock') EXCEPT !.pc = "check"]
  <2>1. g \in Flow /\ FlowOK(g) /\ g.token = lock'.token /\ g.until = lock'.expires
    BY <1>1, <1>2, GrantedFacts
  <2>2. run' = [run EXCEPT ![r] = g] /\ work' = work BY <1>4 DEF Acquire
  <2> HIDE DEF g
  <2> QED BY <1>1, <1>3, <1>6, <2>1, <2>2, GrantStep DEF Acquire
<1>5. CASE r \notin Provisioners
  <2>0. PICK w \in Workers :
          work' = work \cup {NewAttempt(r, "teardown", lock'.token, FALSE, w)}
    BY <1>5 DEF Acquire
  <2> DEFINE g == [Granted(run[r], lock') EXCEPT !.pc = "teardown"]
             n == NewAttempt(r, "teardown", lock'.token, FALSE, w)
  <2>1. g \in Flow /\ FlowOK(g) /\ g.token = lock'.token /\ g.until = lock'.expires
    BY <1>1, <1>2, GrantedFacts
  <2>2. run' = [run EXCEPT ![r] = g] /\ work' = work \cup {n} BY <1>5, <2>0 DEF Acquire
  <2>3. n \in Attempt /\ n.run = r /\ n.token = lock'.token
    <3>1. lock'.token \in Nat \ {NoToken} BY <1>1 DEF Lock
    <3>2. "teardown" \in Acts BY DEF Acts, Closing
    <3> QED BY <3>1, <3>2 DEF NewAttempt, Attempt, Status, Env
  <2> HIDE DEF g, n
  <2> QED BY <1>1, <1>3, <1>6, <2>1, <2>2, <2>3, GrantStep DEF Acquire
<1> QED BY <1>4, <1>5

LEMMA RenewStep ==
    ASSUME IInv, NEW r \in Runs, Renew(r)
    PROVE  IInv'
<1>1. lock' \in Lock /\ lock'.token # NoToken /\ lock'.expires <= now + TTL
  BY GrantedToken DEF Renew
<1>0. PICK w \in Workers :
        work' = work \cup {NewAttempt(r, run[r].pc, lock'.token, FALSE, w)}
  BY DEF Renew
<1>2. run[r] \in Flow /\ run[r].pc \in Phases BY DEF IInv, TypeOK, Renew
<1>3. work \subseteq Attempt BY DEF IInv, TypeOK
<1> DEFINE g == Granted(run[r], lock')
           n == NewAttempt(r, run[r].pc, lock'.token, FALSE, w)
<1>4. g \in Flow /\ FlowOK(g) /\ g.token = lock'.token /\ g.until = lock'.expires
  <2>1. g = [Granted(run[r], lock') EXCEPT !.pc = run[r].pc]
    BY <1>2 DEF Granted, Flow
  <2> DEFINE h == [Granted(run[r], lock') EXCEPT !.pc = run[r].pc]
  <2>2. h \in Flow /\ FlowOK(h) /\ h.token = lock'.token /\ h.until = lock'.expires
    <3>1. run[r].pc \in {"check", "setup", "record", "deliver", "teardown"} BY <1>2 DEF Phases
    <3> QED BY <1>1, <1>2, <3>1, GrantedFacts
  <2>3. g = h BY <2>1
  <2> HIDE DEF g, h
  <2> QED BY <2>2, <2>3
<1>5. n \in Attempt /\ n.run = r /\ n.token = lock'.token
  <2>1. lock'.token \in Nat \ {NoToken} /\ run[r].pc \in Acts BY <1>1, <1>2 DEF Lock, Acts
  <2> QED BY <2>1 DEF NewAttempt, Attempt, Status, Env
<1>6. run' = [run EXCEPT ![r] = g] /\ work' = work \cup {n} BY <1>0 DEF Renew
<1>7. LateKept BY SameLate DEF Renew
<1>8. /\ ~Busy(lock, r) /\ lock' = Acquired(lock, r)
      /\ UNCHANGED <<now, env, mark>>
  BY DEF Renew
<1> HIDE DEF g, n
<1> QED BY <1>1, <1>3, <1>4, <1>5, <1>6, <1>7, <1>8, GrantStep

\* A call for the lock fails, and the workflow keeps no lease: granted behind its
\* back, under way, or neither.
LEMMA CallFailsStep ==
    ASSUME IInv, NEW r \in Runs, CallFails(r), UNCHANGED <<now, env, work, mark>>,
           NEW g, Kept(run[r], g), g.until = -1, run' = [run EXCEPT ![r] = g]
    PROVE  IInv'
<1>1. work' \subseteq Attempt /\ WorkKept BY NoWorkKept DEF WorkKept
<1>2. RunKept /\ MarkKept BY OneRunKept, SameEnv
<1>3. CASE UNCHANGED <<lock, late>> BY <1>1, <1>2, <1>3, SameLate, SameLockStep
<1>4. CASE ~Busy(lock, r) /\ lock' = Acquired(lock, r) /\ UNCHANGED late
  <2>1. g \in Flow /\ FlowOK(g) /\ (g.held => run[r].held /\ g.token = run[r].token)
    BY DEF Kept
  <2>2. g.until <= now + TTL
    <3>1. now \in Nat /\ TTL \in Nat BY ProvisioningAssumption DEF IInv, TypeOK
    <3> QED BY <3>1
  <2>3. LateKept BY <1>4, SameLate
  <2> QED BY <1>1, <1>4, <2>1, <2>2, <2>3, GrantStep
<1>5. CASE late' = late \cup {Asking(r)} /\ UNCHANGED lock
  <2>1. LateKept BY <1>5 DEF LateKept, IInv, TypeOK, Asking, LockCall
  <2> QED BY <1>1, <1>2, <1>5, <2>1, SameLockStep
<1> QED BY <1>3, <1>4, <1>5 DEF CallFails

\* The workflow does not learn of the lease it was granted, and releases.
LEMMA AcquireFailsStep ==
    ASSUME IInv, NEW r \in Runs, AcquireFails(r)
    PROVE  IInv'
<1> DEFINE g == [run[r] EXCEPT !.pc = "release"]
<1>1. run[r] \in Flow /\ FlowOK(run[r]) /\ run[r].until = -1
  BY DEF IInv, TypeOK, FlowsOK, FlowOK, AcquireFails
<1>2. Kept(run[r], g) BY <1>1 DEF Kept, FlowOK, Flow, Acts, Phases, Closing
<1>3. g.until = -1 BY <1>1 DEF Flow
<1>4. run' = [run EXCEPT ![r] = g] BY DEF AcquireFails
<1> HIDE DEF g
<1> QED BY <1>2, <1>3, <1>4, CallFailsStep DEF AcquireFails

LEMMA RenewFailsStep ==
    ASSUME IInv, NEW r \in Runs, RenewFails(r)
    PROVE  IInv'
<1> DEFINE g == Failed(run[r], TRUE, FALSE)
<1>1. run[r] \in Flow /\ FlowOK(run[r]) BY DEF IInv, TypeOK, FlowsOK
<1>2. Kept(run[r], g) BY <1>1, FailedKept
<1>3. g.until = -1 BY <1>1 DEF Flow, Failed
<1>4. run' = [run EXCEPT ![r] = g] BY DEF RenewFails, Fail
<1> HIDE DEF g
<1> QED BY <1>2, <1>3, <1>4, CallFailsStep DEF RenewFails

-----------------------------------------------------------------------------
(* The other steps *)

LEMMA CheckExistingStep ==
    ASSUME IInv, NEW r \in Runs, CheckExisting(r)
    PROVE  IInv'
<1>1. PICK own \in BOOLEAN : run' = [run EXCEPT ![r] = [@ EXCEPT !.pc = "setup", !.own = own]]
  BY DEF CheckExisting
<1> DEFINE f == run[r]
           g == [f EXCEPT !.pc = "setup", !.own = own]
<1>2. f \in Flow /\ FlowOK(f) BY DEF IInv, TypeOK, FlowsOK
<1>3. g = [f EXCEPT !.pc = "setup", !.own = own, !.settled = f.settled] BY <1>2 DEF Flow
<1>4. f.settled \in BOOLEAN BY <1>2 DEF Flow
<1>5. Kept(f, [f EXCEPT !.pc = "setup", !.own = own, !.settled = f.settled])
  BY <1>2, <1>4, PcKept
<1>6. run' = [run EXCEPT ![r] = g] BY <1>1
<1>7. Kept(run[r], g) BY <1>3, <1>5
<1> HIDE DEF f, g
<1> QED BY <1>6, <1>7, OneRunKept, NoWorkKept, SameEnv, SameLate, SameLockStep DEF CheckExisting

LEMMA OtherPhaseFailsStep ==
    ASSUME IInv, NEW r \in Runs, OtherPhaseFails(r)
    PROVE  IInv'
<1>1. PICK stale \in {FALSE, run[r].token < lock.token} : Fail(r, FALSE, stale)
  BY DEF OtherPhaseFails
<1>2. stale \in BOOLEAN
  <2>1. stale = FALSE \/ stale = (run[r].token < lock.token) BY <1>1
  <2>2. (run[r].token < lock.token) \in BOOLEAN OBVIOUS
  <2> QED BY <2>1, <2>2
<1>3. run[r] \in Flow /\ FlowOK(run[r]) BY DEF IInv, TypeOK, FlowsOK
<1>4. Kept(run[r], Failed(run[r], FALSE, stale)) BY <1>2, <1>3, FailedKept
<1>5. RunKept BY <1>1, <1>4, OneRunKept DEF Fail
<1> QED BY <1>5, NoWorkKept, SameEnv, SameLate, SameLockStep DEF OtherPhaseFails

LEMMA CompensateScheduled ==
    ASSUME IInv, NEW r \in Runs, Compensate(r)
    PROVE  IInv'
<1>1. run[r] \in Flow /\ run[r].held /\ run[r].token # NoToken
  BY DEF IInv, TypeOK, FlowsOK, FlowOK, Compensate
<1>0. PICK w \in Workers :
        work' = work \cup {NewAttempt(r, "compensate", run[r].token, run[r].own, w)}
  BY DEF Compensate
<1> DEFINE n == NewAttempt(r, "compensate", run[r].token, run[r].own, w)
<1>2. n \in Attempt /\ n.run = r /\ n.token = run[r].token
  <2>1. run[r].token \in Nat \ {NoToken} /\ run[r].own \in BOOLEAN BY <1>1 DEF Flow
  <2>2. "compensate" \in Acts BY DEF Acts, Closing
  <2> QED BY <2>1, <2>2, NewAttemptFacts
<1>3. work' = work \cup {n} BY <1>0
<1>4. [owner |-> r, token |-> run[r].token] \in Bearers BY <1>1 DEF Bearers
<1> HIDE DEF n
<1>5. WorkKept BY <1>2, <1>3, <1>4, WorkBears DEF WorkKept, IInv, TypeOK
<1> QED BY <1>5, NoRunKept, SameEnv, SameLate, SameLockStep DEF Compensate

\* A release ends the lease of its owner only: nobody else counts on it, and the
\* owner does not either, or has been cut.
LEMMA ReleasedStep ==
    ASSUME IInv, NEW r \in Runs, NEW t \in Nat,
           lock' \in {lock, Released(lock, r, t)},
           NEW g, Kept(run[r], g), run' = [run EXCEPT ![r] = g],
           lock' # lock => g.until = -1 \/ g.cut,
           LateKept, UNCHANGED <<now, env, work, mark>>
    PROVE  IInv'
<1>1. run \in [Runs -> Flow] /\ lock \in Lock /\ now \in Nat BY DEF IInv, TypeOK
<1>2. RunKept BY OneRunKept
<1>3. lock' \in Lock /\ lock'.owner = lock.owner /\ lock'.token = lock.token
      /\ (lock.owner # r => lock' = lock)
  BY <1>1, ReleasedFacts
<1>4. ASSUME NEW s \in Runs, run'[s].until >= now, ~run'[s].cut PROVE lock' = lock
  <2>1. CASE s = r
    <3>1. run'[s] = g BY <1>1, <2>1
    <3> QED BY <1>1, <1>4, <3>1
  <2>2. CASE s # r
    <3>1. run'[s] = run[s] BY <1>1, <2>2
    <3>2. lock.owner = s BY <1>4, <3>1 DEF IInv, LeasesRecorded, Counts
    <3> QED BY <1>3, <2>2, <3>2
  <2> QED BY <2>1, <2>2
<1>5. WorkKept /\ MarkKept BY NoWorkKept, SameEnv
<1> QED BY <1>2, <1>3, <1>4, <1>5, QuietStep

LEMMA ReleaseStep ==
    ASSUME IInv, NEW r \in Runs, Release(r)
    PROVE  IInv'
<1> DEFINE g == [run[r] EXCEPT !.pc = "ended", !.until = -1]
<1>1. run[r] \in Flow /\ FlowOK(run[r]) /\ run[r].token \in Nat
  BY DEF IInv, TypeOK, FlowsOK, Flow
<1>2. g.until = -1 /\ Kept(run[r], g)
  <2>1. -1 \in Int OBVIOUS
  <2>2. g.until = -1 /\ g.held = run[r].held /\ g.token = run[r].token /\ g.pc = "ended"
    BY <1>1 DEF Flow
  <2>3. g \in Flow BY <1>1, <2>1 DEF Flow
  <2> HIDE DEF g
  <2> QED BY <1>1, <2>2, <2>3 DEF Kept, FlowOK
<1>3. run' = [run EXCEPT ![r] = g] /\ UNCHANGED <<now, env, work, mark>> BY DEF Release
<1> HIDE DEF g
<1>4. LateKept /\ lock' \in {lock, Released(lock, r, run[r].token)}
  <2>1. CASE UNCHANGED late BY <2>1, SameLate DEF Release
  <2>2. CASE late' = late \cup {GivingBack(r, run[r].token)}
    BY <1>1, <2>2 DEF Release, LateKept, IInv, TypeOK, GivingBack, LockCall
  <2> QED BY <2>1, <2>2 DEF Release
<1> QED BY <1>1, <1>2, <1>3, <1>4, ReleasedStep

LEMMA TerminateStep ==
    ASSUME IInv, NEW r \in Runs, Terminate(r)
    PROVE  IInv'
<1> DEFINE g == [NewRun EXCEPT !.pc = IF r \in Provisioners THEN "acquire" ELSE "ended"]
<1>1. run[r] \in Flow BY DEF IInv, TypeOK
<1>2. Kept(run[r], g)
  <2>1. -1 \in Int OBVIOUS
  <2> QED BY <2>1 DEF Kept, FlowOK, Flow, NewRun
<1>3. run' = [run EXCEPT ![r] = g] BY DEF Terminate
<1> HIDE DEF g
<1>4. RunKept BY <1>2, <1>3, OneRunKept
<1>5. ASSUME NEW a \in work
      PROVE  /\ [a EXCEPT !.live = @ /\ a.run # r] \in Attempt
             /\ [a EXCEPT !.live = @ /\ a.run # r].run = a.run
             /\ [a EXCEPT !.live = @ /\ a.run # r].token = a.token
  <2>1. a \in Attempt BY DEF IInv, TypeOK
  <2>2. (a.live /\ a.run # r) \in BOOLEAN OBVIOUS
  <2> QED BY <2>1, <2>2 DEF Attempt
<1>6. work' = {[a EXCEPT !.live = @ /\ a.run # r] : a \in work} BY DEF Terminate
<1>7. WorkKept BY <1>5, <1>6, WorkBears DEF WorkKept
<1>8. LateKept
  <2>1. run[r].token \in Nat BY <1>1 DEF Flow
  <2>2. InFlight(r) \subseteq LockCall
    BY <2>1 DEF InFlight, Asking, GivingBack, LockCall
  <2> QED BY <2>2 DEF Terminate, LateKept, IInv, TypeOK
<1> QED BY <1>4, <1>7, <1>8, SameEnv, SameLockStep DEF Terminate

LEMMA TickStep ==
    ASSUME IInv, Tick
    PROVE  IInv'
<1>1. now \in Nat /\ now' = now + 1 /\ run \in [Runs -> Flow] BY DEF IInv, TypeOK, Tick
<1>2. Bearers' = Bearers BY DEF Bearers, Tick
<1>3. TypeOK' BY <1>1 DEF IInv, TypeOK, Tick
<1>4. LeasesRecorded' /\ LeasesBounded'
  <2>1. \A s \in Runs : run[s].until \in Int BY <1>1 DEF Flow
  <2>2. run' = run /\ lock' = lock BY DEF Tick
  <2>3. LeasesRecorded'
    <3> SUFFICES ASSUME NEW s \in Runs, run[s].until >= now', ~run[s].cut
                 PROVE  lock.owner = s /\ lock.expires >= run[s].until
      BY <2>2 DEF LeasesRecorded, Counts
    <3>1. run[s].until >= now BY <1>1, <2>1
    <3> QED BY <3>1 DEF IInv, LeasesRecorded, Counts
  <2>4. LeasesBounded'
    <3> SUFFICES ASSUME NEW s \in Runs PROVE run[s].until <= now' + TTL
      BY <2>2 DEF LeasesBounded
    <3>1. run[s].until <= now + TTL BY DEF IInv, LeasesBounded
    <3> QED BY <1>1, <2>1, <3>1, ProvisioningAssumption
  <2> QED BY <2>3, <2>4
<1>5. FlowsOK' /\ OwnedHasToken' /\ HolderIsAccepted'
  BY DEF IInv, FlowsOK, OwnedHasToken, HolderIsAccepted, Tick
<1>6. BearersBounded' /\ TokensNameOneOwner'
  BY <1>2 DEF IInv, BearersBounded, TokensNameOneOwner, Tick
<1> QED BY <1>3, <1>4, <1>5, <1>6 DEF IInv

\* An attempt at the lock that nobody waits for is a renewal of its owner, a
\* release that cuts the owner's lease, or nothing.
LEMMA LateStepKept ==
    ASSUME IInv, NEW c \in late, LateStep(c)
    PROVE  IInv'
<1>1. c \in LockCall BY DEF IInv, TypeOK
<1>2. c.run \in Runs /\ c.token \in Nat BY <1>1 DEF LockCall
<1> DEFINE r == c.run
           f == run[r]
<1>3. f \in Flow /\ FlowOK(f) BY <1>2 DEF IInv, TypeOK, FlowsOK
<1>4. LateKept BY DEF LateStep, LateAcquire, LateRelease, LateDies, LateKept, IInv, TypeOK
<1>5. CASE LateAcquire(c)
  <2>1. run' = [run EXCEPT ![r] = f] BY <1>2, <1>5 DEF LateAcquire, IInv, TypeOK
  <2>2. work' \subseteq Attempt BY <1>5 DEF LateAcquire, IInv, TypeOK
  <2>3. f.until <= now + TTL BY <1>2 DEF IInv, LeasesBounded
  <2>4. /\ ~Busy(lock, r) /\ lock' = Acquired(lock, r) /\ work' = work
        /\ UNCHANGED <<now, env, mark>>
    BY <1>5 DEF LateAcquire
  <2>5. r \in Runs BY <1>2
  <2> HIDE DEF r, f
  <2>6. f.held => f.token = lock'.token \/ (run[r].held /\ f.token = run[r].token)
    BY DEF f
  <2> QED BY <1>3, <1>4, <2>1, <2>2, <2>3, <2>4, <2>5, <2>6, GrantStep
<1>6. CASE LateRelease(c)
  <2> DEFINE k == [f EXCEPT !.cut = TRUE]
             g == IF lock' = lock THEN f ELSE k
  <2>0. k \in Flow /\ k.until = f.until /\ k.cut = TRUE /\ k.pc = f.pc
        /\ k.held = f.held /\ k.token = f.token
    BY <1>3 DEF Flow
  <2>3. run' = [run EXCEPT ![r] = g]
    <3>1. lock' = lock => run' = [run EXCEPT ![r] = f]
      BY <1>2, <1>6 DEF LateRelease, IInv, TypeOK
    <3>2. lock' # lock => run' = [run EXCEPT ![r] = k] BY <1>6 DEF LateRelease
    <3> HIDE DEF f, k
    <3> QED BY <3>1, <3>2
  <2> HIDE DEF k
  <2>1. g.until = f.until /\ g.pc = f.pc /\ g.held = f.held /\ g.token = f.token
        /\ (f.cut => g.cut) /\ (lock' # lock => g.cut)
    BY <2>0
  <2>2. g \in Flow BY <1>3, <2>0
  <2>4. /\ lock' \in {lock, Released(lock, r, c.token)}
        /\ UNCHANGED <<now, env, work, mark>>
    BY <1>6 DEF LateRelease
  <2> HIDE DEF g
  <2>5. Kept(f, g) BY <1>3, <2>1, <2>2 DEF Kept, FlowOK
  <2>6. lock' # lock => g.cut BY <2>1
  <2>7. r \in Runs /\ Kept(run[r], g) BY <1>2, <2>5
  <2> HIDE DEF r, f
  <2> QED BY <1>2, <1>4, <2>3, <2>4, <2>6, <2>7, ReleasedStep
<1>7. CASE LateDies(c)
  BY <1>4, <1>7, NoRunKept, NoWorkKept, SameEnv, SameLockStep DEF LateDies
<1> QED BY <1>5, <1>6, <1>7 DEF LateStep

-----------------------------------------------------------------------------
(* The steps of an attempt *)

LEMMA PreflightStep ==
    ASSUME IInv, NEW a \in work, Preflight(a)
    PROVE  IInv'
<1>1. MarkKept /\ LateKept BY SameEnv, SameLate DEF Preflight
<1>2. CASE a.token < lock.token
  BY <1>1, <1>2, RejectKept, SameLockStep DEF Preflight
<1>3. CASE ~(a.token < lock.token)
  <2> DEFINE was == IF a.act = "setup" THEN env.status ELSE a.was
             n == [a EXCEPT !.stage = "checked", !.was = was]
  <2>1. a \in Attempt /\ env.status \in Status
    BY DEF IInv, TypeOK, Env, NoEnv, Status
  <2>2. was \in Status BY <2>1 DEF Attempt
  <2>3. Becomes(a, n) /\ UNCHANGED run BY <1>3 DEF Preflight
  <2> HIDE DEF was
  <2>4. n \in Attempt /\ n.run = a.run /\ n.token = a.token BY <2>1, <2>2 DEF Attempt
  <2> HIDE DEF n
  <2>5. WorkKept BY <2>3, <2>4, BecomesKept
  <2> QED BY <1>1, <2>3, <2>5, NoRunKept, SameLockStep DEF Preflight
<1> QED BY <1>2, <1>3

LEMMA AttemptFailsStep ==
    ASSUME IInv, NEW a \in work, AttemptFails(a)
    PROVE  IInv'
<1>1. MarkKept
  BY DEF IInv, TypeOK, HolderIsAccepted, MarkKept, AttemptFails, Unmarked
<1> QED BY <1>1, BreakKept, SameLate, SameLockStep DEF AttemptFails

LEMMA AttemptTimesOutStep ==
    ASSUME IInv, NEW a \in work, AttemptTimesOut(a)
    PROVE  IInv'
<1> DEFINE s == [a EXCEPT !.live = FALSE]
           S == {s}
<1>1. s \in Attempt /\ s.run = a.run /\ s.token = a.token BY DEF IInv, TypeOK, Attempt
<1>2. S \subseteq Attempt /\ \A b \in S : b.run = a.run /\ b.token = a.token BY <1>1
<1>3. MarkKept /\ LateKept BY SameEnv, SameLate DEF AttemptTimesOut
<1>4. \/ (\E b \in Again(a) : work' = ((work \ {a}) \cup S) \cup {b}) /\ UNCHANGED run
      \/ work' = (work \ {a}) \cup S /\ run' = GivenUp(a, FALSE)
  BY DEF AttemptTimesOut
<1>5. CASE (\E b \in Again(a) : work' = ((work \ {a}) \cup S) \cup {b}) /\ UNCHANGED run
  <2>1. PICK b \in Again(a) : work' = ((work \ {a}) \cup S) \cup {b} BY <1>5
  <2>2. b \in Attempt /\ b.run = a.run /\ b.token = a.token BY AttemptAgain
  <2> DEFINE T == {s, b}
  <2>3. T \subseteq Attempt /\ \A c \in T : c.run = a.run /\ c.token = a.token
    BY <1>1, <2>2
  <2>4. work' = (work \ {a}) \cup T BY <2>1
  <2> HIDE DEF s, S, T
  <2>5. WorkKept BY <2>3, <2>4, ReplacedKept
  <2> QED BY <1>3, <1>5, <2>5, NoRunKept, SameLockStep DEF AttemptTimesOut
<1>6. CASE work' = (work \ {a}) \cup S /\ run' = GivenUp(a, FALSE)
  <2> HIDE DEF s, S
  <2>1. WorkKept BY <1>2, <1>6, ReplacedKept
  <2>2. RunKept BY <1>6, GivenUpKept
  <2> QED BY <1>3, <2>1, <2>2, SameLockStep DEF AttemptTimesOut
<1> QED BY <1>4, <1>5, <1>6

LEMMA RejectedElsewhereStep ==
    ASSUME IInv, NEW a \in work, RejectedElsewhere(a)
    PROVE  IInv'
BY RejectKept, SameEnv, SameLate, SameLockStep DEF RejectedElsewhere

\* Setup makes the environment the run's own or leaves that as it was.
LEMMA SetupOwn ==
    ASSUME IInv, NEW a \in work, NEW own \in {run[a.run].own, TRUE}
    PROVE  own \in BOOLEAN
<1>1. run[a.run].own \in BOOLEAN BY DEF IInv, TypeOK, Attempt, Flow
<1>2. own = run[a.run].own \/ own = TRUE OBVIOUS
<1> QED BY <1>1, <1>2

LEMMA SetupReuseStep ==
    ASSUME IInv, NEW a \in work, SetupReuse(a)
    PROVE  IInv'
<1>1. PICK own \in {run[a.run].own, TRUE} : Finish(a, own) BY DEF SetupReuse
<1>2. own \in BOOLEAN BY SetupOwn
<1> QED BY <1>1, <1>2, FinishKept, SameEnv, SameLate, SameLockStep DEF SetupReuse

LEMMA SetupDoneStep ==
    ASSUME IInv, NEW a \in work, SetupDone(a)
    PROVE  IInv'
<1>1. PICK own \in {run[a.run].own, TRUE} : Finish(a, own) BY DEF SetupDone
<1>2. own \in BOOLEAN BY SetupOwn
<1> QED BY <1>1, <1>2, FinishKept, SameEnv, SameLate, SameLockStep DEF SetupDone

LEMMA ReadRecordStep ==
    ASSUME IInv, NEW a \in work, ReadRecord(a)
    PROVE  IInv'
<1> DEFINE st == IF a.stage = "registered" THEN "undoing" ELSE "ready"
           n == [a EXCEPT !.stage = st, !.read = env]
<1>1. a \in Attempt /\ env \in Env BY DEF IInv, TypeOK
<1>2. Becomes(a, n) BY <1>1 DEF ReadRecord, Attempt
<1>3. st \in StoreStages BY DEF StoreStages
<1> HIDE DEF st
<1>4. n \in Attempt /\ n.run = a.run /\ n.token = a.token BY <1>1, <1>3 DEF Attempt
<1> HIDE DEF n
<1>5. WorkKept BY <1>2, <1>4, BecomesKept
<1> QED BY <1>5, NoRunKept, SameEnv, SameLate, SameLockStep DEF ReadRecord

\* The attempt publishes a record and goes on to a new stage.
LEMMA StagedKept ==
    ASSUME IInv, NEW a \in work, NEW st \in {"registered", "unlinked"},
           Becomes(a, [a EXCEPT !.stage = st, !.read = NoEnv])
    PROVE  WorkKept
<1> DEFINE n == [a EXCEPT !.stage = st, !.read = NoEnv]
<1>1. n \in Attempt /\ n.run = a.run /\ n.token = a.token
  BY DEF IInv, TypeOK, Attempt, StoreStages, Env
<1>2. Becomes(a, n) OBVIOUS
<1> HIDE DEF n
<1> QED BY <1>1, <1>2, BecomesKept

LEMMA SetupRegisterStep ==
    ASSUME IInv, NEW a \in work, SetupRegister(a)
    PROVE  IInv'
<1>1. CASE Refused(a)
  BY <1>1, RejectKept, SameEnv, SameLate, SameLockStep DEF SetupRegister
<1>2. CASE ~Refused(a)
  <2>1. WorkKept BY <1>2, StagedKept DEF SetupRegister
  <2>2. Publish(a, Written("running", a.token)) BY <1>2 DEF SetupRegister
  <2>3. \E st \in LiveStatus \cup {"tombstone"} : Written("running", a.token) = Written(st, a.token)
    BY DEF LiveStatus
  <2>4. MarkKept BY <2>2, <2>3, PublishedKept
  <2> QED BY <1>2, <2>1, <2>4, NoRunKept, SameLate, SameLockStep DEF SetupRegister
<1> QED BY <1>1, <1>2

LEMMA SetupRollbackStep ==
    ASSUME IInv, NEW a \in work, SetupRollback(a)
    PROVE  IInv'
<1>1. RunKept /\ WorkKept /\ LateKept BY BreakKept, SameLate DEF SetupRollback
<1>2. CASE Refused(a) BY <1>1, <1>2, SameEnv, SameLockStep DEF SetupRollback
<1>3. CASE ~Refused(a)
  <2>1. a.was \in LiveStatus /\ Publish(a, Written(a.was, a.token)) BY <1>3 DEF SetupRollback
  <2>2. \E st \in LiveStatus \cup {"tombstone"} : Written(a.was, a.token) = Written(st, a.token)
    BY <2>1
  <2>3. MarkKept BY <2>1, <2>2, PublishedKept
  <2> QED BY <1>1, <2>3, SameLockStep DEF SetupRollback
<1> QED BY <1>2, <1>3

LEMMA WriteStatusStep ==
    ASSUME IInv, NEW a \in work, WriteStatus(a)
    PROVE  IInv'
<1>1. CASE Live(a.read) /\ Refused(a)
  BY <1>1, RejectKept, SameEnv, SameLate, SameLockStep DEF WriteStatus
<1>2. CASE ~(Live(a.read) /\ Refused(a))
  <2>1. RunKept /\ WorkKept /\ LateKept BY <1>2, FinishKept, BreakKept, SameLate DEF WriteStatus
  <2>2. MarkKept
    <3>1. CASE ~Live(a.read) BY <1>2, <3>1, SameEnv DEF WriteStatus
    <3>2. CASE Live(a.read)
      <4> DEFINE st == IF a.act = "deliver" THEN "ready" ELSE a.read.status
      <4>1. Publish(a, Written(st, a.token)) BY <1>2, <3>2 DEF WriteStatus
      <4>2. st \in LiveStatus \cup {"tombstone"} BY <3>2 DEF Live, LiveStatus
      <4> HIDE DEF st
      <4> QED BY <4>1, <4>2, PublishedKept
    <3> QED BY <3>1, <3>2
  <2> QED BY <2>1, <2>2, SameLockStep DEF WriteStatus
<1> QED BY <1>1, <1>2

LEMMA UnlinkStep ==
    ASSUME IInv, NEW a \in work, Unlink(a)
    PROVE  IInv'
<1>1. WorkKept BY StagedKept DEF Unlink
<1>2. MarkKept BY PublishedKept DEF Unlink
<1> QED BY <1>1, <1>2, NoRunKept, SameLate, SameLockStep DEF Unlink

LEMMA TombstoneStep ==
    ASSUME IInv, NEW a \in work, Tombstone(a)
    PROVE  IInv'
<1>1. RunKept /\ WorkKept /\ LateKept BY FinishKept, BreakKept, SameLate DEF Tombstone
<1>2. Publish(a, Written("tombstone", a.token)) BY DEF Tombstone, Removed
<1>3. \E st \in LiveStatus \cup {"tombstone"} : Written("tombstone", a.token) = Written(st, a.token)
  OBVIOUS
<1>4. MarkKept BY <1>2, <1>3, PublishedKept
<1> QED BY <1>1, <1>4, SameLockStep DEF Tombstone

LEMMA RemovalRefusedStep ==
    ASSUME IInv, NEW a \in work, RemovalRefused(a)
    PROVE  IInv'
<1>1. RunKept /\ WorkKept BY RejectKept, FinishKept, BreakKept DEF RemovalRefused
<1> QED BY <1>1, SameEnv, SameLate, SameLockStep DEF RemovalRefused

LEMMA CompensateToolsStep ==
    ASSUME IInv, NEW a \in work, CompensateTools(a)
    PROVE  IInv'
<1>1. RunKept /\ WorkKept BY FinishKept, BreakKept DEF CompensateTools
<1> QED BY <1>1, SameEnv, SameLate, SameLockStep DEF CompensateTools

-----------------------------------------------------------------------------
(* The invariant and what it gives *)

\* At the start nobody was granted the lock and nothing has a token.
LEMMA InitIInv == Init => IInv
<1> SUFFICES ASSUME Init PROVE IInv
  OBVIOUS
<1>1. NewRun \in Flow /\ NoRecord \in Lock
  <2>1. -1 \in Int OBVIOUS
  <2> QED BY <2>1 DEF NewRun, Flow, NoRecord, Lock
<1>2. TypeOK BY <1>1 DEF Init, TypeOK, Env, Unmarked
<1>3. \A r \in Runs : run[r] = NewRun BY DEF Init
<1>4. FlowsOK BY <1>3 DEF FlowsOK, FlowOK, NewRun
<1>5. \A x \in Bearers : x = [owner |-> NoRun, token |-> 0]
  BY <1>3 DEF Bearers, Init, NewRun, NoRecord
<1>6. TokensNameOneOwner BY <1>5 DEF TokensNameOneOwner
<1>7. BearersBounded BY <1>5 DEF BearersBounded, Init, NoRecord
<1>8. LeasesRecorded /\ LeasesBounded
  <2>1. now = 0 /\ \A r \in Runs : run[r].until = -1 BY <1>3 DEF Init, NewRun
  <2> QED BY <2>1, ProvisioningAssumption DEF LeasesRecorded, LeasesBounded, Counts
<1>9. OwnedHasToken /\ HolderIsAccepted
  BY DEF OwnedHasToken, HolderIsAccepted, Init, NoRecord, NoEnv
<1> QED BY <1>2, <1>4, <1>6, <1>7, <1>8, <1>9 DEF IInv

LEMMA StutterIInv ==
    ASSUME IInv, UNCHANGED vars
    PROVE  IInv'
BY NoRunKept, NoWorkKept, SameEnv, SameLate, SameLockStep DEF vars

\* Every step keeps the invariant.
LEMMA NextIInv ==
    ASSUME IInv, [Next]_vars
    PROVE  IInv'
<1>1. CASE Tick BY <1>1, TickStep
<1>2. ASSUME NEW r \in Runs, RunStep(r) PROVE IInv'
  <2>1. CASE Acquire(r) BY <2>1, AcquireStep
  <2>2. CASE AcquireFails(r) BY <2>2, AcquireFailsStep
  <2>3. CASE CheckExisting(r) BY <2>3, CheckExistingStep
  <2>4. CASE Renew(r) BY <2>4, RenewStep
  <2>5. CASE RenewFails(r) BY <2>5, RenewFailsStep
  <2>6. CASE OtherPhaseFails(r) BY <2>6, OtherPhaseFailsStep
  <2>7. CASE Compensate(r) BY <2>7, CompensateScheduled
  <2>8. CASE Release(r) BY <2>8, ReleaseStep
  <2>9. CASE Terminate(r) BY <2>9, TerminateStep
  <2> QED BY <1>2, <2>1, <2>2, <2>3, <2>4, <2>5, <2>6, <2>7, <2>8, <2>9 DEF RunStep
<1>3. ASSUME NEW a \in work, AttemptStep(a) PROVE IInv'
  <2>1. CASE Preflight(a) BY <2>1, PreflightStep
  <2>2. CASE AttemptFails(a) BY <2>2, AttemptFailsStep
  <2>3. CASE AttemptTimesOut(a) BY <2>3, AttemptTimesOutStep
  <2>4. CASE RejectedElsewhere(a) BY <2>4, RejectedElsewhereStep
  <2>5. CASE ReadRecord(a) BY <2>5, ReadRecordStep
  <2>6. CASE SetupReuse(a) BY <2>6, SetupReuseStep
  <2>7. CASE SetupRegister(a) BY <2>7, SetupRegisterStep
  <2>8. CASE SetupDone(a) BY <2>8, SetupDoneStep
  <2>9. CASE SetupRollback(a) BY <2>9, SetupRollbackStep
  <2>10. CASE WriteStatus(a) BY <2>10, WriteStatusStep
  <2>11. CASE Unlink(a) BY <2>11, UnlinkStep
  <2>12. CASE Tombstone(a) BY <2>12, TombstoneStep
  <2>13. CASE RemovalRefused(a) BY <2>13, RemovalRefusedStep
  <2>14. CASE CompensateTools(a) BY <2>14, CompensateToolsStep
  <2> QED
    BY <1>3, <2>1, <2>2, <2>3, <2>4, <2>5, <2>6, <2>7, <2>8, <2>9, <2>10, <2>11, <2>12,
       <2>13, <2>14
    DEF AttemptStep
<1>4. ASSUME NEW c \in late, LateStep(c) PROVE IInv' BY <1>4, LateStepKept
<1>5. CASE UNCHANGED vars BY <1>5, StutterIInv
<1> QED BY <1>1, <1>2, <1>3, <1>4, <1>5 DEF Next

LEMMA Invariance == Spec => []IInv
<1>1. Init => IInv BY InitIInv
<1>2. IInv /\ [Next]_vars => IInv' BY NextIInv
<1> QED BY <1>1, <1>2, PTL DEF Spec

-----------------------------------------------------------------------------
(* The mark of a worker process *)

InStore(a) == a.stage \in StoreStages

\* The store's lock: one operation at a time in each process.
OneInStore ==
    \A a, b \in work : InStore(a) /\ InStore(b) /\ a.at = b.at => a = b

\* The mark is on the record, or the process that left it is about to write it.
MarkOnRecord ==
    mark.by # NoWorker =>
       \/ env.token = mark.token
       \/ env = NoEnv /\ \E a \in work : a.stage = "unlinked" /\ a.at = mark.by

\* An operation knows the mark if its own process left it.
MarkKnown ==
    \A a \in work :
       a.at = mark.by =>
          /\ a.stage \in {"ready", "undoing"} => a.read.token = mark.token
          /\ a.stage = "unlinked" => a.token = mark.token

NobodysMark == mark.by = NoWorker => mark.token = NoToken

MarkInv == OneInStore /\ MarkOnRecord /\ MarkKnown /\ NobodysMark

\* The step of OwnMarkNeverFalls.
MarkStep == mark'.token < mark.token => mark'.by # mark.by

\* The same operations are inside the store after a step that writes nothing.
LEMMA SameInside ==
    ASSUME IInv, MarkInv, UNCHANGED <<env, mark>>,
           \A b \in work' : InStore(b) =>
              \E a \in work : a.at = b.at /\ a.stage = b.stage /\ a.read = b.read /\ a.token = b.token,
           \A b, c \in work' : InStore(b) /\ InStore(c) /\ b.at = c.at => b = c,
           \A a \in work : a.stage = "unlinked" =>
              \E b \in work' : b.stage = "unlinked" /\ b.at = a.at
    PROVE  MarkInv' /\ MarkStep
<1>1. OneInStore' BY DEF OneInStore, InStore
<1>2. MarkOnRecord' BY DEF MarkInv, MarkOnRecord
<1>3. MarkKnown'
  <2> SUFFICES ASSUME NEW b \in work', b.at = mark.by
               PROVE  /\ b.stage \in {"ready", "undoing"} => b.read.token = mark.token
                      /\ b.stage = "unlinked" => b.token = mark.token
    BY DEF MarkKnown
  <2>1. CASE ~InStore(b) BY <2>1 DEF InStore, StoreStages
  <2>2. CASE InStore(b) BY <2>2 DEF MarkInv, MarkKnown
  <2> QED BY <2>1, <2>2
<1>4. mark.token \in Nat BY DEF IInv, TypeOK
<1>5. NobodysMark' /\ MarkStep BY <1>4 DEF MarkInv, NobodysMark, MarkStep
<1> QED BY <1>1, <1>2, <1>3, <1>5 DEF MarkInv

\* An attempt that is not between unlink and tombstone gives way to attempts
\* outside the store.
LEMMA LeavesStore ==
    ASSUME IInv, MarkInv, UNCHANGED <<env, mark>>, NEW a \in work, a.stage # "unlinked",
           NEW S, work' = (work \ {a}) \cup S, \A b \in S : ~InStore(b)
    PROVE  MarkInv' /\ MarkStep
<1>1. \A b \in work' : InStore(b) => b \in work OBVIOUS
<1>2. \A b \in work' : InStore(b) =>
        \E c \in work : c.at = b.at /\ c.stage = b.stage /\ c.read = b.read /\ c.token = b.token
  BY <1>1
<1>3. \A b, c \in work' : InStore(b) /\ InStore(c) /\ b.at = c.at => b = c
  BY <1>1 DEF MarkInv, OneInStore
<1>4. \A b \in work : b.stage = "unlinked" => \E c \in work' : c.stage = "unlinked" /\ c.at = b.at
  OBVIOUS
<1> QED BY <1>2, <1>3, <1>4, SameInside

\* The three ways an attempt ends leave nothing of it inside the store.
LEMMA Ends ==
    ASSUME IInv, NEW a \in work, Break(a) \/ Reject(a) \/ \E own : Finish(a, own)
    PROVE  \E S \in SUBSET Again(a) : work' = (work \ {a}) \cup S /\ \A b \in S : ~InStore(b)
<1>1. CASE work' = work \ {a}
  <2>1. work' = (work \ {a}) \cup {} BY <1>1
  <2>2. \A b \in {} : ~InStore(b) OBVIOUS
  <2> WITNESS {} \in SUBSET Again(a)
  <2> QED BY <2>1, <2>2
<1>2. CASE \E b \in Again(a) : Becomes(a, b)
  <2>1. PICK b \in Again(a) : Becomes(a, b) BY <1>2
  <2>2. b.stage = "queued" BY AttemptAgain
  <2>3. work' = (work \ {a}) \cup {b} BY <2>1 DEF Becomes
  <2>4. \A c \in {b} : ~InStore(c) BY <2>2 DEF InStore, StoreStages
  <2> WITNESS {b} \in SUBSET Again(a)
  <2> QED BY <2>3, <2>4
<1> QED BY <1>1, <1>2 DEF Break, Reject, Finish

LEMMA EndsMark ==
    ASSUME IInv, MarkInv, UNCHANGED <<env, mark>>, NEW a \in work, a.stage # "unlinked",
           Break(a) \/ Reject(a) \/ \E own : Finish(a, own)
    PROVE  MarkInv' /\ MarkStep
<1>1. PICK S \in SUBSET Again(a) : work' = (work \ {a}) \cup S /\ \A b \in S : ~InStore(b)
  BY Ends
<1> QED BY <1>1, LeavesStore

\* New attempts are outside the store.
LEMMA MoreWorkMark ==
    ASSUME IInv, MarkInv, UNCHANGED <<env, mark>>,
           NEW S, work' = work \cup S, \A b \in S : ~InStore(b)
    PROVE  MarkInv' /\ MarkStep
<1>1. \A b \in work' : InStore(b) => b \in work OBVIOUS
<1>2. \A b \in work' : InStore(b) =>
        \E c \in work : c.at = b.at /\ c.stage = b.stage /\ c.read = b.read /\ c.token = b.token
  BY <1>1
<1>3. \A b, c \in work' : InStore(b) /\ InStore(c) /\ b.at = c.at => b = c
  BY <1>1 DEF MarkInv, OneInStore
<1>4. \A b \in work : b.stage = "unlinked" => \E c \in work' : c.stage = "unlinked" /\ c.at = b.at
  OBVIOUS
<1> QED BY <1>2, <1>3, <1>4, SameInside

LEMMA SameWorkMark ==
    ASSUME IInv, MarkInv, UNCHANGED <<env, mark, work>>
    PROVE  MarkInv' /\ MarkStep
<1> DEFINE S == {}
<1>1. work' = work \cup S /\ \A b \in S : ~InStore(b) OBVIOUS
<1> HIDE DEF S
<1> QED BY <1>1, MoreWorkMark

\* A write by an operation whose token its process has not left a newer mark than.
LEMMA NotFallen ==
    ASSUME IInv, MarkInv, NEW a \in work, InStore(a), a.stage # "unlinked" => ~Refused(a),
           NEW e, Publish(a, e)
    PROVE  MarkStep /\ NobodysMark'
<1>1. mark' = [token |-> a.token, by |-> a.at] BY DEF Publish
<1>2. a \in Attempt /\ mark.token \in Nat BY DEF IInv, TypeOK
<1>3. a.at \in Workers /\ a.token \in Nat /\ a.read.token \in Nat BY <1>2 DEF Attempt, Env, NoEnv
<1>4. ASSUME a.at = mark.by PROVE a.token >= mark.token
  <2>1. CASE a.stage = "unlinked" BY <1>2, <1>3, <1>4, <2>1 DEF MarkInv, MarkKnown
  <2>2. CASE a.stage \in {"ready", "undoing"}
    <3>1. a.read.token = mark.token BY <1>4, <2>2 DEF MarkInv, MarkKnown
    <3>2. ~(a.token < a.read.token) BY <2>2 DEF Refused, Stale
    <3> QED BY <1>3, <3>1, <3>2
  <2> QED BY <2>1, <2>2 DEF InStore, StoreStages
<1>5. MarkStep BY <1>1, <1>2, <1>3, <1>4 DEF MarkStep
<1>6. NobodysMark' BY <1>1, <1>3, ProvisioningAssumption DEF NobodysMark
<1> QED BY <1>5, <1>6

\* The last write of an operation.
LEMMA WritesMark ==
    ASSUME IInv, MarkInv, NEW a \in work, InStore(a), a.stage # "unlinked" => ~Refused(a),
           NEW e, Publish(a, e), e.token = a.token,
           NEW S, work' = (work \ {a}) \cup S, \A b \in S : ~InStore(b)
    PROVE  MarkInv' /\ MarkStep
<1>1. MarkStep /\ NobodysMark' BY NotFallen
<1>2. \A b \in work' : InStore(b) => b \in work /\ b # a OBVIOUS
<1>3. OneInStore' BY <1>2 DEF OneInStore, MarkInv, InStore
<1>4. env' = e /\ mark'.token = a.token /\ mark'.by = a.at BY DEF Publish
<1>5. MarkOnRecord' BY <1>4 DEF MarkOnRecord
<1>6. \A b \in work' : InStore(b) => b.at # a.at BY <1>2 DEF MarkInv, OneInStore
<1>7. MarkKnown' BY <1>4, <1>6 DEF MarkKnown, InStore, StoreStages
<1> QED BY <1>1, <1>3, <1>5, <1>7 DEF MarkInv

\* The file is unlinked, the tombstone is to come.
LEMMA UnlinksMark ==
    ASSUME IInv, MarkInv, NEW a \in work, Unlink(a)
    PROVE  MarkInv' /\ MarkStep
<1> DEFINE n == [a EXCEPT !.stage = "unlinked", !.read = NoEnv]
<1>1. a \in Attempt BY DEF IInv, TypeOK
<1>2. n.stage = "unlinked" /\ n.at = a.at /\ n.token = a.token BY <1>1 DEF Attempt
<1>3. work' = (work \ {a}) \cup {n} BY DEF Unlink, Becomes
<1> HIDE DEF n
<1>4. InStore(a) /\ ~Refused(a) /\ Publish(a, NoEnv) BY DEF Unlink, InStore, StoreStages
<1>5. MarkStep /\ NobodysMark' BY <1>4, NotFallen
<1>6. \A b \in work' : InStore(b) => b = n \/ (b \in work /\ b # a) BY <1>3
<1>7. \A b \in work' : InStore(b) /\ b.at = a.at => b = n BY <1>4, <1>6 DEF MarkInv, OneInStore
<1>8. OneInStore'
  <2> SUFFICES ASSUME NEW b \in work', NEW c \in work', InStore(b), InStore(c), b.at = c.at
               PROVE  b = c
    BY DEF OneInStore, InStore
  <2>1. CASE b.at = a.at BY <1>7, <2>1
  <2>2. CASE b.at # a.at BY <1>2, <1>6, <2>2 DEF MarkInv, OneInStore
  <2> QED BY <2>1, <2>2
<1>9. env' = NoEnv /\ mark'.token = a.token /\ mark'.by = a.at BY <1>4 DEF Publish
<1>10. MarkOnRecord' BY <1>2, <1>3, <1>9 DEF MarkOnRecord
<1>11. MarkKnown' BY <1>2, <1>7, <1>9 DEF MarkKnown, InStore, StoreStages
<1> QED BY <1>5, <1>8, <1>10, <1>11 DEF MarkInv

\* The record is read: if this process left the mark, it is on the record.
LEMMA ReadsMark ==
    ASSUME IInv, MarkInv, NEW a \in work, ReadRecord(a)
    PROVE  MarkInv' /\ MarkStep
<1> DEFINE n == [a EXCEPT !.stage = IF @ = "registered" THEN "undoing" ELSE "ready", !.read = env]
<1>1. a \in Attempt /\ mark.token \in Nat BY DEF IInv, TypeOK
<1>2. n.stage \in {"ready", "undoing"} /\ n.at = a.at /\ n.read = env BY <1>1 DEF Attempt
<1>3. work' = (work \ {a}) \cup {n} BY DEF ReadRecord, Becomes
<1> HIDE DEF n
<1>4. UNCHANGED <<env, mark>> BY DEF ReadRecord
<1>5. \A b \in work : b.at = a.at => ~InStore(b) BY DEF ReadRecord, StoreFree, InStore
<1>6. \A b \in work' : InStore(b) => b = n \/ b \in work BY <1>3
<1>7. \A b \in work' : InStore(b) /\ b.at = a.at => b = n BY <1>5, <1>6
<1>8. OneInStore'
  <2> SUFFICES ASSUME NEW b \in work', NEW c \in work', InStore(b), InStore(c), b.at = c.at
               PROVE  b = c
    BY DEF OneInStore, InStore
  <2>1. CASE b.at = a.at BY <1>7, <2>1
  <2>2. CASE b.at # a.at BY <1>2, <1>6, <2>2 DEF MarkInv, OneInStore
  <2> QED BY <2>1, <2>2
<1>9. \A b \in work : b.stage = "unlinked" => b \in work'
  <2>1. ~InStore(a) BY <1>5
  <2> QED BY <1>3, <2>1 DEF InStore, StoreStages
<1>10. MarkOnRecord' BY <1>4, <1>9 DEF MarkInv, MarkOnRecord
<1>11. MarkKnown'
  <2> SUFFICES ASSUME NEW b \in work', b.at = mark.by
               PROVE  /\ b.stage \in {"ready", "undoing"} => b.read.token = mark.token
                      /\ b.stage = "unlinked" => b.token = mark.token
    BY <1>4 DEF MarkKnown
  <2>1. CASE b = n
    <3>1. env.token = mark.token
      <4>1. mark.by # NoWorker BY <1>1, <1>2, <2>1, ProvisioningAssumption DEF Attempt
      <4>2. ~ \E c \in work : c.stage = "unlinked" /\ c.at = mark.by
        BY <1>2, <1>5, <2>1 DEF InStore, StoreStages
      <4> QED BY <4>1, <4>2 DEF MarkInv, MarkOnRecord
    <3> QED BY <1>2, <2>1, <3>1
  <2>2. CASE b # n /\ InStore(b) BY <1>6, <2>2 DEF MarkInv, MarkKnown
  <2>3. CASE ~InStore(b) BY <2>3 DEF InStore, StoreStages
  <2> QED BY <2>1, <2>2, <2>3
<1>12. NobodysMark' /\ MarkStep BY <1>1, <1>4 DEF MarkInv, NobodysMark, MarkStep
<1> QED BY <1>8, <1>10, <1>11, <1>12 DEF MarkInv

\* A death between unlink and tombstone: the mark is lost, or it has been
\* overwritten by another process.
LEMMA DiesMark ==
    ASSUME IInv, MarkInv, NEW a \in work, a.stage = "unlinked", AttemptFails(a)
    PROVE  MarkInv' /\ MarkStep
<1>1. PICK S : work' = (work \ {a}) \cup S /\ \A b \in S : ~InStore(b)
  BY Ends DEF AttemptFails
<1>2. \A b \in work' : InStore(b) => b \in work /\ b # a BY <1>1
<1>3. OneInStore' BY <1>2 DEF OneInStore, MarkInv, InStore
<1>4. mark.token \in Nat /\ a.at \in Workers BY DEF IInv, TypeOK, Attempt
<1>5. CASE env = NoEnv
  <2>1. mark'.token = 0 /\ mark'.by = NoWorker BY <1>5 DEF AttemptFails, Unmarked
  <2>2. MarkOnRecord' /\ NobodysMark' BY <2>1 DEF MarkOnRecord, NobodysMark
  <2>3. work' \subseteq Attempt BY BreakKept DEF AttemptFails, WorkKept
  <2>4. MarkKnown' BY <2>1, <2>3, ProvisioningAssumption DEF MarkKnown, Attempt
  <2>5. MarkStep BY <1>4, <2>1 DEF MarkStep, MarkInv, NobodysMark
  <2> QED BY <1>3, <2>2, <2>4, <2>5 DEF MarkInv
<1>6. CASE env # NoEnv
  <2>1. mark' = mark /\ env' = env BY <1>6 DEF AttemptFails
  <2>2. MarkOnRecord' BY <1>6, <2>1 DEF MarkInv, MarkOnRecord
  <2>3. MarkKnown' BY <1>2, <2>1 DEF MarkInv, MarkKnown, InStore, StoreStages
  <2>4. NobodysMark' /\ MarkStep BY <1>4, <2>1 DEF MarkInv, NobodysMark, MarkStep
  <2> QED BY <1>3, <2>2, <2>3, <2>4 DEF MarkInv
<1> QED BY <1>5, <1>6

\* The server gives an attempt up: it stays where it is.
LEMMA TimesOutMark ==
    ASSUME IInv, MarkInv, NEW a \in work, AttemptTimesOut(a)
    PROVE  MarkInv' /\ MarkStep
<1> DEFINE s == [a EXCEPT !.live = FALSE]
<1>1. a \in Attempt BY DEF IInv, TypeOK
<1>2. s.at = a.at /\ s.stage = a.stage /\ s.read = a.read /\ s.token = a.token BY <1>1 DEF Attempt
<1>3. PICK S \in SUBSET Again(a) :
        work' = ((work \ {a}) \cup {s}) \cup S /\ \A b \in S : ~InStore(b)
  <2>1. CASE \E b \in Again(a) : work' = ((work \ {a}) \cup {s}) \cup {b}
    <3>1. PICK b \in Again(a) : work' = ((work \ {a}) \cup {s}) \cup {b} BY <2>1
    <3>2. b.stage = "queued" BY AttemptAgain
    <3>3. \A c \in {b} : ~InStore(c) BY <3>2 DEF InStore, StoreStages
    <3> WITNESS {b} \in SUBSET Again(a)
    <3> QED BY <3>1, <3>3
  <2>2. CASE work' = (work \ {a}) \cup {s}
    <3>1. work' = ((work \ {a}) \cup {s}) \cup {} BY <2>2
    <3>2. \A c \in {} : ~InStore(c) OBVIOUS
    <3> WITNESS {} \in SUBSET Again(a)
    <3> QED BY <3>1, <3>2
  <2> QED BY <2>1, <2>2 DEF AttemptTimesOut
<1> HIDE DEF s
<1>4. UNCHANGED <<env, mark>> BY DEF AttemptTimesOut
<1>5. \A b \in work' : InStore(b) => b = s \/ (b \in work /\ b # a) BY <1>3
<1>6. \A b \in work' : InStore(b) =>
        \E c \in work : c.at = b.at /\ c.stage = b.stage /\ c.read = b.read /\ c.token = b.token
  BY <1>2, <1>5
<1>7. \A b, c \in work' : InStore(b) /\ InStore(c) /\ b.at = c.at => b = c
  <2> SUFFICES ASSUME NEW b \in work', NEW c \in work', InStore(b), InStore(c), b.at = c.at
               PROVE  b = c
    OBVIOUS
  <2>1. InStore(s) => InStore(a) BY <1>2 DEF InStore
  <2> QED BY <1>2, <1>5, <2>1 DEF MarkInv, OneInStore
<1>8. \A b \in work : b.stage = "unlinked" => \E c \in work' : c.stage = "unlinked" /\ c.at = b.at
  BY <1>2, <1>3
<1> QED BY <1>4, <1>6, <1>7, <1>8, SameInside

\* A termination leaves every attempt where it is.
LEMMA TerminateMark ==
    ASSUME IInv, MarkInv, NEW r \in Runs, Terminate(r)
    PROVE  MarkInv' /\ MarkStep
<1> DEFINE Left(a) == [a EXCEPT !.live = @ /\ a.run # r]
<1>1. ASSUME NEW a \in work
      PROVE  /\ Left(a).at = a.at /\ Left(a).stage = a.stage
             /\ Left(a).read = a.read /\ Left(a).token = a.token
  <2>1. a \in Attempt BY DEF IInv, TypeOK
  <2> QED BY <2>1 DEF Attempt
<1>2. work' = {Left(a) : a \in work} /\ UNCHANGED <<env, mark>> BY DEF Terminate
<1> HIDE DEF Left
<1>3. \A b \in work' : \E c \in work :
        b = Left(c) /\ c.at = b.at /\ c.stage = b.stage /\ c.read = b.read /\ c.token = b.token
  BY <1>1, <1>2
<1>4. \A b, c \in work' : InStore(b) /\ InStore(c) /\ b.at = c.at => b = c
  <2> SUFFICES ASSUME NEW b \in work', NEW c \in work', InStore(b), InStore(c), b.at = c.at
               PROVE  b = c
    OBVIOUS
  <2>1. PICK x \in work : b = Left(x) /\ x.at = b.at /\ x.stage = b.stage BY <1>3
  <2>2. PICK y \in work : c = Left(y) /\ y.at = c.at /\ y.stage = c.stage BY <1>3
  <2>3. x = y BY <2>1, <2>2 DEF MarkInv, OneInStore, InStore
  <2> QED BY <2>1, <2>2, <2>3
<1>5. \A b \in work : b.stage = "unlinked" => \E c \in work' : c.stage = "unlinked" /\ c.at = b.at
  BY <1>1, <1>2
<1> QED BY <1>2, <1>3, <1>4, <1>5, SameInside

\* A step of a workflow, of the lock or of the clock writes no mark.
LEMMA RunMark ==
    ASSUME IInv, MarkInv, NEW r \in Runs, RunStep(r)
    PROVE  MarkInv' /\ MarkStep
<1>1. CASE Terminate(r) BY <1>1, TerminateMark
<1>2. CASE ~Terminate(r)
  <2>1. UNCHANGED <<env, mark>>
    BY <1>2 DEF RunStep, Acquire, AcquireFails, CheckExisting, Renew, RenewFails,
                OtherPhaseFails, Compensate, Release
  <2>2. CASE UNCHANGED work BY <2>1, <2>2, SameWorkMark
  <2>3. CASE \E act, t, d, w : work' = work \cup {NewAttempt(r, act, t, d, w)}
    <3>1. PICK act, t, d, w : work' = work \cup {NewAttempt(r, act, t, d, w)} BY <2>3
    <3> DEFINE S == {NewAttempt(r, act, t, d, w)}
    <3>2. work' = work \cup S /\ \A b \in S : ~InStore(b)
      BY <3>1 DEF NewAttempt, InStore, StoreStages
    <3> HIDE DEF S
    <3> QED BY <2>1, <3>2, MoreWorkMark
  <2>4. UNCHANGED work \/ \E act, t, d, w : work' = work \cup {NewAttempt(r, act, t, d, w)}
    <3>1. CASE Acquire(r) BY <3>1 DEF Acquire
    <3>2. CASE Renew(r) BY <3>2 DEF Renew
    <3>3. CASE Compensate(r) BY <3>3 DEF Compensate
    <3>4. CASE ~(Acquire(r) \/ Renew(r) \/ Compensate(r))
      BY <1>2, <3>4 DEF RunStep, AcquireFails, CheckExisting, RenewFails, OtherPhaseFails, Release
    <3> QED BY <3>1, <3>2, <3>3, <3>4
  <2> QED BY <2>2, <2>3, <2>4
<1> QED BY <1>1, <1>2

LEMMA AttemptMark ==
    ASSUME IInv, MarkInv, NEW a \in work, AttemptStep(a)
    PROVE  MarkInv' /\ MarkStep
<1>0. a \in Attempt BY DEF IInv, TypeOK
<1>1. CASE Preflight(a)
  <2>1. a.stage # "unlinked" /\ UNCHANGED <<env, mark>> BY <1>1 DEF Preflight
  <2>2. CASE Reject(a) BY <2>1, <2>2, EndsMark
  <2>3. CASE ~Reject(a)
    <3> DEFINE n == [a EXCEPT !.stage = "checked", !.was = IF a.act = "setup" THEN env.status ELSE @]
               S == {n}
    <3>1. n.stage = "checked" BY <1>0 DEF Attempt
    <3>2. work' = (work \ {a}) \cup S BY <1>1, <2>3 DEF Preflight, Becomes
    <3>3. \A b \in S : ~InStore(b) BY <3>1 DEF InStore, StoreStages
    <3> HIDE DEF n, S
    <3> QED BY <2>1, <3>2, <3>3, LeavesStore
  <2> QED BY <2>2, <2>3
<1>2. CASE AttemptFails(a)
  <2>1. CASE a.stage = "unlinked" BY <1>2, <2>1, DiesMark
  <2>2. CASE a.stage # "unlinked" BY <1>2, <2>2, EndsMark DEF AttemptFails
  <2> QED BY <2>1, <2>2
<1>3. CASE AttemptTimesOut(a) BY <1>3, TimesOutMark
<1>4. CASE RejectedElsewhere(a) BY <1>4, EndsMark DEF RejectedElsewhere
<1>5. CASE ReadRecord(a) BY <1>5, ReadsMark
<1>6. CASE SetupReuse(a) BY <1>6, EndsMark DEF SetupReuse, At
<1>7. CASE SetupDone(a) BY <1>7, EndsMark DEF SetupDone
<1>8. CASE SetupRegister(a)
  <2>1. CASE Refused(a) BY <1>8, <2>1, EndsMark DEF SetupRegister, At
  <2>2. CASE ~Refused(a)
    <3> DEFINE n == [a EXCEPT !.stage = "registered", !.read = NoEnv]
               S == {n}
               e == Written("running", a.token)
    <3>1. n.stage = "registered" BY <1>0 DEF Attempt
    <3>2. work' = (work \ {a}) \cup S BY <1>8, <2>2 DEF SetupRegister, Becomes
    <3>3. \A b \in S : ~InStore(b) BY <3>1 DEF InStore, StoreStages
    <3>4. e.token = a.token /\ Publish(a, e) /\ InStore(a)
      BY <1>8, <2>2 DEF SetupRegister, Written, InStore, StoreStages, At
    <3> HIDE DEF n, S, e
    <3> QED BY <2>2, <3>2, <3>3, <3>4, WritesMark
  <2> QED BY <2>1, <2>2
<1>9. CASE SetupRollback(a)
  <2>1. CASE Refused(a) BY <1>9, <2>1, EndsMark DEF SetupRollback
  <2>2. CASE ~Refused(a)
    <3>1. PICK S : work' = (work \ {a}) \cup S /\ \A b \in S : ~InStore(b)
      BY <1>9, Ends DEF SetupRollback
    <3> DEFINE e == Written(a.was, a.token)
    <3>2. e.token = a.token /\ Publish(a, e) /\ InStore(a)
      BY <1>9, <2>2 DEF SetupRollback, Written, InStore, StoreStages
    <3> HIDE DEF e
    <3> QED BY <2>2, <3>1, <3>2, WritesMark
  <2> QED BY <2>1, <2>2
<1>10. CASE WriteStatus(a)
  <2>1. PICK S : work' = (work \ {a}) \cup S /\ \A b \in S : ~InStore(b)
    BY <1>10, Ends DEF WriteStatus
  <2>2. a.stage = "ready" BY <1>10 DEF WriteStatus
  <2>3. CASE UNCHANGED <<env, mark>> BY <2>1, <2>2, <2>3, LeavesStore
  <2>4. CASE ~UNCHANGED <<env, mark>>
    <3>1. ~Refused(a) /\ \E st : Publish(a, Written(st, a.token)) BY <1>10, <2>4 DEF WriteStatus
    <3>2. PICK st : Publish(a, Written(st, a.token)) BY <3>1
    <3> DEFINE e == Written(st, a.token)
    <3>3. e.token = a.token /\ Publish(a, e) /\ InStore(a)
      BY <2>2, <3>2 DEF Written, InStore, StoreStages
    <3> HIDE DEF e
    <3> QED BY <2>1, <3>1, <3>3, WritesMark
  <2> QED BY <2>3, <2>4
<1>11. CASE Unlink(a) BY <1>11, UnlinksMark
<1>12. CASE Tombstone(a)
  <2>1. PICK S : work' = (work \ {a}) \cup S /\ \A b \in S : ~InStore(b)
    BY <1>12, Ends DEF Tombstone
  <2> DEFINE e == Removed(a.token)
  <2>2. e.token = a.token /\ Publish(a, e) /\ InStore(a) /\ a.stage = "unlinked"
    BY <1>12 DEF Tombstone, Removed, Written, InStore, StoreStages
  <2> HIDE DEF e
  <2> QED BY <2>1, <2>2, WritesMark
<1>13. CASE RemovalRefused(a)
  <2>1. Break(a) \/ Reject(a) \/ \E own : Finish(a, own) BY <1>13 DEF RemovalRefused
  <2> QED BY <1>13, <2>1, EndsMark DEF RemovalRefused
<1>14. CASE CompensateTools(a)
  <2>1. Break(a) \/ Reject(a) \/ \E own : Finish(a, own) BY <1>14 DEF CompensateTools
  <2> QED BY <1>14, <2>1, EndsMark DEF CompensateTools, At
<1> QED
  BY <1>1, <1>2, <1>3, <1>4, <1>5, <1>6, <1>7, <1>8, <1>9, <1>10, <1>11, <1>12, <1>13, <1>14
  DEF AttemptStep

LEMMA NextMark ==
    ASSUME IInv, MarkInv, [Next]_vars
    PROVE  MarkInv' /\ MarkStep
<1>1. CASE Tick BY <1>1, SameWorkMark DEF Tick
<1>2. ASSUME NEW r \in Runs, RunStep(r) PROVE MarkInv' /\ MarkStep BY <1>2, RunMark
<1>3. ASSUME NEW a \in work, AttemptStep(a) PROVE MarkInv' /\ MarkStep BY <1>3, AttemptMark
<1>4. ASSUME NEW c \in late, LateStep(c) PROVE MarkInv' /\ MarkStep
  BY <1>4, SameWorkMark DEF LateStep, LateAcquire, LateRelease, LateDies
<1>5. CASE UNCHANGED vars BY <1>5, SameWorkMark DEF vars
<1> QED BY <1>1, <1>2, <1>3, <1>4, <1>5 DEF Next

LEMMA MarkInvariance == Spec => []MarkInv
<1>1. Init => MarkInv
  BY DEF Init, MarkInv, OneInStore, MarkOnRecord, MarkKnown, NobodysMark, Unmarked
<1>2. IInv /\ MarkInv /\ [Next]_vars => MarkInv' BY NextMark
<1> QED BY <1>1, <1>2, Invariance, PTL DEF Spec

-----------------------------------------------------------------------------
(* The theorems *)

\* The lock record, the environment record, the workflows and the attempts keep
\* their types, in particular no attempt ever runs without a token.
THEOREM TypeCorrect == Spec => []TypeOK
<1>1. IInv => TypeOK BY DEF IInv
<1> QED BY <1>1, Invariance, PTL

\* AgentLockStore.acquire mints tokens so that no two owners ever bear the same
\* one, the attempts nobody waits for any more included.
THEOREM TokensIdentifyOwners == Spec => []TokensNameOneOwner
<1>1. IInv => TokensNameOneOwner BY DEF IInv
<1> QED BY <1>1, Invariance, PTL

\* The leases of agent_lock.py exclude one another: a workflow that still counts
\* on its lease, which no release in its name has ended, is named by the record,
\* so there is only one such workflow.
THEOREM LeasesExclude == Spec => []OneLeaseHolder
<1>1. IInv => OneLeaseHolder
  <2> SUFFICES ASSUME IInv, NEW r \in Runs, NEW s \in Runs,
                      Counts(run[r]), Counts(run[s])
               PROVE  r = s
    BY DEF OneLeaseHolder, Counts
  <2>1. lock.owner = r /\ lock.owner = s BY DEF IInv, LeasesRecorded
  <2> QED BY <2>1
<1> QED BY <1>1, Invariance, PTL

\* EnvironmentStore never has a mark ahead of the lock's token, so it refuses no
\* write of the lock's present holder.
THEOREM HolderAccepted == Spec => []HolderIsAccepted
<1>1. IInv => HolderIsAccepted BY DEF IInv
<1> QED BY <1>1, Invariance, PTL

\* The store's lock, its check and its tombstones: no process replaces a mark it
\* left itself by an older one, whatever attempt writes and however late.
THEOREM OwnMarkIsMonotone == Spec => OwnMarkNeverFalls
<1>1. IInv /\ MarkInv /\ [Next]_vars => [mark'.token < mark.token => mark'.by # mark.by]_vars
  BY NextMark DEF MarkStep
<1> QED BY <1>1, Invariance, MarkInvariance, PTL DEF Spec, OwnMarkNeverFalls

\* With one worker process, the deployment the store's lock is made for, the mark
\* falls only when that process dies between an unlink and its tombstone.
THEOREM OneProcessKeepsMark ==
    ASSUME NEW w, Workers = {w}
    PROVE  Spec => MarkNeverFalls
<1>1. ASSUME IInv, MarkInv, [Next]_vars
      PROVE  [mark'.token < mark.token => mark' = Unmarked]_vars
  <2>1. MarkStep /\ IInv' /\ MarkInv' BY <1>1, NextMark, NextIInv
  <2>2. mark \in [token : Nat, by : {w, NoWorker}] /\ mark' \in [token : Nat, by : {w, NoWorker}]
    BY <1>1, <2>1 DEF IInv, TypeOK
  <2>3. (mark.by = NoWorker => mark.token = 0) /\ (mark'.by = NoWorker => mark'.token = 0)
    BY <1>1, <2>1 DEF MarkInv, NobodysMark
  <2>4. ASSUME mark'.token < mark.token PROVE mark' = Unmarked
    <3>1. mark'.by = NoWorker BY <2>1, <2>2, <2>3, <2>4 DEF MarkStep
    <3> QED BY <2>2, <2>3, <3>1 DEF Unmarked
  <2> QED BY <2>4
<1>2. IInv /\ MarkInv /\ [Next]_vars => [mark'.token < mark.token => mark' = Unmarked]_vars
  BY <1>1
<1> QED BY <1>2, Invariance, MarkInvariance, PTL DEF Spec, MarkNeverFalls
=============================================================================
