----------------------------- MODULE KeyedLocks -----------------------------
(***************************************************************************)
(* shared/concurrency: KeyedLockManager, a lock per key taken in batches   *)
(* and nested, and KeyedLazyRegistry, which builds a value per key under   *)
(* that key's lock.                                                        *)
(*                                                                         *)
(* A thread has a stack of lock() calls, the innermost last.  A lock is    *)
(* known by the order its key was given at first sight: the code makes     *)
(* both under the registry lock.  A batch is iterated in any order, so it  *)
(* is a set here: resolved in any order, acquired in lock order.  A call   *)
(* the code refuses before it resolved a key changes nothing and is no     *)
(* step of the model.                                                      *)
(***************************************************************************)
EXTENDS Integers, Sequences, FiniteSets

CONSTANTS
  Threads, Keys,
  MaxBatch, MaxDepth, MaxCalls   \* bounds: keys of a call, nesting, calls in all

ASSUME LocksAssumption ==
  /\ IsFiniteSet(Threads)
  /\ MaxBatch \in Nat /\ MaxDepth \in Nat /\ MaxCalls \in Nat

VARIABLES
  order,     \* _order and _locks: the lock of a key, Unseen before first sight
  seen,      \* _next_order
  held,      \* the locks that are taken, each with its thread (_owners)
  stack,     \* each thread's lock() calls that have not returned
  maxOrder,  \* _thread_state.max_order
  values,    \* KeyedLazyRegistry._values, by the number of the build
  builds, calls

locksVars == <<order, seen, held, stack, maxOrder, values, builds, calls>>

Unseen == 0
Unbuilt == 0

Phase == {"resolving", "acquiring", "body", "releasing"}
Kind == {"with", "build"}   \* a plain with block; KeyedLazyRegistry.get_or_create
Frame == [phase : Phase, todo : SUBSET Keys, done : SUBSET Keys, prev : Nat, kind : Kind]

LocksInit ==
  /\ order = [k \in Keys |-> Unseen] /\ seen = 0 /\ held = {}
  /\ stack = [t \in Threads |-> <<>>]
  /\ maxOrder = [t \in Threads |-> 0]
  /\ values = [k \in Keys |-> Unbuilt]
  /\ builds = 0 /\ calls = 0

-----------------------------------------------------------------------------
Depth(t) == Len(stack[t])
Top(t) == stack[t][Depth(t)]
In(t, phase) == Depth(t) > 0 /\ Top(t).phase = phase

Owns(t, k) == <<order[k], t>> \in held
Unowned(k) == \A t \in Threads : ~Owns(t, k)

Enters(t, frame) == stack' = [stack EXCEPT ![t] = Append(@, frame)]
Becomes(t, frame) == stack' = [stack EXCEPT ![t][Depth(t)] = frame]
Returns(t) == stack' = [stack EXCEPT ![t] = SubSeq(@, 1, Depth(t) - 1)]

\* sorted(unique_keys, key=order): the keys that may be acquired next.
NextOf(frame) == {k \in frame.todo : \A j \in frame.todo : order[k] <= order[j]}

\* reversed(acquired)
LastOf(frame) == {k \in frame.done : \A j \in frame.done : order[j] <= order[k]}

-----------------------------------------------------------------------------
(* KeyedLockManager *)

\* (mutant) The key is looked up before the registry lock is taken.
Registered_Again(k) == seen + 1

Registered(k) == IF order[k] = Unseen THEN seen + 1 ELSE order[k]

Calling(t, keys, kind) ==
  /\ calls < MaxCalls /\ Depth(t) < MaxDepth
  /\ Depth(t) = 0 \/ In(t, "body")
  /\ \A k \in keys : ~Owns(t, k)
  /\ calls' = calls + 1
  /\ Enters(t, [phase |-> "resolving", todo |-> keys, done |-> {}, prev |-> 0, kind |-> kind])
  /\ UNCHANGED <<order, seen, held, maxOrder, values, builds>>

Call(t) ==
  \E keys \in SUBSET Keys : Cardinality(keys) <= MaxBatch /\ Calling(t, keys, "with")

Resolve(t) ==
  /\ In(t, "resolving")
  /\ \E k \in Top(t).todo :
       /\ order' = [order EXCEPT ![k] = Registered(k)]
       /\ seen' = IF Registered(k) > seen THEN Registered(k) ELSE seen
       /\ Becomes(t, [Top(t) EXCEPT !.todo = @ \ {k}, !.done = @ \union {k}])
  /\ UNCHANGED <<held, maxOrder, values, builds, calls>>

\* (mutant) Only the keys a thread holds are refused, not the lower ones.
Admissible_AnyOrder(t, k) == TRUE

Admissible(t, k) == order[k] > maxOrder[t]

Admit(t) ==
  /\ In(t, "resolving") /\ Top(t).todo = {}
  /\ \A k \in Top(t).done : Admissible(t, k)
  /\ Becomes(t, [phase |-> "acquiring", todo |-> Top(t).done, done |-> {},
                 prev |-> maxOrder[t], kind |-> Top(t).kind])
  /\ UNCHANGED <<order, seen, held, maxOrder, values, builds, calls>>

\* RuntimeError: the keys stay registered.
Refuse(t) ==
  /\ In(t, "resolving") /\ Top(t).todo = {}
  /\ \E k \in Top(t).done : ~Admissible(t, k)
  /\ Returns(t)
  /\ UNCHANGED <<order, seen, held, maxOrder, values, builds, calls>>

Acquire(t) ==
  /\ In(t, "acquiring")
  /\ \E k \in NextOf(Top(t)) :
       /\ Unowned(k)
       /\ held' = held \union {<<order[k], t>>}
       /\ Becomes(t, [Top(t) EXCEPT !.todo = @ \ {k}, !.done = @ \union {k}])
  /\ UNCHANGED <<order, seen, maxOrder, values, builds, calls>>

\* The body starts, with the highest order held on record.
EnterBody(t) ==
  /\ In(t, "acquiring") /\ Top(t).todo = {}
  /\ Becomes(t, [Top(t) EXCEPT !.phase = "body"])
  /\ IF Top(t).done = {} THEN UNCHANGED maxOrder
     ELSE \E k \in LastOf(Top(t)) : maxOrder' = [maxOrder EXCEPT ![t] = order[k]]
  /\ UNCHANGED <<order, seen, held, calls>>

Begin(t) ==
  /\ Depth(t) > 0
  /\ Top(t).kind = "with"
  /\ EnterBody(t)
  /\ UNCHANGED <<values, builds>>

\* The body returned or raised: the finally block runs.
Leaving(t) ==
  /\ In(t, "body")
  /\ maxOrder' = [maxOrder EXCEPT ![t] = Top(t).prev]
  /\ Becomes(t, [Top(t) EXCEPT !.phase = "releasing"])
  /\ UNCHANGED <<order, seen, held, calls>>

Leave(t) ==
  /\ Depth(t) > 0
  /\ Top(t).kind = "with"
  /\ Leaving(t)
  /\ UNCHANGED <<values, builds>>

Release(t) ==
  /\ In(t, "releasing")
  /\ \E k \in LastOf(Top(t)) :
       /\ held' = held \ {<<order[k], t>>}
       /\ Becomes(t, [Top(t) EXCEPT !.done = @ \ {k}])
  /\ UNCHANGED <<order, seen, maxOrder, values, builds, calls>>

Return(t) ==
  /\ In(t, "releasing") /\ Top(t).done = {}
  /\ Returns(t)
  /\ UNCHANGED <<order, seen, held, maxOrder, values, builds, calls>>

-----------------------------------------------------------------------------
(* KeyedLazyRegistry *)

\* The unlocked read found nothing.  A value it finds is returned at once.
GetOrCreate(t) ==
  \E k \in Keys : values[k] = Unbuilt /\ Calling(t, {k}, "build")

\* (mutant) The slot is not read again under the lock.
Found_Unlocked(frame) == FALSE

\* The second read, under the key's lock.
Found(frame) == \E k \in frame.done : values[k] # Unbuilt

\* Another thread built the value meanwhile.
FindBuilt(t) ==
  /\ In(t, "acquiring") /\ Top(t).kind = "build" /\ Top(t).todo = {}
  /\ Found(Top(t))
  /\ Becomes(t, [Top(t) EXCEPT !.phase = "releasing"])
  /\ UNCHANGED <<order, seen, held, maxOrder, values, builds, calls>>

\* The factory starts; it may call the registry or the manager again.
BeginBuild(t) ==
  /\ Depth(t) > 0
  /\ Top(t).kind = "build" /\ ~Found(Top(t))
  /\ EnterBody(t)
  /\ UNCHANGED <<values, builds>>

Store(t) ==
  /\ Depth(t) > 0
  /\ Top(t).kind = "build"
  /\ Leaving(t)
  /\ builds' = builds + 1
  /\ values' = [k \in Keys |-> IF k \in Top(t).done THEN builds + 1 ELSE values[k]]

\* (mutant) The locks are released only when the body returned.
FactoryRaises_KeepsLock(t) ==
  /\ Depth(t) > 0
  /\ Top(t).kind = "build"
  /\ In(t, "body")
  /\ Returns(t)
  /\ UNCHANGED <<order, seen, held, maxOrder, values, builds, calls>>

\* The factory raised, or returned None.
FactoryRaises(t) ==
  /\ Depth(t) > 0
  /\ Top(t).kind = "build"
  /\ Leaving(t)
  /\ UNCHANGED <<values, builds>>

-----------------------------------------------------------------------------
\* The steps a thread takes once it has called; a call itself is never due.
Proceeds(t) ==
  \/ Resolve(t) \/ Admit(t) \/ Refuse(t) \/ Acquire(t) \/ Begin(t) \/ Leave(t)
  \/ Release(t) \/ Return(t)
  \/ FindBuilt(t) \/ BeginBuild(t) \/ Store(t) \/ FactoryRaises(t)

Step(t) == Call(t) \/ GetOrCreate(t) \/ Proceeds(t)

LocksNext == \E t \in Threads : Step(t)

\* Threads run, and with blocks and factories end.
LocksFairness == \A t \in Threads : WF_locksVars(Proceeds(t))

LocksSpec == LocksInit /\ [][LocksNext]_locksVars

LocksFairSpec == LocksSpec /\ LocksFairness

-----------------------------------------------------------------------------
(* Properties *)

\* Every variable keeps its type.
LocksTypeOK ==
  /\ order \in [Keys -> Nat] /\ seen \in Nat
  /\ held \subseteq Nat \X Threads
  /\ stack \in [Threads -> Seq(Frame)]
  /\ maxOrder \in [Threads -> Nat]
  /\ values \in [Keys -> Nat] /\ builds \in Nat /\ calls \in Nat

\* The calls of a thread that have taken locks and the keys they hold.
HoldsIn(t, i, k) == stack[t][i].phase # "resolving" /\ k \in stack[t][i].done
Holds(t, k) == \E i \in 1 .. Depth(t) : HoldsIn(t, i, k)

\* Two threads whose lock() calls share a key are never both past acquiring
\* it: KeyedLockManager.lock serializes them until the first has released.
Exclusive == \A t, u \in Threads : \A k \in Keys : Holds(t, k) /\ Holds(u, k) => t = u

Awaits(t, k) == In(t, "acquiring") /\ k \in NextOf(Top(t))

\* However calls are batched and nested, no set of threads waits each for a
\* key that another of them holds: the order check of nested calls together
\* with the sorted acquisition of a batch.
NoWaitCycle ==
  \A S \in SUBSET Threads :
    (\A t \in S : \E u \in S : \E k \in Keys : Awaits(t, k) /\ Holds(u, k)) => S = {}

\* A value once built is the one every later caller gets: get_or_create reads
\* the slot again under the key's lock, and a failed factory stores nothing.
BuiltOnce == [][\A k \in Keys : values[k] # Unbuilt => values'[k] = values[k]]_locksVars

\* When no more calls are made every call returns, refused or done: no lock
\* is left behind by a body that raised.
CallsReturn == <>[](\A t \in Threads : stack[t] = <<>>)
=============================================================================
