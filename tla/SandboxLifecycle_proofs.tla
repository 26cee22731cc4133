----------------------- MODULE SandboxLifecycle_proofs -----------------------
(***************************************************************************)
(* Proofs about SandboxLifecycle for any agents, callers, bounds and       *)
(* docker failures: what holds an agent's lock, holds it alone, across     *)
(* every await; so the stack behind a warm handle stays the caller's until *)
(* acquire has returned.                                                   *)
(***************************************************************************)
EXTENDS SandboxLifecycle, TLAPS

\* Where a coroutine is between the entry and the exit of `async with lock`.
Locks(p) ==
  \/ p.pc \in {"inspect", "clean", "up", "port", "health", "down"}
  \/ p.op \in {"acquire", "trust", "teardown"} /\ p.pc \in {"check", "write"}

\* What a coroutine's place says of the operation it runs and its object.
Placed(p) ==
  /\ p.pc \in {"inspect", "clean", "up", "port", "health"} => p.op = "acquire"
  /\ p.pc = "down" => p.op = "teardown"
  /\ p.pc = "look" => p.op = "status"
  /\ p.pc \notin {"idle", "lock", "clean"} => p.boot \in Boot

LockInv ==
  \A c \in Procs : Placed(proc[c]) /\ (Locks(proc[c]) => lock[AgentOf(c)] = c)

SandboxInv == TypeOK /\ LockInv /\ WarmHandleIsReal

-----------------------------------------------------------------------------
(* Types *)

LEMMA BlankType == Blank \in Memory
BY SandboxAssumption DEF Blank, Unborn, Memory, Object, Boot

LEMMA IdleType == Idle \in Proc
<1>1. (CHOOSE a \in Agents : TRUE) \in Agents
  BY SandboxAssumption
<1>2. 0 \in 0 .. MaxBoots
  BY SandboxAssumption
<1> QED
  BY <1>1, <1>2, BlankType DEF Idle, Proc

LEMMA SnapshotType ==
  ASSUME NEW m \in Memory
  PROVE  Snapshot(m) \in Memory
<1> DEFINE shown == [a \in Agents |-> [b \in Boot |->
                       IF m.entry[a] = b THEN m.obj[a][b] ELSE Unborn]]
<1>1. Unborn \in Object
  BY SandboxAssumption DEF Unborn, Object
<1>2. shown \in [Agents -> [Boot -> Object]]
  BY <1>1 DEF Memory
<1> QED
  BY <1>2 DEF Snapshot, Memory

LEMMA SetFieldType ==
  ASSUME mem \in Memory, NEW a \in Agents, NEW b \in Boot, NEW o \in Object
  PROVE  /\ SetField(a, b, o) \in Memory
         /\ SetField(a, b, o).entry = mem.entry
         /\ \A x \in Agents, y \in Boot :
              SetField(a, b, o).obj[x][y] = IF x = a /\ y = b THEN o ELSE mem.obj[x][y]
BY DEF SetField, Memory

LEMMA EvictedType ==
  ASSUME mem \in Memory, NEW a \in Agents
  PROVE  Evicted(a) \in Memory /\ Evicted(a).obj = mem.obj
BY SandboxAssumption DEF Evicted, Memory

\* Releasing an agent's lock leaves the locks of the others alone.
LEMMA ReleaseType ==
  ASSUME TypeOK, NEW c \in Procs, Release(c)
  PROVE  /\ lock' \in [Agents -> Procs \cup {Nobody}]
         /\ \A a \in Agents : lock[a] # c => lock'[a] = lock[a]
BY DEF TypeOK, Release

\* What persists: the memory, the coroutine and its snapshot are well typed.
LEMMA PersistType ==
  ASSUME TypeOK, NEW c \in Procs, NEW p \in Proc, NEW m \in Memory, SetAndPersist(c, p, m)
  PROVE  /\ mem' \in Memory /\ mem' = m
         /\ newest' \in Procs \cup {Nobody}
         /\ proc' \in [Procs -> Proc]
         /\ proc'[c].pc = "check" /\ proc'[c].op = p.op
         /\ proc'[c].agent = p.agent /\ proc'[c].boot = p.boot
         /\ \A d \in Procs : d # c => proc'[d] = proc[d]
<1> DEFINE q == [p EXCEPT !.pc = "check", !.snap = Snapshot(m)]
<1>1. q \in Proc
  BY SnapshotType DEF Proc
<1>2. q.pc = "check" /\ q.op = p.op /\ q.agent = p.agent /\ q.boot = p.boot
  BY DEF Proc
<1>3. proc' = [proc EXCEPT ![c] = q] /\ mem' = m /\ newest' = c
  BY DEF SetAndPersist
<1> HIDE DEF q
<1> QED
  BY <1>1, <1>2, <1>3 DEF TypeOK

-----------------------------------------------------------------------------
(* One coroutine steps *)

\* A coroutine that steps, and keeps or leaves or enters its lock by the rule,
\* leaves everyone's hold on the locks as it should be.
LEMMA MoveKeepsLocks ==
    ASSUME TypeOK, LockInv, NEW c \in Procs,
           \A d \in Procs : d # c => proc'[d] = proc[d],
           \A a \in Agents : lock[a] \notin {c, Nobody} => lock'[a] = lock[a],
           Placed(proc'[c]), Locks(proc'[c]) => lock'[proc'[c].agent] = c
    PROVE  LockInv'
<1> SUFFICES ASSUME NEW d \in Procs
             PROVE  Placed(proc'[d]) /\ (Locks(proc'[d]) => lock'[proc'[d].agent] = d)
  BY DEF LockInv, AgentOf, Procs
<1>1. CASE d = c
  BY <1>1
<1>2. CASE d # c
  <2>1. proc'[d] = proc[d] /\ proc[d].agent \in Agents /\ d # Nobody
    BY <1>2, SandboxAssumption DEF TypeOK, Proc
  <2>2. Placed(proc[d]) /\ (Locks(proc[d]) => lock[proc[d].agent] = d)
    BY DEF LockInv, AgentOf
  <2> QED
    BY <1>2, <2>1, <2>2
<1> QED
  BY <1>1, <1>2

\* Only who holds an agent's lock replaces its stack or marks an object warm:
\* the handles the others are about to return stay real.
LEMMA MoveKeepsWarm ==
    ASSUME TypeOK, LockInv, WarmHandleIsReal, NEW c \in Procs,
           \A d \in Procs : d # c => proc'[d] = proc[d],
           \A a \in Agents : stack'[a].boot = stack[a].boot \/ lock[a] = c,
           \A a \in Agents, b \in Boot :
             mem'.obj[a][b].status = "warm" => mem.obj[a][b].status = "warm" \/ lock[a] = c,
           proc'[c].op = "acquire" /\ proc'[c].pc \in {"check", "write"}
             /\ mem'.obj[proc'[c].agent][proc'[c].boot].status = "warm"
               => stack'[proc'[c].agent].boot = proc'[c].boot
    PROVE  WarmHandleIsReal'
<1> SUFFICES ASSUME NEW d \in Procs,
                    proc'[d].op = "acquire", proc'[d].pc \in {"check", "write"},
                    mem'.obj[proc'[d].agent][proc'[d].boot].status = "warm"
             PROVE  stack'[proc'[d].agent].boot = proc'[d].boot
  BY DEF WarmHandleIsReal, Held, AgentOf, Procs
<1>1. CASE d = c
  BY <1>1
<1>2. CASE d # c
  <2>1. proc'[d] = proc[d] /\ proc[d].agent \in Agents
    BY <1>2 DEF TypeOK, Proc
  <2>2. lock[proc[d].agent] = d /\ proc[d].boot \in Boot
    BY <2>1 DEF LockInv, Locks, Placed, AgentOf
  <2>3. mem.obj[proc[d].agent][proc[d].boot].status = "warm"
    BY <1>2, <2>1, <2>2
  <2>4. stack[proc[d].agent].boot = proc[d].boot
    BY <2>1, <2>3 DEF WarmHandleIsReal, Held, AgentOf
  <2> QED
    BY <1>2, <2>1, <2>2, <2>4
<1> QED
  BY <1>1, <1>2

\* A coroutine that leaves, or waits at a place where it holds no lock.
LEMMA OffTheLock ==
    /\ Placed(Idle) /\ ~Locks(Idle) /\ Idle.op = "none" /\ Idle.pc = "idle"
    /\ \A op \in {"acquire", "teardown"}, a \in Agents :
         LET p == [Idle EXCEPT !.pc = "lock", !.op = op, !.agent = a]
         IN  p \in Proc /\ Placed(p) /\ ~Locks(p) /\ p.pc = "lock"
<1>1. Placed(Idle) /\ ~Locks(Idle) /\ Idle.op = "none" /\ Idle.pc = "idle"
  BY DEF Idle, Placed, Locks
<1>2. ASSUME NEW op \in {"acquire", "teardown"}, NEW a \in Agents
      PROVE  LET p == [Idle EXCEPT !.pc = "lock", !.op = op, !.agent = a]
             IN  p \in Proc /\ Placed(p) /\ ~Locks(p) /\ p.pc = "lock"
  BY <1>2, IdleType DEF Proc, Placed, Locks
<1> QED
  BY <1>1, <1>2

\* An operation ends, whether it held the lock or not.
LEMMA ExitKeepsInv ==
    ASSUME SandboxInv, NEW c \in Procs, Exit(c),
           Release(c) \/ UNCHANGED lock,
           UNCHANGED <<mem, boots, newest, stray, sweep, now, calls, restarts>>,
           file' \in Memory, faults' \in 0 .. MaxFaults,
           stack' \in [Agents -> [boot : 0 .. MaxBoots, up : BOOLEAN]],
           \A a \in Agents : stack'[a].boot = stack[a].boot \/ lock[a] = c
    PROVE  SandboxInv'
<1>1. /\ lock' \in [Agents -> Procs \cup {Nobody}]
      /\ \A a \in Agents : lock[a] # c => lock'[a] = lock[a]
  BY ReleaseType DEF SandboxInv, TypeOK
<1>2. /\ proc' \in [Procs -> Proc] /\ proc'[c] = Idle
      /\ \A d \in Procs : d # c => proc'[d] = proc[d]
  BY IdleType DEF Exit, SandboxInv, TypeOK
<1>3. TypeOK'
  BY <1>1, <1>2 DEF SandboxInv, TypeOK, Procs, Memory, Object, Proc, Boot
<1>4. LockInv'
  BY <1>1, <1>2, OffTheLock, MoveKeepsLocks DEF SandboxInv
<1>5. WarmHandleIsReal'
  BY <1>2, OffTheLock, MoveKeepsWarm DEF SandboxInv
<1> QED
  BY <1>3, <1>4, <1>5 DEF SandboxInv

\* An operation changes an object and takes the snapshot: at `check`, and if it
\* runs under the lock it holds it.
LEMMA PersistKeepsInv ==
    ASSUME SandboxInv, NEW c \in Procs, NEW p \in Proc, NEW m \in Memory, SetAndPersist(c, p, m),
           p.boot \in Boot,
           p.op \in {"acquire", "trust", "teardown"} => lock'[p.agent] = c,
           \A a \in Agents : lock[a] # Nobody => lock'[a] = lock[a],
           \A a \in Agents, b \in Boot :
             m.obj[a][b].status = "warm" => mem.obj[a][b].status = "warm" \/ lock[a] = c,
           p.op = "acquire" /\ m.obj[p.agent][p.boot].status = "warm"
             => stack'[p.agent].boot = p.boot,
           \A a \in Agents : stack'[a].boot = stack[a].boot \/ lock[a] = c,
           stack' \in [Agents -> [boot : 0 .. MaxBoots, up : BOOLEAN]],
           lock' \in [Agents -> Procs \cup {Nobody}],
           faults' \in 0 .. MaxFaults, calls' \in 0 .. MaxCalls,
           UNCHANGED <<file, boots, stray, sweep, now, restarts>>
    PROVE  SandboxInv'
<1>1. /\ mem' \in Memory /\ mem' = m /\ newest' \in Procs \cup {Nobody}
      /\ proc' \in [Procs -> Proc]
      /\ proc'[c].pc = "check" /\ proc'[c].op = p.op
      /\ proc'[c].agent = p.agent /\ proc'[c].boot = p.boot
      /\ \A d \in Procs : d # c => proc'[d] = proc[d]
  BY PersistType DEF SandboxInv
<1>3. TypeOK'
  BY <1>1 DEF SandboxInv, TypeOK, Procs
<1>4. LockInv'
  <2>1. Placed(proc'[c]) /\ (Locks(proc'[c]) => lock'[proc'[c].agent] = c)
    BY <1>1 DEF Placed, Locks
  <2> QED
    BY <1>1, <2>1, MoveKeepsLocks DEF SandboxInv
<1>5. WarmHandleIsReal'
  BY <1>1, MoveKeepsWarm DEF SandboxInv
<1> QED
  BY <1>3, <1>4, <1>5 DEF SandboxInv

\* What the dictionary names is an object.
LEMMA EntryType ==
    ASSUME SandboxInv, NEW a \in Agents
    PROVE  Entry(a) \in 0 .. MaxBoots /\ (Entry(a) # 0 => Entry(a) \in Boot)
<1>1. mem.entry \in [Agents -> 0 .. MaxBoots]
  BY DEF SandboxInv, TypeOK, Memory
<1>2. Entry(a) \in 0 .. MaxBoots
  BY <1>1 DEF Entry
<1> QED
  BY <1>2, SandboxAssumption DEF Boot

\* A coroutine goes on to p with the memory as it is, but for objects nobody
\* holds or it holds alone.
LEMMA GoKeepsInv ==
    ASSUME SandboxInv, NEW c \in Procs, NEW p \in Proc, proc' = [proc EXCEPT ![c] = p],
           Placed(p), Locks(p) => lock'[p.agent] = c,
           p.op # "acquire" \/ p.pc \notin {"check", "write"},
           lock' \in [Agents -> Procs \cup {Nobody}],
           \A a \in Agents : lock[a] # Nobody => lock'[a] = lock[a],
           stack' \in [Agents -> [boot : 0 .. MaxBoots, up : BOOLEAN]],
           \A a \in Agents : stack'[a].boot = stack[a].boot \/ lock[a] = c,
           mem' \in Memory,
           \A a \in Agents, b \in Boot :
             mem'.obj[a][b].status = "warm" => mem.obj[a][b].status = "warm" \/ lock[a] = c,
           sweep' \in [on : BOOLEAN, at : Nat, items : SUBSET (Agents \X Boot)],
           boots' \in [Agents -> 0 .. MaxBoots],
           faults' \in 0 .. MaxFaults, calls' \in 0 .. MaxCalls,
           UNCHANGED <<file, newest, stray, now, restarts>>
    PROVE  SandboxInv'
<1>1. /\ proc' \in [Procs -> Proc] /\ proc'[c] = p
      /\ \A d \in Procs : d # c => proc'[d] = proc[d]
  BY DEF SandboxInv, TypeOK
<1>2. TypeOK'
  BY <1>1 DEF SandboxInv, TypeOK, Procs
<1>3. LockInv'
  BY <1>1, MoveKeepsLocks DEF SandboxInv
<1>4. WarmHandleIsReal'
  BY <1>1, MoveKeepsWarm DEF SandboxInv
<1> QED
  BY <1>2, <1>3, <1>4 DEF SandboxInv

\* Where a coroutine is on the way of an acquire or a teardown.
LEMMA PlaceFacts ==
    ASSUME SandboxInv, NEW c \in Procs
    PROVE  /\ proc[c] \in Proc /\ AgentOf(c) \in Agents /\ mem \in Memory
           /\ proc[c].pc \in {"inspect", "clean", "up", "port", "health", "down"}
                => lock[AgentOf(c)] = c
           /\ proc[c].pc \in {"inspect", "clean", "up", "port", "health"} => proc[c].op = "acquire"
           /\ proc[c].pc = "down" => proc[c].op = "teardown"
           /\ proc[c].pc = "look" => proc[c].op = "status"
           /\ proc[c].pc \notin {"idle", "lock", "clean"}
                => proc[c].boot \in Boot /\ Held(c) \in Object
           /\ \A a \in Agents : stack[a] \in [boot : 0 .. MaxBoots, up : BOOLEAN]
           /\ c # Nobody
<1>1. proc[c] \in Proc /\ AgentOf(c) \in Agents /\ mem \in Memory /\ c # Nobody
  BY SandboxAssumption DEF SandboxInv, TypeOK, Proc, AgentOf
<1>2. Placed(proc[c]) /\ (Locks(proc[c]) => lock[AgentOf(c)] = c)
  BY DEF SandboxInv, LockInv
<1>3. \A b \in Boot : mem.obj[AgentOf(c)][b] \in Object
  BY <1>1 DEF Memory
<1> QED
  BY <1>1, <1>2, <1>3 DEF Placed, Locks, Held, SandboxInv, TypeOK

\* The bounds the counters keep to.
LEMMA FaultType ==
    ASSUME SandboxInv
    PROVE  /\ \A kind \in {"up", "down", "inspect", "raise", "cancel"} :
                Fault(kind) => faults' \in 0 .. MaxFaults
           /\ Healthy => faults' \in 0 .. MaxFaults
           /\ faults < MaxFaults /\ faults' = faults + 1 => faults' \in 0 .. MaxFaults
           /\ calls < MaxCalls /\ calls' = calls + 1 => calls' \in 0 .. MaxCalls
           /\ UNCHANGED calls => calls' \in 0 .. MaxCalls
<1>1. MaxFaults \in Nat /\ MaxCalls \in Nat
  BY SandboxAssumption
<1> QED
  BY <1>1 DEF SandboxInv, TypeOK, Fault, Healthy

-----------------------------------------------------------------------------
(* acquire *)

LEMMA CallKeepsInv ==
    ASSUME SandboxInv, NEW c \in Procs, NEW op \in {"acquire", "teardown"}, NEW a \in Agents,
           Call(c, op, a)
    PROVE  SandboxInv'
<1> DEFINE p == [Idle EXCEPT !.pc = "lock", !.op = op, !.agent = a]
<1>1. p \in Proc /\ Placed(p) /\ ~Locks(p) /\ p.pc = "lock"
  BY OffTheLock
<1>2. proc' = [proc EXCEPT ![c] = p] /\ calls' \in 0 .. MaxCalls
  BY FaultType DEF Call
<1> HIDE DEF p
<1> QED
  BY <1>1, <1>2, GoKeepsInv DEF Call, SandboxInv, TypeOK

LEMMA EnterAcquireKeepsInv ==
    ASSUME SandboxInv, NEW c \in Procs, EnterAcquire(c)
    PROVE  SandboxInv'
<1> DEFINE a == AgentOf(c)
           b == Entry(a)
           warm == b # 0 /\ mem.obj[a][b].status = "warm" /\ mem.obj[a][b].cid
           p == [proc[c] EXCEPT !.pc = IF warm THEN "inspect" ELSE "clean", !.boot = b]
<1>1. proc[c] \in Proc /\ a \in Agents /\ proc[c].op = "acquire" /\ lock[a] = Nobody
  BY PlaceFacts DEF EnterAcquire, TakesLock
<1>2. b \in 0 .. MaxBoots /\ (warm => b \in Boot)
  BY <1>1, EntryType
<1>3. lock' = [lock EXCEPT ![a] = c]
  BY DEF EnterAcquire
<1>4. proc' = [proc EXCEPT ![c] = p]
  BY <1>1 DEF EnterAcquire, SandboxInv, TypeOK, Proc
<1> HIDE DEF warm, b, a
<1>5. /\ p \in Proc /\ p.pc \in {"inspect", "clean"} /\ (p.pc = "inspect" => b \in Boot)
      /\ p.boot = b /\ p.op = "acquire" /\ p.agent = a
  BY <1>1, <1>2 DEF Proc, a, AgentOf
<1> HIDE DEF p
<1>6. Placed(p)
  BY <1>5 DEF Placed
<1>7. /\ lock' \in [Agents -> Procs \cup {Nobody}] /\ lock'[a] = c
      /\ \A x \in Agents : lock[x] # Nobody => lock'[x] = lock[x]
  BY <1>1, <1>3 DEF SandboxInv, TypeOK
<1> QED
  BY <1>4, <1>5, <1>6, <1>7, GoKeepsInv DEF EnterAcquire, Others, SandboxInv, TypeOK

LEMMA ReuseKeepsInv ==
    ASSUME SandboxInv, NEW c \in Procs, Reuse(c)
    PROVE  SandboxInv'
<1> DEFINE o == [Held(c) EXCEPT !.used = now]
           m == SetField(AgentOf(c), proc[c].boot, o)
<1>1. PICK op \in {"acquire", "trust"} :
        /\ IF op = "trust" THEN Fault("raise") ELSE Alive(AgentOf(c), proc[c].boot) /\ Healthy
        /\ SetAndPersist(c, [proc[c] EXCEPT !.op = op], m)
  BY DEF Reuse
<1> DEFINE p == [proc[c] EXCEPT !.op = op]
<1>2. /\ proc[c] \in Proc /\ AgentOf(c) \in Agents /\ mem \in Memory /\ c # Nobody
      /\ proc[c].boot \in Boot /\ Held(c) \in Object /\ lock[AgentOf(c)] = c
  BY PlaceFacts DEF Reuse, At
<1>3. /\ p \in Proc /\ p.op = op /\ p.agent = AgentOf(c) /\ p.boot = proc[c].boot
  BY <1>2 DEF Proc, AgentOf
<1>4. o \in Object /\ o.status = Held(c).status
  BY <1>2 DEF Object, SandboxInv, TypeOK
<1> HIDE DEF o, p
<1>5. /\ m \in Memory
      /\ \A x \in Agents, y \in Boot : m.obj[x][y].status = mem.obj[x][y].status
  BY <1>2, <1>4, SetFieldType DEF Held
<1> HIDE DEF m
<1>6. op = "acquire" => stack[AgentOf(c)].boot = proc[c].boot
  BY <1>1 DEF Alive
<1>7. faults' \in 0 .. MaxFaults /\ calls' \in 0 .. MaxCalls
  BY <1>1, FaultType DEF Reuse, Others
<1>8. SetAndPersist(c, p, m)
  BY <1>1 DEF p
<1>9. UNCHANGED <<file, stack, lock, boots, stray, sweep, now, restarts>>
  BY DEF Reuse, Others
<1>10. stack' \in [Agents -> [boot : 0 .. MaxBoots, up : BOOLEAN]]
       /\ lock' \in [Agents -> Procs \cup {Nobody}]
  BY <1>9 DEF SandboxInv, TypeOK
<1> QED
  BY <1>2, <1>3, <1>5, <1>6, <1>7, <1>8, <1>9, <1>10, PersistKeepsInv

LEMMA GoneKeepsInv ==
    ASSUME SandboxInv, NEW c \in Procs, Gone(c)
    PROVE  SandboxInv'
<1> DEFINE p == [proc[c] EXCEPT !.pc = "clean"]
<1>1. /\ proc[c] \in Proc /\ lock[AgentOf(c)] = c /\ proc[c].op = "acquire"
  BY PlaceFacts DEF Gone, At
<1>2. proc' = [proc EXCEPT ![c] = p]
  BY <1>1 DEF Gone, Goto, SandboxInv, TypeOK, Proc
<1>3. p \in Proc /\ p.pc = "clean" /\ p.op = "acquire" /\ p.agent = AgentOf(c)
  BY <1>1 DEF Proc, AgentOf
<1> HIDE DEF p
<1>4. Placed(p)
  BY <1>3 DEF Placed
<1>5. faults' \in 0 .. MaxFaults /\ calls' \in 0 .. MaxCalls
  BY FaultType DEF Gone, Others
<1> QED
  BY <1>1, <1>2, <1>3, <1>4, <1>5, GoKeepsInv DEF Gone, Others, SandboxInv, TypeOK

LEMMA ProvisionKeepsInv ==
    ASSUME SandboxInv, NEW c \in Procs, Provision(c)
    PROVE  SandboxInv'
<1> DEFINE a == AgentOf(c)
           b == boots[a] + 1
           p == [proc[c] EXCEPT !.pc = "up", !.boot = b]
           o == [status |-> "warming", cid |-> FALSE, used |-> now]
<1>1. /\ proc[c] \in Proc /\ a \in Agents /\ lock[a] = c /\ proc[c].op = "acquire" /\ mem \in Memory
  BY PlaceFacts DEF Provision, At
<1>2. b \in Boot /\ b \in 0 .. MaxBoots
  BY <1>1, SandboxAssumption DEF Provision, Boot
<1>3. /\ proc' = [proc EXCEPT ![c] = p]
      /\ boots' = [boots EXCEPT ![a] = b]
      /\ mem' = [mem EXCEPT !.entry[a] = b, !.obj[a][b] = o]
      /\ stack' = [stack EXCEPT ![a] = NoStack] \/ stack' = stack
  BY <1>1 DEF Provision, SandboxInv, TypeOK, Proc
<1> HIDE DEF b
<1>4. o \in Object /\ o.status = "warming"
  BY DEF Object, SandboxInv, TypeOK
<1> HIDE DEF o
<1>5. /\ mem' \in Memory
      /\ \A x \in Agents, y \in Boot :
           mem'.obj[x][y] = IF x = a /\ y = b THEN o ELSE mem.obj[x][y]
  <2>1. mem' = [mem EXCEPT !.entry = [mem.entry EXCEPT ![a] = b],
                           !.obj = [mem.obj EXCEPT ![a] = [mem.obj[a] EXCEPT ![b] = o]]]
    BY <1>3
  <2>2. [mem.entry EXCEPT ![a] = b] \in [Agents -> 0 .. MaxBoots]
    BY <1>1, <1>2 DEF Memory
  <2>3. [mem.obj EXCEPT ![a] = [mem.obj[a] EXCEPT ![b] = o]] \in [Agents -> [Boot -> Object]]
    BY <1>1, <1>2, <1>4 DEF Memory
  <2> QED
    BY <1>1, <1>2, <2>1, <2>2, <2>3 DEF Memory
<1>6. /\ stack' \in [Agents -> [boot : 0 .. MaxBoots, up : BOOLEAN]]
      /\ \A x \in Agents : stack'[x].boot = stack[x].boot \/ lock[x] = c
  <2>1. NoStack \in [boot : 0 .. MaxBoots, up : BOOLEAN]
    BY SandboxAssumption DEF NoStack
  <2> QED
    BY <1>1, <1>3, <2>1 DEF SandboxInv, TypeOK
<1>7. /\ boots' \in [Agents -> 0 .. MaxBoots]
      /\ faults' \in 0 .. MaxFaults /\ calls' \in 0 .. MaxCalls
  BY <1>1, <1>2, <1>3, FaultType DEF Provision, Others, SandboxInv, TypeOK
<1>8. p \in Proc /\ p.pc = "up" /\ p.op = "acquire" /\ p.agent = a /\ p.boot = b
  BY <1>1, <1>2 DEF Proc, AgentOf
<1> HIDE DEF p, a
<1>9. Placed(p)
  BY <1>2, <1>8 DEF Placed
<1>10. \A x \in Agents, y \in Boot :
         mem'.obj[x][y].status = "warm" => mem.obj[x][y].status = "warm" \/ lock[x] = c
  BY <1>1, <1>5
<1>11. /\ UNCHANGED <<file, lock, newest, stray, sweep, now, restarts>>
       /\ lock' \in [Agents -> Procs \cup {Nobody}]
       /\ sweep' \in [on : BOOLEAN, at : Nat, items : SUBSET (Agents \X Boot)]
  BY DEF Provision, Others, SandboxInv, TypeOK
<1> QED
  BY <1>1, <1>3, <1>5, <1>6, <1>7, <1>8, <1>9, <1>10, <1>11, GoKeepsInv

LEMMA CleanFailsKeepsInv ==
    ASSUME SandboxInv, NEW c \in Procs, CleanFails(c)
    PROVE  SandboxInv'
<1>1. AgentOf(c) \in Agents /\ lock[AgentOf(c)] = c
      /\ \A a \in Agents : stack[a] \in [boot : 0 .. MaxBoots, up : BOOLEAN]
  BY PlaceFacts DEF CleanFails, At
<1>2. NoStack \in [boot : 0 .. MaxBoots, up : BOOLEAN]
  BY SandboxAssumption DEF NoStack
<1>3. PICK s \in {stack[AgentOf(c)], NoStack} : stack' = [stack EXCEPT ![AgentOf(c)] = s]
  BY DEF CleanFails
<1>4. /\ stack' \in [Agents -> [boot : 0 .. MaxBoots, up : BOOLEAN]]
      /\ \A a \in Agents : stack'[a].boot = stack[a].boot \/ lock[a] = c
  BY <1>1, <1>2, <1>3 DEF SandboxInv, TypeOK
<1>5. faults' \in 0 .. MaxFaults
  BY FaultType DEF CleanFails
<1> QED
  BY <1>4, <1>5, ExitKeepsInv DEF CleanFails, Others, SandboxInv, TypeOK

LEMMA ComposeUpKeepsInv ==
    ASSUME SandboxInv, NEW c \in Procs, ComposeUp(c)
    PROVE  SandboxInv'
<1> DEFINE p == [proc[c] EXCEPT !.pc = "port"]
           s == [boot |-> proc[c].boot, up |-> TRUE]
<1>1. /\ proc[c] \in Proc /\ AgentOf(c) \in Agents /\ lock[AgentOf(c)] = c
      /\ proc[c].op = "acquire" /\ proc[c].boot \in Boot
  BY PlaceFacts DEF ComposeUp, At
<1>2. /\ proc' = [proc EXCEPT ![c] = p] /\ stack' = [stack EXCEPT ![AgentOf(c)] = s]
  BY <1>1 DEF ComposeUp, Goto, SandboxInv, TypeOK, Proc
<1>3. /\ p \in Proc /\ p.pc = "port" /\ p.op = "acquire" /\ p.agent = AgentOf(c)
      /\ p.boot = proc[c].boot /\ s \in [boot : 0 .. MaxBoots, up : BOOLEAN]
  BY <1>1 DEF Proc, AgentOf
<1> HIDE DEF p, s
<1>4. Placed(p)
  BY <1>1, <1>3 DEF Placed
<1>5. /\ stack' \in [Agents -> [boot : 0 .. MaxBoots, up : BOOLEAN]]
      /\ \A x \in Agents : stack'[x].boot = stack[x].boot \/ lock[x] = c
  BY <1>1, <1>2, <1>3 DEF SandboxInv, TypeOK
<1>6. faults' \in 0 .. MaxFaults /\ calls' \in 0 .. MaxCalls
  BY FaultType DEF ComposeUp, Others, Healthy
<1> QED
  BY <1>1, <1>2, <1>3, <1>4, <1>5, <1>6, GoKeepsInv DEF ComposeUp, Others, SandboxInv, TypeOK

LEMMA PortKnownKeepsInv ==
    ASSUME SandboxInv, NEW c \in Procs, PortKnown(c)
    PROVE  SandboxInv'
<1> DEFINE p == [proc[c] EXCEPT !.pc = "health"]
           o == [Held(c) EXCEPT !.cid = TRUE]
<1>1. /\ proc[c] \in Proc /\ AgentOf(c) \in Agents /\ lock[AgentOf(c)] = c /\ mem \in Memory
      /\ proc[c].op = "acquire" /\ proc[c].boot \in Boot /\ Held(c) \in Object
  BY PlaceFacts DEF PortKnown, At
<1>2. proc' = [proc EXCEPT ![c] = p] /\ mem' = SetField(AgentOf(c), proc[c].boot, o)
  BY <1>1 DEF PortKnown, Goto, SandboxInv, TypeOK, Proc
<1>3. /\ p \in Proc /\ p.pc = "health" /\ p.op = "acquire" /\ p.agent = AgentOf(c)
      /\ p.boot = proc[c].boot
  BY <1>1 DEF Proc, AgentOf
<1>4. o \in Object /\ o.status = Held(c).status
  BY <1>1 DEF Object
<1> HIDE DEF p, o
<1>5. Placed(p)
  BY <1>1, <1>3 DEF Placed
<1>6. /\ mem' \in Memory
      /\ \A x \in Agents, y \in Boot : mem'.obj[x][y].status = mem.obj[x][y].status
  BY <1>1, <1>2, <1>4, SetFieldType DEF Held
<1>7. faults' \in 0 .. MaxFaults /\ calls' \in 0 .. MaxCalls
  BY FaultType DEF PortKnown, Others, Healthy
<1>8. /\ UNCHANGED <<file, stack, lock, newest, stray, boots, sweep, now, restarts>>
      /\ lock' \in [Agents -> Procs \cup {Nobody}]
      /\ stack' \in [Agents -> [boot : 0 .. MaxBoots, up : BOOLEAN]]
      /\ sweep' \in [on : BOOLEAN, at : Nat, items : SUBSET (Agents \X Boot)]
      /\ boots' \in [Agents -> 0 .. MaxBoots]
  BY DEF PortKnown, Others, SandboxInv, TypeOK
<1>9. \A x \in Agents, y \in Boot :
        mem'.obj[x][y].status = "warm" => mem.obj[x][y].status = "warm" \/ lock[x] = c
  BY <1>6
<1>10. /\ \A x \in Agents : lock[x] # Nobody => lock'[x] = lock[x]
       /\ \A x \in Agents : stack'[x].boot = stack[x].boot \/ lock[x] = c
       /\ lock'[p.agent] = c /\ p.pc \notin {"check", "write"}
  BY <1>1, <1>3, <1>8
<1>11. /\ mem' \in Memory /\ UNCHANGED <<file, newest, stray, now, restarts>>
       /\ lock' \in [Agents -> Procs \cup {Nobody}]
       /\ stack' \in [Agents -> [boot : 0 .. MaxBoots, up : BOOLEAN]]
       /\ sweep' \in [on : BOOLEAN, at : Nat, items : SUBSET (Agents \X Boot)]
       /\ boots' \in [Agents -> 0 .. MaxBoots]
       /\ p \in Proc /\ proc' = [proc EXCEPT ![c] = p]
  BY <1>2, <1>3, <1>6, <1>8
<1> QED
  BY <1>5, <1>7, <1>9, <1>10, <1>11, GoKeepsInv

LEMMA HealthOKKeepsInv ==
    ASSUME SandboxInv, NEW c \in Procs, HealthOK(c)
    PROVE  SandboxInv'
<1> DEFINE o == [Held(c) EXCEPT !.status = "warm", !.used = now]
           m == SetField(AgentOf(c), proc[c].boot, o)
           p == proc[c]
<1>1. /\ p \in Proc /\ p.agent = AgentOf(c) /\ AgentOf(c) \in Agents /\ mem \in Memory
      /\ c # Nobody /\ p.boot \in Boot /\ Held(c) \in Object /\ lock[AgentOf(c)] = c
  BY PlaceFacts DEF HealthOK, At, AgentOf
<1>2. SetAndPersist(c, p, m)
  BY DEF HealthOK
<1>3. o \in Object
  BY <1>1 DEF Object, SandboxInv, TypeOK
<1> HIDE DEF o
<1>4. /\ m \in Memory
      /\ \A x \in Agents, y \in Boot :
           m.obj[x][y].status = "warm" => mem.obj[x][y].status = "warm" \/ lock[x] = c
  BY <1>1, <1>3, SetFieldType
<1> HIDE DEF m
<1>5. stack[AgentOf(c)].boot = p.boot
  BY DEF HealthOK, Alive
<1>6. faults' \in 0 .. MaxFaults /\ calls' \in 0 .. MaxCalls
  BY FaultType DEF HealthOK, Others, Healthy
<1>7. /\ UNCHANGED <<file, stack, lock, boots, stray, sweep, now, restarts>>
      /\ stack' \in [Agents -> [boot : 0 .. MaxBoots, up : BOOLEAN]]
      /\ lock' \in [Agents -> Procs \cup {Nobody}]
  BY DEF HealthOK, Others, SandboxInv, TypeOK
<1> HIDE DEF p
<1> QED
  BY <1>1, <1>2, <1>4, <1>5, <1>6, <1>7, PersistKeepsInv

LEMMA BootFailsKeepsInv ==
    ASSUME SandboxInv, NEW c \in Procs, BootFails(c)
    PROVE  SandboxInv'
<1> DEFINE o == [Held(c) EXCEPT !.status = "error"]
           m == SetField(AgentOf(c), proc[c].boot, o)
           p == proc[c]
<1>1. /\ p \in Proc /\ p.agent = AgentOf(c) /\ AgentOf(c) \in Agents /\ mem \in Memory
      /\ c # Nobody /\ p.boot \in Boot /\ Held(c) \in Object /\ lock[AgentOf(c)] = c
      /\ \A a \in Agents : stack[a] \in [boot : 0 .. MaxBoots, up : BOOLEAN]
  BY PlaceFacts DEF BootFails, At, AgentOf
<1>2. SetAndPersist(c, p, m)
  BY DEF BootFails
<1>3. o \in Object /\ o.status = "error"
  BY <1>1 DEF Object
<1> HIDE DEF o
<1>4. /\ m \in Memory
      /\ \A x \in Agents, y \in Boot :
           m.obj[x][y] = IF x = AgentOf(c) /\ y = p.boot THEN o ELSE mem.obj[x][y]
  BY <1>1, <1>3, SetFieldType
<1> HIDE DEF m
<1>5. /\ m.obj[p.agent][p.boot].status # "warm"
      /\ \A x \in Agents, y \in Boot :
           m.obj[x][y].status = "warm" => mem.obj[x][y].status = "warm" \/ lock[x] = c
  BY <1>1, <1>3, <1>4
<1>6. faults' \in 0 .. MaxFaults /\ calls' \in 0 .. MaxCalls
  BY FaultType DEF BootFails, Others
<1>7. /\ stack' \in [Agents -> [boot : 0 .. MaxBoots, up : BOOLEAN]]
      /\ \A a \in Agents : stack'[a].boot = stack[a].boot \/ lock[a] = c
  <2>1. [boot |-> p.boot, up |-> TRUE] \in [boot : 0 .. MaxBoots, up : BOOLEAN]
    BY <1>1 DEF Boot
  <2>2. \E s \in [boot : 0 .. MaxBoots, up : BOOLEAN] :
          stack' = stack \/ stack' = [stack EXCEPT ![AgentOf(c)] = s]
    BY <1>1, <2>1 DEF BootFails
  <2> HIDE DEF p
  <2> QED
    BY <1>1, <2>2 DEF SandboxInv, TypeOK
<1>8. /\ UNCHANGED <<file, lock, boots, stray, sweep, now, restarts>>
      /\ lock' \in [Agents -> Procs \cup {Nobody}]
  BY DEF BootFails, Others, SandboxInv, TypeOK
<1> HIDE DEF p
<1> QED
  BY <1>1, <1>2, <1>4, <1>5, <1>6, <1>7, <1>8, PersistKeepsInv

-----------------------------------------------------------------------------
(* _persist *)

\* Between the check and the write nothing is decided but who writes.
LEMMA PersistCheckKeepsInv ==
    ASSUME SandboxInv, NEW c \in Procs, PersistCheck(c)
    PROVE  SandboxInv'
<1>1. CASE newest = c /\ Goto(c, "write") /\ UNCHANGED lock
  <2> DEFINE p == [proc[c] EXCEPT !.pc = "write"]
  <2>1. /\ proc[c] \in Proc /\ proc[c].pc = "check"
        /\ Placed(proc[c]) /\ (Locks(proc[c]) => lock[AgentOf(c)] = c)
    BY PlaceFacts DEF PersistCheck, At, SandboxInv, LockInv
  <2>2. proc' = [proc EXCEPT ![c] = p]
    BY <1>1, <2>1 DEF Goto, SandboxInv, TypeOK, Proc
  <2>3. /\ p \in Proc /\ p.pc = "write" /\ p.op = proc[c].op
        /\ p.agent = AgentOf(c) /\ p.boot = proc[c].boot
    BY <2>1 DEF Proc, AgentOf
  <2> HIDE DEF p
  <2>4. Placed(p) /\ (Locks(p) => lock'[p.agent] = c)
    BY <1>1, <2>1, <2>3 DEF Placed, Locks
  <2>5. /\ proc' \in [Procs -> Proc] /\ proc'[c] = p
        /\ \A d \in Procs : d # c => proc'[d] = proc[d]
    BY <2>2, <2>3 DEF SandboxInv, TypeOK
  <2>6. UNCHANGED <<mem, file, stack, lock, newest, stray, boots, faults, sweep, now, calls, restarts>>
    BY <1>1 DEF PersistCheck, Others
  <2>7. TypeOK'
    BY <2>5, <2>6 DEF SandboxInv, TypeOK, Procs
  <2>8. LockInv'
    BY <2>4, <2>5, <2>6, MoveKeepsLocks DEF SandboxInv
  <2>9. WarmHandleIsReal'
    <3>1. p.op = "acquire" /\ mem'.obj[p.agent][p.boot].status = "warm"
            => stack'[p.agent].boot = p.boot
      BY <2>1, <2>3, <2>6 DEF SandboxInv, WarmHandleIsReal, Held, AgentOf
    <3> QED
      BY <2>5, <2>6, <3>1, MoveKeepsWarm DEF SandboxInv
  <2> QED
    BY <2>7, <2>8, <2>9 DEF SandboxInv
<1>2. CASE newest # c /\ Release(c) /\ Exit(c)
  BY <1>2, ExitKeepsInv DEF PersistCheck, Others, SandboxInv, TypeOK
<1> QED
  BY <1>1, <1>2 DEF PersistCheck

LEMMA PersistWriteKeepsInv ==
    ASSUME SandboxInv, NEW c \in Procs, PersistWrite(c)
    PROVE  SandboxInv'
<1>1. proc[c].snap \in Memory
  BY DEF SandboxInv, TypeOK, Proc
<1> QED
  BY <1>1, ExitKeepsInv DEF PersistWrite, Others, SandboxInv, TypeOK

-----------------------------------------------------------------------------
(* teardown *)

LEMMA EnterTeardownKeepsInv ==
    ASSUME SandboxInv, NEW c \in Procs, EnterTeardown(c)
    PROVE  SandboxInv'
<1> DEFINE a == AgentOf(c)
           b == Entry(a)
<1>1. /\ proc[c] \in Proc /\ a \in Agents /\ proc[c].op = "teardown" /\ lock[a] = Nobody
      /\ mem \in Memory /\ proc[c].agent = a /\ c # Nobody
  BY PlaceFacts DEF EnterTeardown, TakesLock, AgentOf
<1>2. b \in 0 .. MaxBoots /\ (b # 0 => b \in Boot)
  BY <1>1, EntryType
<1>3. UNCHANGED <<file, stack, stray, boots, faults, sweep, now, calls, restarts>>
  BY DEF EnterTeardown, Others
<1>4. /\ stack' \in [Agents -> [boot : 0 .. MaxBoots, up : BOOLEAN]]
      /\ faults' \in 0 .. MaxFaults /\ calls' \in 0 .. MaxCalls
      /\ file' \in Memory /\ boots' \in [Agents -> 0 .. MaxBoots]
      /\ sweep' \in [on : BOOLEAN, at : Nat, items : SUBSET (Agents \X Boot)]
  BY <1>3 DEF SandboxInv, TypeOK
<1>5. CASE b = 0 /\ Exit(c) /\ UNCHANGED <<lock, mem, newest>>
  BY <1>3, <1>4, <1>5, ExitKeepsInv
<1>6. ASSUME lock' = [lock EXCEPT ![a] = c]
      PROVE  /\ lock' \in [Agents -> Procs \cup {Nobody}] /\ lock'[a] = c
             /\ \A x \in Agents : lock[x] # Nobody => lock'[x] = lock[x]
  BY <1>1, <1>6 DEF SandboxInv, TypeOK
<1>7. CASE /\ b # 0 /\ lock' = [lock EXCEPT ![a] = c]
           /\ proc' = [proc EXCEPT ![c].pc = "down", ![c].boot = b]
           /\ UNCHANGED <<mem, newest>>
  <2> DEFINE p == [proc[c] EXCEPT !.pc = "down", !.boot = b]
  <2>1. proc' = [proc EXCEPT ![c] = p]
    BY <1>1, <1>7 DEF SandboxInv, TypeOK, Proc
  <2>2. p \in Proc /\ p.pc = "down" /\ p.op = "teardown" /\ p.agent = a /\ p.boot = b
    BY <1>1, <1>2 DEF Proc
  <2> HIDE DEF p, a, b
  <2>3. Placed(p)
    BY <1>2, <1>7, <2>2 DEF Placed
  <2>4. /\ lock' \in [Agents -> Procs \cup {Nobody}] /\ lock'[p.agent] = c
        /\ \A x \in Agents : lock[x] # Nobody => lock'[x] = lock[x]
    BY <1>6, <1>7, <2>2
  <2>5. UNCHANGED <<mem, newest>> /\ mem' \in Memory
    BY <1>1, <1>7
  <2> QED
    BY <1>1, <1>3, <1>4, <2>1, <2>2, <2>3, <2>4, <2>5, GoKeepsInv
<1>8. CASE /\ b # 0 /\ lock' = [lock EXCEPT ![a] = c]
           /\ SetAndPersist(c, [proc[c] EXCEPT !.boot = b], Evicted(a))
  <2> DEFINE p == [proc[c] EXCEPT !.boot = b]
  <2>1. p \in Proc /\ p.op = "teardown" /\ p.agent = a /\ p.boot = b /\ b \in Boot
    BY <1>1, <1>2, <1>8 DEF Proc
  <2>2. Evicted(a) \in Memory /\ Evicted(a).obj = mem.obj
    BY <1>1, EvictedType
  <2>3. SetAndPersist(c, p, Evicted(a))
    BY <1>8
  <2> HIDE DEF p, a, b
  <2> QED
    BY <1>1, <1>3, <1>4, <1>6, <1>8, <2>1, <2>2, <2>3, PersistKeepsInv
<1> QED
  BY <1>5, <1>7, <1>8 DEF EnterTeardown

LEMMA DownKeepsInv ==
    ASSUME SandboxInv, NEW c \in Procs, Down(c)
    PROVE  SandboxInv'
<1>1. /\ proc[c] \in Proc /\ proc[c].agent = AgentOf(c) /\ AgentOf(c) \in Agents
      /\ mem \in Memory /\ proc[c].op = "teardown" /\ proc[c].boot \in Boot
      /\ lock[AgentOf(c)] = c /\ c # Nobody
  BY PlaceFacts DEF Down, At, AgentOf
<1>2. Evicted(AgentOf(c)) \in Memory /\ Evicted(AgentOf(c)).obj = mem.obj
  BY <1>1, EvictedType
<1>3. SetAndPersist(c, proc[c], Evicted(AgentOf(c)))
  BY DEF Down
<1>4. /\ UNCHANGED <<file, lock, stray, boots, sweep, now, calls, restarts>>
      /\ lock' \in [Agents -> Procs \cup {Nobody}]
  BY DEF Down, Others, SandboxInv, TypeOK
<1>5. faults' \in 0 .. MaxFaults /\ calls' \in 0 .. MaxCalls
  BY FaultType DEF Down, Others
<1>6. /\ stack' \in [Agents -> [boot : 0 .. MaxBoots, up : BOOLEAN]]
      /\ \A a \in Agents : stack'[a].boot = stack[a].boot \/ lock[a] = c
  <2>1. NoStack \in [boot : 0 .. MaxBoots, up : BOOLEAN]
    BY SandboxAssumption DEF NoStack
  <2>2. stack' = stack \/ stack' = [stack EXCEPT ![AgentOf(c)] = NoStack]
    BY DEF Down
  <2> QED
    BY <1>1, <2>1, <2>2 DEF SandboxInv, TypeOK
<1> QED
  BY <1>1, <1>2, <1>3, <1>4, <1>5, <1>6, PersistKeepsInv

LEMMA DownFailsKeepsInv ==
    ASSUME SandboxInv, NEW c \in Procs, DownFails(c)
    PROVE  SandboxInv'
<1>1. AgentOf(c) \in Agents /\ lock[AgentOf(c)] = c
      /\ \A a \in Agents : stack[a] \in [boot : 0 .. MaxBoots, up : BOOLEAN]
  BY PlaceFacts DEF DownFails, At
<1>2. NoStack \in [boot : 0 .. MaxBoots, up : BOOLEAN]
  BY SandboxAssumption DEF NoStack
<1>3. PICK s \in {stack[AgentOf(c)], NoStack} : stack' = [stack EXCEPT ![AgentOf(c)] = s]
  BY DEF DownFails
<1>4. /\ stack' \in [Agents -> [boot : 0 .. MaxBoots, up : BOOLEAN]]
      /\ \A a \in Agents : stack'[a].boot = stack[a].boot \/ lock[a] = c
  BY <1>1, <1>2, <1>3 DEF SandboxInv, TypeOK
<1>5. faults' \in 0 .. MaxFaults
  BY FaultType DEF DownFails
<1> QED
  BY <1>4, <1>5, ExitKeepsInv DEF DownFails, Others, SandboxInv, TypeOK

-----------------------------------------------------------------------------
(* status, note_activity and the reaper *)

LEMMA LookKeepsInv ==
    ASSUME SandboxInv, NEW c \in Procs, NEW a \in Agents, Look(c, a)
    PROVE  SandboxInv'
<1> DEFINE b == Entry(a)
           p == [Idle EXCEPT !.pc = "look", !.op = "status", !.agent = a, !.boot = b]
<1>1. b \in Boot /\ b \in 0 .. MaxBoots
  BY EntryType DEF Look, SandboxInv, TypeOK
<1>2. proc' = [proc EXCEPT ![c] = p] /\ calls' \in 0 .. MaxCalls
  BY FaultType DEF Look
<1> HIDE DEF b
<1>3. p \in Proc /\ p.pc = "look" /\ p.op = "status" /\ p.boot = b
  BY <1>1, IdleType DEF Proc
<1> HIDE DEF p
<1>4. Placed(p) /\ ~Locks(p)
  BY <1>1, <1>3 DEF Placed, Locks
<1> QED
  BY <1>2, <1>3, <1>4, GoKeepsInv DEF Look, SandboxInv, TypeOK

LEMMA ReconcileKeepsInv ==
    ASSUME SandboxInv, NEW c \in Procs, Reconcile(c)
    PROVE  SandboxInv'
<1> DEFINE o == [Held(c) EXCEPT !.status = "cold"]
           m == SetField(AgentOf(c), proc[c].boot, o)
<1>1. /\ proc[c] \in Proc /\ proc[c].agent = AgentOf(c) /\ AgentOf(c) \in Agents
      /\ mem \in Memory /\ proc[c].op = "status" /\ proc[c].boot \in Boot
      /\ Held(c) \in Object /\ c # Nobody
  BY PlaceFacts DEF Reconcile, At, AgentOf
<1>2. /\ UNCHANGED <<file, stack, lock, stray, boots, sweep, now, calls, restarts>>
      /\ lock' \in [Agents -> Procs \cup {Nobody}]
      /\ stack' \in [Agents -> [boot : 0 .. MaxBoots, up : BOOLEAN]]
  BY DEF Reconcile, Others, SandboxInv, TypeOK
<1>3. faults' \in 0 .. MaxFaults /\ calls' \in 0 .. MaxCalls
  BY FaultType DEF Reconcile, Others
<1>4. CASE Exit(c) /\ UNCHANGED <<mem, newest>>
  BY <1>2, <1>3, <1>4, ExitKeepsInv DEF SandboxInv, TypeOK
<1>5. CASE SetAndPersist(c, proc[c], m)
  <2>1. o \in Object /\ o.status = "cold"
    BY <1>1 DEF Object
  <2> HIDE DEF o
  <2>2. /\ m \in Memory
        /\ \A x \in Agents, y \in Boot :
             m.obj[x][y].status = "warm" => mem.obj[x][y].status = "warm" \/ lock[x] = c
    BY <1>1, <2>1, SetFieldType
  <2> HIDE DEF m
  <2> QED
    BY <1>1, <1>2, <1>3, <1>5, <2>2, PersistKeepsInv
<1> QED
  BY <1>4, <1>5 DEF Reconcile

LEMMA NoteActivityKeepsInv ==
    ASSUME SandboxInv, NEW c \in Procs, NEW a \in Agents, note_activity(c, a)
    PROVE  SandboxInv'
<1> DEFINE b == Entry(a)
           o == [mem.obj[a][b] EXCEPT !.used = now]
           m == SetField(a, b, o)
           p == [Idle EXCEPT !.op = "note", !.agent = a, !.boot = b]
<1>1. b \in Boot /\ b \in 0 .. MaxBoots /\ mem \in Memory
  BY EntryType DEF note_activity, SandboxInv, TypeOK
<1>2. SetAndPersist(c, p, m) /\ calls' \in 0 .. MaxCalls
  BY FaultType DEF note_activity
<1> HIDE DEF b
<1>3. p \in Proc /\ p.op = "note" /\ p.boot = b
  BY <1>1, IdleType DEF Proc
<1> HIDE DEF p
<1>4. o \in Object /\ o.status = mem.obj[a][b].status
  <2>1. mem.obj[a][b] \in Object /\ now \in 0 .. MaxTime
    BY <1>1 DEF Memory, SandboxInv, TypeOK
  <2> QED
    BY <2>1 DEF Object
<1> HIDE DEF o
<1>5. /\ m \in Memory
      /\ \A x \in Agents, y \in Boot :
           m.obj[x][y].status = "warm" => mem.obj[x][y].status = "warm" \/ lock[x] = c
  BY <1>1, <1>4, SetFieldType
<1> HIDE DEF m
<1>6. /\ UNCHANGED <<file, stack, lock, stray, boots, faults, sweep, now, restarts>>
      /\ lock' \in [Agents -> Procs \cup {Nobody}] /\ faults' \in 0 .. MaxFaults
      /\ stack' \in [Agents -> [boot : 0 .. MaxBoots, up : BOOLEAN]]
  BY DEF note_activity, SandboxInv, TypeOK
<1> QED
  BY <1>1, <1>2, <1>3, <1>5, <1>6, PersistKeepsInv

LEMMA ReapKeepsInv ==
    ASSUME SandboxInv, Reap
    PROVE  SandboxInv'
<1>1. PICK i \in Due :
        /\ sweep' = [sweep EXCEPT !.items = @ \ {i}]
        /\ proc' = [proc EXCEPT ![Reaper] = [Idle EXCEPT !.pc = "lock", !.op = "teardown",
                                                        !.agent = i[1]]]
  BY DEF Reap
<1>2. i[1] \in Agents /\ Reaper \in Procs
  BY DEF Due, SandboxInv, TypeOK, Procs
<1> DEFINE p == [Idle EXCEPT !.pc = "lock", !.op = "teardown", !.agent = i[1]]
<1>3. p \in Proc /\ Placed(p) /\ ~Locks(p) /\ p.pc = "lock"
  BY <1>2, OffTheLock
<1>4. proc' = [proc EXCEPT ![Reaper] = p]
  BY <1>1
<1> HIDE DEF p
<1>5. sweep' \in [on : BOOLEAN, at : Nat, items : SUBSET (Agents \X Boot)]
  BY <1>1 DEF SandboxInv, TypeOK
<1> QED
  BY <1>2, <1>3, <1>4, <1>5, GoKeepsInv DEF Reap, SandboxInv, TypeOK

\* Looking through the dictionary touches no coroutine, object or stack.
LEMMA SweepKeepsInv ==
    ASSUME SandboxInv, BeginSweep \/ EndSweep
    PROVE  SandboxInv'
<1>1. sweep' \in [on : BOOLEAN, at : Nat, items : SUBSET (Agents \X Boot)]
  <2>1. CASE BeginSweep
    <3>1. \A x \in Agents : Entry(x) # 0 => Entry(x) \in Boot
      BY EntryType
    <3>2. now \in Nat
      BY SandboxAssumption DEF SandboxInv, TypeOK
    <3>3. {<<a, Entry(a)>> : a \in {x \in Agents : Entry(x) # 0}} \in SUBSET (Agents \X Boot)
      BY <3>1
    <3> QED
      BY <2>1, <3>2, <3>3 DEF BeginSweep
  <2>2. CASE EndSweep
    BY <2>2 DEF EndSweep
  <2> QED
    BY <2>1, <2>2
<1>2. UNCHANGED <<mem, file, stack, lock, proc, newest, stray, boots, now, calls, faults, restarts>>
  BY DEF BeginSweep, EndSweep
<1>3. TypeOK'
  BY <1>1, <1>2 DEF SandboxInv, TypeOK
<1>4. LockInv' /\ WarmHandleIsReal'
  BY <1>2 DEF SandboxInv, LockInv, WarmHandleIsReal, AgentOf, Held
<1> QED
  BY <1>3, <1>4 DEF SandboxInv

-----------------------------------------------------------------------------
(* The environment, and the theorems *)

\* A container that exits stays the one that was started.
LEMMA DiesKeepsInv ==
    ASSUME SandboxInv, NEW a \in Agents, Dies(a)
    PROVE  SandboxInv'
<1>1. stack[a] \in [boot : 0 .. MaxBoots, up : BOOLEAN]
  BY DEF SandboxInv, TypeOK
<1>2. /\ stack' \in [Agents -> [boot : 0 .. MaxBoots, up : BOOLEAN]]
      /\ \A x \in Agents : stack'[x].boot = stack[x].boot
  BY <1>1 DEF Dies, SandboxInv, TypeOK
<1>3. faults' \in 0 .. MaxFaults
  BY FaultType DEF Dies
<1>4. UNCHANGED <<mem, file, lock, proc, sweep, newest, stray, boots, now, calls, restarts>>
  BY DEF Dies, Others
<1>5. TypeOK'
  BY <1>2, <1>3, <1>4 DEF SandboxInv, TypeOK
<1>6. LockInv'
  BY <1>4 DEF SandboxInv, LockInv, AgentOf
<1>7. WarmHandleIsReal'
  <2>1. \A c \in Procs : AgentOf(c) \in Agents
    BY PlaceFacts
  <2> QED
    BY <1>2, <1>4, <2>1 DEF SandboxInv, WarmHandleIsReal, AgentOf, Held
<1> QED
  BY <1>5, <1>6, <1>7 DEF SandboxInv

\* A process that comes up has no coroutine under way.
LEMMA RestartKeepsInv ==
    ASSUME SandboxInv, Restart
    PROVE  SandboxInv'
<1>1. \A c \in Procs : proc'[c] = Idle
  BY DEF Restart
<1>2. stack' \in [Agents -> [boot : 0 .. MaxBoots, up : BOOLEAN]]
  <2>1. PICK done \in SUBSET {c \in Procs : proc[c].pc \in {"clean", "up", "down"}} :
          stack' = [a \in Agents |->
                      IF \E c \in done : AgentOf(c) = a
                      THEN LET c == CHOOSE x \in done : AgentOf(x) = a
                           IN  Effect(proc[c].pc, a, proc[c].boot)
                      ELSE stack[a]]
    BY DEF Restart
  <2>2. \A c \in Procs, a \in Agents :
          Effect(proc[c].pc, a, proc[c].boot) \in [boot : 0 .. MaxBoots, up : BOOLEAN]
    <3>1. \A c \in Procs : proc[c].boot \in 0 .. MaxBoots
      BY DEF SandboxInv, TypeOK, Proc
    <3> QED
      BY <3>1, SandboxAssumption DEF Effect, NoStack
  <2>3. ASSUME NEW a \in Agents, \E c \in done : AgentOf(c) = a
        PROVE  (CHOOSE x \in done : AgentOf(x) = a) \in Procs
    BY <2>3
  <2>4. \A a \in Agents : stack[a] \in [boot : 0 .. MaxBoots, up : BOOLEAN]
    BY DEF SandboxInv, TypeOK
  <2> QED
    BY <2>1, <2>2, <2>3, <2>4
<1>3. TypeOK'
  <2>1. /\ mem' \in Memory /\ file' \in Memory
        /\ lock' \in [Agents -> Procs \cup {Nobody}] /\ newest' \in Procs \cup {Nobody}
        /\ stray' \subseteq Agents \X [boot : 0 .. MaxBoots, up : BOOLEAN]
        /\ UNCHANGED <<boots, now, calls, faults>>
    BY DEF Restart, SandboxInv, TypeOK
  <2>2. proc' \in [Procs -> Proc]
    BY IdleType DEF Restart
  <2>3. sweep' \in [on : BOOLEAN, at : Nat, items : SUBSET (Agents \X Boot)]
    BY DEF Restart
  <2>4. restarts' \in 0 .. MaxRestarts
    BY SandboxAssumption DEF Restart, SandboxInv, TypeOK
  <2> QED
    BY <1>2, <2>1, <2>2, <2>3, <2>4 DEF SandboxInv, TypeOK, Procs
<1>4. LockInv' /\ WarmHandleIsReal'
  BY <1>1, OffTheLock DEF LockInv, WarmHandleIsReal, Procs
<1> QED
  BY <1>3, <1>4 DEF SandboxInv

LEMMA StillKeepsInv ==
    ASSUME SandboxInv, Tick \/ UNCHANGED vars
    PROVE  SandboxInv'
<1>1. /\ now' \in 0 .. MaxTime
      /\ UNCHANGED <<mem, file, stack, lock, proc, sweep, newest, stray, boots, calls, faults,
                     restarts>>
  BY SandboxAssumption DEF Tick, vars, SandboxInv, TypeOK
<1>2. TypeOK'
  BY <1>1 DEF SandboxInv, TypeOK
<1>3. LockInv' /\ WarmHandleIsReal'
  BY <1>1 DEF SandboxInv, LockInv, WarmHandleIsReal, AgentOf, Held
<1> QED
  BY <1>2, <1>3 DEF SandboxInv

LEMMA SandboxStep ==
    ASSUME SandboxInv, [Next]_vars
    PROVE  SandboxInv'
<1>1. ASSUME NEW c \in Callers, Request(c) PROVE SandboxInv'
  <2>1. c \in Procs
    BY DEF Procs
  <2> QED
    BY <1>1, <2>1, CallKeepsInv, LookKeepsInv, NoteActivityKeepsInv DEF Request
<1>2. ASSUME NEW c \in Procs, Step(c) PROVE SandboxInv'
  BY <1>2, EnterAcquireKeepsInv, ReuseKeepsInv, GoneKeepsInv, ProvisionKeepsInv,
     CleanFailsKeepsInv, ComposeUpKeepsInv, PortKnownKeepsInv, HealthOKKeepsInv,
     BootFailsKeepsInv, PersistCheckKeepsInv, PersistWriteKeepsInv, EnterTeardownKeepsInv,
     DownKeepsInv, DownFailsKeepsInv, ReconcileKeepsInv DEF Step
<1> QED
  BY <1>1, <1>2, SweepKeepsInv, ReapKeepsInv, DiesKeepsInv, RestartKeepsInv, StillKeepsInv
     DEF Next

LEMMA SandboxInit == Init => SandboxInv
<1> SUFFICES ASSUME Init PROVE SandboxInv
  OBVIOUS
<1>1. TypeOK
  <2>1. NoStack \in [boot : 0 .. MaxBoots, up : BOOLEAN]
    BY SandboxAssumption DEF NoStack
  <2> QED
    BY <2>1, SandboxAssumption, BlankType, IdleType DEF Init, TypeOK
<1>2. LockInv /\ WarmHandleIsReal
  BY OffTheLock DEF Init, LockInv, WarmHandleIsReal
<1> QED
  BY <1>1, <1>2 DEF SandboxInv

\* The dictionary, the checkpoint, the stacks, the locks and the coroutines
\* keep their types.
THEOREM TypeCorrect == Spec => []TypeOK
BY SandboxInit, SandboxStep, PTL DEF Spec, SandboxInv

\* From the moment acquire has seen its sandbox run until its caller has the
\* handle the stack is the one the handle names, whatever other callers, the
\* reaper, failing docker commands and restarts do in between.
THEOREM WarmHandlesAreReal == Spec => []WarmHandleIsReal
BY SandboxInit, SandboxStep, PTL DEF Spec, SandboxInv
=============================================================================
