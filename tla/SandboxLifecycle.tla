-------------------------- MODULE SandboxLifecycle --------------------------
(***************************************************************************)
(* The agent sandboxes (agent_platform/sandbox): one docker compose stack  *)
(* per agent, brought up by acquire, taken down by teardown and by the     *)
(* idle reaper, and remembered in a dictionary that is checkpointed to a   *)
(* file.                                                                   *)
(*                                                                         *)
(* acquire and teardown hold the agent's asyncio.Lock; status and          *)
(* note_activity do not.  Every await is a place where the others run: the *)
(* lock itself, each docker command, the health poll, and the file write,  *)
(* whose snapshot is taken before the await and written after it.          *)
(*                                                                         *)
(* A SandboxState object and the container it boots share a number, boot:  *)
(* run_container is called once per object.  Objects that left the         *)
(* dictionary stay readable for those who still refer to them.             *)
(***************************************************************************)
EXTENDS Naturals, FiniteSets

CONSTANTS
  Agents, Callers,
  Reaper,      \* the idle reaper's loop
  Nobody,      \* holder of a free lock
  Threshold,   \* idle_teardown_seconds
  Faults,      \* kinds of docker failures that may happen
  MaxBoots,    \* bound: stacks started per agent
  MaxTime,     \* bound on the clock
  MaxCalls,    \* bound: calls of the routes
  MaxFaults, MaxRestarts

Procs == Callers \cup {Reaper}

ASSUME SandboxAssumption ==
  /\ Agents # {} /\ Reaper \notin Callers /\ Nobody \notin Procs
  /\ Faults \subseteq {"up", "down", "inspect", "raise", "cancel"}
  /\ {Threshold, MaxBoots, MaxTime, MaxCalls, MaxFaults, MaxRestarts} \subseteq Nat

VARIABLES
  mem,     \* the dictionary, and every SandboxState object in memory
  file,    \* the checkpoint
  stack,   \* per agent, the compose project docker has
  lock,    \* per agent, who holds its asyncio.Lock
  proc,    \* the coroutines
  sweep,   \* reap_once: when it began and which objects it has yet to look at
  newest,  \* whose snapshot carries the last _persist_seq
  stray,   \* docker commands whose coroutine was cancelled, still running
  boots,   \* per agent, how many objects were made
  now, calls, faults, restarts

vars == <<mem, file, stack, lock, proc, sweep, newest, stray, boots,
          now, calls, faults, restarts>>

Boot == 1 .. MaxBoots
Object == [status : {"unborn", "warming", "warm", "error", "cold"},
           cid : BOOLEAN, used : 0 .. MaxTime]
Memory == [entry : [Agents -> 0 .. MaxBoots], obj : [Agents -> [Boot -> Object]]]
Unborn == [status |-> "unborn", cid |-> FALSE, used |-> 0]
Blank == [entry |-> [a \in Agents |-> 0], obj |-> [a \in Agents |-> [b \in Boot |-> Unborn]]]
NoStack == [boot |-> 0, up |-> FALSE]
Idle == [pc |-> "idle", op |-> "none", agent |-> CHOOSE a \in Agents : TRUE, boot |-> 0,
         snap |-> Blank]

Init ==
  /\ mem = Blank /\ file = Blank
  /\ stack = [a \in Agents |-> NoStack]
  /\ lock = [a \in Agents |-> Nobody]
  /\ proc = [c \in Procs |-> Idle]
  /\ sweep = [on |-> FALSE, at |-> 0, items |-> {}]
  /\ newest = Nobody /\ stray = {} /\ boots = [a \in Agents |-> 0]
  /\ now = 0 /\ calls = 0 /\ faults = 0 /\ restarts = 0

AgentOf(c) == proc[c].agent
At(c, pc) == proc[c].pc = pc
Entry(a) == mem.entry[a]
\* The object the coroutine got hold of.
Held(c) == mem.obj[AgentOf(c)][proc[c].boot]
Alive(a, b) == stack[a] = [boot |-> b, up |-> TRUE]

Goto(c, pc) == proc' = [proc EXCEPT ![c].pc = pc]
Release(c) == lock' = [a \in Agents |-> IF lock[a] = c THEN Nobody ELSE lock[a]]
Exit(c) == proc' = [proc EXCEPT ![c] = Idle]
Fault(kind) == kind \in Faults /\ faults < MaxFaults /\ faults' = faults + 1
Healthy == UNCHANGED faults

\* What a checkpoint of m holds: the objects in the dictionary, no others.
Snapshot(m) ==
  [m EXCEPT !.obj = [a \in Agents |-> [b \in Boot |->
                       IF m.entry[a] = b THEN m.obj[a][b] ELSE Unborn]]]

\* The memory becomes m and _persist takes its snapshot, no await in between.
SetAndPersist(c, p, m) ==
  /\ mem' = m
  /\ newest' = c
  /\ proc' = [proc EXCEPT ![c] = [p EXCEPT !.pc = "check", !.snap = Snapshot(m)]]

SetField(a, b, o) == [mem EXCEPT !.obj[a][b] = o]

Others == <<sweep, now, calls, restarts>>

-----------------------------------------------------------------------------
(* acquire *)

\* Bound: no acquire begins that could need a stack too many.
RoomToBoot(a) ==
  boots[a] + Cardinality({c \in Callers : proc[c].op = "acquire" /\ AgentOf(c) = a
                                             /\ proc[c].pc \in {"lock", "inspect", "clean"}})
    < MaxBoots

Call(c, op, a) ==
  /\ At(c, "idle") /\ calls < MaxCalls
  /\ op = "acquire" => RoomToBoot(a)
  /\ calls' = calls + 1
  /\ proc' = [proc EXCEPT ![c] = [Idle EXCEPT !.pc = "lock", !.op = op, !.agent = a]]
  /\ UNCHANGED <<mem, file, stack, lock, sweep, newest, stray, boots, now, faults, restarts>>

\* (mutant) The agent's lock is not taken.
TakesLock_NoLock(c, op) == At(c, "lock") /\ proc[c].op = op

TakesLock(c, op) ==
  /\ At(c, "lock") /\ proc[c].op = op
  /\ lock[AgentOf(c)] = Nobody

\* A warm object with a container is inspected; anything else is booted anew.
EnterAcquire(c) ==
  LET a == AgentOf(c)
      b == Entry(a)
      warm == b # 0 /\ mem.obj[a][b].status = "warm" /\ mem.obj[a][b].cid
  IN  /\ TakesLock(c, "acquire")
      /\ lock' = [lock EXCEPT ![a] = c]
      /\ proc' = [proc EXCEPT ![c].pc = IF warm THEN "inspect" ELSE "clean", ![c].boot = b]
      /\ UNCHANGED <<mem, file, stack, newest, stray, boots, faults, Others>>

\* The container runs; or docker inspect raised, and the cached handle is
\* returned on trust.
Reuse(c) ==
  /\ At(c, "inspect")
  /\ \E op \in {"acquire", "trust"} :
       /\ IF op = "trust" THEN Fault("raise") ELSE Alive(AgentOf(c), proc[c].boot) /\ Healthy
       /\ SetAndPersist(c, [proc[c] EXCEPT !.op = op],
                        SetField(AgentOf(c), proc[c].boot, [Held(c) EXCEPT !.used = now]))
  /\ UNCHANGED <<file, stack, lock, stray, boots, Others>>

\* The container is gone, or docker inspect exited with an error.
Gone(c) ==
  /\ At(c, "inspect")
  /\ (~Alive(AgentOf(c), proc[c].boot) /\ Healthy) \/ Fault("inspect")
  /\ Goto(c, "clean")
  /\ UNCHANGED <<mem, file, stack, lock, newest, stray, boots, Others>>

\* stop_container by project name removed whatever was there (or failed in a
\* way that is passed over); a new object goes into the dictionary, unsaved.
Provision(c) ==
  LET a == AgentOf(c)
      b == boots[a] + 1
  IN  /\ At(c, "clean") /\ b \in Boot
      /\ \/ stack' = [stack EXCEPT ![a] = NoStack] /\ Healthy
         \/ stack' = stack /\ Fault("down")
      /\ boots' = [boots EXCEPT ![a] = b]
      /\ mem' = [mem EXCEPT !.entry[a] = b,
                            !.obj[a][b] = [status |-> "warming", cid |-> FALSE, used |-> now]]
      /\ proc' = [proc EXCEPT ![c].pc = "up", ![c].boot = b]
      /\ UNCHANGED <<file, lock, newest, stray, Others>>

\* A DockerError from that cleanup, which may have removed part of the stack,
\* is the caller's; the dictionary keeps what it had.
CleanFails(c) ==
  /\ At(c, "clean") /\ Fault("down")
  /\ \E s \in {stack[AgentOf(c)], NoStack} : stack' = [stack EXCEPT ![AgentOf(c)] = s]
  /\ Release(c) /\ Exit(c)
  /\ UNCHANGED <<mem, file, newest, stray, boots, Others>>

\* docker compose up.
ComposeUp(c) ==
  /\ At(c, "up")
  /\ stack' = [stack EXCEPT ![AgentOf(c)] = [boot |-> proc[c].boot, up |-> TRUE]]
  /\ Goto(c, "port")
  /\ UNCHANGED <<mem, file, lock, newest, stray, boots, faults, Others>>

\* The container's id and its port are known, and only now is the id kept.
PortKnown(c) ==
  /\ At(c, "port")
  /\ mem' = SetField(AgentOf(c), proc[c].boot, [Held(c) EXCEPT !.cid = TRUE])
  /\ Goto(c, "health")
  /\ UNCHANGED <<file, stack, lock, newest, stray, boots, faults, Others>>

HealthOK(c) ==
  /\ At(c, "health") /\ Alive(AgentOf(c), proc[c].boot)
  /\ SetAndPersist(c, proc[c], SetField(AgentOf(c), proc[c].boot,
                                        [Held(c) EXCEPT !.status = "warm", !.used = now]))
  /\ UNCHANGED <<file, stack, lock, stray, boots, faults, Others>>

\* compose up fails (a timeout may leave the stack up), the container cannot
\* be inspected, or it never answers: the object is marked and kept.
BootFails(c) ==
  LET a == AgentOf(c)
  IN  /\ \/ At(c, "up") /\ Fault("up")
            /\ \E s \in {stack[a], [boot |-> proc[c].boot, up |-> TRUE]} :
                 stack' = [stack EXCEPT ![a] = s]
         \/ At(c, "port") /\ Fault("up") /\ UNCHANGED stack
         \/ /\ At(c, "health")
            /\ (~Alive(a, proc[c].boot) /\ Healthy) \/ Fault("up")
            /\ UNCHANGED stack
      /\ SetAndPersist(c, proc[c],
                       SetField(a, proc[c].boot, [Held(c) EXCEPT !.status = "error"]))
      /\ UNCHANGED <<file, lock, stray, boots, Others>>

-----------------------------------------------------------------------------
(* _persist, and the end of whoever called it *)

\* The write thread goes on only if no later snapshot was taken by now; the
\* lock, if the operation took it, goes with the return.
PersistCheck(c) ==
  /\ At(c, "check")
  /\ \/ newest = c /\ Goto(c, "write") /\ UNCHANGED lock
     \/ newest # c /\ Release(c) /\ Exit(c)
  /\ UNCHANGED <<mem, file, stack, newest, stray, boots, faults, Others>>

PersistWrite(c) ==
  /\ At(c, "write")
  /\ file' = proc[c].snap
  /\ Release(c) /\ Exit(c)
  /\ UNCHANGED <<mem, stack, newest, stray, boots, faults, Others>>

-----------------------------------------------------------------------------
(* teardown *)

Evicted(a) == [mem EXCEPT !.entry[a] = 0]

\* Nothing to do; an object without a container id is evicted at once; any
\* other is stopped first.
EnterTeardown(c) ==
  LET a == AgentOf(c)
      b == Entry(a)
  IN  /\ TakesLock(c, "teardown")
      /\ \/ b = 0 /\ Exit(c) /\ UNCHANGED <<lock, mem, newest>>
         \/ /\ b # 0 /\ mem.obj[a][b].cid
            /\ lock' = [lock EXCEPT ![a] = c]
            /\ proc' = [proc EXCEPT ![c].pc = "down", ![c].boot = b]
            /\ UNCHANGED <<mem, newest>>
         \/ /\ b # 0 /\ ~mem.obj[a][b].cid
            /\ lock' = [lock EXCEPT ![a] = c]
            /\ SetAndPersist(c, [proc[c] EXCEPT !.boot = b], Evicted(a))
      /\ UNCHANGED <<file, stack, stray, boots, faults, Others>>

\* docker compose down of the project the container is labelled with; for a
\* container docker does not know, or fails to inspect, of no project at all.
Down(c) ==
  LET a == AgentOf(c)
  IN  /\ At(c, "down")
      /\ \/ /\ stack[a].boot = proc[c].boot /\ Healthy
            /\ stack' = [stack EXCEPT ![a] = NoStack]
         \/ stack[a].boot # proc[c].boot /\ Healthy /\ UNCHANGED stack
         \/ Fault("inspect") /\ UNCHANGED stack
      /\ SetAndPersist(c, proc[c], Evicted(a))
      /\ UNCHANGED <<file, lock, stray, boots, Others>>

\* (mutant) The error leaves the lock held.
DownFails_KeepsLock(c) ==
  /\ At(c, "down") /\ Fault("down")
  /\ Exit(c)
  /\ UNCHANGED <<mem, file, stack, lock, newest, stray, boots, Others>>

\* A DockerError keeps the object for the next attempt.
DownFails(c) ==
  /\ At(c, "down") /\ Fault("down")
  /\ \E s \in {stack[AgentOf(c)], NoStack} : stack' = [stack EXCEPT ![AgentOf(c)] = s]
  /\ Release(c) /\ Exit(c)
  /\ UNCHANGED <<mem, file, newest, stray, boots, Others>>

-----------------------------------------------------------------------------
(* status and note_activity, without the lock *)

Look(c, a) ==
  /\ At(c, "idle") /\ calls < MaxCalls
  /\ Entry(a) # 0 /\ mem.obj[a][Entry(a)].status = "warm" /\ mem.obj[a][Entry(a)].cid
  /\ calls' = calls + 1
  /\ proc' = [proc EXCEPT ![c] = [Idle EXCEPT !.pc = "look", !.op = "status", !.agent = a,
                                             !.boot = Entry(a)]]
  /\ UNCHANGED <<mem, file, stack, lock, sweep, newest, stray, boots, now, faults, restarts>>

\* The object looked at is cold now, whatever is in the dictionary.
Reconcile(c) ==
  LET a == AgentOf(c)
      b == proc[c].boot
  IN  /\ At(c, "look")
      /\ \/ Alive(a, b) /\ Healthy /\ Exit(c) /\ UNCHANGED <<mem, newest>>
         \/ /\ (~Alive(a, b) /\ Healthy) \/ Fault("inspect")
            /\ SetAndPersist(c, proc[c], SetField(a, b, [Held(c) EXCEPT !.status = "cold"]))
      /\ UNCHANGED <<file, stack, lock, stray, boots, Others>>

note_activity(c, a) ==
  /\ At(c, "idle") /\ calls < MaxCalls /\ Entry(a) # 0
  /\ calls' = calls + 1
  /\ SetAndPersist(c, [Idle EXCEPT !.op = "note", !.agent = a, !.boot = Entry(a)],
                   SetField(a, Entry(a), [mem.obj[a][Entry(a)] EXCEPT !.used = now]))
  /\ UNCHANGED <<file, stack, lock, sweep, stray, boots, now, faults, restarts>>

-----------------------------------------------------------------------------
(* The idle reaper *)

BeginSweep ==
  /\ ~sweep.on /\ At(Reaper, "idle")
  /\ sweep' = [on |-> TRUE, at |-> now,
               items |-> {<<a, Entry(a)>> : a \in {x \in Agents : Entry(x) # 0}}]
  /\ UNCHANGED <<mem, file, stack, lock, proc, newest, stray, boots, now, calls, faults, restarts>>

\* The objects of the list that are warm and were idle when the sweep began;
\* their fields are read now.
Due == {i \in sweep.items : LET o == mem.obj[i[1]][i[2]]
                            IN  o.status = "warm" /\ o.used + Threshold < sweep.at}

\* teardown of the agent, whose lock is yet to be waited for.
Reap ==
  /\ sweep.on /\ At(Reaper, "idle")
  /\ \E i \in Due :
       /\ sweep' = [sweep EXCEPT !.items = @ \ {i}]
       /\ proc' = [proc EXCEPT ![Reaper] = [Idle EXCEPT !.pc = "lock", !.op = "teardown",
                                                       !.agent = i[1]]]
  /\ UNCHANGED <<mem, file, stack, lock, newest, stray, boots, now, calls, faults, restarts>>

EndSweep ==
  /\ sweep.on /\ At(Reaper, "idle") /\ Due = {}
  /\ sweep' = [on |-> FALSE, at |-> 0, items |-> {}]
  /\ UNCHANGED <<mem, file, stack, lock, proc, newest, stray, boots, now, calls, faults, restarts>>

-----------------------------------------------------------------------------
(* The environment *)

\* A container exits by itself.
Dies(a) ==
  /\ stack[a].up /\ "up" \in Faults /\ faults < MaxFaults /\ faults' = faults + 1
  /\ stack' = [stack EXCEPT ![a].up = FALSE]
  /\ UNCHANGED <<mem, file, lock, proc, newest, stray, boots, Others>>

Effect(pc, a, b) == IF pc = "up" THEN [boot |-> b, up |-> TRUE] ELSE NoStack

\* The coroutine is cancelled at a docker command (an activity's timeout): the
\* lock is freed, nothing is written, and the command is left running.
Cancel(c) ==
  /\ proc[c].pc \in {"clean", "up", "down"} /\ Fault("cancel")
  /\ stray' = stray \cup {<<AgentOf(c), Effect(proc[c].pc, AgentOf(c), proc[c].boot)>>}
  /\ Release(c) /\ Exit(c)
  /\ UNCHANGED <<mem, file, stack, newest, boots, Others>>

StrayEnds ==
  /\ \E s \in stray : stray' = stray \ {s} /\ stack' = [stack EXCEPT ![s[1]] = s[2]]
  /\ UNCHANGED <<mem, file, lock, proc, newest, boots, faults, Others>>

\* The process restarts from the checkpoint; a docker command that was running
\* took effect or did not.
Restart ==
  /\ restarts < MaxRestarts /\ restarts' = restarts + 1
  /\ \E done \in SUBSET {c \in Procs : proc[c].pc \in {"clean", "up", "down"}} :
       stack' = [a \in Agents |->
                   IF \E c \in done : AgentOf(c) = a
                   THEN LET c == CHOOSE x \in done : AgentOf(x) = a
                        IN  Effect(proc[c].pc, a, proc[c].boot)
                   ELSE stack[a]]
  /\ mem' = file
  /\ lock' = [a \in Agents |-> Nobody]
  /\ proc' = [c \in Procs |-> Idle]
  /\ sweep' = [on |-> FALSE, at |-> 0, items |-> {}]
  /\ newest' = Nobody /\ stray' = {}
  /\ UNCHANGED <<file, boots, now, calls, faults>>

Tick ==
  /\ now < MaxTime /\ now' = now + 1
  /\ UNCHANGED <<mem, file, stack, lock, proc, sweep, newest, stray, boots, calls, faults, restarts>>

-----------------------------------------------------------------------------

Step(c) ==
  \/ EnterAcquire(c) \/ Reuse(c) \/ Gone(c) \/ Provision(c) \/ CleanFails(c)
  \/ ComposeUp(c) \/ PortKnown(c) \/ HealthOK(c) \/ BootFails(c)
  \/ PersistCheck(c) \/ PersistWrite(c)
  \/ EnterTeardown(c) \/ Down(c) \/ DownFails(c) \/ Reconcile(c)

Request(c) ==
  \E a \in Agents : \/ \E op \in {"acquire", "teardown"} : Call(c, op, a)
                    \/ Look(c, a) \/ note_activity(c, a)

Next ==
  \/ \E c \in Callers : Request(c)
  \/ \E c \in Procs : Step(c)
  \/ BeginSweep \/ Reap \/ EndSweep
  \/ \E a \in Agents : Dies(a)
  \/ Restart \/ Tick

Spec == Init /\ [][Next]_vars

\* A docker command ends, a file write ends, and the reaper's loop goes on for
\* as long as the process lives.
Fairness ==
  /\ \A c \in Procs : WF_vars(Step(c))
  /\ WF_vars(BeginSweep) /\ WF_vars(Reap) /\ WF_vars(EndSweep)

FairSpec == Spec /\ Fairness

\* With activities that time out in the middle of a docker command.
CancelSpec == Init /\ [][Next \/ (\E c \in Procs : Cancel(c)) \/ StrayEnds]_vars

-----------------------------------------------------------------------------
(* Properties *)

Proc == [pc : {"idle", "lock", "inspect", "clean", "up", "port", "health", "check",
               "write", "down", "look"},
         op : {"none", "acquire", "trust", "teardown", "status", "note"},
         agent : Agents, boot : 0 .. MaxBoots, snap : Memory]

\* Types of the dictionary, the checkpoint, docker's stacks and the coroutines.
TypeOK ==
  /\ mem \in Memory /\ file \in Memory
  /\ stack \in [Agents -> [boot : 0 .. MaxBoots, up : BOOLEAN]]
  /\ lock \in [Agents -> Procs \cup {Nobody}]
  /\ proc \in [Procs -> Proc]
  /\ sweep \in [on : BOOLEAN, at : Nat, items : SUBSET (Agents \X Boot)]
  /\ newest \in Procs \cup {Nobody}
  /\ stray \subseteq Agents \X [boot : 0 .. MaxBoots, up : BOOLEAN]
  /\ boots \in [Agents -> 0 .. MaxBoots]
  /\ now \in 0 .. MaxTime /\ calls \in 0 .. MaxCalls
  /\ faults \in 0 .. MaxFaults /\ restarts \in 0 .. MaxRestarts

\* From the moment acquire has seen the sandbox run until its caller has the
\* warm handle, nobody takes that stack down or puts another in its place: not
\* a teardown, not the reaper, not the boot of another acquire, not a process
\* that came up from an old checkpoint.  (It may still exit by itself.)
WarmHandleIsReal ==
  \A c \in Procs :
    proc[c].op = "acquire" /\ proc[c].pc \in {"check", "write"}
      /\ Held(c).status = "warm" => stack[AgentOf(c)].boot = proc[c].boot

\* A stack that runs is in the dictionary, where the reaper and the routes find
\* it, unless somebody is at work on it at this moment.
NoOrphanStack ==
  \A a \in Agents : stack[a].up /\ lock[a] = Nobody => Entry(a) # 0

\* reap_once tears down what has been idle for longer than the threshold, and
\* nothing else.
ReapsOnlyIdle ==
  [][\A a \in Agents :
       Entry(a) # 0 /\ mem'.entry[a] = 0 /\ lock[a] = Reaper
         => mem.obj[a][Entry(a)].used + Threshold < now]_vars

\* A warm sandbox that stays unused for longer than the threshold is taken
\* down, whatever other requests, docker failures and restarts come in between.
IdleIsReaped ==
  \A a \in Agents : \A b \in Boot :
    (Entry(a) = b /\ mem.obj[a][b].status = "warm" /\ mem.obj[a][b].used + Threshold < now)
      ~> (Entry(a) # b \/ mem.obj[a][b].status # "warm"
            \/ mem.obj[a][b].used + Threshold >= now)
=============================================================================
