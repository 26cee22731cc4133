------------------------- MODULE CodingSwarm_proofs -------------------------
(***************************************************************************)
(* Proofs about CodingSwarm, for every plan, roster, cap and number of     *)
(* restarts.                                                               *)
(*                                                                         *)
(* The argument has two layers.  A graph is Sound when its dependencies    *)
(* are respected and its two records of an assignment agree; each method   *)
(* of TaskGraphService keeps a sound graph sound, under the precondition   *)
(* its callers meet.  That they meet it is the second layer: what a thread *)
(* may assume of its task at each of its steps, and what the coordinator   *)
(* may assume of the tasks it has listed.                                  *)
(*                                                                         *)
(* On top of it stand three more invariants, each with results of its own: *)
(* what the revision counters may be at each step of a thread (RevsInv),   *)
(* what holds as long as no process crashes and none is overtaken          *)
(* (CleanInv), and why a run came to its verdict (OutcomeInv).             *)
(*                                                                         *)
(* An invocation that was overtaken runs on beside the present one.  Each  *)
(* counts on its own graph only, so the same facts hold of each (OthersOK, *)
(* OthersRevs); what relates a graph to the record holds while nobody was  *)
(* overtaken (Alone).                                                      *)
(***************************************************************************)
EXTENDS CodingSwarm, TLAPS

DepsFirst(g) == \A t \in Tasks : Begun(g, t) => DepsMerged(g, t)

\* A task that an agent holds names it; one of the pool is pinned to it, so
\* nobody else is given the task.
HeldIsNamed(g) ==
    \A a \in Agents : g.held[a] # NoTask =>
        /\ g.task[g.held[a]].agent = a
        /\ g.task[g.held[a]].status # "absent"
        /\ g.task[g.held[a]].status = "to_do" => g.task[g.held[a]].pin = a

FlightIsHeld(g) ==
    \A t \in Tasks : g.task[t].status \in InFlight =>
        /\ g.task[t].agent \in Agents
        /\ g.held[g.task[t].agent] = t
        /\ g.task[t].pin \in {NoAgent, g.task[t].agent}

Sound(g) == g \in Graph /\ DepsFirst(g) /\ HeldIsNamed(g) /\ FlightIsHeld(g)

\* What a mutation by the thread of task t leaves alone: the other tasks keep
\* agent and pin, and no status changes but by a failure of one not begun.
Spares(g, h, t) ==
    \A u \in Tasks \ {t} :
        /\ h.task[u].agent = g.task[u].agent
        /\ h.task[u].pin = g.task[u].pin
        /\ \/ h.task[u].status = g.task[u].status
           \/ ~Begun(g, u) /\ h.task[u].status = "failed"

KeepsMerged(g, h) == \A t \in Tasks : Is(g, t, "merged") => Is(h, t, "merged")

-----------------------------------------------------------------------------
(* The task graph *)

LEMMA EmptyGraphSound == Sound(EmptyGraph)
  BY TaskGraphAssumption
  DEF Sound, Graph, TaskState, Status, EmptyGraph, Blank, DepsFirst, HeldIsNamed,
      FlightIsHeld, Begun, InFlight

LEMMA PutFacts ==
  ASSUME NEW g \in Graph, NEW t \in Tasks, NEW s \in TaskState
  PROVE  /\ Put(g, t, s) \in Graph
         /\ Put(g, t, s).held = g.held
         /\ Put(g, t, s).task[t] = s
         /\ \A u \in Tasks \ {t} : Put(g, t, s).task[u] = g.task[u]
  BY DEF Put, Graph

\* A write to one task that leaves its agent alone keeps a graph sound when the
\* task was in flight and stays so, or becomes to_do with its branch pinned.
LEMMA PutSound ==
  ASSUME NEW g, Sound(g), NEW t \in Tasks, NEW s \in TaskState,
         g.task[t].status \in InFlight, s.agent = g.task[t].agent,
         \/ s.status \in InFlight /\ s.pin \in {NoAgent, s.agent}
         \/ s.status = "to_do" /\ s.pin = s.agent
  PROVE  /\ Sound(Put(g, t, s))
         /\ Spares(g, Put(g, t, s), t)
         /\ KeepsMerged(g, Put(g, t, s))
<1> DEFINE h == Put(g, t, s)
<1>1. g \in Graph BY DEF Sound
<1>2. /\ h \in Graph /\ h.held = g.held /\ h.task[t] = s
      /\ \A u \in Tasks \ {t} : h.task[u] = g.task[u]
  BY <1>1, PutFacts
<1> HIDE DEF h
<1>3. s.status \notin {"merged", "failed", "absent"} /\ g.task[t].status # "merged"
  BY DEF InFlight
<1>4. KeepsMerged(g, h) /\ Spares(g, h, t)
  BY <1>2, <1>3 DEF KeepsMerged, Spares, Is
<1>5. DepsFirst(h)
  BY <1>2, <1>3, TaskGraphAssumption
  DEF Sound, DepsFirst, Begun, DepsMerged, Is, InFlight
<1>6. HeldIsNamed(h)
  <2> SUFFICES ASSUME NEW a \in Agents, h.held[a] # NoTask
               PROVE  /\ h.task[h.held[a]].agent = a
                      /\ h.task[h.held[a]].status # "absent"
                      /\ h.task[h.held[a]].status = "to_do" => h.task[h.held[a]].pin = a
    BY DEF HeldIsNamed
  <2>1. g.held[a] \in Tasks BY <1>1, <1>2 DEF Graph
  <2> QED BY <2>1, <1>2, <1>3 DEF Sound, HeldIsNamed, InFlight
<1>7. FlightIsHeld(h)
  BY <1>2 DEF Sound, FlightIsHeld, InFlight
<1> QED BY <1>2, <1>4, <1>5, <1>6, <1>7 DEF Sound, h

\* The tasks ts are let go of: what _free_agent leaves of the agent map.
LEMMA FreedFacts ==
  ASSUME NEW g \in Graph, NEW ts \in SUBSET Tasks, HeldIsNamed(g)
  PROVE  /\ FreedBy(g, ts) \in [Agents -> Tasks \cup {NoTask}]
         /\ \A a \in Agents : FreedBy(g, ts)[a] = IF g.held[a] \in ts THEN NoTask ELSE g.held[a]
<1>1. \A a \in Agents : g.held[a] \in Tasks \cup {NoTask} BY DEF Graph
<1>2. ASSUME NEW a \in Agents
      PROVE  FreedBy(g, ts)[a] = IF g.held[a] \in ts THEN NoTask ELSE g.held[a]
  BY <1>1, TaskGraphAssumption DEF FreedBy, HeldIsNamed
<1> QED BY <1>1, <1>2 DEF FreedBy

LEMMA AddTaskSound ==
  ASSUME NEW g, Sound(g), NEW t \in Tasks, Is(g, t, "absent")
  PROVE  Sound(AddTask(g, t)) /\ KeepsMerged(g, AddTask(g, t))
<1> DEFINE s == [Blank EXCEPT !.status = "to_do"]
           h == Put(g, t, s)
<1>1. g \in Graph BY DEF Sound
<1>2. s \in TaskState /\ s.status = "to_do" BY DEF Blank, TaskState, Status
<1> HIDE DEF s
<1>3. /\ h \in Graph /\ h.held = g.held /\ h.task[t] = s
      /\ \A u \in Tasks \ {t} : h.task[u] = g.task[u]
  BY <1>1, <1>2, PutFacts
<1> HIDE DEF h
<1>4. g.task[t].status = "absent" BY DEF Is
<1>5. DepsFirst(h)
  BY <1>2, <1>3, <1>4, TaskGraphAssumption
  DEF Sound, DepsFirst, Begun, DepsMerged, Is, InFlight
<1>6. HeldIsNamed(h)
  <2> SUFFICES ASSUME NEW a \in Agents, h.held[a] # NoTask
               PROVE  /\ h.task[h.held[a]].agent = a
                      /\ h.task[h.held[a]].status # "absent"
                      /\ h.task[h.held[a]].status = "to_do" => h.task[h.held[a]].pin = a
    BY DEF HeldIsNamed
  <2>1. g.held[a] \in Tasks \ {t} BY <1>1, <1>3, <1>4 DEF Graph, Sound, HeldIsNamed
  <2> QED BY <2>1, <1>3 DEF Sound, HeldIsNamed
<1>7. FlightIsHeld(h)
  BY <1>2, <1>3 DEF Sound, FlightIsHeld, InFlight
<1>8. KeepsMerged(g, h) BY <1>3, <1>4 DEF KeepsMerged, Is
<1> QED BY <1>3, <1>5, <1>6, <1>7, <1>8 DEF Sound, AddTask, h, s

\* A task gets a terminal status and its agent is freed.
LEMMA SettleSound ==
  ASSUME NEW g, Sound(g), NEW t \in Tasks, NEW s \in TaskState,
         s.agent = g.task[t].agent,
         \/ g.task[t].status \in InFlight /\ s.status = "merged"
         \/ g.task[t].status # "merged" /\ s.status = "failed",
         NEW h, h = [task |-> [g.task EXCEPT ![t] = s], held |-> FreedBy(g, {t})]
  PROVE  Sound(h) /\ Spares(g, h, t) /\ KeepsMerged(g, h)
<1>1. g \in Graph BY DEF Sound
<1>2. /\ h.held \in [Agents -> Tasks \cup {NoTask}]
      /\ \A a \in Agents : h.held[a] = IF g.held[a] = t THEN NoTask ELSE g.held[a]
  BY <1>1, FreedFacts DEF Sound
<1>3. /\ h.task \in [Tasks -> TaskState] /\ h.task[t] = s
      /\ \A u \in Tasks \ {t} : h.task[u] = g.task[u]
  BY <1>1 DEF Graph
<1>4. h \in Graph BY <1>2, <1>3 DEF Graph
<1>5. s.status \in {"merged", "failed"} OBVIOUS
<1>6. KeepsMerged(g, h) /\ Spares(g, h, t)
  BY <1>3, <1>5 DEF KeepsMerged, Spares, Is, InFlight
<1>7. ASSUME NEW u \in Tasks, Begun(h, u) PROVE DepsMerged(h, u)
  <2>1. Begun(g, u) BY <1>3, <1>5, <1>7 DEF Begun, InFlight
  <2>2. DepsMerged(g, u) BY <2>1 DEF Sound, DepsFirst
  <2> QED BY <2>2, <1>6, TaskGraphAssumption DEF DepsMerged, KeepsMerged
<1>8. HeldIsNamed(h)
  <2> SUFFICES ASSUME NEW a \in Agents, h.held[a] # NoTask
               PROVE  /\ h.task[h.held[a]].agent = a
                      /\ h.task[h.held[a]].status # "absent"
                      /\ h.task[h.held[a]].status = "to_do" => h.task[h.held[a]].pin = a
    BY DEF HeldIsNamed
  <2>1. h.held[a] = g.held[a] /\ g.held[a] \in Tasks \ {t} BY <1>1, <1>2 DEF Graph
  <2>2. h.task[h.held[a]] = g.task[g.held[a]] BY <2>1, <1>3
  <2> QED BY <2>1, <2>2 DEF Sound, HeldIsNamed
<1>9. FlightIsHeld(h)
  <2> SUFFICES ASSUME NEW u \in Tasks, h.task[u].status \in InFlight
               PROVE  /\ h.task[u].agent \in Agents
                      /\ h.held[h.task[u].agent] = u
                      /\ h.task[u].pin \in {NoAgent, h.task[u].agent}
    BY DEF FlightIsHeld
  <2>1. u # t /\ h.task[u] = g.task[u] BY <1>3, <1>5 DEF InFlight
  <2>2. /\ g.task[u].agent \in Agents /\ g.held[g.task[u].agent] = u
        /\ g.task[u].pin \in {NoAgent, g.task[u].agent}
    BY <2>1 DEF Sound, FlightIsHeld
  <2> QED BY <1>2, <2>1, <2>2
<1> QED BY <1>4, <1>6, <1>7, <1>8, <1>9 DEF Sound, DepsFirst

LEMMA MergeSound ==
  ASSUME NEW g, Sound(g), NEW t \in Tasks, g.task[t].status \in InFlight
  PROVE  /\ Sound(Merge(g, t)) /\ Spares(g, Merge(g, t), t) /\ KeepsMerged(g, Merge(g, t))
<1> DEFINE s == [g.task[t] EXCEPT !.status = "merged"]
<1>1. g.task[t] \in TaskState BY DEF Sound, Graph
<1>2. s \in TaskState /\ s.status = "merged" /\ s.agent = g.task[t].agent
  BY <1>1 DEF TaskState, Status
<1>3. Merge(g, t) = [task |-> [g.task EXCEPT ![t] = s], held |-> FreedBy(g, {t})]
  BY DEF Merge
<1> HIDE DEF s
<1> QED BY <1>2, <1>3, SettleSound

LEMMA FailSound ==
  ASSUME NEW g, Sound(g), NEW t \in Tasks, g.task[t].status # "merged", NEW n \in Nat
  PROVE  /\ Sound(Fail(g, t, n)) /\ Spares(g, Fail(g, t, n), t) /\ KeepsMerged(g, Fail(g, t, n))
         /\ Fail(g, t, n).task[t].status = "failed"
         /\ Fail(g, t, n).task[t].agent = g.task[t].agent
<1> DEFINE s == [g.task[t] EXCEPT !.status = "failed", !.revs = n]
<1>1. g.task[t] \in TaskState /\ g.task \in [Tasks -> TaskState] BY DEF Sound, Graph
<1>2. s \in TaskState /\ s.status = "failed" /\ s.agent = g.task[t].agent
  BY <1>1 DEF TaskState, Status
<1>3. Fail(g, t, n) = [task |-> [g.task EXCEPT ![t] = s], held |-> FreedBy(g, {t})]
  BY <1>1 DEF Fail
<1> HIDE DEF s
<1>4. Fail(g, t, n).task[t] = s BY <1>1, <1>3
<1> QED BY <1>2, <1>3, <1>4, SettleSound

LEMMA UnassignSound ==
  ASSUME NEW g, Sound(g), NEW t \in Tasks, g.task[t].status \in {"to_do", "failed"}
  PROVE  /\ Sound(Unassign(g, t)) /\ Spares(g, Unassign(g, t), t)
         /\ KeepsMerged(g, Unassign(g, t))
<1> DEFINE s == [g.task[t] EXCEPT !.agent = NoAgent]
           h == Unassign(g, t)
<1>1. g \in Graph BY DEF Sound
<1>2. s \in TaskState /\ s.status = g.task[t].status BY <1>1 DEF Graph, TaskState
<1>3. h = [task |-> [g.task EXCEPT ![t] = s], held |-> FreedBy(g, {t})] BY DEF Unassign
<1> HIDE DEF s, h
<1>4. /\ h.held \in [Agents -> Tasks \cup {NoTask}]
      /\ \A a \in Agents : h.held[a] = IF g.held[a] = t THEN NoTask ELSE g.held[a]
  BY <1>1, <1>3, FreedFacts DEF Sound
<1>5. /\ h.task \in [Tasks -> TaskState] /\ h.task[t] = s
      /\ \A u \in Tasks \ {t} : h.task[u] = g.task[u]
  BY <1>1, <1>2, <1>3 DEF Graph
<1>6. h \in Graph BY <1>3, <1>4, <1>5 DEF Graph
<1>7. \A u \in Tasks : h.task[u].status = g.task[u].status BY <1>2, <1>5
<1>8. KeepsMerged(g, h) /\ Spares(g, h, t)
  BY <1>5, <1>7 DEF KeepsMerged, Spares, Is
<1>9. DepsFirst(h)
  BY <1>7, TaskGraphAssumption DEF Sound, DepsFirst, Begun, DepsMerged, Is
<1>10. HeldIsNamed(h)
  BY <1>1, <1>4, <1>5, TaskGraphAssumption DEF Sound, HeldIsNamed, Graph
<1>11. FlightIsHeld(h)
  BY <1>2, <1>4, <1>5 DEF Sound, FlightIsHeld, InFlight
<1> QED BY <1>6, <1>8, <1>9, <1>10, <1>11 DEF Sound, h

\* Failure spreads to no task that has begun: the tasks that have not are closed
\* under it when dependencies come first.
LEMMA DoomedNotBegun ==
  ASSUME NEW g, Sound(g), NEW t \in Doomed(g)
  PROVE  t \in Tasks /\ ~Begun(g, t)
<1> DEFINE ts == {u \in Tasks : ~Begun(g, u)}
<1>1. ClosedUnderFailure(g, ts)
  <2>1. With(g, "failed") \subseteq ts BY DEF With, Is, Begun, InFlight
  <2>2. ASSUME NEW u \in Tasks, Deps[u] \cap ts # {} PROVE u \in ts
    <3>1. PICK d \in Deps[u] \cap ts : TRUE BY <2>2
    <3>2. ~Is(g, d, "merged") BY <3>1 DEF Begun, Is
    <3> QED BY <3>1, <3>2 DEF Sound, DepsFirst, DepsMerged
  <2> QED BY <2>1, <2>2 DEF ClosedUnderFailure
<1>2. t \in Tasks /\ \A us \in SUBSET Tasks : ClosedUnderFailure(g, us) => t \in us
  BY DEF Doomed
<1>3. ts \in SUBSET Tasks OBVIOUS
<1>4. t \in ts BY <1>1, <1>2, <1>3
<1> QED BY <1>4

LEMMA CascadeSound ==
  ASSUME NEW g, Sound(g), NEW t \in Tasks
  PROVE  /\ Sound(Cascade(g)) /\ Spares(g, Cascade(g), t) /\ KeepsMerged(g, Cascade(g))
<1> DEFINE h == Cascade(g)
           ts == Doomed(g) \ With(g, "failed")
<1>1. g \in Graph BY DEF Sound
<1>2. Doomed(g) \subseteq Tasks /\ \A u \in Doomed(g) : ~Begun(g, u) BY DoomedNotBegun
<1>3. /\ h.held \in [Agents -> Tasks \cup {NoTask}]
      /\ \A a \in Agents : h.held[a] = IF g.held[a] \in ts THEN NoTask ELSE g.held[a]
  <2>1. ts \in SUBSET Tasks BY <1>2
  <2>2. h.held = FreedBy(g, ts) BY DEF Cascade
  <2> HIDE DEF h, ts
  <2> QED BY <1>1, <2>1, <2>2, FreedFacts DEF Sound
<1>4. /\ \A u \in Tasks \ Doomed(g) : h.task[u] = g.task[u]
      /\ \A u \in Doomed(g) : h.task[u] = [g.task[u] EXCEPT !.status = "failed"]
      /\ h = [task |-> h.task, held |-> h.held]
      /\ DOMAIN h.task = Tasks
      /\ h.task = [u \in Tasks |-> h.task[u]]
  BY <1>2 DEF Cascade
<1>5. ts \subseteq Doomed(g) OBVIOUS
<1> HIDE DEF h, ts
<1>6. \A u \in Doomed(g) :
        h.task[u] \in TaskState /\ h.task[u].status = "failed"
        /\ h.task[u].agent = g.task[u].agent /\ h.task[u].pin = g.task[u].pin
  <2> TAKE u \in Doomed(g)
  <2>1. g.task[u] \in TaskState BY <1>1, <1>2 DEF Graph
  <2>2. h.task[u] = [g.task[u] EXCEPT !.status = "failed"] BY <1>4
  <2> QED BY <2>1, <2>2 DEF TaskState, Status
<1>7. h.task \in [Tasks -> TaskState]
  <2>1. \A u \in Tasks : h.task[u] \in TaskState BY <1>1, <1>4, <1>6 DEF Graph
  <2> QED BY <2>1, <1>4
<1>8. h \in Graph BY <1>3, <1>4, <1>7 DEF Graph
<1>9. KeepsMerged(g, h) /\ Spares(g, h, t)
  BY <1>2, <1>4, <1>6 DEF KeepsMerged, Spares, Is, Begun
<1>10. ASSUME NEW u \in Tasks, Begun(h, u) PROVE DepsMerged(h, u)
  <2>1. Begun(g, u) BY <1>4, <1>6, <1>10 DEF Begun, InFlight
  <2>2. DepsMerged(g, u) BY <2>1 DEF Sound, DepsFirst
  <2> QED BY <2>2, <1>9, TaskGraphAssumption DEF DepsMerged, KeepsMerged
<1>11. HeldIsNamed(h)
  <2> SUFFICES ASSUME NEW a \in Agents, h.held[a] # NoTask
               PROVE  /\ h.task[h.held[a]].agent = a
                      /\ h.task[h.held[a]].status # "absent"
                      /\ h.task[h.held[a]].status = "to_do" => h.task[h.held[a]].pin = a
    BY DEF HeldIsNamed
  <2>1. h.held[a] = g.held[a] /\ g.held[a] \in Tasks BY <1>1, <1>3 DEF Graph
  <2>2. CASE g.held[a] \in Doomed(g) BY <2>1, <2>2, <1>6 DEF Sound, HeldIsNamed
  <2>3. CASE g.held[a] \notin Doomed(g)
    <3>1. h.task[h.held[a]] = g.task[g.held[a]] BY <2>1, <2>3, <1>4
    <3> QED BY <2>1, <3>1 DEF Sound, HeldIsNamed
  <2> QED BY <2>2, <2>3
<1>12. FlightIsHeld(h)
  <2> SUFFICES ASSUME NEW u \in Tasks, h.task[u].status \in InFlight
               PROVE  /\ h.task[u].agent \in Agents
                      /\ h.held[h.task[u].agent] = u
                      /\ h.task[u].pin \in {NoAgent, h.task[u].agent}
    BY DEF FlightIsHeld
  <2>1. u \notin Doomed(g) /\ h.task[u] = g.task[u] BY <1>4, <1>6 DEF InFlight
  <2> QED BY <2>1, <1>3, <1>5 DEF Sound, FlightIsHeld
<1> QED BY <1>8, <1>9, <1>10, <1>11, <1>12 DEF Sound, DepsFirst, h

\* Tasks that are in flight or failed go back to the pool, held by nobody.
LEMMA DemoteSound ==
  ASSUME NEW g, Sound(g), NEW ts \in SUBSET Tasks,
         \A t \in ts : g.task[t].status \in InFlight \cup {"failed"},
         NEW task \in [Tasks -> TaskState],
         \A t \in ts : task[t].status = "to_do",
         \A t \in Tasks \ ts : task[t] = g.task[t],
         NEW h, h = [task |-> task, held |-> FreedBy(g, ts)]
  PROVE  Sound(h) /\ KeepsMerged(g, h)
<1>1. g \in Graph BY DEF Sound
<1>2. /\ h.held \in [Agents -> Tasks \cup {NoTask}]
      /\ \A a \in Agents : h.held[a] = IF g.held[a] \in ts THEN NoTask ELSE g.held[a]
  BY <1>1, FreedFacts DEF Sound
<1>3. h \in Graph /\ h.task = task BY <1>2 DEF Graph
<1>4. KeepsMerged(g, h) BY <1>3 DEF KeepsMerged, Is, InFlight
<1>5. ASSUME NEW u \in Tasks, Begun(h, u) PROVE u \notin ts /\ h.task[u] = g.task[u]
  BY <1>3, <1>5 DEF Begun, InFlight
<1>6. ASSUME NEW u \in Tasks, Begun(h, u) PROVE DepsMerged(h, u)
  <2>1. DepsMerged(g, u) BY <1>5, <1>6 DEF Sound, DepsFirst, Begun
  <2> QED BY <2>1, <1>4, TaskGraphAssumption DEF DepsMerged, KeepsMerged
<1>7. HeldIsNamed(h)
  <2> SUFFICES ASSUME NEW a \in Agents, h.held[a] # NoTask
               PROVE  /\ h.task[h.held[a]].agent = a
                      /\ h.task[h.held[a]].status # "absent"
                      /\ h.task[h.held[a]].status = "to_do" => h.task[h.held[a]].pin = a
    BY DEF HeldIsNamed
  <2>1. h.held[a] = g.held[a] /\ g.held[a] \in Tasks \ ts BY <1>1, <1>2 DEF Graph
  <2>2. h.task[h.held[a]] = g.task[g.held[a]] BY <2>1, <1>3
  <2> QED BY <2>1, <2>2 DEF Sound, HeldIsNamed
<1>8. FlightIsHeld(h)
  <2> SUFFICES ASSUME NEW u \in Tasks, h.task[u].status \in InFlight
               PROVE  /\ h.task[u].agent \in Agents
                      /\ h.held[h.task[u].agent] = u
                      /\ h.task[u].pin \in {NoAgent, h.task[u].agent}
    BY DEF FlightIsHeld
  <2>1. u \notin ts /\ h.task[u] = g.task[u] BY <1>5 DEF Begun
  <2> QED BY <2>1, <1>2 DEF Sound, FlightIsHeld
<1> QED BY <1>3, <1>4, <1>6, <1>7, <1>8 DEF Sound, DepsFirst

LEMMA ResetInFlightSound ==
  ASSUME NEW g, Sound(g)
  PROVE  Sound(ResetInFlight(g)) /\ KeepsMerged(g, ResetInFlight(g))
<1> DEFINE ts == {t \in Tasks : g.task[t].status \in InFlight}
           task == [t \in Tasks |-> IF t \in ts
                      THEN [g.task[t] EXCEPT !.status = "to_do", !.agent = NoAgent]
                      ELSE g.task[t]]
<1>1. g.task \in [Tasks -> TaskState] BY DEF Sound, Graph
<1>2. ASSUME NEW t \in Tasks
      PROVE  task[t] \in TaskState /\ (t \in ts => task[t].status = "to_do")
             /\ (t \notin ts => task[t] = g.task[t])
  <2>1. g.task[t] \in TaskState BY <1>1
  <2> QED BY <2>1 DEF TaskState, Status
<1>3. ResetInFlight(g) = [task |-> task, held |-> FreedBy(g, ts)] BY DEF ResetInFlight
<1>4. task \in [Tasks -> TaskState] BY <1>2
<1>5. ts \in SUBSET Tasks /\ \A t \in ts : g.task[t].status \in InFlight OBVIOUS
<1> HIDE DEF ts, task
<1> QED BY <1>2, <1>3, <1>4, <1>5, DemoteSound

LEMMA ResetFailedSound ==
  ASSUME NEW g, Sound(g)
  PROVE  Sound(ResetFailed(g)) /\ KeepsMerged(g, ResetFailed(g))
<1> DEFINE ts == With(g, "failed")
           task == [t \in Tasks |-> IF t \in ts
                      THEN [g.task[t] EXCEPT !.status = "to_do", !.agent = NoAgent,
                                             !.revs = 0, !.still = 0, !.based = FALSE]
                      ELSE g.task[t]]
<1>1. g.task \in [Tasks -> TaskState] BY DEF Sound, Graph
<1>2. ASSUME NEW t \in Tasks
      PROVE  task[t] \in TaskState /\ (t \in ts => task[t].status = "to_do")
             /\ (t \notin ts => task[t] = g.task[t])
  <2>1. g.task[t] \in TaskState BY <1>1
  <2> QED BY <2>1 DEF TaskState, Status
<1>3. ResetFailed(g) = [task |-> task, held |-> FreedBy(g, ts)] BY DEF ResetFailed
<1>4. task \in [Tasks -> TaskState] BY <1>2
<1>5. ts \in SUBSET Tasks /\ \A t \in ts : g.task[t].status = "failed" BY DEF With, Is
<1> HIDE DEF ts, task
<1> QED BY <1>2, <1>3, <1>4, <1>5, DemoteSound

\* Placements of ready tasks at free agents.  A task of the pool that is still
\* held is pinned to its holder, who is not free: it is not placed elsewhere.
LEMMA PlacedSound ==
  ASSUME NEW g, Sound(g), NEW ts \in SUBSET Ready(g), NEW f \in [ts -> FreeAgents(g)],
         \A t \in ts : Eligible(g, t, f[t]),
         \A t, u \in ts : f[t] = f[u] => t = u
  PROVE  /\ Sound(Placed(g, f)) /\ KeepsMerged(g, Placed(g, f))
         /\ \A u \in Tasks \ ts : Placed(g, f).task[u] = g.task[u]
<1> DEFINE h == Placed(g, f)
<1>1. g \in Graph /\ DOMAIN f = ts BY DEF Sound
<1>2. /\ ts \subseteq Tasks
      /\ \A t \in ts : g.task[t].status = "to_do" /\ DepsMerged(g, t)
      /\ \A t \in ts : f[t] \in Agents /\ Current(g, f[t]) = NoTask
  BY DEF Ready, With, Is, FreeAgents
<1>3. ASSUME NEW t \in ts
      PROVE  /\ h.task[t] \in TaskState /\ h.task[t].status = "in_progress"
             /\ h.task[t].agent = f[t] /\ h.task[t].pin = g.task[t].pin
  <2>1. h.task[t] = [g.task[t] EXCEPT !.status = "in_progress", !.agent = f[t]]
    BY <1>1, <1>2 DEF Placed
  <2>2. g.task[t] \in TaskState BY <1>1, <1>2 DEF Graph
  <2> HIDE DEF h
  <2> QED BY <2>1, <2>2, <1>2 DEF TaskState, Status
<1>4. \A u \in Tasks \ ts : h.task[u] = g.task[u] BY <1>1 DEF Placed
<1>5. h.task \in [Tasks -> TaskState]
  <2>1. \A u \in Tasks : h.task[u] \in TaskState BY <1>1, <1>3, <1>4 DEF Graph
  <2>2. h.task = [u \in Tasks |-> h.task[u]] BY DEF Placed
  <2> QED BY <2>1, <2>2
<1>6. ASSUME NEW t \in ts PROVE h.held[f[t]] = t
  <2>1. h.held[f[t]] = CHOOSE u \in ts : f[u] = f[t] BY <1>1, <1>2 DEF Placed
  <2> QED BY <2>1
<1>7. ASSUME NEW a \in Agents, \A t \in ts : f[t] # a PROVE h.held[a] = g.held[a]
  BY <1>1, <1>7 DEF Placed
<1>8. h \in Graph
  <2>1. \A a \in Agents : h.held[a] \in Tasks \cup {NoTask}
    BY <1>1, <1>2, <1>6, <1>7 DEF Graph
  <2>2. /\ h = [task |-> h.task, held |-> h.held]
        /\ h.held = [a \in Agents |-> h.held[a]]
    BY DEF Placed
  <2> QED BY <2>1, <2>2, <1>5 DEF Graph
<1> HIDE DEF h
<1>9. KeepsMerged(g, h) BY <1>2, <1>4 DEF KeepsMerged, Is
<1>10. ASSUME NEW u \in Tasks, Begun(h, u) PROVE DepsMerged(h, u)
  <2>1. DepsMerged(g, u)
    <3>1. CASE u \in ts BY <3>1, <1>2
    <3>2. CASE u \notin ts BY <3>2, <1>4, <1>10 DEF Sound, DepsFirst, Begun
    <3> QED BY <3>1, <3>2
  <2> QED BY <2>1, <1>9, TaskGraphAssumption DEF DepsMerged, KeepsMerged
\* A free agent holds nothing that is going on.
<1>11. ASSUME NEW t \in ts, NEW u \in Tasks, g.held[f[t]] = u
       PROVE  g.task[u].status \in Terminal
  BY <1>2, <1>11, TaskGraphAssumption DEF Current
<1>12. HeldIsNamed(h)
  <2> SUFFICES ASSUME NEW a \in Agents, h.held[a] # NoTask
               PROVE  /\ h.task[h.held[a]].agent = a
                      /\ h.task[h.held[a]].status # "absent"
                      /\ h.task[h.held[a]].status = "to_do" => h.task[h.held[a]].pin = a
    BY DEF HeldIsNamed
  <2>1. CASE \E t \in ts : f[t] = a
    BY <2>1, <1>3, <1>6
  <2>2. CASE \A t \in ts : f[t] # a
    <3>1. h.held[a] = g.held[a] /\ g.held[a] \in Tasks BY <2>2, <1>1, <1>7 DEF Graph
    <3>2. g.held[a] \notin ts
      <4> SUFFICES ASSUME g.held[a] \in ts PROVE FALSE OBVIOUS
      <4> DEFINE t == g.held[a]
      <4>1. g.task[t].pin = a
        BY <3>1, <1>2, TaskGraphAssumption DEF Sound, HeldIsNamed
      <4>2. g.task[t].pin \in {NoAgent, f[t]} BY DEF Eligible
      <4> QED BY <4>1, <4>2, <2>2, TaskGraphAssumption
    <3> QED BY <3>1, <3>2, <1>4 DEF Sound, HeldIsNamed
  <2> QED BY <2>1, <2>2
<1>13. FlightIsHeld(h)
  <2> SUFFICES ASSUME NEW u \in Tasks, h.task[u].status \in InFlight
               PROVE  /\ h.task[u].agent \in Agents
                      /\ h.held[h.task[u].agent] = u
                      /\ h.task[u].pin \in {NoAgent, h.task[u].agent}
    BY DEF FlightIsHeld
  <2>1. CASE u \in ts
    <3>1. g.task[u].pin \in {NoAgent, f[u]} BY <2>1 DEF Eligible
    <3> QED BY <2>1, <3>1, <1>2, <1>3, <1>6
  <2>2. CASE u \notin ts
    <3> DEFINE a == g.task[u].agent
    <3>1. h.task[u] = g.task[u] /\ a \in Agents /\ g.held[a] = u /\ g.task[u].pin \in {NoAgent, a}
      BY <2>2, <1>4 DEF Sound, FlightIsHeld
    <3>2. \A t \in ts : f[t] # a
      BY <3>1, <1>11 DEF InFlight, Terminal
    <3> QED BY <3>1, <3>2, <1>7
  <2> QED BY <2>1, <2>2
<1> QED BY <1>4, <1>8, <1>9, <1>10, <1>12, <1>13 DEF Sound, DepsFirst, h

-----------------------------------------------------------------------------
(* The inductive invariant *)

\* The steps at which a thread's task is in flight.
Engaged == {"work", "gates", "bounce", "submit", "retry", "stalled", "land", "judge"}

\* What a thread may count on at each of its steps.
ThreadOK(th) ==
    \/ thread[th] = Idle
    \/ /\ TaskOf(th) \in Tasks
       /\ thread[th].pc \in Engaged => State(th).status \in InFlight
       /\ At(th, "release") => State(th).status \in {"to_do", "failed"}
       /\ th \in Agents => State(th).agent = th /\ phase = "implement"
       /\ th \in Agents /\ thread[th].pc \in {"gates", "bounce", "submit"} => State(th).pin = th
       /\ th = Lead => phase \in {"route", "review"}

\* What the coordinator has listed is still as it was listed.
TodoOK ==
    /\ phase \in {"route", "review"} => \A t \in todo : t # TaskOf(Lead) /\ ~Is(graph, t, "merged")
    /\ phase = "review" => \A t \in todo : graph.task[t].status \in InFlight

IInv ==
    /\ TypeOK
    /\ Sound(graph) /\ Sound(store)
    /\ \A th \in Threads : ThreadOK(th)
    /\ TodoOK
    /\ Live /\ Alone => KeepsMerged(store, graph)

LEMMA ThreadsApart == IInv => OneThreadPerTask
<1> SUFFICES ASSUME IInv, NEW th \in Threads, NEW other \in Threads,
                    TaskOf(th) # NoTask, TaskOf(th) = TaskOf(other)
             PROVE  th = other
  BY DEF OneThreadPerTask
<1>1. thread[th] # Idle /\ thread[other] # Idle BY DEF Idle, TaskOf
<1>2. ThreadOK(th) /\ ThreadOK(other) BY DEF IInv
<1> QED BY <1>1, <1>2 DEF ThreadOK, Threads, State

\* Outside the phases in which threads work, they rest.
LEMMA RestingThreads ==
  ASSUME IInv
  PROVE  /\ phase # "implement" => \A a \in Agents : thread[a] = Idle
         /\ phase \notin {"route", "review"} => thread[Lead] = Idle
  BY DEF IInv, ThreadOK, Threads

\* One step of a thread on its task.
LEMMA StepKeepsIInv ==
  ASSUME IInv, NEW th \in Threads, thread[th] # Idle, NEW g, NEW pc \in PC,
         Step(th, g, pc), Sound(g), Spares(graph, g, TaskOf(th)), KeepsMerged(graph, g),
         pc \in Engaged => g.task[TaskOf(th)].status \in InFlight,
         pc = "release" => g.task[TaskOf(th)].status \in {"to_do", "failed"},
         pc # "idle" => g.task[TaskOf(th)].agent = graph.task[TaskOf(th)].agent,
         th \in Agents /\ pc \in {"gates", "bounce", "submit"} => g.task[TaskOf(th)].pin = th
  PROVE  IInv'
<1> DEFINE s == IF pc = "idle" THEN Idle ELSE [pc |-> pc, task |-> TaskOf(th)]
<1>1. /\ graph' = g /\ thread' = [thread EXCEPT ![th] = s]
      /\ UNCHANGED <<store, job, phase, round, todo, restarts, canceller, others>>
  BY DEF Step, control
<1>2. /\ TaskOf(th) \in Tasks /\ ThreadOK(th)
      /\ thread \in [Threads -> Thread]
  BY DEF IInv, ThreadOK, TypeOK
<1>3. /\ s \in Thread
      /\ s # Idle => s.pc = pc /\ s.task = TaskOf(th) /\ pc # "idle"
  <2>0. Idle \in Thread BY DEF Idle, PC, Thread
  <2>1. CASE pc = "idle" BY <2>0, <2>1
  <2>2. CASE pc # "idle" BY <2>2, <1>2 DEF Thread
  <2> QED BY <2>1, <2>2
<1>4. s.task \in {TaskOf(th), NoTask} BY DEF Idle
<1> HIDE DEF s
<1>5. TypeOK'
  <2>1. thread' \in [Threads -> Thread] BY <1>1, <1>2, <1>3
  <2>2. graph' \in Graph BY <1>1 DEF Sound
  <2> QED BY <2>1, <2>2, <1>1 DEF IInv, TypeOK
<1>6. thread'[th] = s BY <1>1, <1>2
<1>7. ThreadOK(th)'
  BY <1>1, <1>2, <1>3, <1>6 DEF ThreadOK, State, TaskOf, At
<1>8. ASSUME NEW o \in Threads, o # th PROVE ThreadOK(o)'
  <2>1. ThreadOK(o) /\ thread'[o] = thread[o] BY <1>1, <1>2, <1>8 DEF IInv
  <2>2. CASE thread[o] = Idle BY <2>1, <2>2 DEF ThreadOK
  <2>3. CASE thread[o] # Idle
    <3>1. TaskOf(o) \in Tasks BY <2>1, <2>3 DEF ThreadOK
    <3>2. TaskOf(o) # TaskOf(th)
      BY <3>1, <1>2, <1>8, ThreadsApart, TaskGraphAssumption DEF OneThreadPerTask
    <3>3. /\ g.task[TaskOf(o)].agent = graph.task[TaskOf(o)].agent
          /\ g.task[TaskOf(o)].pin = graph.task[TaskOf(o)].pin
          /\ \/ g.task[TaskOf(o)].status = graph.task[TaskOf(o)].status
             \/ graph.task[TaskOf(o)].status \notin InFlight /\ g.task[TaskOf(o)].status = "failed"
      BY <3>1, <3>2 DEF Spares, Begun
    <3> QED BY <2>1, <2>3, <3>3, <1>1 DEF ThreadOK, State, TaskOf, At, InFlight
  <2> QED BY <2>2, <2>3
<1>9. TodoOK'
  <2>1. ASSUME phase \in {"route", "review"}, NEW t \in todo
        PROVE  /\ t # thread'[Lead].task /\ g.task[t].status # "merged"
               /\ phase = "review" => g.task[t].status \in InFlight
    <3>1. /\ t \in Tasks /\ t # TaskOf(Lead) /\ graph.task[t].status # "merged"
          /\ phase = "review" => graph.task[t].status \in InFlight
      BY <2>1 DEF IInv, TypeOK, TodoOK, Is
    <3>2. th = Lead
      BY <2>1 DEF IInv, ThreadOK, Threads
    <3>3. t # thread'[Lead].task
      BY <3>1, <3>2, <1>4, <1>6, TaskGraphAssumption
    <3>4. \/ g.task[t].status = graph.task[t].status
          \/ graph.task[t].status \notin InFlight /\ g.task[t].status = "failed"
      BY <3>1, <3>2 DEF Spares, Begun
    <3> QED BY <3>1, <3>3, <3>4
  <2> QED BY <2>1, <1>1 DEF TodoOK, Is, TaskOf
<1>10. (Live /\ Alone => KeepsMerged(store, graph))'
  BY <1>1 DEF IInv, Live, Running, Alone, Overtaken, KeepsMerged
<1> QED BY <1>1, <1>5, <1>7, <1>8, <1>9, <1>10 DEF IInv

\* An invocation starts from a sound graph that has lost nothing merged.
LEMMA InvokeIInv ==
  ASSUME IInv, NEW retryFailed \in BOOLEAN, Invoke(retryFailed),
         job' \in [status : JobStatus, cancel : BOOLEAN, failed : BOOLEAN], restarts' \in Nat,
         others' \in [1..MaxRestarts -> Process]
  PROVE  IInv'
<1>1. Sound(Resumed(retryFailed)) /\ KeepsMerged(store, Resumed(retryFailed))
  <2> DEFINE g == ResetInFlight(store)
  <2>1. Sound(g) /\ KeepsMerged(store, g) BY ResetInFlightSound DEF IInv
  <2> HIDE DEF g
  <2>2. Sound(ResetFailed(g)) /\ KeepsMerged(store, ResetFailed(g))
    BY <2>1, ResetFailedSound DEF KeepsMerged
  <2>3. Resumed(retryFailed) = IF retryFailed THEN ResetFailed(g) ELSE g BY DEF Resumed, g
  <2> QED BY <2>1, <2>2, <2>3
<1>2. /\ graph' = Resumed(retryFailed) /\ phase' \in {"plan", "planned"} /\ round' = 0
      /\ thread' = Resting /\ todo' = {} /\ UNCHANGED <<store, canceller>>
  BY DEF Invoke
<1>3. TypeOK'
  <2>1. thread' \in [Threads -> Thread] BY <1>2 DEF Resting, Idle, Thread, PC
  <2> QED BY <1>1, <1>2, <2>1 DEF IInv, TypeOK, Phase, Sound
<1>4. \A th \in Threads : ThreadOK(th)' BY <1>2 DEF ThreadOK, Resting
<1>5. TodoOK' BY <1>2 DEF TodoOK
<1> QED BY <1>1, <1>2, <1>3, <1>4, <1>5 DEF IInv

\* A step of the coordinator, or of the record, while every thread rests: the
\* graph stays, and a snapshot of it may be taken.
LEMMA QuietIInv ==
  ASSUME IInv, UNCHANGED graph, store' \in {store, graph}, store' = graph => Live \/ store' = store,
         UNCHANGED <<thread, others>>, TypeOK', Live' => Live,
         \A th \in Threads : thread[th] = Idle \/ phase' = phase,
         TodoOK'
  PROVE  IInv'
<1>1. Sound(graph)' /\ Sound(store)' BY DEF IInv
<1>2. \A th \in Threads : ThreadOK(th)' BY DEF IInv, ThreadOK, State, TaskOf, At
<1>3. Live' /\ Alone' => KeepsMerged(store', graph')
  BY DEF IInv, KeepsMerged, Alone, Overtaken
<1> QED BY <1>1, <1>2, <1>3 DEF IInv

-----------------------------------------------------------------------------
(* The invocations that were overtaken                                     *)
(*                                                                         *)
(* Each is as it was when it was left, and what it may count on lies in    *)
(* its own graph, whatever the others have done to the record since.       *)

ThreadIn(p, th) ==
    LET t == p.thread[th].task
        pc == p.thread[th].pc
        s == p.graph.task[t]
    IN  \/ p.thread[th] = Idle
        \/ /\ t \in Tasks
           /\ pc \in Engaged => s.status \in InFlight
           /\ pc = "release" => s.status \in {"to_do", "failed"}
           /\ th \in Agents => s.agent = th /\ p.phase = "implement"
           /\ th \in Agents /\ pc \in {"gates", "bounce", "submit"} => s.pin = th
           /\ th = Lead => p.phase \in {"route", "review"}

TodoIn(p) ==
    /\ p.phase \in {"route", "review"} =>
         \A t \in p.todo : t # p.thread[Lead].task /\ ~Is(p.graph, t, "merged")
    /\ p.phase = "review" => \A t \in p.todo : p.graph.task[t].status \in InFlight

ProcessOK(p) ==
    /\ p \in Process
    /\ Sound(p.graph)
    /\ \A th \in Threads : ThreadIn(p, th)
    /\ TodoIn(p)

OthersOK == \A i \in 1..MaxRestarts : ProcessOK(others[i])

LEMMA RestingOK ==
  /\ ProcessOK(Nobody) /\ ProcessOK(Over)
  /\ Over # Nobody
<1> DEFINE P(ph) == [graph |-> EmptyGraph, phase |-> ph, round |-> 0,
                     thread |-> Resting, todo |-> {}]
<1>1. ASSUME NEW ph \in {"new", "ended"} PROVE ProcessOK(P(ph))
  <2>1. Resting \in [Threads -> Thread] BY DEF Resting, Idle, Thread, PC
  <2>2. P(ph) \in Process BY <1>1, <2>1, EmptyGraphSound DEF Process, Phase, Sound
  <2>3. \A th \in Threads : ThreadIn(P(ph), th) BY DEF ThreadIn, Resting
  <2>4. TodoIn(P(ph)) BY DEF TodoIn
  <2> QED BY <2>2, <2>3, <2>4, EmptyGraphSound DEF ProcessOK
<1>2. Nobody = P("new") /\ Over = P("ended") BY DEF Nobody, Over
<1>3. Over.phase = "ended" /\ Nobody.phase = "new" BY <1>2
<1> QED BY <1>1, <1>2, <1>3

LEMMA InitIInv == Init => IInv
<1> SUFFICES ASSUME Init PROVE IInv OBVIOUS
<1>1. TypeOK
  <2>1. Resting \in [Threads -> Thread] BY DEF Resting, Idle, Thread, PC
  <2>2. others \in [1..MaxRestarts -> Process] BY RestingOK DEF Init, ProcessOK
  <2> QED
    BY <2>1, <2>2, EmptyGraphSound, CodingSwarmAssumption
    DEF Init, TypeOK, Phase, Sound, JobStatus, Finished
<1>2. Sound(graph) /\ Sound(store) BY EmptyGraphSound DEF Init
<1>3. \A th \in Threads : ThreadOK(th) BY DEF Init, Resting, ThreadOK
<1>4. TodoOK /\ ~Live BY DEF Init, TodoOK, Live, Running
<1> QED BY <1>1, <1>2, <1>3, <1>4 DEF IInv

\* What is left behind is as sound as what was going on.
LEMMA PresentOK == ASSUME IInv PROVE ProcessOK(Present) /\ Present # Nobody
<1>1. CASE Live
  <2> DEFINE p == [graph |-> graph, phase |-> phase, round |-> round,
                   thread |-> thread, todo |-> todo]
  <2>1. Present = p BY <1>1 DEF Present
  <2>2. p \in Process BY DEF IInv, TypeOK, Process
  <2>3. /\ p.graph = graph /\ p.phase = phase /\ p.thread = thread /\ p.todo = todo
    OBVIOUS
  <2> HIDE DEF p
  <2>4. \A th \in Threads : ThreadIn(p, th)
    BY <2>3 DEF IInv, ThreadOK, ThreadIn, State, TaskOf, At
  <2>5. TodoIn(p) BY <2>3 DEF IInv, TodoOK, TodoIn, TaskOf
  <2>6. p.phase # Nobody.phase BY <1>1, <2>3 DEF Live, Running, Nobody
  <2> QED BY <2>1, <2>2, <2>3, <2>4, <2>5, <2>6 DEF IInv, ProcessOK
<1>2. CASE ~Live BY <1>2, RestingOK DEF Present
<1> QED BY <1>1, <1>2

LEMMA OvertakeOK ==
  ASSUME IInv, OthersOK, Overtake
  PROVE  /\ restarts' \in Nat /\ others' \in [1..MaxRestarts -> Process] /\ OthersOK'
         /\ Live => ~Alone'
<1>1. /\ restarts \in Nat /\ restarts < MaxRestarts /\ restarts' = restarts + 1
      /\ others \in [1..MaxRestarts -> Process] /\ MaxRestarts \in Nat
  BY CodingSwarmAssumption DEF Overtake, IInv, TypeOK
<1>2. restarts' \in 1..MaxRestarts BY <1>1
<1>3. CASE ~Live
  <2>1. UNCHANGED others BY <1>3 DEF Overtake
  <2> QED BY <1>1, <1>3, <2>1 DEF OthersOK
<1>4. CASE Live
  <2>1. others' = [others EXCEPT ![restarts'] = Present] BY <1>4 DEF Overtake
  <2>2. ProcessOK(Present) /\ Present # Nobody BY PresentOK
  <2>3. others' \in [1..MaxRestarts -> Process] BY <1>1, <2>1, <2>2 DEF ProcessOK
  <2>4. others'[restarts'] = Present BY <1>1, <1>2, <2>1
  <2>5. \A i \in 1..MaxRestarts : others'[i] \in {others[i], Present} BY <1>1, <2>1
  <2>6. OthersOK' BY <2>2, <2>5 DEF OthersOK
  <2> QED BY <1>1, <1>2, <2>2, <2>3, <2>4, <2>6 DEF Alone, Overtaken
<1> QED BY <1>3, <1>4

LEMMA SwitchIInv ==
  ASSUME IInv, OthersOK, NEW i \in 1..MaxRestarts, Switch(i)
  PROVE  IInv' /\ OthersOK' /\ ~Alone /\ ~Alone'
<1> DEFINE p == others[i]
<1>1. /\ Running(p.phase) /\ graph' = p.graph /\ phase' = p.phase /\ round' = p.round
      /\ thread' = p.thread /\ todo' = p.todo
      /\ others' = [others EXCEPT ![i] = Present]
      /\ UNCHANGED <<store, job, restarts, canceller>>
  BY DEF Switch
<1>2. ProcessOK(p) BY DEF OthersOK
<1>3. ProcessOK(Present) /\ Present # Nobody BY PresentOK
<1>4. others \in [1..MaxRestarts -> Process] BY DEF IInv, TypeOK
<1>5. p # Nobody BY <1>1 DEF Running, Nobody
<1>6. ~Alone BY <1>5 DEF Alone, Overtaken
<1> HIDE DEF p
<1>7. others'[i] = Present /\ \A j \in 1..MaxRestarts : others'[j] \in {others[j], Present}
  BY <1>1, <1>4
<1>8. OthersOK' BY <1>3, <1>7 DEF OthersOK
<1>9. ~Alone' BY <1>3, <1>7 DEF Alone, Overtaken
<1>10. TypeOK'
  <2>1. p \in Process /\ Present \in Process BY <1>2, <1>3 DEF ProcessOK
  <2>2. others' \in [1..MaxRestarts -> Process] BY <1>1, <1>4, <2>1
  <2>3. /\ p.graph \in Graph /\ p.phase \in Phase /\ p.round \in Nat
        /\ p.thread \in [Threads -> Thread] /\ p.todo \in SUBSET Tasks
    BY <2>1 DEF Process
  <2> QED BY <1>1, <2>2, <2>3 DEF IInv, TypeOK
<1>11. \A th \in Threads : ThreadOK(th)'
  BY <1>1, <1>2 DEF ProcessOK, ThreadIn, ThreadOK, State, TaskOf, At
<1>12. TodoOK' BY <1>1, <1>2 DEF ProcessOK, TodoIn, TodoOK, TaskOf
<1>13. Sound(graph') /\ Sound(store') BY <1>1, <1>2 DEF ProcessOK, IInv
<1> QED BY <1>6, <1>8, <1>9, <1>10, <1>11, <1>12, <1>13 DEF IInv

LEMMA RestartIInv ==
  ASSUME IInv, OthersOK, Start \/ Restart
  PROVE  IInv' /\ OthersOK'
<1>0. job \in [status : JobStatus, cancel : BOOLEAN, failed : BOOLEAN] BY DEF IInv, TypeOK
<1>1. CASE Start
  <2>1. /\ restarts' \in Nat /\ others' \in [1..MaxRestarts -> Process]
        /\ UNCHANGED <<job, others>>
    BY <1>1 DEF Start, IInv, TypeOK
  <2>2. Invoke(FALSE) BY <1>1 DEF Start
  <2> QED BY <1>0, <2>1, <2>2, InvokeIInv DEF OthersOK
<1>2. CASE RetryActivity
  <2>1. Overtake /\ Invoke(FALSE) /\ UNCHANGED job BY <1>2 DEF RetryActivity
  <2> QED BY <1>0, <2>1, OvertakeOK, InvokeIInv
<1>3. CASE ResumeJob
  <2>1. /\ Overtake /\ Invoke(FALSE)
        /\ job' \in [status : JobStatus, cancel : BOOLEAN, failed : BOOLEAN]
    BY <1>0, <1>3 DEF ResumeJob, JobStatus
  <2> QED BY <2>1, OvertakeOK, InvokeIInv
<1>4. CASE RetryFailedTasks
  <2>1. /\ Overtake /\ Invoke(TRUE)
        /\ job' \in [status : JobStatus, cancel : BOOLEAN, failed : BOOLEAN]
    BY <1>0, <1>4 DEF RetryFailedTasks, JobStatus
  <2> QED BY <2>1, OvertakeOK, InvokeIInv
<1>5. CASE ResumeRefused
  <2>1. /\ job' \in [status : JobStatus, cancel : BOOLEAN, failed : BOOLEAN]
        /\ UNCHANGED <<graph, store, phase, round, thread, todo, restarts, canceller, others>>
    BY <1>0, <1>5 DEF ResumeRefused, JobStatus
  <2>2. TypeOK' BY <2>1 DEF IInv, TypeOK
  <2>3. TodoOK' BY <2>1 DEF IInv, TodoOK, TaskOf
  <2>4. Live' = Live BY <2>1 DEF Live
  <2>5. IInv' BY <2>1, <2>2, <2>3, <2>4, QuietIInv
  <2> QED BY <2>1, <2>5 DEF OthersOK
<1>6. ASSUME NEW i \in 1..MaxRestarts, Switch(i) PROVE IInv' /\ OthersOK' BY <1>6, SwitchIInv
<1> QED BY <1>1, <1>2, <1>3, <1>4, <1>5, <1>6 DEF Restart

LEMMA CoordinatorIInv ==
  ASSUME IInv, \/ Planned \/ EnterCoding \/ HonorCancel \/ PrepareWorktrees \/ WorktreesFail
               \/ BeginRound \/ RoundsExhausted \/ EndRound \/ Verdict
  PROVE  IInv'
<1>1. CASE Planned
  <2>1. TypeOK' /\ TodoOK' /\ (Live' => Live) BY <1>1 DEF Planned, IInv, TypeOK, Phase, Thread,
  TodoOK, Live, Running
  <2> QED BY <1>1, <2>1, QuietIInv, RestingThreads DEF Planned, Threads
<1>2. CASE EnterCoding
  <2>1. TypeOK' /\ TodoOK' /\ Live
    BY <1>2 DEF EnterCoding, IInv, TypeOK, Phase, Thread, TodoOK, Live, Running, JobStatus
  <2> QED BY <1>2, <2>1, QuietIInv, RestingThreads DEF EnterCoding, Threads
<1>3. CASE HonorCancel
  <2>1. TypeOK' /\ TodoOK' /\ Live
    BY <1>3 DEF HonorCancel, IInv, TypeOK, Phase, Thread, TodoOK, Live, Running, JobStatus
  <2> QED BY <1>3, <2>1, QuietIInv, RestingThreads DEF HonorCancel, Threads
<1>4. CASE PrepareWorktrees
  <2>1. TypeOK' /\ TodoOK' /\ Live
    BY <1>4 DEF PrepareWorktrees, IInv, TypeOK, Phase, Thread, TodoOK, Live, Running
  <2> QED BY <1>4, <2>1, QuietIInv, RestingThreads DEF PrepareWorktrees, Threads
<1>5. CASE WorktreesFail
  <2>1. TypeOK' /\ TodoOK' /\ Live
    BY <1>5 DEF WorktreesFail, IInv, TypeOK, Phase, Thread, TodoOK, Live, Running, JobStatus
  <2> QED BY <1>5, <2>1, QuietIInv, RestingThreads DEF WorktreesFail, Threads
<1>6. CASE BeginRound
  <2>1. TypeOK' /\ TodoOK' /\ Live BY <1>6 DEF BeginRound, IInv, TypeOK, Phase, Thread, TodoOK,
  Live, Running
  <2> QED BY <1>6, <2>1, QuietIInv, RestingThreads DEF BeginRound, Threads
<1>7. CASE RoundsExhausted
  <2>1. TypeOK' /\ TodoOK' /\ Live BY <1>7 DEF RoundsExhausted, IInv, TypeOK, Phase, Thread,
  TodoOK, Live, Running
  <2> QED BY <1>7, <2>1, QuietIInv, RestingThreads DEF RoundsExhausted, Threads
<1>8. CASE EndRound
  <2>1. TypeOK' /\ TodoOK' /\ Live BY <1>8 DEF EndRound, IInv, TypeOK, Phase, Thread, TodoOK,
  Live, Running
  <2> QED BY <1>8, <2>1, QuietIInv, RestingThreads DEF EndRound, Threads
<1>9. CASE Verdict
  <2>1. Outcome \in JobStatus BY DEF Outcome, JobStatus, Finished
  <2>2. TypeOK' /\ TodoOK' /\ Live BY <1>9, <2>1 DEF Verdict, IInv, TypeOK, Phase, Thread, TodoOK,
  Live, Running
  <2> QED BY <1>9, <2>2, QuietIInv, RestingThreads DEF Verdict, Threads
<1> QED BY <1>1, <1>2, <1>3, <1>4, <1>5, <1>6, <1>7, <1>8, <1>9

LEMMA EnvironmentIInv ==
  ASSUME IInv, Flush \/ Crash \/ CancelLooks \/ CancelWrites
  PROVE  IInv'
<1>1. CASE Flush
  <2>1. TypeOK' /\ TodoOK' BY <1>1 DEF Flush, control, IInv, TypeOK, TodoOK, TaskOf
  <2> QED BY <1>1, <2>1, QuietIInv DEF Flush, control, Live, Running
<1>2. CASE Crash
  <2>1. TypeOK' BY <1>2, EmptyGraphSound DEF Crash, IInv, TypeOK, Phase, Thread, Sound, Resting,
  Idle, PC
  <2>2. \A th \in Threads : ThreadOK(th)' BY <1>2 DEF Crash, Resting, ThreadOK
  <2>3. TodoOK' /\ ~Live' BY <1>2 DEF Crash, TodoOK, Live, Running
  <2> QED BY <1>2, <2>1, <2>2, <2>3, EmptyGraphSound DEF Crash, IInv
<1>3. CASE CancelLooks
  <2>1. TypeOK' /\ TodoOK' BY <1>3 DEF CancelLooks, IInv, TypeOK, TodoOK, TaskOf
  <2> QED BY <1>3, <2>1, QuietIInv DEF CancelLooks, Live, Running
<1>4. CASE CancelWrites
  <2>1. TypeOK' /\ TodoOK' BY <1>4 DEF CancelWrites, IInv, TypeOK, TodoOK, TaskOf, JobStatus
  <2> QED BY <1>4, <2>1, QuietIInv DEF CancelWrites, Live, Running
<1> QED BY <1>1, <1>2, <1>3, <1>4

LEMMA PlanTaskIInv ==
  ASSUME IInv, NEW t \in Tasks, PlanTask(t)
  PROVE  IInv'
<1>1. /\ phase = "plan" /\ Is(graph, t, "absent") /\ graph' = AddTask(graph, t)
      /\ UNCHANGED <<store, thread, job, phase, round, todo, restarts, canceller, others>>
  BY DEF PlanTask, control
<1>2. Sound(graph') /\ KeepsMerged(graph, graph') BY <1>1, AddTaskSound DEF IInv
<1>3. TypeOK' BY <1>1, <1>2 DEF IInv, TypeOK, Sound
<1>4. \A th \in Threads : ThreadOK(th)' BY <1>1, RestingThreads DEF ThreadOK, Threads
<1>5. TodoOK' BY <1>1 DEF TodoOK
<1>6. Live' /\ Alone' => KeepsMerged(store', graph')
  BY <1>1, <1>2 DEF IInv, Live, Running, Alone, Overtaken, KeepsMerged
<1> QED BY <1>1, <1>2, <1>3, <1>4, <1>5, <1>6 DEF IInv

LEMMA AssignTasksIInv == ASSUME IInv, AssignTasks PROVE IInv'
<1>1. PICK ts \in SUBSET Ready(graph) : \E f \in [ts -> FreeAgents(graph)] :
         /\ Assignment(f)
         /\ graph' = Placed(graph, f)
         /\ todo' = IF FreeAgents(graph) = {} THEN {}
                    ELSE {t \in Ready(graph) \ ts : Unroutable(t)}
  BY DEF AssignTasks
<1>2. PICK f \in [ts -> FreeAgents(graph)] :
         /\ Assignment(f)
         /\ graph' = Placed(graph, f)
         /\ todo' \subseteq Ready(graph) \ ts
  BY <1>1
<1>3. /\ phase = "assign" /\ phase' = "route"
      /\ UNCHANGED <<store, job, round, thread, restarts, canceller, others>>
  BY DEF AssignTasks
<1>4. /\ \A t \in ts : Eligible(graph, t, f[t])
      /\ \A t, u \in ts : f[t] = f[u] => t = u
  <2>1. DOMAIN f = ts BY <1>2
  <2> QED BY <1>2, <2>1 DEF Assignment
<1>5. /\ Sound(graph') /\ KeepsMerged(graph, graph')
      /\ \A u \in Tasks \ ts : graph'.task[u] = graph.task[u]
  BY <1>2, <1>4, PlacedSound DEF IInv
<1>6. todo' \subseteq Tasks /\ \A t \in todo' : t \notin ts /\ graph.task[t].status = "to_do"
  BY <1>2 DEF Ready, With, Is
<1>7. TypeOK' BY <1>3, <1>5, <1>6 DEF IInv, TypeOK, Phase, Thread, Sound
<1>8. \A th \in Threads : thread[th] = Idle BY <1>3, RestingThreads DEF Threads
<1>9. \A th \in Threads : ThreadOK(th)' BY <1>3, <1>8 DEF ThreadOK
<1>10. TodoOK'
  BY <1>3, <1>5, <1>6, <1>8, TaskGraphAssumption DEF TodoOK, Is, TaskOf, Idle, Threads
<1>11. Live' /\ Alone' => KeepsMerged(store', graph')
  BY <1>3, <1>5 DEF IInv, Live, Running, Alone, Overtaken, KeepsMerged
<1> QED BY <1>3, <1>5, <1>7, <1>9, <1>10, <1>11 DEF IInv

LEMMA FailUnroutableIInv ==
  ASSUME IInv, NEW t \in Tasks, FailUnroutable(t)
  PROVE  IInv'
<1>1. /\ phase = "route" /\ thread[Lead] = Idle /\ t \in todo /\ todo' = todo \ {t}
      /\ graph' = Fail(graph, t, graph.task[t].revs)
      /\ thread' = [thread EXCEPT ![Lead] = [pc |-> "cascade", task |-> t]]
      /\ UNCHANGED <<store, job, phase, round, restarts, canceller, others>>
  BY DEF FailUnroutable
<1>2. graph.task[t].status # "merged" BY <1>1 DEF IInv, TodoOK, Is
<1>3. graph.task[t].revs \in Nat BY DEF IInv, TypeOK, Graph, TaskState
<1>4. /\ Sound(graph') /\ Spares(graph, graph', t) /\ KeepsMerged(graph, graph')
  BY <1>1, <1>2, <1>3, FailSound DEF IInv
<1>5. thread \in [Threads -> Thread] BY DEF IInv, TypeOK
<1>6. thread' \in [Threads -> Thread]
  <2>1. [pc |-> "cascade", task |-> t] \in Thread BY DEF PC, Thread
  <2> QED BY <1>1, <1>5, <2>1
<1>7. TypeOK' BY <1>1, <1>4, <1>6 DEF IInv, TypeOK, Sound
<1>8. /\ \A a \in Agents : thread'[a] = Idle
      /\ thread'[Lead].pc = "cascade" /\ thread'[Lead].task = t
  BY <1>1, <1>5, RestingThreads, CodingSwarmAssumption DEF Threads
<1>9. \A th \in Threads : ThreadOK(th)'
  BY <1>1, <1>8, CodingSwarmAssumption DEF ThreadOK, Threads, TaskOf, At, Engaged
<1>10. TodoOK'
  BY <1>1, <1>4, <1>8 DEF IInv, TypeOK, TodoOK, Spares, Is, TaskOf
<1>11. Live' /\ Alone' => KeepsMerged(store', graph')
  BY <1>1, <1>4 DEF IInv, Live, Running, Alone, Overtaken, KeepsMerged
<1> QED BY <1>1, <1>4, <1>7, <1>9, <1>10, <1>11 DEF IInv

LEMMA StartImplementingIInv == ASSUME IInv, StartImplementing PROVE IInv'
<1>1. /\ phase = "route" /\ thread[Lead] = Idle /\ todo = {}
      /\ store' = graph /\ phase' = "implement"
      /\ thread' = [th \in Threads |->
                    IF th \in Agents /\ Current(graph, th) \in With(graph, "in_progress")
                    THEN [pc |-> "work", task |-> Current(graph, th)]
                    ELSE Idle]
      /\ UNCHANGED <<graph, job, round, todo, restarts, canceller, others>>
  BY DEF StartImplementing
<1>2. Sound(graph) BY DEF IInv
<1>3. ASSUME NEW th \in Threads
      PROVE  \/ thread'[th] = Idle
             \/ /\ th \in Agents /\ thread'[th].pc = "work" /\ thread'[th].task \in Tasks
                /\ thread'[th] \in Thread
                /\ graph.task[thread'[th].task].status = "in_progress"
                /\ graph.task[thread'[th].task].agent = th
  <2>1. CASE th \in Agents /\ Current(graph, th) \in With(graph, "in_progress")
    <3>1. thread'[th] = [pc |-> "work", task |-> Current(graph, th)] BY <1>1, <2>1
    <3>2. /\ Current(graph, th) \in Tasks
          /\ graph.task[Current(graph, th)].status = "in_progress"
      BY <2>1 DEF With, Is
    <3>3. graph.task[Current(graph, th)].agent = th
      BY <1>2, <2>1, <3>2, TaskGraphAssumption DEF Sound, HeldIsNamed, Current
    <3> QED BY <2>1, <3>1, <3>2, <3>3 DEF PC, Thread
  <2>2. CASE ~(th \in Agents /\ Current(graph, th) \in With(graph, "in_progress"))
    BY <1>1, <2>2
  <2> QED BY <2>1, <2>2
<1>4. thread' \in [Threads -> Thread]
  <2>1. Idle \in Thread BY DEF Idle, PC, Thread
  <2>2. \A th \in Threads : thread'[th] \in Thread
    BY <1>3, <2>1
  <2>3. thread' = [th \in Threads |-> thread'[th]] BY <1>1
  <2> QED BY <2>2, <2>3
<1>5. TypeOK' BY <1>1, <1>4 DEF IInv, TypeOK, Phase, Thread
<1>6. \A th \in Threads : ThreadOK(th)'
  BY <1>1, <1>3, CodingSwarmAssumption DEF ThreadOK, TaskOf, State, At, Engaged, InFlight
<1>7. TodoOK' BY <1>1 DEF TodoOK
<1>8. KeepsMerged(store', graph') BY <1>1 DEF KeepsMerged
<1> QED BY <1>1, <1>2, <1>5, <1>6, <1>7, <1>8 DEF IInv

LEMMA StartReviewIInv == ASSUME IInv, StartReview PROVE IInv'
<1>1. /\ phase = "implement" /\ phase' = "review"
      /\ \A a \in Agents : thread[a] = Idle
      /\ store' = graph /\ todo' = With(graph, "in_review")
      /\ UNCHANGED <<graph, job, round, thread, restarts, canceller, others>>
  BY DEF StartReview
<1>2. \A th \in Threads : thread[th] = Idle BY <1>1, RestingThreads DEF Threads
<1>3. \A th \in Threads : ThreadOK(th)' BY <1>1, <1>2 DEF ThreadOK
<1>4. TypeOK' BY <1>1 DEF IInv, TypeOK, Phase, Thread, With
<1>5. TodoOK'
  BY <1>1, <1>2, TaskGraphAssumption DEF TodoOK, With, Is, InFlight, TaskOf, Idle, Threads
<1>6. KeepsMerged(store', graph') BY <1>1 DEF KeepsMerged
<1> QED BY <1>1, <1>3, <1>4, <1>5, <1>6 DEF IInv

LEMMA TakeReviewIInv ==
  ASSUME IInv, NEW t \in Tasks, TakeReview(t)
  PROVE  IInv'
<1>1. /\ phase = "review" /\ thread[Lead] = Idle /\ t \in todo /\ todo' = todo \ {t}
      /\ thread' = [thread EXCEPT ![Lead] = [pc |-> "judge", task |-> t]]
      /\ UNCHANGED <<graph, store, job, phase, round, restarts, canceller, others>>
  BY DEF TakeReview
<1>2. graph.task[t].status \in InFlight BY <1>1 DEF IInv, TodoOK
<1>3. thread \in [Threads -> Thread] BY DEF IInv, TypeOK
<1>4. thread' \in [Threads -> Thread]
  <2>1. [pc |-> "judge", task |-> t] \in Thread BY DEF PC, Thread
  <2> QED BY <1>1, <1>3, <2>1
<1>5. TypeOK' BY <1>1, <1>4 DEF IInv, TypeOK
<1>6. /\ \A a \in Agents : thread'[a] = Idle
      /\ thread'[Lead].pc = "judge" /\ thread'[Lead].task = t
  BY <1>1, <1>3, RestingThreads, CodingSwarmAssumption DEF Threads
<1>7. \A th \in Threads : ThreadOK(th)'
  BY <1>1, <1>2, <1>6, CodingSwarmAssumption DEF ThreadOK, Threads, TaskOf, State, At
<1>8. TodoOK' BY <1>1, <1>6 DEF IInv, TodoOK, Is, TaskOf
<1>9. Live' /\ Alone' => KeepsMerged(store', graph')
  BY <1>1 DEF IInv, Live, Running, Alone, Overtaken, KeepsMerged
<1> QED BY <1>1, <1>5, <1>7, <1>8, <1>9 DEF IInv

-----------------------------------------------------------------------------
(* The steps of a thread on its task *)

\* A thread that is not idle, with what it may count on.
LEMMA AtWork ==
  ASSUME IInv, NEW th \in Threads, NEW pc, At(th, pc), pc # "idle"
  PROVE  /\ thread[th] # Idle /\ ThreadOK(th) /\ Sound(graph)
         /\ TaskOf(th) \in Tasks /\ State(th) \in TaskState
         /\ thread[th].pc = pc
<1>1. thread[th].pc = pc /\ thread[th] # Idle BY DEF At, Idle
<1>2. ThreadOK(th) /\ Sound(graph) /\ graph \in Graph BY DEF IInv, Sound
<1>3. TaskOf(th) \in Tasks BY <1>1, <1>2 DEF ThreadOK
<1>4. State(th) \in TaskState BY <1>2, <1>3 DEF State, Graph
<1> QED BY <1>1, <1>2, <1>3, <1>4

\* A write of the task's own record by the thread that has it.
LEMMA WriteKeepsIInv ==
  ASSUME IInv, NEW th \in Threads, NEW pc \in PC, NEW s \in TaskState,
         thread[th] # Idle, thread[th].pc \in Engaged, Write(th, s, pc),
         s.agent = State(th).agent,
         \/ pc # "release" /\ s.status \in InFlight /\ s.pin \in {NoAgent, s.agent}
         \/ pc = "release" /\ s.status = "to_do" /\ s.pin = s.agent,
         th \in Agents /\ pc \in {"gates", "bounce", "submit"} => s.pin = th
  PROVE  IInv'
<1> DEFINE t == TaskOf(th)
           g == Put(graph, t, s)
<1>1. ThreadOK(th) /\ Sound(graph) BY DEF IInv
<1>2. t \in Tasks /\ graph.task[t].status \in InFlight BY <1>1 DEF ThreadOK, State
<1>3. s.agent = graph.task[t].agent BY DEF State
<1>4. Sound(g) /\ Spares(graph, g, t) /\ KeepsMerged(graph, g)
  BY <1>1, <1>2, <1>3, PutSound
<1>5. g.task[t] = s BY <1>1, <1>2, PutFacts DEF Sound
<1>6. Step(th, g, pc) BY DEF Write
<1> HIDE DEF g, t
<1>7. t = TaskOf(th) BY DEF t
<1>8. "release" \notin Engaged BY DEF Engaged
<1> QED BY <1>3, <1>4, <1>5, <1>6, <1>7, <1>8, StepKeepsIInv

\* While its task is in flight, a pin is at its agent; a worker's own task is its.
LEMMA EngagedFacts ==
  ASSUME IInv, NEW th \in Threads, thread[th] # Idle, thread[th].pc \in Engaged
  PROVE  /\ State(th).status \in InFlight /\ State(th).agent \in Agents
         /\ State(th).pin \in {NoAgent, State(th).agent}
         /\ th \in Agents => State(th).agent = th
         /\ th \in Agents /\ thread[th].pc \in {"gates", "bounce", "submit"} => State(th).pin = th
<1>1. ThreadOK(th) /\ FlightIsHeld(graph) BY DEF IInv, Sound
<1>2. TaskOf(th) \in Tasks BY <1>1 DEF ThreadOK
<1> QED BY <1>1, <1>2 DEF ThreadOK, FlightIsHeld, State

LEMMA HandOffIInv ==
  ASSUME IInv, NEW a \in Agents, HandOff(a)
  PROVE  IInv'
<1> DEFINE s == [State(a) EXCEPT !.pin = a]
<1>1. /\ a \in Threads /\ thread[a].pc = "work" /\ thread[a] # Idle
      /\ State(a) \in TaskState
  BY AtWork DEF HandOff, Threads
<1>2. /\ State(a).status \in InFlight /\ State(a).agent \in Agents
      /\ State(a).pin \in {NoAgent, State(a).agent}
      /\ a \in Agents => State(a).agent = a
  BY <1>1, EngagedFacts DEF Engaged
<1>3. /\ s \in TaskState /\ s.agent = State(a).agent
      /\ s.status \in InFlight /\ s.pin \in {NoAgent, s.agent}
      /\ s.pin = a
  BY <1>1, <1>2 DEF TaskState, Status, InFlight
<1>4. Write(a, s, "gates") BY DEF HandOff
<1> HIDE DEF s
<1> QED BY <1>1, <1>3, <1>4, WriteKeepsIInv DEF Engaged, PC

LEMMA PassGatesIInv ==
  ASSUME IInv, NEW a \in Agents, PassGates(a)
  PROVE  IInv'
<1> DEFINE s == [State(a) EXCEPT !.status = "in_review"]
<1>1. /\ a \in Threads /\ thread[a].pc = "gates" /\ thread[a] # Idle
      /\ State(a) \in TaskState
  BY AtWork DEF PassGates, Threads
<1>2. /\ State(a).status \in InFlight /\ State(a).agent \in Agents
      /\ State(a).pin \in {NoAgent, State(a).agent}
      /\ a \in Agents => State(a).agent = a
  BY <1>1, EngagedFacts DEF Engaged
<1>3. /\ s \in TaskState /\ s.agent = State(a).agent
      /\ s.status \in InFlight /\ s.pin \in {NoAgent, s.agent}
  BY <1>1, <1>2 DEF TaskState, Status, InFlight
<1>4. Write(a, s, "idle") BY DEF PassGates
<1> HIDE DEF s
<1> QED BY <1>1, <1>3, <1>4, WriteKeepsIInv DEF Engaged, PC

LEMMA SubmitIInv ==
  ASSUME IInv, NEW a \in Agents, Submit(a)
  PROVE  IInv'
<1> DEFINE s == [State(a) EXCEPT !.status = "in_review"]
<1>1. /\ a \in Threads /\ thread[a].pc = "submit" /\ thread[a] # Idle
      /\ State(a) \in TaskState
  BY AtWork DEF Submit, Threads
<1>2. /\ State(a).status \in InFlight /\ State(a).agent \in Agents
      /\ State(a).pin \in {NoAgent, State(a).agent}
      /\ a \in Agents => State(a).agent = a
  BY <1>1, EngagedFacts DEF Engaged
<1>3. /\ s \in TaskState /\ s.agent = State(a).agent
      /\ s.status \in InFlight /\ s.pin \in {NoAgent, s.agent}
  BY <1>1, <1>2 DEF TaskState, Status, InFlight
<1>4. Write(a, s, "idle") BY DEF Submit
<1> HIDE DEF s
<1> QED BY <1>1, <1>3, <1>4, WriteKeepsIInv DEF Engaged, PC

LEMMA GrantWindowIInv ==
  ASSUME IInv, NEW th \in Threads, GrantWindow(th)
  PROVE  IInv'
<1> DEFINE s == [State(th) EXCEPT !.status = "in_progress", !.still = 0, !.based = FALSE]
<1>1. /\ th \in Threads /\ thread[th].pc = "stalled" /\ thread[th] # Idle
      /\ State(th) \in TaskState
  BY AtWork DEF GrantWindow, Threads
<1>2. /\ State(th).status \in InFlight /\ State(th).agent \in Agents
      /\ State(th).pin \in {NoAgent, State(th).agent}
      /\ th \in Agents => State(th).agent = th
  BY <1>1, EngagedFacts DEF Engaged
<1>3. /\ s \in TaskState /\ s.agent = State(th).agent
      /\ s.status \in InFlight /\ s.pin \in {NoAgent, s.agent}
  BY <1>1, <1>2 DEF TaskState, Status, InFlight
<1>4. Write(th, s, "idle") BY DEF GrantWindow
<1> HIDE DEF s
<1> QED BY <1>1, <1>3, <1>4, WriteKeepsIInv DEF Engaged, PC

LEMMA JudgeDoneIInv ==
  ASSUME IInv, NEW th \in Threads, NEW noop \in BOOLEAN, JudgeDone(th, noop)
  PROVE  IInv'
<1> DEFINE s == [State(th) EXCEPT !.noop = noop]
<1>1. /\ th \in Threads /\ thread[th].pc = "stalled" /\ thread[th] # Idle
      /\ State(th) \in TaskState
  BY AtWork DEF JudgeDone, Threads
<1>2. /\ State(th).status \in InFlight /\ State(th).agent \in Agents
      /\ State(th).pin \in {NoAgent, State(th).agent}
      /\ th \in Agents => State(th).agent = th
  BY <1>1, EngagedFacts DEF Engaged
<1>3. /\ s \in TaskState /\ s.agent = State(th).agent
      /\ s.status \in InFlight /\ s.pin \in {NoAgent, s.agent}
  BY <1>1, <1>2 DEF TaskState, Status, InFlight
<1>4. Write(th, s, "land") BY DEF JudgeDone
<1> HIDE DEF s
<1> QED BY <1>1, <1>3, <1>4, WriteKeepsIInv DEF Engaged, PC

LEMMA NoteProgressIInv ==
  ASSUME IInv, NEW th \in Threads, NEW same \in BOOLEAN, NEW next \in {"retry", "bounce"},
         thread[th] # Idle, thread[th].pc \in Engaged, NoteProgress(th, same, next),
         th \in Agents /\ next = "bounce" => State(th).pin = th
  PROVE  IInv'
<1>1. State(th) \in TaskState
  <2>1. thread[th].pc # "idle" BY DEF Engaged
  <2> QED BY <2>1, AtWork DEF At
<1>2. PICK still \in Nat, pc \in {next, "stalled"} :
        Write(th, [State(th) EXCEPT !.still = still, !.based = TRUE], pc)
  <2>1. (IF same THEN State(th).still + 1 ELSE 0) \in Nat BY <1>1 DEF TaskState
  <2> QED BY <2>1 DEF NoteProgress
<1> DEFINE s == [State(th) EXCEPT !.still = still, !.based = TRUE]
<1>3. /\ State(th).status \in InFlight /\ State(th).pin \in {NoAgent, State(th).agent}
  BY EngagedFacts
<1>4. /\ s \in TaskState /\ s.agent = State(th).agent /\ s.pin = State(th).pin
      /\ s.status \in InFlight /\ s.pin \in {NoAgent, s.agent}
  BY <1>1, <1>3 DEF TaskState
<1>5. Write(th, s, pc) BY <1>2
<1> HIDE DEF s
<1>6. pc \in PC /\ pc # "release" BY DEF PC
<1> QED BY <1>4, <1>5, <1>6, WriteKeepsIInv

LEMMA FallShortIInv ==
  ASSUME IInv, NEW a \in Agents, NEW same \in BOOLEAN, FallShort(a, same)
  PROVE  IInv'
<1>1. a \in Threads /\ thread[a].pc = "work" /\ thread[a] # Idle
  BY AtWork DEF FallShort, Threads
<1> QED BY <1>1, NoteProgressIInv DEF FallShort, Engaged

LEMMA FailGatesIInv ==
  ASSUME IInv, NEW a \in Agents, NEW same \in BOOLEAN, FailGates(a, same)
  PROVE  IInv'
<1>1. a \in Threads /\ thread[a].pc = "gates" /\ thread[a] # Idle
  BY AtWork DEF FailGates, Threads
<1>2. State(a).pin = a BY <1>1, EngagedFacts DEF Engaged
<1> QED BY <1>1, <1>2, NoteProgressIInv DEF FailGates, Engaged

LEMMA RejectIInv ==
  ASSUME IInv, NEW same \in BOOLEAN, Reject(same)
  PROVE  IInv'
<1>1. Lead \in Threads /\ thread[Lead].pc = "judge" /\ thread[Lead] # Idle
  BY AtWork DEF Reject, Threads
<1> QED BY <1>1, NoteProgressIInv, CodingSwarmAssumption DEF Reject, Engaged

\* The thread fails its task, the dependents come next.
LEMMA FailStepIInv ==
  ASSUME IInv, NEW th \in Threads, thread[th] # Idle, thread[th].pc \in Engaged, NEW n \in Nat,
         Step(th, Fail(graph, TaskOf(th), n), "cascade")
  PROVE  IInv'
<1>1. ThreadOK(th) /\ Sound(graph) BY DEF IInv
<1>2. TaskOf(th) \in Tasks /\ graph.task[TaskOf(th)].status # "merged"
  BY <1>1 DEF ThreadOK, State, InFlight
<1> DEFINE g == Fail(graph, TaskOf(th), n)
<1>3. /\ Sound(g) /\ Spares(graph, g, TaskOf(th)) /\ KeepsMerged(graph, g)
      /\ g.task[TaskOf(th)].agent = graph.task[TaskOf(th)].agent
  BY <1>1, <1>2, FailSound
<1> HIDE DEF g
<1>4. "cascade" \in PC /\ "cascade" \notin Engaged BY DEF PC, Engaged
<1> QED BY <1>3, <1>4, StepKeepsIInv DEF g

LEMMA MergeStepIInv ==
  ASSUME IInv, NEW th \in Threads, thread[th] # Idle, thread[th].pc \in Engaged,
         Step(th, Merge(graph, TaskOf(th)), "idle")
  PROVE  IInv'
<1>1. ThreadOK(th) /\ Sound(graph) BY DEF IInv
<1>2. TaskOf(th) \in Tasks /\ graph.task[TaskOf(th)].status \in InFlight
  BY <1>1 DEF ThreadOK, State
<1> DEFINE g == Merge(graph, TaskOf(th))
<1>3. Sound(g) /\ Spares(graph, g, TaskOf(th)) /\ KeepsMerged(graph, g)
  BY <1>1, <1>2, MergeSound
<1> HIDE DEF g
<1>4. "idle" \in PC /\ "idle" \notin Engaged BY DEF PC, Engaged
<1> QED BY <1>3, <1>4, StepKeepsIInv DEF g

LEMMA ReleaseIInv == ASSUME IInv, NEW a \in Agents, Release(a) PROVE IInv'
<1>1. a \in Threads /\ thread[a].pc = "release" /\ thread[a] # Idle
  BY AtWork DEF Release, Threads
<1>2. ThreadOK(a) /\ Sound(graph) BY <1>1 DEF IInv
<1>3. TaskOf(a) \in Tasks /\ graph.task[TaskOf(a)].status \in {"to_do", "failed"}
  BY <1>1, <1>2 DEF ThreadOK, At, State
<1> DEFINE g == Unassign(graph, TaskOf(a))
<1>4. Sound(g) /\ Spares(graph, g, TaskOf(a)) /\ KeepsMerged(graph, g)
  BY <1>2, <1>3, UnassignSound
<1>5. Step(a, g, "idle") BY DEF Release
<1> HIDE DEF g
<1>6. "idle" \in PC /\ "idle" \notin Engaged BY DEF PC, Engaged
<1> QED BY <1>1, <1>4, <1>5, <1>6, StepKeepsIInv

LEMMA FailDependentsIInv == ASSUME IInv, NEW th \in Threads, FailDependents(th) PROVE IInv'
<1>1. thread[th] # Idle /\ TaskOf(th) \in Tasks /\ Sound(graph)
  BY AtWork DEF FailDependents
<1> DEFINE g == Cascade(graph)
<1>2. Sound(g) /\ Spares(graph, g, TaskOf(th)) /\ KeepsMerged(graph, g)
  BY <1>1, CascadeSound
<1>3. Step(th, g, "idle") BY DEF FailDependents
<1> HIDE DEF g
<1>4. "idle" \in PC /\ "idle" \notin Engaged BY DEF PC, Engaged
<1> QED BY <1>1, <1>2, <1>3, <1>4, StepKeepsIInv

LEMMA RetryIInv == ASSUME IInv, NEW th \in Threads, Retry(th) PROVE IInv'
<1>1. thread[th].pc = "retry" /\ thread[th] # Idle /\ State(th) \in TaskState
  BY AtWork DEF Retry
<1>2. PICK revs \in Nat :
        \/ Step(th, Fail(graph, TaskOf(th), revs), "cascade")
        \/ Write(th, [State(th) EXCEPT !.status = "in_progress", !.revs = revs], "idle")
  <2>1. State(th).revs + 1 \in Nat BY <1>1 DEF TaskState
  <2> QED BY <2>1 DEF Retry
<1>3. CASE Step(th, Fail(graph, TaskOf(th), revs), "cascade")
  BY <1>1, <1>3, FailStepIInv DEF Engaged
<1>4. CASE Write(th, [State(th) EXCEPT !.status = "in_progress", !.revs = revs], "idle")
  <2> DEFINE s == [State(th) EXCEPT !.status = "in_progress", !.revs = revs]
  <2>1. State(th).pin \in {NoAgent, State(th).agent} BY <1>1, EngagedFacts DEF Engaged
  <2>2. /\ s \in TaskState /\ s.agent = State(th).agent
        /\ s.status \in InFlight /\ s.pin \in {NoAgent, s.agent}
    BY <1>1, <2>1 DEF TaskState, Status, InFlight
  <2>3. Write(th, s, "idle") BY <1>4
  <2> HIDE DEF s
  <2> QED BY <1>1, <2>2, <2>3, WriteKeepsIInv DEF Engaged, PC
<1> QED BY <1>2, <1>3, <1>4

LEMMA BounceIInv == ASSUME IInv, NEW a \in Agents, Bounce(a) PROVE IInv'
<1>1. a \in Threads /\ thread[a].pc = "bounce" /\ thread[a] # Idle /\ State(a) \in TaskState
  BY AtWork DEF Bounce, Threads
<1>2. PICK revs \in Nat :
        \/ Write(a, [State(a) EXCEPT !.revs = revs], "submit")
        \/ Write(a, [State(a) EXCEPT !.status = "to_do", !.revs = revs], "release")
  <2>1. State(a).revs + 1 \in Nat BY <1>1 DEF TaskState
  <2> QED BY <2>1 DEF Bounce
<1>3. State(a).status \in InFlight /\ State(a).agent = a /\ State(a).pin = a
  BY <1>1, EngagedFacts DEF Engaged
<1>4. CASE Write(a, [State(a) EXCEPT !.revs = revs], "submit")
  <2> DEFINE s == [State(a) EXCEPT !.revs = revs]
  <2>1. /\ s \in TaskState /\ s.agent = State(a).agent
        /\ s.status \in InFlight /\ s.pin = a
    BY <1>1, <1>3 DEF TaskState
  <2>2. Write(a, s, "submit") BY <1>4
  <2> HIDE DEF s
  <2> QED BY <1>1, <1>3, <2>1, <2>2, WriteKeepsIInv DEF Engaged, PC
<1>5. CASE Write(a, [State(a) EXCEPT !.status = "to_do", !.revs = revs], "release")
  <2> DEFINE s == [State(a) EXCEPT !.status = "to_do", !.revs = revs]
  <2>1. /\ s \in TaskState /\ s.agent = State(a).agent
        /\ s.status = "to_do" /\ s.pin = a
    BY <1>1, <1>3 DEF TaskState, Status
  <2>2. Write(a, s, "release") BY <1>5
  <2> HIDE DEF s
  <2> QED BY <1>1, <1>3, <2>1, <2>2, WriteKeepsIInv DEF Engaged, PC
<1> QED BY <1>2, <1>4, <1>5

LEMMA ConcludeIInv == ASSUME IInv, NEW th \in Threads, Conclude(th) PROVE IInv'
<1>1. CASE Retry(th) BY <1>1, RetryIInv
<1>2. CASE GrantWindow(th) BY <1>2, GrantWindowIInv
<1>3. CASE Land(th)
  <2>1. thread[th].pc = "land" /\ thread[th] # Idle BY <1>3, AtWork DEF Land
  <2> QED BY <1>3, <2>1, MergeStepIInv DEF Land, Engaged
<1>4. CASE JudgeFailed(th)
  <2>1. thread[th].pc = "stalled" /\ thread[th] # Idle /\ State(th).revs \in Nat
    BY <1>4, AtWork DEF JudgeFailed, TaskState
  <2> QED BY <1>4, <2>1, FailStepIInv DEF JudgeFailed, Engaged
<1>5. CASE FailDependents(th) BY <1>5, FailDependentsIInv
<1>6. ASSUME NEW noop \in BOOLEAN, JudgeDone(th, noop) PROVE IInv' BY <1>6, JudgeDoneIInv
<1> QED BY <1>1, <1>2, <1>3, <1>4, <1>5, <1>6 DEF Conclude

LEMMA WorkIInv == ASSUME IInv, NEW a \in Agents, Work(a) PROVE IInv'
<1>1. ASSUME NEW same \in BOOLEAN, FallShort(a, same) \/ FailGates(a, same) PROVE IInv'
  BY <1>1, FallShortIInv, FailGatesIInv
<1> QED
  BY <1>1, HandOffIInv, PassGatesIInv, BounceIInv, SubmitIInv, ReleaseIInv DEF Work

LEMMA ReviewIInv == ASSUME IInv, Review PROVE IInv'
<1>1. CASE Approve
  <2>1. Lead \in Threads /\ thread[Lead].pc = "judge" /\ thread[Lead] # Idle
    BY <1>1, AtWork DEF Approve, Threads
  <2> QED BY <1>1, <2>1, MergeStepIInv DEF Approve, Engaged
<1>2. CASE ReviewError
  <2>1. /\ Lead \in Threads /\ thread[Lead].pc = "judge" /\ thread[Lead] # Idle
        /\ State(Lead).revs \in Nat
    BY <1>2, AtWork DEF ReviewError, Threads, TaskState
  <2> QED BY <1>2, <2>1, FailStepIInv DEF ReviewError, Engaged
<1>3. ASSUME NEW same \in BOOLEAN, Reject(same) PROVE IInv' BY <1>3, RejectIInv
<1> QED BY <1>1, <1>2, <1>3 DEF Review

\* Only a way back to the job touches the invocations that were overtaken.
LEMMA OthersSteps == [Next]_vars => UNCHANGED others \/ Restart
<1> SUFFICES ASSUME [Next]_vars PROVE UNCHANGED others \/ Restart OBVIOUS
<1>1. CASE Coordinate
  BY <1>1 DEF Coordinate, control, Start, PlanTask, Planned, EnterCoding, HonorCancel,
     PrepareWorktrees, WorktreesFail, BeginRound, RoundsExhausted, AssignTasks,
     FailUnroutable, TakeReview, StartImplementing, StartReview, EndRound, Verdict
<1>2. CASE \E a \in Agents : Work(a)
  BY <1>2 DEF Work, HandOff, PassGates, Bounce, Submit, Release, FallShort, FailGates,
     NoteProgress, Write, Step, control
<1>3. CASE \E th \in Threads : Conclude(th)
  BY <1>3 DEF Conclude, Retry, GrantWindow, Land, JudgeFailed, FailDependents, JudgeDone,
     Write, Step, control
<1>4. CASE Review
  BY <1>4 DEF Review, Approve, ReviewError, Reject, NoteProgress, Write, Step, control
<1>5. CASE Flush \/ Crash \/ CancelLooks \/ CancelWrites
  BY <1>5 DEF Flush, Crash, CancelLooks, CancelWrites, control
<1>6. CASE UNCHANGED vars BY <1>6 DEF vars
<1> QED BY <1>1, <1>2, <1>3, <1>4, <1>5, <1>6 DEF Next

LEMMA NextIInv == IInv /\ OthersOK /\ [Next]_vars => IInv' /\ OthersOK'
<1> SUFFICES ASSUME IInv, OthersOK, [Next]_vars PROVE IInv' /\ OthersOK' OBVIOUS
<1>1. CASE Restart BY <1>1, RestartIInv
<1>2. CASE ~Restart
  <2>1. OthersOK' BY <1>2, OthersSteps DEF OthersOK
  <2>2. CASE Coordinate
    <3>1. ASSUME NEW t \in Tasks, PlanTask(t) \/ FailUnroutable(t) \/ TakeReview(t) PROVE IInv'
      BY <3>1, PlanTaskIInv, FailUnroutableIInv, TakeReviewIInv
    <3>2. IInv'
      BY <2>2, <3>1, RestartIInv, CoordinatorIInv, AssignTasksIInv, StartImplementingIInv,
         StartReviewIInv
      DEF Coordinate
    <3> QED BY <2>1, <3>2
  <2>3. CASE UNCHANGED vars
    <3>1. IInv' = IInv
      BY <2>3 DEF vars, IInv, TypeOK, ThreadOK, TodoOK, Live, Alone, Overtaken, State, TaskOf, At
    <3> QED BY <2>1, <3>1
  <2>4. ASSUME NEW a \in Agents, Work(a) PROVE IInv' BY <2>4, WorkIInv
  <2>5. ASSUME NEW th \in Threads, Conclude(th) PROVE IInv' BY <2>5, ConcludeIInv
  <2> QED BY <1>2, <2>1, <2>2, <2>3, <2>4, <2>5, ReviewIInv, EnvironmentIInv DEF Next
<1> QED BY <1>1, <1>2

LEMMA Invariance == Spec => [](IInv /\ OthersOK)
<1>1. Init => OthersOK BY RestingOK DEF Init, OthersOK
<1> QED BY <1>1, InitIInv, NextIInv, PTL DEF Spec

-----------------------------------------------------------------------------
(* The results *)

\* Every variable keeps its type.
THEOREM TypeCorrect == Spec => []TypeOK
<1>1. IInv => TypeOK BY DEF IInv
<1> QED BY <1>1, Invariance, PTL

\* assign_task_to_agent's precondition is never undone, in the graph of any
\* invocation or in any snapshot: what has begun has its dependencies merged.
THEOREM DependenciesComeFirst == Spec => []DependenciesFirst
<1>1. IInv => DependenciesFirst BY DEF IInv, Sound, DepsFirst, DependenciesFirst
<1> QED BY <1>1, Invariance, PTL

\* No two threads of one invocation ever work on one task.
THEOREM ThreadsDoNotCollide == Spec => []OneThreadPerTask
<1> QED BY ThreadsApart, Invariance, PTL

\* The agent map and the tasks' own assignments agree.
THEOREM AssignmentsStayConsistent == Spec => []AssignmentsAgree
<1>1. IInv => AssignmentsAgree
  BY DEF IInv, Sound, HeldIsNamed, FlightIsHeld, AssignmentsAgree
<1> QED BY <1>1, Invariance, PTL

\* A branch is worked on only where it is checked out.
THEOREM BranchesStayHome == Spec => []BranchStaysHome
<1>1. IInv => BranchStaysHome BY DEF IInv, Sound, FlightIsHeld, BranchStaysHome
<1> QED BY <1>1, Invariance, PTL

\* The record is written only with the graph of an invocation that runs.
LEMMA StoreSteps == [Next]_vars => store' = store \/ (Live /\ store' = graph)
<1> SUFFICES ASSUME [Next]_vars PROVE store' = store \/ (Live /\ store' = graph) OBVIOUS
<1>1. CASE Coordinate
  BY <1>1 DEF Coordinate, control, Start, Invoke, PlanTask, Planned, EnterCoding, HonorCancel,
     PrepareWorktrees, WorktreesFail, BeginRound, RoundsExhausted, AssignTasks,
     FailUnroutable, TakeReview, StartImplementing, StartReview, EndRound, Verdict, Live, Running
<1>2. CASE \E a \in Agents : Work(a)
  BY <1>2 DEF Work, HandOff, PassGates, Bounce, Submit, Release, FallShort, FailGates,
     NoteProgress, Write, Step
<1>3. CASE \E th \in Threads : Conclude(th)
  BY <1>3 DEF Conclude, Retry, GrantWindow, Land, JudgeFailed, FailDependents, JudgeDone,
     Write, Step
<1>4. CASE Review
  BY <1>4 DEF Review, Approve, ReviewError, Reject, NoteProgress, Write, Step
<1>5. CASE Restart \/ Flush \/ Crash \/ CancelLooks \/ CancelWrites
  BY <1>5 DEF Restart, RetryActivity, ResumeJob, ResumeRefused, RetryFailedTasks, Switch,
     Invoke, Flush, Crash, CancelLooks, CancelWrites, control
<1>6. CASE UNCHANGED vars BY <1>6 DEF vars
<1> QED BY <1>1, <1>2, <1>3, <1>4, <1>5, <1>6 DEF Next

\* While no invocation has been overtaken, no crash, resume or retry takes back
\* what the record says is merged.
THEOREM MergedWorkIsKept == Spec => MergedStaysMerged
<1>1. IInv /\ [Next]_vars =>
        [Alone => \A t \in Tasks : Is(store, t, "merged") => Is(store', t, "merged")]_vars
  BY StoreSteps DEF IInv, KeepsMerged
<1> QED BY <1>1, Invariance, PTL DEF Spec, MergedStaysMerged

-----------------------------------------------------------------------------
(* The revision budget                                                     *)
(*                                                                         *)
(* An invocation may bounce a task past the cap only once before a window  *)
(* opens and once after it, because the window clears the branch digest:   *)
(* the next bounce finds no digest to compare with and counts no revisit,  *)
(* so a cap of two revisits is not reached before the last retry.          *)

Budget == MaxRevisions + 2 * restarts

\* What a task's counters may be when its thread is at pc, or when no thread
\* has it (pc is "idle").
Within(s, pc, b) ==
    /\ s.revs <= b + 2
    /\ s.status # "failed" => s.revs <= b + 1
    /\ s.status \in {"absent", "to_do"} => s.revs < b
    /\ s.status = "in_progress" /\ pc \in {"idle", "work", "gates"} =>
         s.revs <= b /\ (s.revs = b => ~s.based)
    /\ pc = "bounce" => s.revs <= b /\ (s.revs = b => s.still = 0)
    /\ pc = "stalled" => s.revs <= b
    /\ s.status = "in_review" /\ pc \in {"idle", "judge"} /\ s.revs = b + 1 => s.still = 0
    /\ pc = "submit" /\ s.revs = b + 1 => s.still = 0
    /\ pc \in {"work", "gates"} => s.status = "in_progress"
    /\ pc = "judge" => s.status = "in_review"
    /\ pc = "cascade" => s.status = "failed"

\* What a crash can leave behind of the counters.
Kept(s, b) == s.revs <= b + 2 /\ (s.status # "failed" => s.revs <= b + 1)

Untaken(t) == \A th \in Threads : TaskOf(th) # t

RevsInv ==
    /\ \A t \in Tasks : Untaken(t) => Within(graph.task[t], "idle", Budget)
    /\ \A th \in Threads : thread[th] # Idle => Within(State(th), thread[th].pc, Budget)
    /\ \A t \in Tasks : Kept(store.task[t], Budget)
    /\ phase = "review" => \A t \in todo : Is(graph, t, "in_review")
    /\ phase = "new" => store = EmptyGraph

\* What a mutation by the thread of task t leaves of the other tasks.
LeavesAlone(g, h, t) ==
    \A u \in Tasks \ {t} :
        \/ h.task[u] = g.task[u]
        \/ ~Begun(g, u) /\ h.task[u] = [g.task[u] EXCEPT !.status = "failed"]

LEMMA PutLeavesAlone ==
  ASSUME NEW g, Sound(g), NEW t \in Tasks, NEW s \in TaskState
  PROVE  LeavesAlone(g, Put(g, t, s), t) /\ Put(g, t, s).task[t] = s
  BY PutFacts DEF Sound, LeavesAlone

LEMMA FailLeavesAlone ==
  ASSUME NEW g, Sound(g), NEW t \in Tasks, NEW n \in Nat
  PROVE  /\ LeavesAlone(g, Fail(g, t, n), t)
         /\ Fail(g, t, n).task[t].status = "failed"
         /\ Fail(g, t, n).task[t].revs = n
<1>1. g.task[t] \in TaskState /\ DOMAIN g.task = Tasks BY DEF Sound, Graph
<1>2. LeavesAlone(g, Fail(g, t, n), t) BY <1>1 DEF LeavesAlone, Fail
<1>3. Fail(g, t, n).task[t] = [g.task[t] EXCEPT !.status = "failed", !.revs = n]
  BY <1>1 DEF Fail
<1>4. Fail(g, t, n).task[t].status = "failed" /\ Fail(g, t, n).task[t].revs = n
  BY <1>1, <1>3 DEF TaskState
<1> QED BY <1>2, <1>4

LEMMA MutationsLeaveAlone ==
  ASSUME NEW g, Sound(g), NEW t \in Tasks
  PROVE  /\ LeavesAlone(g, Merge(g, t), t)
         /\ Merge(g, t).task[t] = [g.task[t] EXCEPT !.status = "merged"]
         /\ LeavesAlone(g, Unassign(g, t), t)
         /\ Unassign(g, t).task[t] = [g.task[t] EXCEPT !.agent = NoAgent]
<1>1. DOMAIN g.task = Tasks BY DEF Sound, Graph
<1>3. /\ LeavesAlone(g, Merge(g, t), t)
      /\ Merge(g, t).task[t] = [g.task[t] EXCEPT !.status = "merged"]
  BY <1>1 DEF LeavesAlone, Merge
<1>5. /\ LeavesAlone(g, Unassign(g, t), t)
      /\ Unassign(g, t).task[t] = [g.task[t] EXCEPT !.agent = NoAgent]
  BY <1>1 DEF LeavesAlone, Unassign
<1> QED BY <1>3, <1>5

\* The cascade leaves alone what has begun, and what is failed already.
LEMMA CascadeLeavesAlone ==
  ASSUME NEW g, Sound(g), NEW t \in Tasks
  PROVE  /\ LeavesAlone(g, Cascade(g), t)
         /\ g.task[t].status = "failed" => Cascade(g).task[t] = g.task[t]
<1>1. ASSUME NEW u \in Tasks
      PROVE  \/ Cascade(g).task[u] = g.task[u]
             \/ ~Begun(g, u) /\ Cascade(g).task[u] = [g.task[u] EXCEPT !.status = "failed"]
  <2>1. CASE u \in Doomed(g) BY <2>1, DoomedNotBegun DEF Cascade
  <2>2. CASE u \notin Doomed(g) BY <2>2 DEF Cascade
  <2> QED BY <2>1, <2>2
<1>2. g.task[t] \in TaskState BY DEF Sound, Graph
<1>3. g.task[t].status = "failed" => [g.task[t] EXCEPT !.status = "failed"] = g.task[t]
  BY <1>2 DEF TaskState
<1> QED BY <1>1, <1>3 DEF LeavesAlone

LEMMA BudgetType == ASSUME IInv PROVE Budget \in Nat /\ Budget >= MaxRevisions /\ Budget >= 1
  BY CodingSwarmAssumption DEF IInv, TypeOK, Budget

\* Of every task of the live graph a snapshot may be taken.
LEMMA GraphKept ==
  ASSUME RevsInv, IInv, NEW t \in Tasks
  PROVE  Kept(graph.task[t], Budget)
<1>1. CASE Untaken(t) BY <1>1 DEF RevsInv, Within, Kept
<1>2. CASE ~Untaken(t)
  <2>1. PICK th \in Threads : TaskOf(th) = t BY <1>2 DEF Untaken
  <2>2. thread[th] # Idle BY <2>1, TaskGraphAssumption DEF TaskOf, Idle
  <2> QED BY <2>1, <2>2 DEF RevsInv, Within, Kept, State
<1> QED BY <1>1, <1>2

\* The failure of a task that has not begun costs no revision.
LEMMA FailedWithin ==
  ASSUME NEW s \in TaskState, NEW pc, NEW b, Within(s, pc, b),
         pc \notin {"work", "gates", "judge"}
  PROVE  Within([s EXCEPT !.status = "failed"], pc, b)
<1> DEFINE f == [s EXCEPT !.status = "failed"]
<1>1. f.status = "failed" /\ f.revs = s.revs /\ f.still = s.still BY DEF TaskState
<1> HIDE DEF f
<1>2. Within(f, pc, b) BY <1>1 DEF Within
<1> QED BY <1>2 DEF f

\* One step of a thread that keeps its own task within the budget.
LEMMA StepKeepsRevs ==
  ASSUME IInv, RevsInv, NEW th \in Threads, thread[th] # Idle, NEW g, NEW pc,
         Step(th, g, pc), LeavesAlone(graph, g, TaskOf(th)),
         Within(g.task[TaskOf(th)], pc, Budget)
  PROVE  RevsInv'
<1> DEFINE s == IF pc = "idle" THEN Idle ELSE [pc |-> pc, task |-> TaskOf(th)]
<1>1. /\ graph' = g /\ thread' = [thread EXCEPT ![th] = s]
      /\ UNCHANGED <<store, job, phase, round, todo, restarts, canceller, others>>
  BY DEF Step, control
<1>2. /\ TaskOf(th) \in Tasks /\ ThreadOK(th)
      /\ thread \in [Threads -> Thread]
      /\ graph.task \in [Tasks -> TaskState]
  BY DEF IInv, ThreadOK, TypeOK, Graph
<1>3. s = Idle \/ (s.pc = pc /\ s.task = TaskOf(th) /\ pc # "idle") OBVIOUS
<1>4. s = Idle => pc = "idle" BY DEF Idle
<1> HIDE DEF s
<1>5. thread'[th] = s /\ \A o \in Threads \ {th} : thread'[o] = thread[o] BY <1>1, <1>2
<1>6. Budget' = Budget BY <1>1 DEF Budget
\* A task of another thread is in flight at the steps that say something of its status.
<1>7. ASSUME NEW u \in Tasks \ {TaskOf(th)}, NEW p, Within(graph.task[u], p, Budget),
             p \in {"work", "gates", "judge"} => graph.task[u].status \in InFlight
      PROVE  Within(g.task[u], p, Budget)
  <2>1. CASE g.task[u] = graph.task[u] BY <1>7, <2>1
  <2>2. CASE ~Begun(graph, u) /\ g.task[u] = [graph.task[u] EXCEPT !.status = "failed"]
    BY <1>2, <1>7, <2>2, FailedWithin DEF Begun
  <2> QED BY <2>1, <2>2 DEF LeavesAlone
<1>8. ASSUME NEW t \in Tasks, Untaken(t)' PROVE Within(graph'.task[t], "idle", Budget)
  <2>1. CASE t = TaskOf(th)
    <3>1. s = Idle BY <1>3, <1>5, <1>8, <2>1 DEF Untaken, TaskOf
    <3> QED BY <1>1, <1>4, <2>1, <3>1
  <2>2. CASE t # TaskOf(th)
    <3>1. Untaken(t) BY <1>5, <1>8, <2>2 DEF Untaken, TaskOf
    <3>2. Within(graph.task[t], "idle", Budget) BY <3>1 DEF RevsInv
    <3> QED BY <1>1, <1>7, <2>2, <3>2
  <2> QED BY <2>1, <2>2
<1>9. ASSUME NEW o \in Threads, thread'[o] # Idle
      PROVE  Within(graph'.task[thread'[o].task], thread'[o].pc, Budget)
  <2>1. CASE o = th BY <1>1, <1>3, <1>5, <1>9, <2>1
  <2>2. CASE o # th
    <3>1. thread'[o] = thread[o] /\ ThreadOK(o) BY <1>5, <2>2 DEF IInv
    <3>2. TaskOf(o) \in Tasks BY <1>9, <3>1 DEF ThreadOK
    <3>3. TaskOf(o) # TaskOf(th)
      BY <3>2, <2>2, <1>2, ThreadsApart, TaskGraphAssumption DEF OneThreadPerTask
    <3>4. Within(graph.task[TaskOf(o)], thread[o].pc, Budget)
      BY <1>9, <3>1 DEF RevsInv, State
    <3>5. thread[o].pc \in {"work", "gates", "judge"} => graph.task[TaskOf(o)].status \in InFlight
      BY <1>9, <3>1 DEF ThreadOK, Engaged, State
    <3>6. Within(g.task[TaskOf(o)], thread[o].pc, Budget) BY <1>7, <3>2, <3>3, <3>4, <3>5
    <3> QED BY <1>1, <3>1, <3>6 DEF TaskOf
  <2> QED BY <2>1, <2>2
<1>10. phase' = "review" => \A t \in todo' : Is(graph', t, "in_review")
  <2> SUFFICES ASSUME phase = "review", NEW t \in todo PROVE Is(g, t, "in_review")
    BY <1>1
  <2>1. th = Lead BY <1>2 DEF ThreadOK, Threads
  <2>2. t # TaskOf(th) /\ t \in Tasks BY <2>1 DEF IInv, TodoOK, TypeOK
  <2>3. Is(graph, t, "in_review") BY DEF RevsInv
  <2> QED BY <2>2, <2>3 DEF LeavesAlone, Is, Begun, InFlight
<1> QED BY <1>1, <1>6, <1>8, <1>9, <1>10 DEF RevsInv, State, TaskOf

\* A write of the task's own record.
LEMMA WriteKeepsRevs ==
  ASSUME IInv, RevsInv, NEW th \in Threads, thread[th] # Idle, NEW s \in TaskState, NEW pc,
         Write(th, s, pc), Within(s, pc, Budget)
  PROVE  RevsInv'
<1>1. TaskOf(th) \in Tasks /\ Sound(graph) BY DEF IInv, ThreadOK
<1> DEFINE g == Put(graph, TaskOf(th), s)
<1>2. LeavesAlone(graph, g, TaskOf(th)) /\ g.task[TaskOf(th)] = s
  BY <1>1, PutLeavesAlone
<1>3. Step(th, g, pc) BY DEF Write
<1> HIDE DEF g
<1> QED BY <1>2, <1>3, StepKeepsRevs

\* What a thread that is not idle may count on.
LEMMA RevsAtWork ==
  ASSUME IInv, RevsInv, NEW th \in Threads, NEW pc, At(th, pc), pc # "idle"
  PROVE  /\ thread[th] # Idle /\ Within(State(th), pc, Budget)
         /\ State(th) \in TaskState /\ TaskOf(th) \in Tasks /\ Sound(graph)
         /\ State(th) = graph.task[TaskOf(th)]
         /\ pc \in Engaged => State(th).status \in InFlight
         /\ pc = "cascade" => State(th).revs <= Budget + 2
  BY AtWork DEF RevsInv, Within, ThreadOK, State

LEMMA NoteProgressRevs ==
  ASSUME IInv, RevsInv, NoChangeCap >= 2, NEW th \in Threads, NEW same \in BOOLEAN,
         NEW pc \in {"work", "gates", "judge"}, At(th, pc),
         NEW next \in {"retry", "bounce"}, next = "bounce" => pc = "gates",
         NoteProgress(th, same, next)
  PROVE  RevsInv'
<1> DEFINE still == IF same THEN State(th).still + 1 ELSE 0
           s == [State(th) EXCEPT !.still = still, !.based = TRUE]
           nxt == IF still >= NoChangeCap THEN "stalled" ELSE next
<1>1. /\ thread[th] # Idle /\ Within(State(th), pc, Budget) /\ State(th) \in TaskState
      /\ State(th).status \in InFlight
  BY RevsAtWork DEF Engaged
<1>2. Write(th, s, nxt) /\ (same => State(th).based) BY DEF NoteProgress
<1>3. /\ State(th).still \in Nat /\ State(th).revs \in Nat
      /\ still \in Nat
  BY <1>1 DEF TaskState
<1>4. /\ s \in TaskState /\ s.revs = State(th).revs /\ s.status = State(th).status
      /\ s.still = still
  BY <1>1, <1>3 DEF TaskState
<1>5. nxt \in {"stalled", next} /\ (nxt = "stalled" => still >= NoChangeCap)
  BY DEF nxt
<1>6. /\ nxt = "stalled" => State(th).revs <= Budget
      /\ nxt = "bounce" => State(th).revs <= Budget /\ (State(th).revs = Budget => still = 0)
  <2>1. pc \in {"work", "gates"} =>
          State(th).revs <= Budget /\ (State(th).revs = Budget => still = 0)
    BY <1>1, <1>2 DEF Within
  <2>2. nxt = "bounce" => pc = "gates" BY <1>5
  <2>3. CASE pc = "judge"
    <3>1. State(th).revs <= Budget + 1 /\ (State(th).revs = Budget + 1 => State(th).still = 0)
      BY <1>1, <2>3 DEF Within, InFlight
    <3>2. still >= NoChangeCap => State(th).still # 0 BY <1>3, CodingSwarmAssumption
    <3>3. Budget \in Nat BY BudgetType
    <3> QED BY <1>3, <1>5, <2>2, <2>3, <3>1, <3>2, <3>3
  <2> QED BY <2>1, <2>2, <2>3
<1> HIDE DEF s, nxt, still
<1>7. Within(s, nxt, Budget)
  <2>1. s.status \in {"in_progress", "in_review"} BY <1>1, <1>4 DEF InFlight
  <2>2. State(th).revs <= Budget + 1 /\ State(th).revs <= Budget + 2
    BY <1>1, <2>1, <1>4 DEF Within
  <2> QED BY <1>4, <1>5, <1>6, <2>1, <2>2 DEF Within
<1> QED BY <1>1, <1>2, <1>4, <1>7, WriteKeepsRevs

LEMMA WorkRevs ==
  ASSUME IInv, RevsInv, NoChangeCap >= 2, NEW a \in Agents, Work(a)
  PROVE  RevsInv'
<1> USE DEF Threads
<1>0. a \in Threads /\ Budget \in Nat /\ Budget >= MaxRevisions /\ MaxRevisions \in Nat
  BY BudgetType, CodingSwarmAssumption
<1>1. CASE HandOff(a)
  <2> DEFINE s == [State(a) EXCEPT !.pin = a]
  <2>1. /\ thread[a] # Idle /\ Within(State(a), "work", Budget) /\ State(a) \in TaskState
    BY <1>0, <1>1, RevsAtWork DEF HandOff
  <2>2. /\ s \in TaskState /\ s.revs = State(a).revs /\ s.status = State(a).status
        /\ s.based = State(a).based
    BY <2>1 DEF TaskState
  <2>3. Write(a, s, "gates") BY <1>1 DEF HandOff
  <2> HIDE DEF s
  <2>4. Within(s, "gates", Budget) BY <2>1, <2>2 DEF Within
  <2> QED BY <1>0, <2>1, <2>2, <2>3, <2>4, WriteKeepsRevs
<1>2. CASE PassGates(a)
  <2> DEFINE s == [State(a) EXCEPT !.status = "in_review"]
  <2>1. /\ thread[a] # Idle /\ Within(State(a), "gates", Budget) /\ State(a) \in TaskState
    BY <1>0, <1>2, RevsAtWork DEF PassGates
  <2>2. /\ s \in TaskState /\ s.revs = State(a).revs /\ s.status = "in_review"
        /\ s.revs \in Nat
    BY <2>1 DEF TaskState, Status
  <2>3. Write(a, s, "idle") BY <1>2 DEF PassGates
  <2> HIDE DEF s
  <2>4. Within(s, "idle", Budget) BY <1>0, <2>1, <2>2 DEF Within
  <2> QED BY <1>0, <2>1, <2>2, <2>3, <2>4, WriteKeepsRevs
<1>3. CASE Bounce(a)
  <2> DEFINE revs == State(a).revs + 1
             s == [State(a) EXCEPT !.revs = revs]
             d == [State(a) EXCEPT !.status = "to_do", !.revs = revs]
  <2>1. /\ thread[a] # Idle /\ Within(State(a), "bounce", Budget) /\ State(a) \in TaskState
        /\ State(a).status \in InFlight
    BY <1>0, <1>3, RevsAtWork DEF Bounce, Engaged
  <2>2. /\ s \in TaskState /\ s.revs = revs /\ s.status = State(a).status
        /\ s.still = State(a).still
        /\ d \in TaskState /\ d.revs = revs /\ d.status = "to_do"
        /\ State(a).revs \in Nat /\ revs \in Nat
    <3>1. State(a).revs \in Nat /\ revs \in Nat BY <2>1 DEF TaskState
    <3> HIDE DEF revs
    <3> QED BY <2>1, <3>1 DEF TaskState, Status
  <2>3. \/ revs >= MaxRevisions /\ Write(a, s, "submit")
        \/ ~(revs >= MaxRevisions) /\ Write(a, d, "release")
    BY <1>3 DEF Bounce
  <2>4. revs <= Budget + 1 /\ (revs = Budget + 1 => State(a).still = 0)
    BY <1>0, <2>1, <2>2 DEF Within
  <2>5. Within(s, "submit", Budget)
    <3>1. s.status \in {"in_progress", "in_review"} BY <2>1, <2>2 DEF InFlight
    <3>2. s.revs \in Nat /\ s.revs <= Budget + 1 /\ s.revs <= Budget + 2
          /\ (s.revs = Budget + 1 => s.still = 0)
      BY <1>0, <2>2, <2>4
    <3> HIDE DEF s, revs
    <3> QED BY <3>1, <3>2 DEF Within
  <2>6. CASE revs >= MaxRevisions /\ Write(a, s, "submit")
    <3> HIDE DEF s
    <3> QED BY <1>0, <2>1, <2>2, <2>5, <2>6, WriteKeepsRevs
  <2>7. CASE ~(revs >= MaxRevisions) /\ Write(a, d, "release")
    <3>1. d.revs \in Nat /\ d.revs < Budget /\ d.revs <= Budget + 1 /\ d.revs <= Budget + 2
      BY <1>0, <2>2, <2>7
    <3>2. d.status = "to_do" /\ d \in TaskState BY <2>2
    <3> HIDE DEF d, revs
    <3>3. Within(d, "release", Budget) BY <3>1, <3>2 DEF Within
    <3> QED BY <1>0, <2>1, <2>7, <3>2, <3>3, WriteKeepsRevs
  <2> QED BY <2>3, <2>6, <2>7
<1>4. CASE Submit(a)
  <2> DEFINE s == [State(a) EXCEPT !.status = "in_review"]
  <2>1. /\ thread[a] # Idle /\ Within(State(a), "submit", Budget) /\ State(a) \in TaskState
        /\ State(a).status \in InFlight
    BY <1>0, <1>4, RevsAtWork DEF Submit, Engaged
  <2>2. /\ s \in TaskState /\ s.revs = State(a).revs /\ s.status = "in_review"
        /\ s.still = State(a).still
    BY <2>1 DEF TaskState, Status
  <2>3. Write(a, s, "idle") BY <1>4 DEF Submit
  <2> HIDE DEF s
  <2>4. Within(s, "idle", Budget) BY <1>0, <2>1, <2>2 DEF Within, InFlight
  <2> QED BY <1>0, <2>1, <2>2, <2>3, <2>4, WriteKeepsRevs
<1>5. CASE Release(a)
  <2> DEFINE g == Unassign(graph, TaskOf(a))
  <2>1. /\ thread[a] # Idle /\ Within(State(a), "release", Budget) /\ State(a) \in TaskState
        /\ Sound(graph) /\ TaskOf(a) \in Tasks /\ State(a) = graph.task[TaskOf(a)]
    BY <1>0, <1>5, RevsAtWork DEF Release
  <2>2. State(a).status \in {"to_do", "failed"}
    BY <1>0, <1>5, AtWork DEF Release, ThreadOK, At
  <2>3. /\ LeavesAlone(graph, g, TaskOf(a))
        /\ g.task[TaskOf(a)] = [graph.task[TaskOf(a)] EXCEPT !.agent = NoAgent]
    BY <2>1, MutationsLeaveAlone
  <2>4. Step(a, g, "idle") BY <1>5 DEF Release
  <2>5. /\ g.task[TaskOf(a)].revs = State(a).revs
        /\ g.task[TaskOf(a)].status = State(a).status
    BY <2>1, <2>3 DEF TaskState
  <2> HIDE DEF g
  <2>6. Within(g.task[TaskOf(a)], "idle", Budget) BY <2>1, <2>2, <2>5 DEF Within
  <2> QED BY <1>0, <2>1, <2>3, <2>4, <2>6, StepKeepsRevs
<1>6. ASSUME NEW same \in BOOLEAN, FallShort(a, same) PROVE RevsInv'
  BY <1>0, <1>6, NoteProgressRevs DEF FallShort
<1>7. ASSUME NEW same \in BOOLEAN, FailGates(a, same) PROVE RevsInv'
  BY <1>0, <1>7, NoteProgressRevs DEF FailGates
<1> QED BY <1>1, <1>2, <1>3, <1>4, <1>5, <1>6, <1>7 DEF Work

LEMMA FailStepRevs ==
  ASSUME IInv, RevsInv, NEW th \in Threads, thread[th] # Idle, TaskOf(th) \in Tasks,
         NEW n \in Nat, n <= Budget + 2,
         Step(th, Fail(graph, TaskOf(th), n), "cascade")
  PROVE  RevsInv'
<1> DEFINE t == TaskOf(th)
           g == Fail(graph, t, n)
           s == g.task[t]
<1>1. Sound(graph) /\ graph.task[t] \in TaskState BY DEF IInv, TypeOK, Graph
<1>2. LeavesAlone(graph, g, t) /\ s.status = "failed" /\ s.revs = n
  BY <1>1, FailLeavesAlone
<1>4. Step(th, g, "cascade") OBVIOUS
<1> HIDE DEF g
<1>5. Budget \in Nat BY BudgetType
<1>6. Within(s, "cascade", Budget)
  <2> HIDE DEF s
  <2> QED BY <1>2, <1>5 DEF Within
<1> QED BY <1>2, <1>4, <1>6, StepKeepsRevs

\* A thread's failing or merging its task.
LEMMA SettleRevs ==
  ASSUME IInv, RevsInv, NEW th \in Threads, NEW pc \in Engaged, At(th, pc),
         \/ Step(th, Merge(graph, TaskOf(th)), "idle")
         \/ \E n \in {State(th).revs, State(th).revs + 1} :
              Step(th, Fail(graph, TaskOf(th), n), "cascade")
  PROVE  RevsInv'
<1>1. /\ thread[th] # Idle /\ Within(State(th), pc, Budget)
      /\ Sound(graph) /\ TaskOf(th) \in Tasks /\ State(th) = graph.task[TaskOf(th)]
      /\ State(th).status \in InFlight /\ State(th) \in TaskState
  BY RevsAtWork DEF Engaged
<1>2. /\ Budget \in Nat /\ State(th).revs \in Nat /\ State(th).revs <= Budget + 1
  BY <1>1, BudgetType DEF TaskState, InFlight, Within
<1>3. CASE Step(th, Merge(graph, TaskOf(th)), "idle")
  <2> DEFINE g == Merge(graph, TaskOf(th))
             s == g.task[TaskOf(th)]
  <2>1. /\ LeavesAlone(graph, g, TaskOf(th))
        /\ s = [graph.task[TaskOf(th)] EXCEPT !.status = "merged"]
    BY <1>1, MutationsLeaveAlone
  <2>2. s.status = "merged" /\ s.revs = State(th).revs BY <1>1, <2>1 DEF TaskState
  <2>3. Step(th, g, "idle") BY <1>3
  <2> HIDE DEF g
  <2>4. Within(s, "idle", Budget)
    <3> HIDE DEF s
    <3> QED BY <1>2, <2>2 DEF Within
  <2> QED BY <1>1, <2>1, <2>3, <2>4, StepKeepsRevs
<1>4. ASSUME NEW n \in {State(th).revs, State(th).revs + 1},
             Step(th, Fail(graph, TaskOf(th), n), "cascade")
      PROVE  RevsInv'
  <2>1. n \in Nat /\ n <= Budget + 2 BY <1>2
  <2> QED BY <1>1, <1>4, <2>1, FailStepRevs
<1> QED BY <1>3, <1>4

LEMMA ConcludeRevs ==
  ASSUME IInv, RevsInv, NEW th \in Threads, Conclude(th)
  PROVE  RevsInv'
<1>0. Budget \in Nat /\ Budget >= MaxRevisions /\ MaxRevisions \in Nat
  BY BudgetType, CodingSwarmAssumption
<1>1. CASE Retry(th)
  <2> DEFINE revs == State(th).revs + 1
             s == [State(th) EXCEPT !.status = "in_progress", !.revs = revs]
  <2>1. thread[th] # Idle /\ State(th) \in TaskState /\ At(th, "retry")
    BY <1>1, RevsAtWork DEF Retry
  <2>2. revs \in Nat BY <2>1 DEF TaskState
  <2>3. CASE revs >= MaxRevisions
    <3>1. Step(th, Fail(graph, TaskOf(th), State(th).revs + 1), "cascade")
      BY <1>1, <2>3 DEF Retry
    <3> QED BY <2>1, <3>1, SettleRevs DEF Engaged
  <2>4. CASE ~(revs >= MaxRevisions)
    <3>1. Write(th, s, "idle") BY <1>1, <2>4 DEF Retry
    <3>2. revs < Budget /\ revs <= Budget /\ revs # Budget /\ revs <= Budget + 1 /\ revs <= Budget + 2
      BY <1>0, <2>2, <2>4
    <3> HIDE DEF revs
    <3>3. s \in TaskState /\ s.status = "in_progress" /\ s.revs = revs
      BY <2>1, <2>2 DEF TaskState, Status
    <3> HIDE DEF s
    <3>4. Within(s, "idle", Budget) BY <3>2, <3>3 DEF Within
    <3> QED BY <2>1, <3>1, <3>3, <3>4, WriteKeepsRevs
  <2> QED BY <2>3, <2>4
<1>2. CASE GrantWindow(th)
  <2> DEFINE s == [State(th) EXCEPT !.status = "in_progress", !.still = 0, !.based = FALSE]
  <2>1. thread[th] # Idle /\ State(th) \in TaskState /\ Within(State(th), "stalled", Budget)
    BY <1>2, RevsAtWork DEF GrantWindow
  <2>2. /\ s \in TaskState /\ s.status = "in_progress" /\ s.revs = State(th).revs
        /\ s.based = FALSE /\ s.revs \in Nat
    BY <2>1 DEF TaskState, Status
  <2>3. Write(th, s, "idle") BY <1>2 DEF GrantWindow
  <2> HIDE DEF s
  <2>4. Within(s, "idle", Budget) BY <1>0, <2>1, <2>2 DEF Within
  <2> QED BY <2>1, <2>2, <2>3, <2>4, WriteKeepsRevs
<1>3. CASE Land(th) BY <1>3, SettleRevs DEF Land, Engaged
<1>4. CASE JudgeFailed(th) BY <1>4, SettleRevs DEF JudgeFailed, Engaged
<1>5. CASE FailDependents(th)
  <2> DEFINE g == Cascade(graph)
  <2>1. /\ thread[th] # Idle /\ Within(State(th), "cascade", Budget) /\ State(th) \in TaskState
        /\ Sound(graph) /\ TaskOf(th) \in Tasks /\ State(th) = graph.task[TaskOf(th)]
    BY <1>5, RevsAtWork DEF FailDependents
  <2>2. LeavesAlone(graph, g, TaskOf(th)) BY <2>1, CascadeLeavesAlone
  <2>3. g.task[TaskOf(th)] = graph.task[TaskOf(th)] /\ State(th).status = "failed"
    BY <2>1, CascadeLeavesAlone DEF Within
  <2>4. Step(th, g, "idle") BY <1>5 DEF FailDependents
  <2> HIDE DEF g
  <2>5. Within(g.task[TaskOf(th)], "idle", Budget) BY <2>1, <2>3 DEF Within
  <2> QED BY <2>1, <2>2, <2>4, <2>5, StepKeepsRevs
<1>6. ASSUME NEW noop \in BOOLEAN, JudgeDone(th, noop) PROVE RevsInv'
  <2> DEFINE s == [State(th) EXCEPT !.noop = noop]
  <2>1. /\ thread[th] # Idle /\ State(th) \in TaskState /\ Within(State(th), "stalled", Budget)
        /\ State(th).status \in InFlight
    BY <1>6, RevsAtWork DEF JudgeDone, Engaged
  <2>2. /\ s \in TaskState /\ s.status = State(th).status /\ s.revs = State(th).revs
    BY <2>1 DEF TaskState
  <2>3. Write(th, s, "land") BY <1>6 DEF JudgeDone
  <2> HIDE DEF s
  <2>4. Within(s, "land", Budget) BY <1>0, <2>1, <2>2 DEF Within
  <2> QED BY <2>1, <2>2, <2>3, <2>4, WriteKeepsRevs
<1> QED BY <1>1, <1>2, <1>3, <1>4, <1>5, <1>6 DEF Conclude

LEMMA ReviewRevs ==
  ASSUME IInv, RevsInv, NoChangeCap >= 2, Review
  PROVE  RevsInv'
<1>0. Lead \in Threads BY DEF Threads
<1>1. CASE Approve BY <1>0, <1>1, SettleRevs DEF Approve, Engaged
<1>2. CASE ReviewError BY <1>0, <1>2, SettleRevs DEF ReviewError, Engaged
<1>3. ASSUME NEW same \in BOOLEAN, Reject(same) PROVE RevsInv'
  BY <1>0, <1>3, NoteProgressRevs DEF Reject
<1> QED BY <1>1, <1>2, <1>3 DEF Review

LEMMA BlankWithin ==
  ASSUME NEW pc \in {"idle"}, NEW b \in Nat, b >= 1
  PROVE  Within(Blank, pc, b) /\ Kept(Blank, b)
  BY DEF Within, Kept, Blank

\* When every thread rests, the tasks alone count.
LEMMA RestingRevs ==
  ASSUME \A th \in Threads : thread'[th] = Idle,
         \A t \in Tasks : Within(graph'.task[t], "idle", Budget'),
         \A t \in Tasks : Kept(store'.task[t], Budget'),
         phase' \notin {"review", "new"}
  PROVE  RevsInv'
  BY DEF RevsInv, State, TaskOf

LEMMA IdleWithin ==
  ASSUME RevsInv, \A th \in Threads : thread[th] = Idle, NEW t \in Tasks
  PROVE  Within(graph.task[t], "idle", Budget)
<1>1. Untaken(t) BY TaskGraphAssumption DEF Untaken, TaskOf, Idle
<1> QED BY <1>1 DEF RevsInv

\* An invocation puts back what was in flight: its revisions are below the
\* budget of the new invocation.
LEMMA InvokeRevs ==
  ASSUME IInv, RevsInv, NEW retryFailed \in BOOLEAN, Invoke(retryFailed),
         \/ phase = "new" /\ restarts' = restarts
         \/ phase # "new" /\ restarts' = restarts + 1
  PROVE  RevsInv'
<1>1. /\ graph' = Resumed(retryFailed) /\ phase' \in {"plan", "planned"}
      /\ thread' = Resting /\ UNCHANGED store
  BY DEF Invoke
<1>2. \A th \in Threads : thread'[th] = Idle BY <1>1 DEF Resting
<1>3. /\ Budget \in Nat /\ Budget' \in Nat /\ Budget' >= Budget /\ Budget' >= 1
      /\ phase # "new" => Budget' = Budget + 2
  BY BudgetType, CodingSwarmAssumption DEF IInv, TypeOK, Budget
<1>4. ASSUME NEW t \in Tasks PROVE Kept(store.task[t], Budget')
  <2>1. Kept(store.task[t], Budget) BY DEF RevsInv
  <2>2. store.task[t].revs \in Nat BY DEF IInv, TypeOK, Graph, TaskState
  <2> QED BY <1>3, <2>1, <2>2 DEF Kept
<1>5. ASSUME NEW t \in Tasks PROVE Within(graph'.task[t], "idle", Budget')
  <2> DEFINE s == store.task[t]
             r == Resumed(retryFailed).task[t]
  <2>1. s \in TaskState /\ s.revs \in Nat BY DEF IInv, TypeOK, Graph, TaskState
  <2>2. s.status \in InFlight \/ s.status \in {"absent", "to_do"} => s.revs < Budget'
    <3>1. CASE phase = "new" BY <1>3, <3>1 DEF RevsInv, EmptyGraph, Blank
    <3>2. CASE phase # "new"
      <4>1. Kept(s, Budget) BY DEF RevsInv
      <4> QED BY <1>3, <2>1, <3>2, <4>1 DEF Kept, InFlight
    <3> QED BY <3>1, <3>2
  <2>3. \/ r.status = "to_do" /\ ((r.revs = s.revs /\ s.status \in InFlight) \/ r.revs = 0)
        \/ r = s /\ s.status \notin InFlight
    <3> DEFINE g == ResetInFlight(store)
    <3>1. \/ g.task[t].status = "to_do" /\ g.task[t].revs = s.revs /\ s.status \in InFlight
          \/ g.task[t] = s /\ s.status \notin InFlight
      BY <2>1 DEF ResetInFlight, TaskState
    <3>2. g.task[t] \in TaskState
      <4>1. Sound(g) BY ResetInFlightSound DEF IInv
      <4> HIDE DEF g
      <4> QED BY <4>1 DEF Sound, Graph
    <3>3. Resumed(retryFailed) = IF retryFailed THEN ResetFailed(g) ELSE g BY DEF Resumed
    <3> HIDE DEF g
    <3>4. \/ ResetFailed(g).task[t] = g.task[t]
          \/ ResetFailed(g).task[t].status = "to_do" /\ ResetFailed(g).task[t].revs = 0
      BY <3>2 DEF ResetFailed, TaskState
    <3> QED BY <3>1, <3>3, <3>4
  <2>4. Kept(s, Budget') BY <1>4
  <2> HIDE DEF s, r
  <2>5. CASE r.status = "to_do" /\ ((r.revs = s.revs /\ s.status \in InFlight) \/ r.revs = 0)
    <3>1. r.revs \in Nat /\ r.revs < Budget' BY <1>3, <2>1, <2>2, <2>5
    <3>2. r.revs <= Budget' + 1 /\ r.revs <= Budget' + 2 BY <1>3, <3>1
    <3>3. Within(r, "idle", Budget') BY <2>5, <3>1, <3>2 DEF Within
    <3> QED BY <1>1, <3>3 DEF r
  <2>6. CASE r = s /\ s.status \notin InFlight
    <3>1. Within(r, "idle", Budget') BY <2>2, <2>4, <2>6 DEF Within, Kept, InFlight
    <3> QED BY <1>1, <3>1 DEF r
  <2> QED BY <2>3, <2>5, <2>6
<1> QED BY <1>1, <1>2, <1>4, <1>5, RestingRevs

\* The graph stays; a snapshot of it may be taken.
LEMMA QuietRevs ==
  ASSUME IInv, RevsInv, UNCHANGED <<graph, thread, restarts>>, store' \in {store, graph},
         phase' = "review" => phase = "review" /\ todo' = todo,
         phase' = "new" => phase = "new" /\ store' = store
  PROVE  RevsInv'
<1>1. Budget' = Budget BY DEF Budget
<1>2. \A t \in Tasks : Kept(store'.task[t], Budget') BY <1>1, GraphKept DEF RevsInv
<1> QED BY <1>1, <1>2 DEF RevsInv, Untaken, TaskOf, State

\* The counters of an invocation that was overtaken.
RevsIn(p, b) ==
    /\ \A t \in Tasks : (\A th \in Threads : p.thread[th].task # t)
                       => Within(p.graph.task[t], "idle", b)
    /\ \A th \in Threads : p.thread[th] # Idle =>
         Within(p.graph.task[p.thread[th].task], p.thread[th].pc, b)
    /\ p.phase = "review" => \A t \in p.todo : Is(p.graph, t, "in_review")

OthersRevs == \A i \in 1..MaxRestarts : RevsIn(others[i], Budget)

LEMMA RestingRevsIn ==
  ASSUME NEW b \in Nat, b >= 1
  PROVE  RevsIn(Nobody, b) /\ RevsIn(Over, b)
<1> DEFINE P(ph) == [graph |-> EmptyGraph, phase |-> ph, round |-> 0,
                     thread |-> Resting, todo |-> {}]
<1>1. ASSUME NEW ph \in {"new", "ended"} PROVE RevsIn(P(ph), b)
  <2>1. \A t \in Tasks : Within(P(ph).graph.task[t], "idle", b) BY BlankWithin DEF EmptyGraph
  <2>2. \A th \in Threads : P(ph).thread[th] = Idle BY DEF Resting
  <2>3. P(ph).phase # "review" BY <1>1
  <2> HIDE DEF P
  <2> QED BY <2>1, <2>2, <2>3 DEF RevsIn
<1>2. Nobody = P("new") /\ Over = P("ended") BY DEF Nobody, Over
<1> QED BY <1>1, <1>2

LEMMA PresentRevs == ASSUME IInv, RevsInv PROVE RevsIn(Present, Budget)
<1>1. CASE Live
  <2> DEFINE p == [graph |-> graph, phase |-> phase, round |-> round,
                   thread |-> thread, todo |-> todo]
  <2>1. Present = p BY <1>1 DEF Present
  <2>2. /\ p.graph = graph /\ p.phase = phase /\ p.thread = thread /\ p.todo = todo
    OBVIOUS
  <2> HIDE DEF p
  <2> QED BY <2>1, <2>2 DEF RevsInv, RevsIn, Untaken, TaskOf, State
<1>2. CASE ~Live BY <1>2, BudgetType, RestingRevsIn DEF Present
<1> QED BY <1>1, <1>2

\* A larger budget takes nothing away.
LEMMA WithinGrows ==
  ASSUME NEW s \in TaskState, NEW pc, NEW b \in Nat, Within(s, pc, b)
  PROVE  Within(s, pc, b + 2)
<1>1. s.revs \in Nat BY DEF TaskState
<1>2. s.revs <= b + 2 /\ (s.status # "failed" => s.revs <= b + 1) BY DEF Within
<1>3. s.revs <= b + 2 + 2 /\ (s.status # "failed" => s.revs < b + 2 /\ s.revs <= b + 2 + 1)
  BY <1>1, <1>2
<1>4. s.status \in {"absent", "to_do", "in_progress", "in_review"} => s.status # "failed"
  OBVIOUS
<1>5. pc \in {"bounce", "stalled"} => s.revs < b + 2 BY <1>1 DEF Within
<1>6. s.revs # b + 2 + 1 BY <1>1, <1>2
<1> QED BY <1>1, <1>3, <1>4, <1>5, <1>6 DEF Within

LEMMA RevsInGrows ==
  ASSUME NEW p, ProcessOK(p), NEW b \in Nat, RevsIn(p, b)
  PROVE  RevsIn(p, b + 2)
<1>1. \A t \in Tasks : p.graph.task[t] \in TaskState BY DEF ProcessOK, Process, Graph
<1>2. \A th \in Threads : p.thread[th] # Idle => p.thread[th].task \in Tasks
  BY DEF ProcessOK, ThreadIn
<1> QED BY <1>1, <1>2, WithinGrows DEF RevsIn

LEMMA OvertakeRevs ==
  ASSUME IInv, RevsInv, OthersOK, OthersRevs, Overtake
  PROVE  OthersRevs' /\ restarts' = restarts + 1 /\ phase # "new"
<1>1. /\ restarts' = restarts + 1 /\ phase # "new"
      /\ \/ UNCHANGED others
         \/ others' = [others EXCEPT ![restarts'] = Present]
      /\ others \in [1..MaxRestarts -> Process] /\ restarts \in Nat
  BY DEF Overtake, IInv, TypeOK
<1>2. Budget \in Nat /\ Budget' = Budget + 2
  BY <1>1, BudgetType, CodingSwarmAssumption DEF Budget
<1>3. ASSUME NEW i \in 1..MaxRestarts PROVE others'[i] \in {others[i], Present} BY <1>1
<1>4. ASSUME NEW i \in 1..MaxRestarts PROVE RevsIn(others[i], Budget + 2)
  BY <1>2, RevsInGrows DEF OthersOK, OthersRevs
<1>5. RevsIn(Present, Budget + 2) BY <1>2, PresentOK, PresentRevs, RevsInGrows
<1> QED BY <1>1, <1>2, <1>3, <1>4, <1>5 DEF OthersRevs

LEMMA SwitchRevs ==
  ASSUME IInv, RevsInv, OthersOK, OthersRevs, NEW i \in 1..MaxRestarts, Switch(i)
  PROVE  RevsInv' /\ OthersRevs'
<1> DEFINE p == others[i]
<1>1. /\ Running(p.phase) /\ graph' = p.graph /\ phase' = p.phase
      /\ thread' = p.thread /\ todo' = p.todo
      /\ others' = [others EXCEPT ![i] = Present]
      /\ UNCHANGED <<store, restarts>>
  BY DEF Switch
<1>2. RevsIn(p, Budget) BY DEF OthersRevs
<1>3. others \in [1..MaxRestarts -> Process] BY DEF IInv, TypeOK
<1> HIDE DEF p
<1>4. Budget' = Budget BY <1>1 DEF Budget
<1>5. \A j \in 1..MaxRestarts : others'[j] \in {others[j], Present} BY <1>1, <1>3
<1>6. OthersRevs' BY <1>4, <1>5, PresentRevs DEF OthersRevs
<1>7. phase' # "new" BY <1>1 DEF Running
<1>8. \A t \in Tasks : Kept(store'.task[t], Budget') BY <1>1, <1>4 DEF RevsInv
<1>9. RevsInv' BY <1>1, <1>2, <1>4, <1>7, <1>8 DEF RevsInv, RevsIn, Untaken, TaskOf, State
<1> QED BY <1>6, <1>9

LEMMA RestartRevs ==
  ASSUME IInv, RevsInv, OthersOK, OthersRevs, Start \/ Restart
  PROVE  RevsInv' /\ OthersRevs'
<1>1. CASE Start
  <2>1. UNCHANGED <<restarts, others>> /\ Invoke(FALSE) /\ phase = "new" BY <1>1 DEF Start
  <2>2. Budget' = Budget BY <2>1 DEF Budget
  <2> QED BY <2>1, <2>2, InvokeRevs DEF OthersRevs
<1>2. CASE RetryActivity BY <1>2, OvertakeRevs, InvokeRevs DEF RetryActivity
<1>3. CASE ResumeJob BY <1>3, OvertakeRevs, InvokeRevs DEF ResumeJob
<1>4. CASE RetryFailedTasks BY <1>4, OvertakeRevs, InvokeRevs DEF RetryFailedTasks
<1>5. CASE ResumeRefused
  <2>1. UNCHANGED <<graph, store, phase, round, thread, todo, restarts, canceller, others>>
    BY <1>5 DEF ResumeRefused
  <2>2. Budget' = Budget BY <2>1 DEF Budget
  <2> QED BY <2>1, <2>2, QuietRevs DEF OthersRevs
<1>6. ASSUME NEW i \in 1..MaxRestarts, Switch(i) PROVE RevsInv' /\ OthersRevs'
  BY <1>6, SwitchRevs
<1> QED BY <1>1, <1>2, <1>3, <1>4, <1>5, <1>6 DEF Restart

LEMMA CoordinatorRevs ==
  ASSUME IInv, RevsInv,
         \/ Planned \/ EnterCoding \/ HonorCancel \/ PrepareWorktrees \/ WorktreesFail
         \/ BeginRound \/ RoundsExhausted \/ EndRound \/ Verdict
         \/ Flush \/ CancelLooks \/ CancelWrites
  PROVE  RevsInv'
<1>1. CASE \/ Planned \/ EnterCoding \/ HonorCancel \/ PrepareWorktrees \/ WorktreesFail
           \/ BeginRound \/ RoundsExhausted \/ EndRound \/ Verdict
  BY <1>1, QuietRevs
  DEF Planned, EnterCoding, HonorCancel, PrepareWorktrees, WorktreesFail, BeginRound,
      RoundsExhausted, EndRound, Verdict
<1>2. CASE Flush \/ CancelLooks \/ CancelWrites
  BY <1>2, QuietRevs DEF Flush, CancelLooks, CancelWrites, control, Live, Running
<1> QED BY <1>1, <1>2

LEMMA PlanTaskRevs == ASSUME IInv, RevsInv, NEW t \in Tasks, PlanTask(t) PROVE RevsInv'
<1> DEFINE s == [Blank EXCEPT !.status = "to_do"]
<1>1. /\ phase = "plan" /\ graph' = Put(graph, t, s)
      /\ UNCHANGED <<store, thread, job, phase, round, todo, restarts, canceller, others>>
  BY DEF PlanTask, AddTask, control
<1>2. s \in TaskState /\ s.status = "to_do" /\ s.revs = 0 BY DEF Blank, TaskState, Status
<1> HIDE DEF s
<1>3. graph'.task[t] = s /\ \A u \in Tasks \ {t} : graph'.task[u] = graph.task[u]
  BY <1>1, <1>2, PutFacts DEF IInv, TypeOK
<1>4. /\ \A th \in Threads : thread[th] = Idle
      /\ \A th \in Threads : thread'[th] = Idle
  BY <1>1, RestingThreads DEF Threads
<1>5. Budget' = Budget BY <1>1 DEF Budget
<1>6. Within(s, "idle", Budget)
  <2>1. Budget \in Nat /\ Budget >= 1 BY BudgetType
  <2> QED BY <1>2, <2>1 DEF Within
<1>7. \A u \in Tasks : Within(graph'.task[u], "idle", Budget')
  BY <1>3, <1>4, <1>5, <1>6, IdleWithin
<1>8. \A u \in Tasks : Kept(store'.task[u], Budget') BY <1>1, <1>5 DEF RevsInv
<1> QED BY <1>1, <1>4, <1>7, <1>8, RestingRevs

LEMMA AssignTasksRevs == ASSUME IInv, RevsInv, AssignTasks PROVE RevsInv'
<1>1. PICK ts \in SUBSET Ready(graph) : \E f \in [ts -> FreeAgents(graph)] :
        graph' = Placed(graph, f)
  BY DEF AssignTasks
<1>2. PICK f \in [ts -> FreeAgents(graph)] : graph' = Placed(graph, f) BY <1>1
<1>3. phase = "assign" /\ phase' = "route" /\ UNCHANGED <<store, thread, restarts>>
  BY DEF AssignTasks
<1>4. \A th \in Threads : thread[th] = Idle BY <1>3, RestingThreads DEF Threads
<1>5. Budget' = Budget /\ Budget \in Nat BY <1>3, BudgetType DEF Budget
<1>6. ASSUME NEW t \in Tasks PROVE Within(graph'.task[t], "idle", Budget')
  <2>1. Within(graph.task[t], "idle", Budget) /\ graph.task[t] \in TaskState
    BY <1>4, IdleWithin DEF IInv, TypeOK, Graph
  <2>2. CASE t \in ts
    <3>1. graph.task[t].status = "to_do" BY <2>2 DEF Ready, With, Is
    <3>2. graph'.task[t] = [graph.task[t] EXCEPT !.status = "in_progress", !.agent = f[t]]
      BY <1>2, <2>2 DEF Placed
    <3>3. graph'.task[t].status = "in_progress" /\ graph'.task[t].revs = graph.task[t].revs
          /\ graph.task[t].revs \in Nat
      BY <2>1, <3>2 DEF TaskState
    <3> QED BY <1>5, <2>1, <3>1, <3>3 DEF Within
  <2>3. CASE t \notin ts
    <3>1. graph'.task[t] = graph.task[t] BY <1>2, <2>3 DEF Placed
    <3> QED BY <1>5, <2>1, <3>1
  <2> QED BY <2>2, <2>3
<1>7. \A t \in Tasks : Kept(store'.task[t], Budget') BY <1>3, <1>5 DEF RevsInv
<1> QED BY <1>3, <1>4, <1>6, <1>7, RestingRevs

LEMMA StartImplementingRevs == ASSUME IInv, RevsInv, StartImplementing PROVE RevsInv'
<1>1. /\ phase = "route" /\ thread[Lead] = Idle
      /\ store' = graph /\ phase' = "implement"
      /\ thread' = [th \in Threads |->
                    IF th \in Agents /\ Current(graph, th) \in With(graph, "in_progress")
                    THEN [pc |-> "work", task |-> Current(graph, th)]
                    ELSE Idle]
      /\ UNCHANGED <<graph, job, round, todo, restarts, canceller, others>>
  BY DEF StartImplementing
<1>2. \A th \in Threads : thread[th] = Idle BY <1>1, RestingThreads DEF Threads
<1>3. Budget' = Budget BY <1>1 DEF Budget
<1>4. \A t \in Tasks : Within(graph'.task[t], "idle", Budget') BY <1>1, <1>2, <1>3, IdleWithin
<1>5. ASSUME NEW th \in Threads, thread'[th] # Idle
      PROVE  Within(graph'.task[thread'[th].task], thread'[th].pc, Budget')
  <2>1. /\ thread'[th].pc = "work" /\ thread'[th].task \in Tasks
        /\ graph'.task[thread'[th].task].status = "in_progress"
    BY <1>1, <1>5 DEF With, Is
  <2>2. Within(graph'.task[thread'[th].task], "idle", Budget') BY <1>4, <2>1
  <2> QED BY <2>1, <2>2 DEF Within
<1>6. \A t \in Tasks : Kept(store'.task[t], Budget') BY <1>1, <1>3, GraphKept
<1> QED BY <1>1, <1>4, <1>5, <1>6 DEF RevsInv, State, TaskOf

LEMMA ReviewListRevs ==
  ASSUME IInv, RevsInv, StartReview \/ \E t \in Tasks : TakeReview(t)
  PROVE  RevsInv'
<1>1. CASE StartReview
  <2>1. /\ phase = "implement" /\ phase' = "review" /\ \A a \in Agents : thread[a] = Idle
        /\ store' = graph /\ todo' = With(graph, "in_review")
        /\ UNCHANGED <<graph, thread, restarts>>
    BY <1>1 DEF StartReview
  <2>2. Budget' = Budget BY <2>1 DEF Budget
  <2>3. \A t \in Tasks : Kept(store'.task[t], Budget') BY <2>1, <2>2, GraphKept
  <2>4. \A t \in todo' : Is(graph', t, "in_review") BY <2>1 DEF With
  <2> QED BY <2>1, <2>2, <2>3, <2>4 DEF RevsInv, Untaken, State, TaskOf
<1>2. ASSUME NEW t \in Tasks, TakeReview(t) PROVE RevsInv'
  <2>1. /\ phase = "review" /\ thread[Lead] = Idle /\ t \in todo /\ todo' = todo \ {t}
        /\ thread' = [thread EXCEPT ![Lead] = [pc |-> "judge", task |-> t]]
        /\ UNCHANGED <<graph, store, job, phase, round, restarts, canceller, others>>
    BY <1>2 DEF TakeReview
  <2>2. \A th \in Threads : thread[th] = Idle BY <2>1, RestingThreads DEF Threads
  <2>3. Budget' = Budget BY <2>1 DEF Budget
  <2>4. /\ thread'[Lead] = [pc |-> "judge", task |-> t]
        /\ \A th \in Threads \ {Lead} : thread'[th] = Idle
    BY <2>1, <2>2 DEF IInv, TypeOK, Threads
  <2>5. \A u \in Tasks : Within(graph'.task[u], "idle", Budget') BY <2>1, <2>2, <2>3, IdleWithin
  <2>6. Within(graph'.task[t], "judge", Budget')
    <3>1. graph'.task[t].status = "in_review" BY <2>1 DEF RevsInv, Is
    <3> QED BY <2>5, <3>1 DEF Within
  <2> QED BY <2>1, <2>3, <2>4, <2>5, <2>6 DEF RevsInv, State, TaskOf
<1> QED BY <1>1, <1>2

LEMMA FailUnroutableRevs ==
  ASSUME IInv, RevsInv, NEW t \in Tasks, FailUnroutable(t)
  PROVE  RevsInv'
<1> DEFINE n == graph.task[t].revs
           g == Fail(graph, t, n)
<1>1. /\ phase = "route" /\ thread[Lead] = Idle
      /\ graph' = g
      /\ thread' = [thread EXCEPT ![Lead] = [pc |-> "cascade", task |-> t]]
      /\ UNCHANGED <<store, job, phase, round, restarts, canceller, others>>
  BY DEF FailUnroutable
<1>2. \A th \in Threads : thread[th] = Idle BY <1>1, RestingThreads DEF Threads
<1>3. Budget' = Budget /\ Budget \in Nat BY <1>1, BudgetType DEF Budget
<1>4. /\ thread'[Lead] = [pc |-> "cascade", task |-> t]
      /\ \A th \in Threads \ {Lead} : thread'[th] = Idle
  BY <1>1, <1>2 DEF IInv, TypeOK, Threads
<1>5. Sound(graph) /\ n \in Nat /\ graph.task \in [Tasks -> TaskState]
  BY DEF IInv, TypeOK, Graph, TaskState
<1>6. LeavesAlone(graph, g, t) /\ g.task[t].status = "failed" /\ g.task[t].revs = n
  BY <1>5, FailLeavesAlone
<1>7. \A u \in Tasks : Within(graph.task[u], "idle", Budget) BY <1>2, IdleWithin
<1>8. Within(g.task[t], "cascade", Budget)
  <2>1. n <= Budget + 2 BY <1>7 DEF Within
  <2> HIDE DEF g, n
  <2> QED BY <1>3, <1>6, <2>1, <1>5 DEF Within
<1> HIDE DEF g
<1>9. \A u \in Tasks \ {t} : Within(g.task[u], "idle", Budget)
  <2> TAKE u \in Tasks \ {t}
  <2>1. CASE g.task[u] = graph.task[u] BY <1>7, <2>1
  <2>2. CASE g.task[u] = [graph.task[u] EXCEPT !.status = "failed"]
    BY <1>5, <1>7, <2>2, FailedWithin
  <2> QED BY <1>6, <2>1, <2>2 DEF LeavesAlone
<1>10. \A u \in Tasks : Untaken(u)' => u # t BY <1>4 DEF Untaken, TaskOf, Threads
<1>11. \A u \in Tasks : Kept(store'.task[u], Budget') BY <1>1, <1>3 DEF RevsInv
<1> QED BY <1>1, <1>3, <1>4, <1>8, <1>9, <1>10, <1>11 DEF RevsInv, State, TaskOf

LEMMA CrashRevs == ASSUME IInv, RevsInv, Crash PROVE RevsInv'
<1>1. /\ phase' = "crashed" /\ graph' = EmptyGraph /\ thread' = Resting
      /\ UNCHANGED <<store, restarts>>
  BY DEF Crash
<1>2. Budget' = Budget /\ Budget \in Nat /\ Budget >= 1 BY <1>1, BudgetType DEF Budget
<1>3. \A th \in Threads : thread'[th] = Idle BY <1>1 DEF Resting
<1>4. \A t \in Tasks : Within(graph'.task[t], "idle", Budget')
  BY <1>1, <1>2, BlankWithin DEF EmptyGraph
<1>5. \A t \in Tasks : Kept(store'.task[t], Budget') BY <1>1, <1>2 DEF RevsInv
<1> QED BY <1>1, <1>3, <1>4, <1>5, RestingRevs

\* Only a way back to the job counts as a further invocation.
LEMMA RestartSteps == [Next]_vars => UNCHANGED restarts \/ Restart
<1> SUFFICES ASSUME [Next]_vars PROVE UNCHANGED restarts \/ Restart OBVIOUS
<1>1. CASE Coordinate
  BY <1>1 DEF Coordinate, control, Start, PlanTask, Planned, EnterCoding, HonorCancel,
     PrepareWorktrees, WorktreesFail, BeginRound, RoundsExhausted, AssignTasks,
     FailUnroutable, TakeReview, StartImplementing, StartReview, EndRound, Verdict
<1>2. CASE \E a \in Agents : Work(a)
  BY <1>2 DEF Work, HandOff, PassGates, Bounce, Submit, Release, FallShort, FailGates,
     NoteProgress, Write, Step, control
<1>3. CASE \E th \in Threads : Conclude(th)
  BY <1>3 DEF Conclude, Retry, GrantWindow, Land, JudgeFailed, FailDependents, JudgeDone,
     Write, Step, control
<1>4. CASE Review
  BY <1>4 DEF Review, Approve, ReviewError, Reject, NoteProgress, Write, Step, control
<1>5. CASE Flush \/ Crash \/ CancelLooks \/ CancelWrites
  BY <1>5 DEF Flush, Crash, CancelLooks, CancelWrites, control
<1>6. CASE UNCHANGED vars BY <1>6 DEF vars
<1> QED BY <1>1, <1>2, <1>3, <1>4, <1>5, <1>6 DEF Next

LEMMA NextRevs ==
  ASSUME NoChangeCap >= 2
  PROVE  IInv /\ OthersOK /\ RevsInv /\ OthersRevs /\ [Next]_vars => RevsInv' /\ OthersRevs'
<1> SUFFICES ASSUME IInv, OthersOK, RevsInv, OthersRevs, [Next]_vars
             PROVE  RevsInv' /\ OthersRevs'
  OBVIOUS
<1>1. CASE Restart BY <1>1, RestartRevs
<1>2. CASE ~Restart
  <2>1. UNCHANGED <<others, restarts>> BY <1>2, OthersSteps, RestartSteps
  <2>2. OthersRevs' BY <2>1 DEF OthersRevs, Budget
  <2>3. CASE Coordinate
    <3>1. ASSUME NEW t \in Tasks, PlanTask(t) \/ FailUnroutable(t) \/ TakeReview(t)
          PROVE  RevsInv'
      BY <3>1, PlanTaskRevs, FailUnroutableRevs, ReviewListRevs
    <3>2. RevsInv'
      BY <2>3, <3>1, RestartRevs, CoordinatorRevs, AssignTasksRevs, StartImplementingRevs,
         ReviewListRevs
      DEF Coordinate
    <3> QED BY <2>2, <3>2
  <2>4. CASE UNCHANGED vars
    <3>1. RevsInv' = RevsInv
      BY <2>4 DEF vars, RevsInv, Untaken, State, TaskOf, Budget
    <3> QED BY <2>2, <3>1
  <2>5. ASSUME NEW a \in Agents, Work(a) PROVE RevsInv' BY <2>5, WorkRevs
  <2>6. ASSUME NEW th \in Threads, Conclude(th) PROVE RevsInv' BY <2>6, ConcludeRevs
  <2> QED
    BY <1>2, <2>2, <2>3, <2>4, <2>5, <2>6, ReviewRevs, CoordinatorRevs, CrashRevs DEF Next
<1> QED BY <1>1, <1>2

LEMMA InitRevs == Init => RevsInv /\ OthersRevs
<1> SUFFICES ASSUME Init PROVE RevsInv /\ OthersRevs OBVIOUS
<1>1. Budget \in Nat /\ Budget >= 1 BY InitIInv, BudgetType
<1>2. \A th \in Threads : thread[th] = Idle BY DEF Init, Resting
<1>3. \A t \in Tasks : Within(graph.task[t], "idle", Budget) /\ Kept(store.task[t], Budget)
  BY <1>1, BlankWithin DEF Init, EmptyGraph
<1>4. OthersRevs BY <1>1, RestingRevsIn DEF Init, OthersRevs
<1> QED BY <1>2, <1>3, <1>4 DEF Init, RevsInv

\* When at least two revisits without a change are allowed, the revision cap
\* bounds every task of every invocation, whatever the gates, the reviewers and
\* the Tech Lead decide, wherever the process crashes and whoever is overtaken.
THEOREM RevisionsStayBounded == NoChangeCap >= 2 => (Spec => []RevisionsBounded)
<1> SUFFICES ASSUME NoChangeCap >= 2 PROVE Spec => []RevisionsBounded OBVIOUS
<1>1. IInv /\ RevsInv => RevisionsBounded
  <2> SUFFICES ASSUME IInv, RevsInv, NEW t \in Tasks
               PROVE  graph.task[t].revs <= MaxRevisions + 2 * (restarts + 1)
    BY DEF RevisionsBounded
  <2>1. graph.task[t].revs <= Budget + 2 BY GraphKept DEF Kept
  <2>2. restarts \in Nat /\ MaxRevisions \in Nat /\ graph.task[t].revs \in Nat
    BY CodingSwarmAssumption DEF IInv, TypeOK, Graph, TaskState
  <2> QED BY <2>1, <2>2 DEF Budget
<1>2. IInv /\ OthersOK /\ RevsInv /\ OthersRevs /\ [Next]_vars => RevsInv' /\ OthersRevs'
  BY NextRevs
<1> QED BY <1>1, <1>2, InitRevs, Invariance, PTL DEF Spec

-----------------------------------------------------------------------------
(* Without crashes                                                         *)
(*                                                                         *)
(* Two mutations come in pairs, and what the code promises of each holds   *)
(* only when its second half runs: a failure and the failure of what       *)
(* depends on it, a task's return to the pool and the release of its       *)
(* worker.  A crash in between leaves the first half in the record, and so *)
(* does an invocation that is overtaken there, for the one that starts     *)
(* beside it.  As long as neither happens (Undisturbed), resumes and       *)
(* retries keep both promises.                                             *)

\* Failure has reached everything that depends on a failed task.
Spread(g) ==
    \A t \in Tasks : ~Is(g, t, "absent") /\ (\E d \in Deps[t] : Is(g, d, "failed"))
                     => Is(g, t, "failed")

NoneAbsent(g) == \A t \in Tasks : ~Is(g, t, "absent")
NoneFailed(g) == \A t \in Tasks : ~Is(g, t, "failed")

\* An agent holds a task in flight, or the one it is about to release.
InHand(a) ==
    graph.held[a] # NoTask =>
        \/ graph.task[graph.held[a]].status \in InFlight
        \/ At(a, "release") /\ TaskOf(a) = graph.held[a]

Spreading == \E th \in Threads : At(th, "cascade")

CleanInv ==
    /\ phase # "crashed"
    /\ phase \in {"coding", "ended"} => store = graph
    /\ phase = "new" => store = EmptyGraph
    /\ phase = "plan" => NoneFailed(graph)
    /\ phase \notin {"new", "plan"} => NoneAbsent(graph)
    /\ Spreading \/ Spread(graph)
    /\ \A th \in Threads : At(th, "cascade") => State(th).status = "failed"
    /\ \A a \in Agents : InHand(a)

LEMMA NoneFailedSpread == ASSUME NEW g, NoneFailed(g) PROVE Spread(g)
  BY TaskGraphAssumption DEF NoneFailed, Spread

\* The change of one begun task to anything but a failure spreads nothing.
LEMMA SpreadKept ==
  ASSUME NEW g, Sound(g), Spread(g), NEW t \in Tasks, NEW h,
         \A u \in Tasks \ {t} : h.task[u].status = g.task[u].status,
         \/ h.task[t].status = g.task[t].status
         \/ Begun(g, t) /\ h.task[t].status # "failed" /\ h.task[t].status # "absent"
  PROVE  Spread(h)
<1> SUFFICES ASSUME NEW u \in Tasks, ~Is(h, u, "absent"), NEW d \in Deps[u], Is(h, d, "failed")
             PROVE  Is(h, u, "failed")
  BY DEF Spread
<1>1. d \in Tasks /\ Is(g, d, "failed") BY TaskGraphAssumption DEF Is
<1>2. CASE u = t /\ h.task[t].status # g.task[t].status
  BY <1>1, <1>2 DEF Sound, DepsFirst, DepsMerged, Is
<1>3. CASE h.task[u].status = g.task[u].status
  BY <1>1, <1>3 DEF Spread, Is
<1> QED BY <1>2, <1>3

\* mark_dependents_failed keeps its promise.
LEMMA CascadeSpreads == ASSUME NEW g, Sound(g) PROVE Spread(Cascade(g))
<1> DEFINE h == Cascade(g)
<1>1. \A u \in Tasks : h.task[u].status = IF u \in Doomed(g) THEN "failed" ELSE g.task[u].status
  <2> TAKE u \in Tasks
  <2>1. g.task[u] \in TaskState BY DEF Sound, Graph
  <2> QED BY <2>1 DEF Cascade, TaskState
<1> HIDE DEF h
<1> SUFFICES ASSUME NEW t \in Tasks, ~Is(h, t, "absent"), NEW d \in Deps[t], Is(h, d, "failed")
             PROVE  t \in Doomed(g)
  BY <1>1 DEF Spread, Is, h
<1>2. d \in Tasks BY TaskGraphAssumption
<1>3. d \in Doomed(g)
  <2>1. CASE g.task[d].status = "failed"
    BY <1>2, <2>1 DEF Doomed, ClosedUnderFailure, With, Is
  <2>2. CASE g.task[d].status # "failed" BY <1>1, <1>2, <2>2 DEF Is
  <2> QED BY <2>1, <2>2
<1>4. CASE t \in Doomed(g) BY <1>4
<1>5. CASE t \notin Doomed(g)
  <2>1. ~Is(g, t, "absent") BY <1>1, <1>5 DEF Is
  <2>2. ASSUME NEW ts \in SUBSET Tasks, ClosedUnderFailure(g, ts) PROVE t \in ts
    <3>1. d \in ts BY <1>3, <2>2 DEF Doomed
    <3> QED BY <2>1, <2>2, <3>1 DEF ClosedUnderFailure
  <2> QED BY <2>2 DEF Doomed
<1> QED BY <1>4, <1>5

\* Who holds what after a mutation by the thread of task t.
LEMMA HeldAfter ==
  ASSUME NEW g, Sound(g), NEW t \in Tasks
  PROVE  /\ \A s : Put(g, t, s).held = g.held
         /\ \A a \in Agents : Merge(g, t).held[a] = IF g.held[a] = t THEN NoTask ELSE g.held[a]
         /\ \A a \in Agents : Unassign(g, t).held[a] = IF g.held[a] = t THEN NoTask ELSE g.held[a]
         /\ \A a \in Agents :
              Cascade(g).held[a] = IF g.held[a] \in Doomed(g) \ With(g, "failed")
                                   THEN NoTask ELSE g.held[a]
<1>1. g \in Graph /\ HeldIsNamed(g) BY DEF Sound
<1>2. \A a \in Agents : FreedBy(g, {t})[a] = IF g.held[a] \in {t} THEN NoTask ELSE g.held[a]
  BY <1>1, FreedFacts
<1>3. \A a \in Agents : FreedBy(g, Doomed(g) \ With(g, "failed"))[a]
                          = IF g.held[a] \in Doomed(g) \ With(g,
                          "failed") THEN NoTask ELSE g.held[a]
  <2>1. Doomed(g) \ With(g, "failed") \in SUBSET Tasks BY DEF Doomed
  <2> QED BY <1>1, <2>1, FreedFacts
<1>4. \A s : Put(g, t, s).held = g.held BY DEF Put
<1>5. \A a \in Agents : Merge(g, t).held[a] = IF g.held[a] = t THEN NoTask ELSE g.held[a]
  BY <1>2 DEF Merge
<1>6. \A a \in Agents : Unassign(g, t).held[a] = IF g.held[a] = t THEN NoTask ELSE g.held[a]
  BY <1>2 DEF Unassign
<1>7. \A a \in Agents :
        Cascade(g).held[a] = IF g.held[a] \in Doomed(g) \ With(g, "failed")
                             THEN NoTask ELSE g.held[a]
  BY <1>3 DEF Cascade
<1> QED BY <1>4, <1>5, <1>6, <1>7

LEMMA FailHeld ==
  ASSUME NEW g, Sound(g), NEW t \in Tasks, NEW n
  PROVE  \A a \in Agents : Fail(g, t, n).held[a] = IF g.held[a] = t THEN NoTask ELSE g.held[a]
<1>1. \A a \in Agents : FreedBy(g, {t})[a] = IF g.held[a] \in {t} THEN NoTask ELSE g.held[a]
  BY FreedFacts DEF Sound
<1> QED BY <1>1 DEF Fail

\* One step of a thread on its task.
LEMMA StepKeepsClean ==
  ASSUME IInv, CleanInv, NEW th \in Threads, thread[th] # Idle, NEW g, NEW pc,
         Step(th, g, pc), LeavesAlone(graph, g, TaskOf(th)),
         ~Is(g, TaskOf(th), "absent"),
         \/ pc = "cascade" /\ Is(g, TaskOf(th), "failed")
         \/ pc # "cascade" /\ Spread(g)
         \/ pc # "cascade" /\ ~At(th, "cascade") /\ (Spread(graph) => Spread(g)),
         \A a \in Agents : g.held[a] \in {NoTask, graph.held[a]},
         \A a \in Agents : g.held[a] = TaskOf(th) =>
            Is(g, TaskOf(th), "in_progress") \/ Is(g, TaskOf(th), "in_review")
              \/ (pc = "release" /\ a = th)
  PROVE  CleanInv'
<1> DEFINE s == IF pc = "idle" THEN Idle ELSE [pc |-> pc, task |-> TaskOf(th)]
<1>1. /\ graph' = g /\ thread' = [thread EXCEPT ![th] = s]
      /\ UNCHANGED <<store, job, phase, round, todo, restarts, canceller, others>>
  BY DEF Step, control
<1>2. /\ TaskOf(th) \in Tasks /\ ThreadOK(th)
      /\ thread \in [Threads -> Thread]
      /\ graph \in Graph
  BY DEF IInv, ThreadOK, TypeOK
<1>3. phase \in {"route", "implement", "review"} BY <1>2 DEF ThreadOK, Threads
<1>4. s.pc = pc /\ (pc # "idle" => s.task = TaskOf(th)) BY DEF Idle
<1> HIDE DEF s
<1>5. thread'[th] = s /\ \A o \in Threads \ {th} : thread'[o] = thread[o] BY <1>1, <1>2
<1>6. NoneAbsent(g)
  <2>1. NoneAbsent(graph) BY <1>3 DEF CleanInv
  <2>2. \A u \in Tasks \ {TaskOf(th)} :
          g.task[u].status \in {graph.task[u].status, "failed"}
    <3> TAKE u \in Tasks \ {TaskOf(th)}
    <3>1. graph.task[u] \in TaskState BY <1>2 DEF Graph
    <3> QED BY <3>1 DEF LeavesAlone, TaskState
  <2> QED BY <2>1, <2>2 DEF NoneAbsent, Is
<1>7. Spreading' \/ Spread(g)
  <2>1. CASE pc = "cascade" BY <1>4, <1>5, <2>1 DEF Spreading, At
  <2>2. CASE ~At(th, "cascade") /\ (Spread(graph) => Spread(g))
    <3>1. CASE Spreading
      <4>1. PICK o \in Threads \ {th} : thread[o].pc = "cascade"
        BY <2>2, <3>1 DEF Spreading, At
      <4> QED BY <1>5, <4>1 DEF Spreading, At
    <3>2. CASE Spread(graph) BY <2>2, <3>2
    <3> QED BY <3>1, <3>2 DEF CleanInv
  <2> QED BY <2>1, <2>2
<1>8. ASSUME NEW o \in Threads, thread'[o].pc = "cascade"
      PROVE  g.task[thread'[o].task].status = "failed"
  <2>1. CASE o = th BY <1>4, <1>5, <1>8, <2>1 DEF Is
  <2>2. CASE o # th
    <3>1. thread'[o] = thread[o] /\ thread[o] # Idle /\ ThreadOK(o)
      BY <1>5, <1>8, <2>2 DEF IInv, Idle
    <3>2. TaskOf(o) \in Tasks BY <3>1 DEF ThreadOK
    <3>3. TaskOf(o) # TaskOf(th)
      BY <3>2, <2>2, <1>2, ThreadsApart, TaskGraphAssumption DEF OneThreadPerTask
    <3>4. graph.task[TaskOf(o)].status = "failed" /\ graph.task[TaskOf(o)] \in TaskState
      BY <1>2, <1>8, <3>1, <3>2 DEF CleanInv, At, State, Graph
    <3> QED BY <3>1, <3>2, <3>3, <3>4 DEF LeavesAlone, TaskOf, TaskState
  <2> QED BY <2>1, <2>2
<1>9. ASSUME NEW a \in Agents PROVE InHand(a)'
  <2> SUFFICES ASSUME g.held[a] # NoTask
               PROVE  \/ g.task[g.held[a]].status \in InFlight
                      \/ thread'[a].pc = "release" /\ thread'[a].task = g.held[a]
    BY <1>1 DEF InHand, At, TaskOf
  <2>1. g.held[a] = graph.held[a] /\ g.held[a] \in Tasks BY <1>2 DEF Graph
  <2>2. CASE g.held[a] = TaskOf(th)
    BY <1>4, <1>5, <2>2 DEF InFlight, Is
  <2>3. CASE g.held[a] # TaskOf(th)
    <3>1. CASE graph.task[g.held[a]].status \in InFlight
      BY <2>1, <2>3, <3>1 DEF LeavesAlone, Begun
    <3>2. CASE thread[a].pc = "release" /\ TaskOf(a) = g.held[a]
      <4>1. a # th /\ a \in Threads BY <2>3, <3>2 DEF Threads
      <4> QED BY <1>5, <3>2, <4>1 DEF TaskOf
    <3> QED BY <2>1, <3>1, <3>2 DEF CleanInv, InHand, At
  <2> QED BY <2>2, <2>3
<1> QED BY <1>1, <1>3, <1>6, <1>7, <1>8, <1>9 DEF CleanInv, Spreading, At, State, TaskOf, InHand

\* A write that leaves the task of the thread in flight, or puts it back into
\* the pool on the way to its release.
LEMMA WriteKeepsClean ==
  ASSUME IInv, CleanInv, NEW th \in Threads, thread[th] # Idle, thread[th].pc \in Engaged,
         NEW s \in TaskState, NEW pc, Write(th, s, pc), pc # "cascade",
         \/ s.status \in InFlight
         \/ s.status = "to_do" /\ pc = "release" /\ th \in Agents
  PROVE  CleanInv'
<1> DEFINE t == TaskOf(th)
           g == Put(graph, t, s)
<1>1. t \in Tasks /\ Sound(graph) /\ ThreadOK(th) /\ graph \in Graph
  BY DEF IInv, ThreadOK, Sound
<1>2. LeavesAlone(graph, g, t) /\ g.task[t] = s /\ g.held = graph.held
  BY <1>1, PutLeavesAlone, PutFacts
<1>3. \A u \in Tasks \ {t} : g.task[u] = graph.task[u] BY <1>1, PutFacts
<1>4. graph.task[t].status \in InFlight BY <1>1 DEF ThreadOK, State
<1>5. Step(th, g, pc) BY DEF Write
<1>6. s.status \notin {"absent", "failed"} BY DEF InFlight
<1> HIDE DEF g
<1>7. Spread(graph) => Spread(g)
  BY <1>1, <1>2, <1>3, <1>4, <1>6, SpreadKept DEF Begun
<1>8. ASSUME NEW a \in Agents, g.held[a] = t
      PROVE  \/ s.status \in InFlight
             \/ pc = "release" /\ a = th
  <2>1. graph.task[t].agent = a
    BY <1>1, <1>2, <1>8, TaskGraphAssumption DEF Sound, HeldIsNamed
  <2>2. th \in Agents => graph.task[t].agent = th BY <1>1 DEF ThreadOK, State
  <2> QED BY <2>1, <2>2
<1>9. ~At(th, "cascade") BY DEF At, Engaged
<1> HIDE DEF t
<1>10. t = TaskOf(th) BY DEF t
<1> QED BY <1>2, <1>5, <1>6, <1>7, <1>8, <1>9, <1>10, StepKeepsClean DEF Is, InFlight

LEMMA SettleClean ==
  ASSUME IInv, CleanInv, NEW th \in Threads, thread[th] # Idle, thread[th].pc \in Engaged,
         \/ Step(th, Merge(graph, TaskOf(th)), "idle")
         \/ \E n \in {State(th).revs, State(th).revs + 1} :
              Step(th, Fail(graph, TaskOf(th), n), "cascade")
  PROVE  CleanInv'
<1>1. TaskOf(th) \in Tasks /\ Sound(graph) /\ ThreadOK(th) /\ graph.task[TaskOf(th)] \in TaskState
  BY DEF IInv, ThreadOK, TypeOK, Graph
<1>2. graph.task[TaskOf(th)].status \in InFlight BY <1>1 DEF ThreadOK, State
<1>3. ~At(th, "cascade") BY DEF At, Engaged
<1>4. CASE Step(th, Merge(graph, TaskOf(th)), "idle")
  <2> DEFINE g == Merge(graph, TaskOf(th))
  <2>1. /\ LeavesAlone(graph, g, TaskOf(th))
        /\ \A a \in Agents : g.held[a] = IF graph.held[a] = TaskOf(th) THEN NoTask ELSE graph.held[a]
    BY <1>1, MutationsLeaveAlone, HeldAfter
  <2>2. g.task[TaskOf(th)].status = "merged"
    <3>1. g.task[TaskOf(th)] = [graph.task[TaskOf(th)] EXCEPT !.status = "merged"]
      BY <1>1, MutationsLeaveAlone
    <3> QED BY <1>1, <3>1 DEF TaskState
  <2>3. \A u \in Tasks \ {TaskOf(th)} : g.task[u] = graph.task[u]
    BY <1>1 DEF Merge, Sound, Graph
  <2>4. Step(th, g, "idle") BY <1>4
  <2> HIDE DEF g
  <2>5. Spread(graph) => Spread(g) BY <1>1, <1>2, <2>2, <2>3, SpreadKept DEF Begun
  <2> QED
    BY <1>1, <1>3, <2>1, <2>2, <2>4, <2>5, StepKeepsClean, TaskGraphAssumption DEF Is
<1>5. ASSUME NEW n \in {State(th).revs, State(th).revs + 1},
             Step(th, Fail(graph, TaskOf(th), n), "cascade")
      PROVE  CleanInv'
  <2> DEFINE g == Fail(graph, TaskOf(th), n)
  <2>1. n \in Nat BY <1>1 DEF State, TaskState
  <2>2. LeavesAlone(graph, g, TaskOf(th)) /\ g.task[TaskOf(th)].status = "failed"
    BY <1>1, <2>1, FailLeavesAlone
  <2>3. \A a \in Agents : g.held[a] = IF graph.held[a] = TaskOf(th) THEN NoTask ELSE graph.held[a]
    BY <1>1, FailHeld
  <2>4. Step(th, g, "cascade") BY <1>5
  <2> HIDE DEF g
  <2> QED BY <1>1, <2>2, <2>3, <2>4, StepKeepsClean, TaskGraphAssumption DEF Is
<1> QED BY <1>4, <1>5

LEMMA ReleaseClean == ASSUME IInv, CleanInv, NEW a \in Agents, Release(a) PROVE CleanInv'
<1> DEFINE t == TaskOf(a)
           g == Unassign(graph, t)
<1>1. /\ a \in Threads /\ thread[a].pc = "release" /\ thread[a] # Idle /\ t \in Tasks
      /\ Sound(graph) /\ ThreadOK(a) /\ graph.task[t] \in TaskState
  BY AtWork DEF Release, Threads, State
<1>2. graph.task[t].status \in {"to_do", "failed"} BY <1>1 DEF ThreadOK, At, State
<1>3. /\ LeavesAlone(graph, g, t)
      /\ \A b \in Agents : g.held[b] = IF graph.held[b] = t THEN NoTask ELSE graph.held[b]
  BY <1>1, MutationsLeaveAlone, HeldAfter
<1>4. g.task[t].status = graph.task[t].status
  <2>1. g.task[t] = [graph.task[t] EXCEPT !.agent = NoAgent] BY <1>1, MutationsLeaveAlone
  <2> QED BY <1>1, <2>1 DEF TaskState
<1>5. \A u \in Tasks \ {t} : g.task[u] = graph.task[u]
  BY <1>1 DEF Unassign, Sound, Graph
<1>6. Step(a, g, "idle") BY DEF Release
<1> HIDE DEF g
<1>7. Spread(graph) => Spread(g) BY <1>1, <1>4, <1>5, SpreadKept
<1> HIDE DEF t
<1>8. t = TaskOf(a) BY DEF t
<1>9. ~At(a, "cascade") BY <1>1 DEF At
<1> QED
  BY <1>1, <1>2, <1>3, <1>4, <1>6, <1>7, <1>8, <1>9, StepKeepsClean, TaskGraphAssumption DEF Is

LEMMA FailDependentsClean ==
  ASSUME IInv, CleanInv, NEW th \in Threads, FailDependents(th)
  PROVE  CleanInv'
<1> DEFINE t == TaskOf(th)
           g == Cascade(graph)
<1>1. /\ thread[th].pc = "cascade" /\ thread[th] # Idle /\ t \in Tasks /\ Sound(graph)
      /\ ThreadOK(th) /\ graph.task[t] \in TaskState
  BY AtWork DEF FailDependents, State
<1>2. graph.task[t].status = "failed" BY <1>1 DEF CleanInv, At, State
<1>3. LeavesAlone(graph, g, t) /\ g.task[t].status = "failed"
  BY <1>1, <1>2, CascadeLeavesAlone
<1>4. \A a \in Agents : g.held[a] \in {NoTask, graph.held[a]} BY <1>1, HeldAfter
<1>5. ASSUME NEW a \in Agents, graph.held[a] = t PROVE FALSE
  <2>1. thread[a].pc = "release" /\ TaskOf(a) = t
    BY <1>1, <1>2, <1>5, TaskGraphAssumption DEF CleanInv, InHand, At, InFlight
  <2>2. a = th
    BY <1>1, <2>1, ThreadsApart, TaskGraphAssumption DEF OneThreadPerTask, Threads
  <2> QED BY <1>1, <2>1, <2>2
<1>6. Spread(g) BY <1>1, CascadeSpreads
<1>7. Step(th, g, "idle") BY DEF FailDependents
<1> HIDE DEF g, t
<1>8. t = TaskOf(th) BY DEF t
<1> QED BY <1>1, <1>3, <1>4, <1>5, <1>6, <1>7, <1>8, StepKeepsClean, TaskGraphAssumption DEF Is

\* A worker or the reviewer goes on with a task in flight.
LEMMA EngagedAt ==
  ASSUME IInv, NEW th \in Threads, NEW pc \in Engaged, At(th, pc)
  PROVE  /\ thread[th] # Idle /\ thread[th].pc \in Engaged
         /\ State(th) \in TaskState /\ State(th).status \in InFlight
         /\ State(th).revs \in Nat /\ State(th).still \in Nat
<1>1. pc # "idle" BY DEF Engaged
<1>2. thread[th] # Idle /\ ThreadOK(th) /\ State(th) \in TaskState /\ thread[th].pc = pc
  BY <1>1, AtWork
<1> QED BY <1>2 DEF ThreadOK, TaskState

LEMMA NoteProgressClean ==
  ASSUME IInv, CleanInv, NEW th \in Threads, NEW same \in BOOLEAN, NEW pc \in Engaged,
         At(th, pc), NEW next \in {"retry", "bounce"}, NoteProgress(th, same, next)
  PROVE  CleanInv'
<1> DEFINE still == IF same THEN State(th).still + 1 ELSE 0
           s == [State(th) EXCEPT !.still = still, !.based = TRUE]
           nxt == IF still >= NoChangeCap THEN "stalled" ELSE next
<1>1. /\ thread[th] # Idle /\ thread[th].pc \in Engaged
      /\ State(th) \in TaskState /\ State(th).status \in InFlight /\ still \in Nat
  BY EngagedAt
<1>2. Write(th, s, nxt) BY DEF NoteProgress
<1> HIDE DEF still
<1>3. s \in TaskState /\ s.status = State(th).status BY <1>1 DEF TaskState
<1>4. nxt # "cascade" OBVIOUS
<1> HIDE DEF s, nxt
<1> QED BY <1>1, <1>2, <1>3, <1>4, WriteKeepsClean

LEMMA WorkClean == ASSUME IInv, CleanInv, NEW a \in Agents, Work(a) PROVE CleanInv'
<1>0. a \in Threads BY DEF Threads
<1>1. CASE HandOff(a)
  <2> DEFINE s == [State(a) EXCEPT !.pin = a]
  <2>1. /\ thread[a] # Idle /\ thread[a].pc \in Engaged
        /\ State(a) \in TaskState /\ State(a).status \in InFlight
    BY <1>0, <1>1, EngagedAt DEF HandOff, Engaged
  <2>2. s \in TaskState /\ s.status = State(a).status BY <2>1 DEF TaskState
  <2>3. Write(a, s, "gates") BY <1>1 DEF HandOff
  <2> HIDE DEF s
  <2> QED BY <1>0, <2>1, <2>2, <2>3, WriteKeepsClean
<1>2. CASE PassGates(a) \/ Submit(a)
  <2> DEFINE s == [State(a) EXCEPT !.status = "in_review"]
  <2>1. /\ thread[a] # Idle /\ thread[a].pc \in Engaged /\ State(a) \in TaskState
    BY <1>0, <1>2, EngagedAt DEF PassGates, Submit, Engaged
  <2>2. s \in TaskState /\ s.status = "in_review" BY <2>1 DEF TaskState, Status
  <2>3. Write(a, s, "idle") BY <1>2 DEF PassGates, Submit
  <2> HIDE DEF s
  <2> QED BY <1>0, <2>1, <2>2, <2>3, WriteKeepsClean DEF InFlight
<1>3. CASE Bounce(a)
  <2>1. /\ thread[a] # Idle /\ thread[a].pc \in Engaged
        /\ State(a) \in TaskState /\ State(a).status \in InFlight /\ State(a).revs \in Nat
    BY <1>0, <1>3, EngagedAt DEF Bounce, Engaged
  <2> DEFINE n == State(a).revs + 1
             s == [State(a) EXCEPT !.revs = n]
             d == [State(a) EXCEPT !.status = "to_do", !.revs = n]
  <2>2. n \in Nat BY <2>1
  <2>3. Write(a, s, "submit") \/ Write(a, d, "release") BY <1>3 DEF Bounce
  <2> HIDE DEF n
  <2>4. /\ s \in TaskState /\ s.status = State(a).status
        /\ d \in TaskState /\ d.status = "to_do"
    BY <2>1, <2>2 DEF TaskState, Status
  <2> HIDE DEF s, d
  <2> QED BY <1>0, <2>1, <2>3, <2>4, WriteKeepsClean
<1>4. CASE Release(a) BY <1>4, ReleaseClean
<1>5. ASSUME NEW same \in BOOLEAN, FallShort(a, same) \/ FailGates(a, same) PROVE CleanInv'
  BY <1>0, <1>5, NoteProgressClean DEF FallShort, FailGates, Engaged
<1> QED BY <1>1, <1>2, <1>3, <1>4, <1>5 DEF Work

LEMMA ConcludeClean == ASSUME IInv, CleanInv, NEW th \in Threads, Conclude(th) PROVE CleanInv'
<1>1. CASE Retry(th)
  <2>1. /\ thread[th] # Idle /\ thread[th].pc \in Engaged
        /\ State(th) \in TaskState /\ State(th).revs \in Nat
    BY <1>1, EngagedAt DEF Retry, Engaged
  <2> DEFINE n == State(th).revs + 1
             s == [State(th) EXCEPT !.status = "in_progress", !.revs = n]
  <2>2. n \in Nat BY <2>1
  <2>3. Step(th, Fail(graph, TaskOf(th), n), "cascade") \/ Write(th, s, "idle")
    BY <1>1 DEF Retry
  <2>4. CASE Step(th, Fail(graph, TaskOf(th), n), "cascade")
    BY <2>1, <2>4, SettleClean
  <2>5. CASE Write(th, s, "idle")
    <3> HIDE DEF n
    <3>1. s \in TaskState /\ s.status = "in_progress" BY <2>1, <2>2 DEF TaskState, Status
    <3> HIDE DEF s
    <3> QED BY <2>1, <2>5, <3>1, WriteKeepsClean DEF InFlight
  <2> QED BY <2>3, <2>4, <2>5
<1>2. CASE GrantWindow(th)
  <2> DEFINE s == [State(th) EXCEPT !.status = "in_progress", !.still = 0, !.based = FALSE]
  <2>1. /\ thread[th] # Idle /\ thread[th].pc \in Engaged /\ State(th) \in TaskState
    BY <1>2, EngagedAt DEF GrantWindow, Engaged
  <2>2. s \in TaskState /\ s.status = "in_progress" BY <2>1 DEF TaskState, Status
  <2>3. Write(th, s, "idle") BY <1>2 DEF GrantWindow
  <2> HIDE DEF s
  <2> QED BY <2>1, <2>2, <2>3, WriteKeepsClean DEF InFlight
<1>3. ASSUME NEW noop \in BOOLEAN, JudgeDone(th, noop) PROVE CleanInv'
  <2> DEFINE s == [State(th) EXCEPT !.noop = noop]
  <2>1. /\ thread[th] # Idle /\ thread[th].pc \in Engaged /\ State(th) \in TaskState
        /\ State(th).status \in InFlight
    BY <1>3, EngagedAt DEF JudgeDone, Engaged
  <2>2. s \in TaskState /\ s.status = State(th).status BY <2>1 DEF TaskState
  <2>3. Write(th, s, "land") BY <1>3 DEF JudgeDone
  <2> HIDE DEF s
  <2> QED BY <2>1, <2>2, <2>3, WriteKeepsClean
<1>4. CASE Land(th)
  <2>1. thread[th] # Idle /\ thread[th].pc \in Engaged BY <1>4, EngagedAt DEF Land, Engaged
  <2> QED BY <1>4, <2>1, SettleClean DEF Land
<1>5. CASE JudgeFailed(th)
  <2>1. thread[th] # Idle /\ thread[th].pc \in Engaged
    BY <1>5, EngagedAt DEF JudgeFailed, Engaged
  <2> QED BY <1>5, <2>1, SettleClean DEF JudgeFailed
<1>6. CASE FailDependents(th) BY <1>6, FailDependentsClean
<1> QED BY <1>1, <1>2, <1>3, <1>4, <1>5, <1>6 DEF Conclude

LEMMA ReviewClean == ASSUME IInv, CleanInv, Review PROVE CleanInv'
<1>0. Lead \in Threads BY DEF Threads
<1>1. CASE Approve
  <2>1. thread[Lead] # Idle /\ thread[Lead].pc \in Engaged
    BY <1>0, <1>1, EngagedAt DEF Approve, Engaged
  <2> QED BY <1>0, <1>1, <2>1, SettleClean DEF Approve
<1>2. CASE ReviewError
  <2>1. thread[Lead] # Idle /\ thread[Lead].pc \in Engaged
    BY <1>0, <1>2, EngagedAt DEF ReviewError, Engaged
  <2> QED BY <1>0, <1>2, <2>1, SettleClean DEF ReviewError
<1>3. ASSUME NEW same \in BOOLEAN, Reject(same) PROVE CleanInv'
  BY <1>0, <1>3, NoteProgressClean DEF Reject, Engaged
<1> QED BY <1>1, <1>2, <1>3 DEF Review

\* The graph and the threads stay; a snapshot may be taken.
LEMMA QuietClean ==
  ASSUME IInv, CleanInv, UNCHANGED <<graph, thread>>, phase' # "crashed",
         phase' \in {"coding", "ended"} => store' = graph,
         phase' = "new" => phase = "new" /\ store' = store,
         phase' = "plan" => phase = "plan",
         phase' \notin {"new", "plan"} => NoneAbsent(graph)
  PROVE  CleanInv'
<1>1. \A th \in Threads : At(th, "cascade")' = At(th, "cascade") BY DEF At
<1>2. Spreading' = Spreading BY <1>1 DEF Spreading
<1>3. \A a \in Agents : InHand(a)' BY DEF CleanInv, InHand, At, TaskOf
<1> QED BY <1>1, <1>2, <1>3 DEF CleanInv, State, TaskOf

LEMMA CoordinatorClean ==
  ASSUME IInv, CleanInv,
         \/ Planned \/ EnterCoding \/ HonorCancel \/ PrepareWorktrees \/ WorktreesFail
         \/ BeginRound \/ RoundsExhausted \/ EndRound \/ Verdict \/ StartReview
         \/ Flush \/ CancelLooks \/ CancelWrites
  PROVE  CleanInv'
<1>1. CASE Planned
  <2>1. NoneAbsent(graph) BY <1>1 DEF Planned, NoneAbsent, With
  <2> QED BY <1>1, <2>1, QuietClean DEF Planned
<1>2. CASE \/ EnterCoding \/ HonorCancel \/ PrepareWorktrees \/ WorktreesFail
           \/ BeginRound \/ RoundsExhausted \/ EndRound \/ Verdict \/ StartReview
  <2>1. NoneAbsent(graph)
    BY <1>2 DEF CleanInv, EnterCoding, HonorCancel, PrepareWorktrees, WorktreesFail, BeginRound,
                RoundsExhausted, EndRound, Verdict, StartReview
  <2>2. phase = "coding" => store = graph BY DEF CleanInv
  <2> QED
    BY <1>2, <2>1, <2>2, QuietClean
    DEF EnterCoding, HonorCancel, PrepareWorktrees, WorktreesFail, BeginRound,
        RoundsExhausted, EndRound, Verdict, StartReview
<1>3. CASE Flush \/ CancelLooks \/ CancelWrites
  <2>1. /\ UNCHANGED <<graph, thread>> /\ phase' = phase /\ phase # "crashed"
        /\ store' = store \/ (store' = graph /\ phase # "new")
    BY <1>3 DEF Flush, CancelLooks, CancelWrites, control, Live, Running, CleanInv
  <2> QED BY <2>1, QuietClean DEF CleanInv
<1> QED BY <1>1, <1>2, <1>3

\* While every thread rests, an agent holds only a task in flight.
LEMMA RestingHolds ==
  ASSUME IInv, CleanInv, \A a \in Agents : thread[a] = Idle, NEW a \in Agents
  PROVE  \/ graph.held[a] = NoTask
         \/ graph.held[a] \in Tasks /\ graph.task[graph.held[a]].status \in InFlight
<1>1. ~At(a, "release") BY DEF At, Idle
<1>2. graph.held[a] \in Tasks \cup {NoTask} BY DEF IInv, TypeOK, Graph
<1> QED BY <1>1, <1>2 DEF CleanInv, InHand

LEMMA RestingSpread ==
  ASSUME CleanInv, \A th \in Threads : thread[th] = Idle
  PROVE  Spread(graph)
<1>1. ~Spreading BY DEF Spreading, At, Idle
<1> QED BY <1>1 DEF CleanInv

LEMMA PlanTaskClean == ASSUME IInv, CleanInv, NEW t \in Tasks, PlanTask(t) PROVE CleanInv'
<1> DEFINE s == [Blank EXCEPT !.status = "to_do"]
<1>1. /\ phase = "plan" /\ graph' = Put(graph, t, s) /\ graph.task[t].status = "absent"
      /\ UNCHANGED <<store, thread, job, phase, round, todo, restarts, canceller, others>>
  BY DEF PlanTask, AddTask, control, Is
<1>2. s \in TaskState /\ s.status = "to_do" BY DEF Blank, TaskState, Status
<1> HIDE DEF s
<1>3. /\ graph'.task[t] = s /\ \A u \in Tasks \ {t} : graph'.task[u] = graph.task[u]
      /\ graph'.held = graph.held
  BY <1>1, <1>2, PutFacts DEF IInv, TypeOK
<1>4. \A th \in Threads : thread[th] = Idle BY <1>1, RestingThreads DEF Threads
<1>5. NoneFailed(graph') BY <1>1, <1>2, <1>3 DEF CleanInv, NoneFailed, Is
<1>6. ASSUME NEW a \in Agents PROVE InHand(a)'
  <2>1. \/ graph.held[a] = NoTask
        \/ graph.held[a] \in Tasks /\ graph.task[graph.held[a]].status \in InFlight
    BY <1>4, RestingHolds DEF Threads
  <2> QED BY <1>1, <1>3, <2>1 DEF InHand, InFlight
<1>7. \A th \in Threads : ~At(th, "cascade")' BY <1>1, <1>4 DEF At, Idle
<1>8. Spread(graph') BY <1>5, NoneFailedSpread
<1> QED BY <1>1, <1>5, <1>6, <1>7, <1>8 DEF CleanInv

LEMMA AssignTasksClean == ASSUME IInv, CleanInv, AssignTasks PROVE CleanInv'
<1>1. PICK ts \in SUBSET Ready(graph) : \E f \in [ts -> FreeAgents(graph)] :
         Assignment(f) /\ graph' = Placed(graph, f)
  BY DEF AssignTasks
<1>2. PICK f \in [ts -> FreeAgents(graph)] : Assignment(f) /\ graph' = Placed(graph, f)
  BY <1>1
<1>3. phase = "assign" /\ phase' = "route" /\ UNCHANGED <<store, thread>> BY DEF AssignTasks
<1>4. \A th \in Threads : thread[th] = Idle BY <1>3, RestingThreads DEF Threads
<1>5. /\ ts \subseteq Tasks /\ DOMAIN f = ts
      /\ \A t \in ts : graph.task[t].status = "to_do" /\ DepsMerged(graph, t)
  BY DEF Ready, With, Is
<1>6. \A t \in Tasks \ ts : graph'.task[t] = graph.task[t] BY <1>2, <1>5 DEF Placed
<1>7. ASSUME NEW t \in ts PROVE graph'.task[t].status = "in_progress"
  <2>1. graph.task[t] \in TaskState BY <1>5 DEF IInv, TypeOK, Graph
  <2>2. graph'.task[t] = [graph.task[t] EXCEPT !.status = "in_progress", !.agent = f[t]]
    BY <1>2, <1>5 DEF Placed
  <2> QED BY <2>1, <2>2 DEF TaskState
<1>8. NoneAbsent(graph')
  BY <1>3, <1>6, <1>7 DEF CleanInv, NoneAbsent, Is
<1>9. Spread(graph')
  <2> SUFFICES ASSUME NEW u \in Tasks, ~Is(graph', u, "absent"),
                      NEW d \in Deps[u], Is(graph', d, "failed")
               PROVE  Is(graph', u, "failed")
    BY DEF Spread
  <2>1. d \in Tasks \ ts /\ Is(graph, d, "failed")
    BY <1>6, <1>7, TaskGraphAssumption DEF Is
  <2>2. u \notin ts BY <1>5, <2>1 DEF DepsMerged, Is
  <2>3. Spread(graph) BY <1>4, RestingSpread
  <2> QED BY <1>6, <2>1, <2>2, <2>3 DEF Spread, Is
<1>10. ASSUME NEW a \in Agents PROVE InHand(a)'
  <2>1. CASE \E t \in ts : f[t] = a
    <3>1. graph'.held[a] = CHOOSE t \in ts : f[t] = a BY <1>2, <1>5, <2>1 DEF Placed
    <3>2. graph'.held[a] \in ts BY <2>1, <3>1
    <3> QED BY <1>7, <3>2 DEF InHand, InFlight
  <2>2. CASE \A t \in ts : f[t] # a
    <3>1. graph'.held[a] = graph.held[a] BY <1>2, <1>5, <2>2 DEF Placed
    <3>2. \/ graph.held[a] = NoTask
          \/ graph.held[a] \in Tasks /\ graph.task[graph.held[a]].status \in InFlight
      BY <1>4, RestingHolds DEF Threads
    <3>3. graph.held[a] \notin ts \/ graph.held[a] = NoTask BY <1>5, <3>2 DEF InFlight
    <3> QED BY <1>6, <3>1, <3>2, <3>3 DEF InHand
  <2> QED BY <2>1, <2>2
<1>11. \A th \in Threads : ~At(th, "cascade")' BY <1>3, <1>4 DEF At, Idle
<1> QED BY <1>3, <1>8, <1>9, <1>10, <1>11 DEF CleanInv

LEMMA FailUnroutableClean ==
  ASSUME IInv, CleanInv, NEW t \in Tasks, FailUnroutable(t)
  PROVE  CleanInv'
<1> DEFINE n == graph.task[t].revs
           g == Fail(graph, t, n)
<1>1. /\ phase = "route" /\ thread[Lead] = Idle
      /\ graph' = g
      /\ thread' = [thread EXCEPT ![Lead] = [pc |-> "cascade", task |-> t]]
      /\ UNCHANGED <<store, job, phase, round, restarts, canceller, others>>
  BY DEF FailUnroutable
<1>2. \A th \in Threads : thread[th] = Idle BY <1>1, RestingThreads DEF Threads
<1>3. /\ thread'[Lead] = [pc |-> "cascade", task |-> t]
      /\ \A th \in Threads \ {Lead} : thread'[th] = Idle
  BY <1>1, <1>2 DEF IInv, TypeOK, Threads
<1>4. Sound(graph) /\ n \in Nat /\ graph.task \in [Tasks -> TaskState]
  BY DEF IInv, TypeOK, Graph, TaskState
<1>5. /\ LeavesAlone(graph, g, t) /\ g.task[t].status = "failed"
      /\ \A a \in Agents : g.held[a] = IF graph.held[a] = t THEN NoTask ELSE graph.held[a]
  BY <1>4, FailLeavesAlone, FailHeld
<1> HIDE DEF g, n
<1>6. NoneAbsent(g)
  <2>1. NoneAbsent(graph) BY <1>1 DEF CleanInv
  <2>2. ASSUME NEW u \in Tasks \ {t} PROVE g.task[u].status \in {graph.task[u].status, "failed"}
    <3>1. graph.task[u] \in TaskState BY <1>4
    <3> QED BY <1>5, <3>1 DEF LeavesAlone, TaskState
  <2> QED BY <1>5, <2>1, <2>2 DEF NoneAbsent, Is
<1>7. ASSUME NEW a \in Agents PROVE InHand(a)'
  <2>1. \/ graph.held[a] = NoTask
        \/ graph.held[a] \in Tasks /\ graph.task[graph.held[a]].status \in InFlight
    BY <1>2, RestingHolds DEF Threads
  <2> QED BY <1>1, <1>5, <2>1 DEF InHand, LeavesAlone, Begun
<1>8. Spreading' BY <1>3 DEF Spreading, At, Threads
<1>9. \A th \in Threads : At(th, "cascade")' => graph'.task[thread'[th].task].status = "failed"
  BY <1>1, <1>3, <1>5 DEF At, Idle
<1> QED BY <1>1, <1>6, <1>7, <1>8, <1>9 DEF CleanInv, State, TaskOf

LEMMA StartImplementingClean == ASSUME IInv, CleanInv, StartImplementing PROVE CleanInv'
<1>1. /\ phase = "route" /\ thread[Lead] = Idle
      /\ phase' = "implement"
      /\ thread' = [th \in Threads |->
                    IF th \in Agents /\ Current(graph, th) \in With(graph, "in_progress")
                    THEN [pc |-> "work", task |-> Current(graph, th)]
                    ELSE Idle]
      /\ UNCHANGED graph
  BY DEF StartImplementing
<1>2. \A th \in Threads : thread[th] = Idle BY <1>1, RestingThreads DEF Threads
<1>3. \A th \in Threads : ~At(th, "cascade")' BY <1>1 DEF At, Idle
<1>4. Spread(graph) BY <1>2, RestingSpread
<1>5. ASSUME NEW a \in Agents PROVE InHand(a)'
  <2>1. \/ graph.held[a] = NoTask
        \/ graph.held[a] \in Tasks /\ graph.task[graph.held[a]].status \in InFlight
    BY <1>2, RestingHolds DEF Threads
  <2> QED BY <1>1, <2>1 DEF InHand
<1> QED BY <1>1, <1>3, <1>4, <1>5 DEF CleanInv

LEMMA TakeReviewClean == ASSUME IInv, CleanInv, NEW t \in Tasks, TakeReview(t) PROVE CleanInv'
<1>1. /\ phase = "review" /\ thread[Lead] = Idle
      /\ thread' = [thread EXCEPT ![Lead] = [pc |-> "judge", task |-> t]]
      /\ UNCHANGED <<graph, store, job, phase, round, restarts, canceller, others>>
  BY DEF TakeReview
<1>2. \A th \in Threads : thread[th] = Idle BY <1>1, RestingThreads DEF Threads
<1>3. /\ thread'[Lead] = [pc |-> "judge", task |-> t]
      /\ \A th \in Threads \ {Lead} : thread'[th] = Idle
  BY <1>1, <1>2 DEF IInv, TypeOK, Threads
<1>4. \A th \in Threads : ~At(th, "cascade")' BY <1>3 DEF At, Idle
<1>5. Spread(graph) BY <1>2, RestingSpread
<1>6. ASSUME NEW a \in Agents PROVE InHand(a)'
  <2>1. \/ graph.held[a] = NoTask
        \/ graph.held[a] \in Tasks /\ graph.task[graph.held[a]].status \in InFlight
    BY <1>2, RestingHolds DEF Threads
  <2> QED BY <1>1, <2>1 DEF InHand
<1> QED BY <1>1, <1>4, <1>5, <1>6 DEF CleanInv

\* What the resets make of a graph.
LEMMA ResetsSettle ==
  ASSUME NEW g, Sound(g)
  PROVE  /\ \A t \in Tasks : ResetInFlight(g).task[t].status =
                IF g.task[t].status \in InFlight THEN "to_do" ELSE g.task[t].status
         /\ \A t \in Tasks : ResetFailed(g).task[t].status =
                IF g.task[t].status = "failed" THEN "to_do" ELSE g.task[t].status
         /\ \A a \in Agents : ResetInFlight(g).held[a] =
                IF g.held[a] \in {t \in Tasks : g.task[t].status \in InFlight}
                THEN NoTask ELSE g.held[a]
         /\ \A a \in Agents : ResetFailed(g).held[a] =
                IF g.held[a] \in With(g, "failed") THEN NoTask ELSE g.held[a]
<1>1. g \in Graph /\ HeldIsNamed(g) BY DEF Sound
<1>2. ASSUME NEW t \in Tasks
      PROVE  ResetInFlight(g).task[t].status =
                IF g.task[t].status \in InFlight THEN "to_do" ELSE g.task[t].status
  <2>1. g.task[t] \in TaskState BY <1>1 DEF Graph
  <2> QED BY <2>1 DEF ResetInFlight, TaskState
<1>3. ASSUME NEW t \in Tasks
      PROVE  ResetFailed(g).task[t].status =
                IF g.task[t].status = "failed" THEN "to_do" ELSE g.task[t].status
  <2>1. g.task[t] \in TaskState BY <1>1 DEF Graph
  <2> QED BY <2>1 DEF ResetFailed, TaskState, With, Is
<1>4. \A a \in Agents : ResetInFlight(g).held[a] =
                IF g.held[a] \in {t \in Tasks : g.task[t].status \in InFlight}
                THEN NoTask ELSE g.held[a]
  <2> DEFINE ts == {t \in Tasks : g.task[t].status \in InFlight}
  <2>1. ResetInFlight(g).held = FreedBy(g, ts) BY DEF ResetInFlight
  <2>2. ts \in SUBSET Tasks OBVIOUS
  <2> HIDE DEF ts
  <2>3. \A a \in Agents : FreedBy(g, ts)[a] = IF g.held[a] \in ts THEN NoTask ELSE g.held[a]
    BY <1>1, <2>2, FreedFacts
  <2> QED BY <2>1, <2>3 DEF ts
<1>5. \A a \in Agents : ResetFailed(g).held[a] =
                IF g.held[a] \in With(g, "failed") THEN NoTask ELSE g.held[a]
  <2>1. ResetFailed(g).held = FreedBy(g, With(g, "failed")) BY DEF ResetFailed
  <2>2. With(g, "failed") \in SUBSET Tasks BY DEF With
  <2> QED BY <1>1, <2>1, <2>2, FreedFacts
<1> QED BY <1>2, <1>3, <1>4, <1>5

\* An invocation, of a job that is new or has ended.
LEMMA InvokeClean ==
  ASSUME IInv, CleanInv, NEW retryFailed \in BOOLEAN, Invoke(retryFailed), phase \in {"new",
  "ended"}
  PROVE  CleanInv'
<1> DEFINE g == ResetInFlight(store)
           h == ResetFailed(g)
<1>1. /\ graph' = (IF retryFailed THEN h ELSE g)
      /\ phase' = IF store.task = EmptyGraph.task THEN "plan" ELSE "planned"
      /\ thread' = Resting /\ UNCHANGED store
  BY DEF Invoke, Resumed
<1>2. Sound(store) /\ Sound(g) BY ResetInFlightSound DEF IInv
<1>3. /\ \A t \in Tasks : g.task[t].status =
            IF store.task[t].status \in InFlight THEN "to_do" ELSE store.task[t].status
      /\ \A a \in Agents : g.held[a] =
            IF store.held[a] \in {t \in Tasks : store.task[t].status \in InFlight}
            THEN NoTask ELSE store.held[a]
  BY <1>2, ResetsSettle
<1>4. /\ \A t \in Tasks : h.task[t].status =
            IF g.task[t].status = "failed" THEN "to_do" ELSE g.task[t].status
      /\ \A a \in Agents : h.held[a] =
            IF g.held[a] \in With(g, "failed") THEN NoTask ELSE g.held[a]
  <2> HIDE DEF g
  <2> QED BY <1>2, ResetsSettle
<1> HIDE DEF g, h
<1>5. /\ \A th \in Threads : thread[th] = Idle
      /\ \A th \in Threads : ~At(th, "cascade")'
  BY <1>1, RestingThreads DEF Threads, At, Idle, Resting
<1>6. \A a \in Agents : store.held[a] = NoTask
                        \/ (store.held[a] \in Tasks /\ store.task[store.held[a]].status \in InFlight)
  <2>1. CASE phase = "new" BY <2>1 DEF CleanInv, EmptyGraph
  <2>2. CASE phase = "ended"
    <3>1. store = graph BY <2>2 DEF CleanInv
    <3> QED BY <1>5, <3>1, RestingHolds DEF Threads
  <2> QED BY <2>1, <2>2
<1>7. \A a \in Agents : graph'.held[a] = NoTask
  <2>1. \A a \in Agents : g.held[a] = NoTask BY <1>3, <1>6
  <2>2. \A a \in Agents : h.held[a] = NoTask BY <1>4, <2>1
  <2> QED BY <1>1, <2>1, <2>2
<1>8. Spread(store)
  <2>1. CASE phase = "new"
    <3>1. store = EmptyGraph BY <2>1 DEF CleanInv
    <3>2. NoneFailed(EmptyGraph) BY DEF NoneFailed, EmptyGraph, Blank, Is
    <3> QED BY <3>1, <3>2, NoneFailedSpread
  <2>2. CASE phase = "ended"
    <3>1. store = graph BY <2>2 DEF CleanInv
    <3> QED BY <1>5, <3>1, RestingSpread
  <2> QED BY <2>1, <2>2
<1>9. Spread(graph')
  <2>1. Spread(g) BY <1>3, <1>8, TaskGraphAssumption DEF Spread, Is, InFlight
  <2>2. NoneFailed(h) BY <1>4 DEF NoneFailed, Is
  <2>3. Spread(h) BY <2>2, NoneFailedSpread
  <2> QED BY <1>1, <2>1, <2>3
<1>10. CASE phase' = "plan"
  <2>1. \A t \in Tasks : store.task[t].status = "absent"
    BY <1>1, <1>10 DEF EmptyGraph, Blank
  <2>2. \A t \in Tasks : graph'.task[t].status = "absent" BY <1>1, <1>3, <1>4, <2>1 DEF InFlight
  <2>3. NoneFailed(graph') BY <2>2 DEF NoneFailed, Is
  <2> QED BY <1>5, <1>7, <1>9, <1>10, <2>3 DEF CleanInv, InHand
<1>11. CASE phase' = "planned"
  <2>1. phase = "ended"
    <3>1. phase = "new" => store = EmptyGraph BY DEF CleanInv
    <3> QED BY <1>1, <1>11, <3>1
  <2>2. NoneAbsent(store) BY <2>1 DEF CleanInv
  <2>3. NoneAbsent(graph') BY <1>1, <1>3, <1>4, <2>2 DEF NoneAbsent, Is
  <2> QED BY <1>5, <1>7, <1>9, <1>11, <2>3 DEF CleanInv, InHand
<1> QED BY <1>1, <1>10, <1>11

\* No invocation dies, and none is overtaken while it runs.
Undisturbed == [][~Crash /\ UNCHANGED others]_vars

LEMMA RestartClean ==
  ASSUME IInv, OthersOK, Alone, CleanInv, Start \/ Restart, UNCHANGED others
  PROVE  CleanInv'
<1>1. CASE Start BY <1>1, InvokeClean DEF Start
<1>2. ASSUME Overtake PROVE phase = "ended"
  <2>1. Alone' BY DEF Alone, Overtaken
  <2>2. ~Live BY <1>2, <2>1, OvertakeOK
  <2> QED BY <1>2, <2>2 DEF Overtake, Live, Running, CleanInv
<1>3. CASE RetryActivity BY <1>2, <1>3, InvokeClean DEF RetryActivity
<1>4. CASE ResumeJob BY <1>2, <1>4, InvokeClean DEF ResumeJob
<1>5. CASE RetryFailedTasks BY <1>2, <1>5, InvokeClean DEF RetryFailedTasks
<1>6. CASE ResumeRefused
  BY <1>6 DEF ResumeRefused, CleanInv, Spreading, InHand, State, TaskOf, At
<1>7. ASSUME NEW i \in 1..MaxRestarts, Switch(i) PROVE FALSE
  BY <1>7 DEF Alone, Overtaken, Switch, Running, Nobody
<1> QED BY <1>1, <1>3, <1>4, <1>5, <1>6, <1>7 DEF Restart

LEMMA NextClean ==
  /\ IInv /\ OthersOK /\ Alone /\ CleanInv
  /\ [Next]_vars /\ [~Crash /\ UNCHANGED others]_vars
  => Alone' /\ CleanInv'
<1> SUFFICES ASSUME IInv, OthersOK, Alone, CleanInv,
                    [Next]_vars, [~Crash /\ UNCHANGED others]_vars
             PROVE  Alone' /\ CleanInv'
  OBVIOUS
<1>0. UNCHANGED others /\ Alone' BY DEF vars, Alone, Overtaken
<1>1. CASE Coordinate
  <2>1. ASSUME NEW t \in Tasks, PlanTask(t) \/ FailUnroutable(t) \/ TakeReview(t)
        PROVE  CleanInv'
    BY <2>1, PlanTaskClean, FailUnroutableClean, TakeReviewClean
  <2>2. CleanInv'
    BY <1>0, <1>1, <2>1, RestartClean, CoordinatorClean, AssignTasksClean,
       StartImplementingClean
    DEF Coordinate
  <2> QED BY <1>0, <2>2
<1>2. CASE UNCHANGED vars
  <2>1. CleanInv' = CleanInv
    BY <1>2 DEF vars, CleanInv, Spreading, InHand, State, TaskOf, At
  <2> QED BY <1>0, <2>1
<1>3. ASSUME NEW a \in Agents, Work(a) PROVE CleanInv' BY <1>3, WorkClean
<1>4. ASSUME NEW th \in Threads, Conclude(th) PROVE CleanInv' BY <1>4, ConcludeClean
<1>5. ASSUME Crash PROVE UNCHANGED vars BY <1>5
<1> QED
  BY <1>0, <1>1, <1>2, <1>3, <1>4, <1>5, ReviewClean, RestartClean, CoordinatorClean DEF Next

LEMMA InitClean == Init => Alone /\ CleanInv
<1> SUFFICES ASSUME Init PROVE Alone /\ CleanInv OBVIOUS
<1>1. NoneFailed(graph) BY DEF Init, EmptyGraph, Blank, NoneFailed, Is
<1>2. Spread(graph) BY <1>1, NoneFailedSpread
<1>3. \A th \in Threads : ~At(th, "cascade") BY DEF Init, Resting, At, Idle
<1>4. \A a \in Agents : InHand(a) BY DEF Init, EmptyGraph, InHand
<1>5. Alone BY DEF Init, Alone, Overtaken
<1> QED BY <1>2, <1>3, <1>4, <1>5 DEF Init, CleanInv

LEMMA CleanInvariance == Spec /\ Undisturbed => [](IInv /\ CleanInv)
<1> QED BY Invariance, InitClean, NextClean, PTL DEF Spec, Undisturbed

-----------------------------------------------------------------------------
(* The outcome                                                             *)
(*                                                                         *)
(* A run comes to its verdict for three reasons: it is complete, its       *)
(* rounds are used up, or the job is cancelled.  A complete run has        *)
(* settled all it has planned, because a task in progress keeps an agent   *)
(* from being free.                                                        *)

Settled(g) == \A t \in Tasks : g.task[t].status \in Terminal \cup {"absent"}

CutShort == round = MaxRounds \/ job.cancel

OutcomeInv ==
    Alone =>
    /\ phase = "verdict" => Settled(graph) \/ CutShort
    /\ phase = "ended" /\ job.status \in Finished => Settled(graph) \/ CutShort
    /\ phase \in {"coding", "ended"} => store = graph

LEMMA CompleteIsSettled == ASSUME IInv, IsComplete PROVE Settled(graph)
<1> SUFFICES ASSUME NEW t \in Tasks, graph.task[t].status \notin Terminal \cup {"absent"}
             PROVE  FALSE
  BY DEF Settled
<1>1. graph.task[t].status \in Status BY DEF IInv, TypeOK, Graph, TaskState
<1>2. graph.task[t].status = "in_progress"
  BY <1>1 DEF IsComplete, With, Is, Status, Terminal
<1>3. PICK a \in Agents : graph.held[a] = t
  BY <1>2 DEF IInv, Sound, FlightIsHeld, InFlight
<1>4. Current(graph, a) # NoTask BY <1>2, <1>3, TaskGraphAssumption DEF Current, Terminal
<1> QED BY <1>4 DEF IsComplete, FreeAgents

\* A thread works on its task well before the verdict.
LEMMA StepKeepsOutcome ==
  ASSUME IInv, NEW th \in Threads, thread[th] # Idle, NEW g, NEW pc, Step(th, g, pc)
  PROVE  OutcomeInv'
<1>1. phase \in {"route", "implement", "review"} BY DEF IInv, ThreadOK, Threads
<1> QED BY <1>1 DEF Step, control, OutcomeInv

LEMMA ThreadOutcome ==
  ASSUME IInv, \/ \E a \in Agents : Work(a)
               \/ \E th \in Threads : Conclude(th)
               \/ Review
  PROVE  OutcomeInv'
<1>1. PICK th \in Threads : /\ thread[th] # Idle
                            /\ \E g, pc : Step(th, g, pc)
  <2>1. ASSUME NEW a \in Agents, Work(a)
        PROVE  a \in Threads /\ thread[a].pc # "idle" /\ \E g, pc : Step(a, g, pc)
    BY <2>1 DEF Work, HandOff, PassGates, Bounce, Submit, Release, FallShort, FailGates,
       NoteProgress, Write, At, Threads
  <2>2. ASSUME NEW th \in Threads, Conclude(th)
        PROVE  thread[th].pc # "idle" /\ \E g, pc : Step(th, g, pc)
    BY <2>2 DEF Conclude, Retry, GrantWindow, Land, JudgeFailed, FailDependents, JudgeDone,
       Write, At
  <2>3. CASE Review
    <3>1. Lead \in Threads /\ thread[Lead].pc # "idle" /\ \E g, pc : Step(Lead, g, pc)
      BY <2>3 DEF Review, Approve, ReviewError, Reject, NoteProgress, Write, At, Threads
    <3> QED BY <3>1 DEF Idle
  <2>4. \A th \in Threads : thread[th].pc # "idle" => thread[th] # Idle BY DEF Idle
  <2> QED BY <2>1, <2>2, <2>3, <2>4
<1> QED BY <1>1, StepKeepsOutcome

\* Whoever was overtaken is there for good.
LEMMA RestartAlone ==
  ASSUME IInv, OthersOK, Restart, Alone'
  PROVE  Alone
<1>1. CASE UNCHANGED others BY <1>1 DEF Alone, Overtaken
<1>2. ASSUME Overtake PROVE UNCHANGED others
  BY <1>2, OvertakeOK DEF Overtake
<1>3. ASSUME NEW i \in 1..MaxRestarts, Switch(i) PROVE FALSE BY <1>3, SwitchIInv
<1> QED
  BY <1>1, <1>2, <1>3 DEF Restart, RetryActivity, ResumeJob, ResumeRefused, RetryFailedTasks

LEMMA NextOutcome == IInv /\ OthersOK /\ OutcomeInv /\ [Next]_vars => OutcomeInv'
<1> SUFFICES ASSUME IInv, OthersOK, OutcomeInv, [Next]_vars, Alone' PROVE OutcomeInv'
  BY DEF OutcomeInv
<1>alone. Alone
  <2>1. CASE UNCHANGED others BY <2>1 DEF Alone, Overtaken
  <2>2. CASE Restart BY <2>2, RestartAlone
  <2> QED BY <2>1, <2>2, OthersSteps
<1>typed. job \in [status : JobStatus, cancel : BOOLEAN, failed : BOOLEAN] BY DEF IInv, TypeOK
<1>1. CASE \/ \E t \in Tasks : PlanTask(t) \/ FailUnroutable(t) \/ TakeReview(t)
           \/ Planned \/ EnterCoding \/ PrepareWorktrees \/ BeginRound \/ AssignTasks
           \/ StartImplementing \/ StartReview \/ Start \/ Crash
           \/ RetryActivity \/ ResumeJob \/ RetryFailedTasks
  <2>1. phase' \notin {"verdict", "ended", "coding"} \/ (phase' = "coding" /\ store' = graph')
    BY <1>1 DEF PlanTask, FailUnroutable, TakeReview, Planned, EnterCoding, PrepareWorktrees,
       BeginRound, AssignTasks, StartImplementing, StartReview, Start, RetryActivity,
       ResumeJob, RetryFailedTasks, Invoke, Crash, control
  <2> QED BY <1>alone, <2>1 DEF OutcomeInv
<1>2. CASE HonorCancel
  <2>1. job'.cancel = job.cancel BY <1>typed, <1>2 DEF HonorCancel
  <2>2. job.cancel /\ phase' = "verdict" BY <1>2 DEF HonorCancel
  <2> QED BY <1>alone, <2>1, <2>2 DEF OutcomeInv, CutShort
<1>3. CASE WorktreesFail
  <2>1. job'.status = "failed" BY <1>typed, <1>3 DEF WorktreesFail
  <2>2. phase = "coding" /\ phase' = "ended" /\ UNCHANGED <<store, graph>>
    BY <1>3 DEF WorktreesFail
  <2> QED BY <1>alone, <2>1, <2>2 DEF OutcomeInv, Finished
<1>4. CASE RoundsExhausted BY <1>alone, <1>4 DEF RoundsExhausted, OutcomeInv, CutShort
<1>5. CASE EndRound
  <2>1. IsComplete => Settled(graph) BY CompleteIsSettled
  <2>2. /\ phase' \in {"verdict", "round"} /\ (phase' = "verdict" => IsComplete)
        /\ graph' = graph
    BY <1>5 DEF EndRound
  <2>3. Settled(graph') = Settled(graph) BY <2>2
  <2> QED BY <1>alone, <2>1, <2>2, <2>3 DEF OutcomeInv
<1>6. CASE Verdict
  <2>1. /\ phase = "verdict" /\ phase' = "ended" /\ store' = graph
        /\ UNCHANGED <<graph, round>>
    BY <1>6 DEF Verdict
  <2>2. job'.cancel = job.cancel BY <1>typed, <1>6 DEF Verdict
  <2>3. CutShort' = CutShort BY <2>1, <2>2 DEF CutShort
  <2>4. Settled(graph') = Settled(graph) BY <2>1
  <2> QED BY <1>alone, <2>1, <2>3, <2>4 DEF OutcomeInv
<1>7. CASE Flush
  <2>1. /\ phase \notin {"new", "crashed", "ended"} /\ store' = graph
        /\ UNCHANGED <<graph, phase, round, job>>
    BY <1>7 DEF Flush, Live, Running, control
  <2> QED BY <1>alone, <2>1 DEF OutcomeInv, CutShort, Settled
<1>8. CASE CancelLooks BY <1>alone, <1>8 DEF CancelLooks, OutcomeInv, CutShort, Settled
<1>9. CASE CancelWrites
  <2>1. job'.cancel = TRUE /\ UNCHANGED <<graph, store, phase>> BY <1>typed, <1>9 DEF CancelWrites
  <2> QED BY <1>alone, <2>1 DEF OutcomeInv, CutShort
<1>10. CASE UNCHANGED vars BY <1>alone, <1>10 DEF vars, OutcomeInv, CutShort, Settled
<1>11. CASE ResumeRefused
  BY <1>typed, <1>alone, <1>11 DEF ResumeRefused, OutcomeInv, CutShort, Settled, Live, Running
<1>12. ASSUME NEW i \in 1..MaxRestarts, Switch(i) PROVE FALSE BY <1>alone, <1>12, SwitchIInv
<1> QED
  BY <1>1, <1>2, <1>3, <1>4, <1>5, <1>6, <1>7, <1>8, <1>9, <1>10, <1>11, <1>12,
     ThreadOutcome
  DEF Next, Coordinate, Restart

LEMMA InitOutcome == Init => OutcomeInv
  BY DEF Init, OutcomeInv

-----------------------------------------------------------------------------
(* The results that hold under a condition *)

\* Undisturbed, whoever depends on a failed task has failed too once the
\* cascade is over (mark_dependents_failed), also after resumes and retries.
THEOREM FailureSpreads == Spec /\ Undisturbed => []FailureReachesDependents
<1>1. CleanInv => FailureReachesDependents
  BY DEF CleanInv, FailureReachesDependents, Spreading, Spread
<1> QED BY <1>1, CleanInvariance, PTL

\* Undisturbed, a task in the pool is held by no worker when a round begins
\* and when the run ends (unassign_task).
THEOREM PoolIsFree == Spec /\ Undisturbed => []PoolTasksAreFree
<1>1. IInv /\ CleanInv => PoolTasksAreFree
  BY RestingThreads, RestingHolds, TaskGraphAssumption DEF PoolTasksAreFree
<1> QED BY <1>1, CleanInvariance, PTL

\* Undisturbed, no coding round runs over a truncated plan (_plan_and_groom).
THEOREM PlansAreWhole == Spec /\ Undisturbed => []PlanIsWhole
<1>1. CleanInv => PlanIsWhole BY DEF CleanInv, NoneAbsent, PlanIsWhole, With
<1> QED BY <1>1, CleanInvariance, PTL

\* The ways to report an outcome with a task left behind are a truncated plan,
\* the cap on rounds, a cancellation, and a second swarm on the same job:
\* crashes, failures, resumes and retries lose no task.
THEOREM OutcomesAreSettled ==
  Spec /\ []PlanIsWhole => [](Alone => OutcomeMeansSettled \/ round = MaxRounds)
<1>1. IInv /\ OutcomeInv /\ PlanIsWhole => (Alone => OutcomeMeansSettled \/ round = MaxRounds)
  BY DEF OutcomeInv, CutShort, Settled, PlanIsWhole, OutcomeMeansSettled, With, Is
<1> QED BY <1>1, Invariance, InitOutcome, NextOutcome, PTL DEF Spec
=============================================================================
