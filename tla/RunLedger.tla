----------------------------- MODULE RunLedger -----------------------------
(***************************************************************************)
(* The invoke gate of a cognition agent and its run ledger (agent_cognition*)
(* context.py and invoke_gate.py, called by unified_api/routes/agents.py): *)
(* a request claims its key with a lease, the agent runs in its container, *)
(* and the attempt is finalized, abandoned, or left to its lease.          *)
(*                                                                         *)
(* Every ledger operation is one transaction on one row.  Between two of   *)
(* them the API process may die, the transport may give up on an agent     *)
(* that runs on, and another request may claim the key.  A claim's token is*)
(* a fresh number; the answer of an attempt is known by that number.       *)
(***************************************************************************)
EXTENDS Naturals, FiniteSets

CONSTANTS
  Callers,        \* requests that can be under way at once
  Keys,           \* ledger keys, (agent, Idempotency-Key)
  Bodies,         \* request bodies, known by their hash
  Lease,          \* the effective lease, max(lease, _MIN_LEASE_S)
  Ttl,            \* run_idempotency_ttl
  SideEffecting,  \* requires_idempotency_key: no run without the ledger
  MaxClaims, MaxTime, MaxFaults   \* bounds

ASSUME LedgerAssumption ==
  /\ Lease \in Nat \ {0} /\ Ttl \in Nat \ {0} /\ SideEffecting \in BOOLEAN
  /\ MaxClaims \in Nat /\ MaxTime \in Nat /\ MaxFaults \in Nat
  /\ Keys # {} /\ Bodies # {}

VARIABLES
  ledger,   \* agent_cognition_runs, a row per key
  call,     \* the requests
  running,  \* tokens of the attempts whose agent is executing
  events,   \* memory events, by the attempt they were written under
  made,     \* history: what each token was claimed for, when and until when
  served,   \* history: the replays that were answered
  minted, now, faults

vars == <<ledger, call, running, events, made, served, minted, now, faults>>

NoToken == 0
Token == 1 .. MaxClaims

Absent == [status |-> "absent", hash |-> CHOOSE b \in Bodies : TRUE, until |-> 0,
           token |-> NoToken, answer |-> NoToken, done |-> 0]
Idle == [pc |-> "idle", key |-> CHOOSE k \in Keys : TRUE, token |-> NoToken]
Unmade == [key |-> CHOOSE k \in Keys : TRUE, body |-> CHOOSE b \in Bodies : TRUE,
           since |-> 0, until |-> 0]

Init ==
  /\ ledger = [k \in Keys |-> Absent]
  /\ call = [c \in Callers |-> Idle]
  /\ running = {} /\ events = {} /\ served = {}
  /\ made = [t \in Token |-> Unmade]
  /\ minted = 0 /\ now = 0 /\ faults = 0

Terminal(row) == row.status \in {"completed", "blocked"}

-----------------------------------------------------------------------------
(* Ledger operations: the row they leave *)

\* First sight, or an expired lease for the same body.
Claimable(row, hash) ==
  \/ row.status = "absent"
  \/ row.status = "in_progress" /\ row.until <= now /\ row.hash = hash

\* (mutant) The stored answer is replayed before the hashes are compared.
Replayable_AnyBody(row, hash) == Terminal(row)

Replayable(row, hash) == row.hash = hash /\ Terminal(row)

Claimed(hash, token) ==
  [status |-> "in_progress", hash |-> hash, until |-> now + Lease,
   token |-> token, answer |-> NoToken, done |-> 0]

Owned(row, token) == row.status = "in_progress" /\ row.token = token

\* (mutant) A repeated completion overwrites the one before it.
Completed_AgainTerminal(row, token, status) ==
  IF row.status # "absent"
  THEN [row EXCEPT !.status = status, !.answer = token, !.done = now, !.until = 0]
  ELSE row

\* complete_run: the status and the token must both match, else a no-op.
Completed(row, token, status) ==
  IF Owned(row, token)
  THEN [row EXCEPT !.status = status, !.answer = token, !.done = now, !.until = 0]
  ELSE row

\* abandon_run: the same fence.
Abandoned(row, token) == IF Owned(row, token) THEN Absent ELSE row

-----------------------------------------------------------------------------
(* prepare_invoke *)

Goto(c, pc) == call' = [call EXCEPT ![c].pc = pc]
Leave(c) == call' = [call EXCEPT ![c] = Idle]
SetRow(k, row) == ledger' = [ledger EXCEPT ![k] = row]
Fault == faults < MaxFaults /\ faults' = faults + 1
\* A write that is best effort: it is made, or it fails and is passed over.
Written(var, new) == \/ new /\ UNCHANGED faults
                     \/ Fault /\ UNCHANGED var

\* The key is claimed in one statement.  Bound: MaxClaims.
claim_run(c, k, b) ==
  LET t == minted + 1
  IN  /\ call[c].pc = "idle" /\ t \in Token
      /\ Claimable(ledger[k], b)
      /\ minted' = t
      /\ SetRow(k, Claimed(b, t))
      /\ made' = [made EXCEPT ![t] = [key |-> k, body |-> b, since |-> now, until |-> now + Lease]]
      /\ call' = [call EXCEPT ![c] = [pc |-> "prepare", key |-> k, token |-> t]]
      /\ UNCHANGED <<running, events, served, now, faults>>

\* A terminal row for the same body is served as it is.  Any other row is a
\* conflict, which changes nothing.
Replay(c, k, b) ==
  /\ call[c].pc = "idle" /\ Replayable(ledger[k], b)
  /\ served' = served \cup {[key |-> k, body |-> b, answer |-> ledger[k].answer,
                             claim |-> ledger[k].token]}
  /\ UNCHANGED <<ledger, call, running, events, made, minted, now, faults>>

\* The storage is down: an agent without side effects runs unledgered.
Unledgered(c) ==
  /\ call[c].pc = "idle" /\ ~SideEffecting /\ Fault
  /\ Goto(c, "prepare")
  /\ UNCHANGED <<ledger, running, events, made, served, minted, now>>

\* An enforced precondition blocks the request before the agent runs.
Precondition(c) ==
  /\ call[c].pc = "prepare"
  /\ Goto(c, "block")
  /\ UNCHANGED <<ledger, running, events, made, served, minted, now, faults>>

\* The wrapped request is over the cap and was never sent.
TooLarge(c) ==
  /\ call[c].pc = "prepare"
  /\ Goto(c, "abandon")
  /\ UNCHANGED <<ledger, running, events, made, served, minted, now, faults>>

Proceed(c) ==
  /\ call[c].pc = "prepare"
  /\ running' = running \cup ({call[c].token} \ {NoToken})
  /\ Goto(c, "sent")
  /\ UNCHANGED <<ledger, events, made, served, minted, now, faults>>

-----------------------------------------------------------------------------
(* The agent, and the three exits of invoke_agent *)

\* The agent answers: passed, blocked by a postcondition, failed (its lease is
\* left to expire), or over the response cap.
Respond(c) ==
  /\ call[c].pc = "sent"
  /\ running' = running \ {call[c].token}
  /\ \E pc \in {"persist", "block", "audit", "abandon"} : Goto(c, pc)
  /\ UNCHANGED <<ledger, events, made, served, minted, now, faults>>

\* (mutant) The claim of an agent that may still be executing is released.
TransportError_Abandons(c) ==
  /\ call[c].pc = "sent" /\ Fault
  /\ Goto(c, "abandon")
  /\ UNCHANGED <<ledger, running, events, made, served, minted, now>>

\* The transport gives up; the agent may run on, and the lease is held.
TransportError(c) ==
  /\ call[c].pc = "sent" /\ Fault
  /\ Leave(c)
  /\ UNCHANGED <<ledger, running, events, made, served, minted, now>>

AgentEnds ==
  /\ \E t \in running : /\ \A c \in Callers : call[c].token # t
                        /\ running' = running \ {t}
  /\ UNCHANGED <<ledger, call, events, made, served, minted, now, faults>>

Event(c, kind) == events' = events \cup {<<call[c].token, kind>>}

\* _record_block: the tool audit and the block go to memory, then the ledger.
RecordBlock(c) ==
  /\ call[c].pc = "block"
  /\ Written(events, Event(c, "block"))
  /\ Goto(c, "blocked")
  /\ UNCHANGED <<ledger, running, made, served, minted, now>>

\* A response that failed: only its trusted audit is kept.
RecordAudit(c) ==
  /\ call[c].pc = "audit"
  /\ Written(events, Event(c, "audit"))
  /\ Leave(c)
  /\ UNCHANGED <<ledger, running, made, served, minted, now>>

\* A response that passed: the memory and the ledger are written at once, in
\* either order.
PersistEvents(c) ==
  /\ call[c].pc \in {"persist", "memory"}
  /\ Written(events, Event(c, "memory"))
  /\ IF call[c].pc = "persist" THEN Goto(c, "completed") ELSE Leave(c)
  /\ UNCHANGED <<ledger, running, made, served, minted, now>>

\* complete_run, skipped by an unledgered attempt; its failures are passed over.
complete_run(c) ==
  LET k == call[c].key
      status == IF call[c].pc = "blocked" THEN "blocked" ELSE "completed"
  IN  /\ call[c].pc \in {"persist", "completed", "blocked"}
      /\ Written(ledger, SetRow(k, Completed(ledger[k], call[c].token, status)))
      /\ IF call[c].pc = "persist" THEN Goto(c, "memory") ELSE Leave(c)
      /\ UNCHANGED <<running, events, made, served, minted, now>>

abandon_run(c) ==
  /\ call[c].pc = "abandon"
  /\ Written(ledger, SetRow(call[c].key, Abandoned(ledger[call[c].key], call[c].token)))
  /\ Leave(c)
  /\ UNCHANGED <<running, events, made, served, minted, now>>

-----------------------------------------------------------------------------
(* The scheduler, the process and the clock *)

\* Terminal rows whose replay window has lapsed are deleted, no others.
gc_terminal_runs ==
  /\ ledger' = [k \in Keys |->
                  IF Terminal(ledger[k]) /\ ledger[k].done + Ttl < now THEN Absent
                  ELSE ledger[k]]
  /\ UNCHANGED <<call, running, events, made, served, minted, now, faults>>

\* The API process dies; the agents it called run on.
Crash ==
  /\ Fault
  /\ call' = [c \in Callers |-> Idle]
  /\ UNCHANGED <<ledger, running, events, made, served, minted, now>>

Tick ==
  /\ now < MaxTime /\ now' = now + 1
  /\ UNCHANGED <<ledger, call, running, events, made, served, minted, faults>>

Next ==
  \/ \E c \in Callers :
       \/ \E k \in Keys, b \in Bodies : claim_run(c, k, b) \/ Replay(c, k, b)
       \/ Unledgered(c) \/ Precondition(c) \/ TooLarge(c) \/ Proceed(c)
       \/ Respond(c) \/ TransportError(c)
       \/ RecordBlock(c) \/ RecordAudit(c) \/ PersistEvents(c)
       \/ complete_run(c) \/ abandon_run(c)
  \/ AgentEnds \/ gc_terminal_runs \/ Crash \/ Tick

Spec == Init /\ [][Next]_vars

-----------------------------------------------------------------------------
(* Properties *)

Row == [status : {"absent", "in_progress", "completed", "blocked"}, hash : Bodies,
        until : Nat, token : 0 .. MaxClaims, answer : 0 .. MaxClaims, done : Nat]
Request == [pc : {"idle", "prepare", "sent", "persist", "memory", "completed", "block",
                  "blocked", "audit", "abandon"},
            key : Keys, token : 0 .. MaxClaims]

\* Types of the rows, the requests and the histories.
TypeOK ==
  /\ ledger \in [Keys -> Row]
  /\ call \in [Callers -> Request]
  /\ running \subseteq Token
  /\ events \subseteq (0 .. MaxClaims) \X {"memory", "block", "audit"}
  /\ made \in [Token -> [key : Keys, body : Bodies, since : Nat, until : Nat]]
  /\ served \subseteq [key : Keys, body : Bodies, answer : 0 .. MaxClaims,
                       claim : 0 .. MaxClaims]
  /\ minted \in 0 .. MaxClaims /\ now \in Nat /\ faults \in Nat

\* What a replay gives to a request is what the attempt that last claimed the
\* key produced, and that attempt was made for the same key and the same body:
\* never the answer of an attempt whose lease was taken over while it ran, and
\* never the answer to another request.
ReplaysAreTheRunsOwn ==
  \A s \in served : /\ s.answer = s.claim /\ s.claim \in Token
                    /\ made[s.answer].key = s.key /\ made[s.answer].body = s.body

\* A stored answer stands, whoever finalizes, abandons or claims late, until
\* its replay window has lapsed.
StoredAnswerStands ==
  [][\A k \in Keys :
       Terminal(ledger[k]) =>
         ledger'[k] = ledger[k] \/ (ledger'[k] = Absent /\ ledger[k].done + Ttl < now)]_vars

\* Of the agents that execute for one key at one moment, at most one is within
\* the lease of its claim: a transport error, a crash, an abandoned claim, a pass
\* of the collector or a start that comes late never puts a second beside it
\* (abandon_invoke: "the lease is the double-run guard").
LeaseGuardsRun ==
  \A t, u \in running :
    t # u /\ made[t].key = made[u].key => made[t].until <= now \/ made[u].until <= now

\* No agent is started for a key while another executes within its lease.  This
\* is more than the gate gives: nothing looks at the lease again between the
\* claim and the dispatch, so an attempt that was held up there past its lease
\* starts beside the one that has reclaimed the key.
StartsAreGuarded ==
  [][\A t \in running' \ running : \A u \in running :
       made[t].key = made[u].key => made[u].until <= now]_vars

=============================================================================
