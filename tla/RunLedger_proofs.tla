-------------------------- MODULE RunLedger_proofs --------------------------
(***************************************************************************)
(* Proofs about RunLedger, for any number of requests, keys, bodies and    *)
(* claims and any lease.                                                   *)
(*                                                                         *)
(* The inductive invariant ties the four places a token lives in: the row, *)
(* the request, the agent that runs and the history of claims.  Its heart  *)
(* is LiveHeld: as long as the lease of an attempt that may still reach its*)
(* agent has not run out, the row is its own, so nobody can claim the key. *)
(***************************************************************************)
EXTENDS RunLedger, TLAPS

-----------------------------------------------------------------------------
(* The inductive invariant *)

\* An attempt whose agent executes or may yet be started.
Live(t) == \/ t \in running
           \/ \E c \in Callers : call[c].token = t /\ call[c].pc \in {"prepare", "sent"}

\* No token is in use before it is minted; a claim lasts for one lease.
TokensFresh ==
  /\ \A k \in Keys : ledger[k].token <= minted
  /\ \A c \in Callers : call[c].token <= minted
  /\ \A t \in running : t <= minted
  /\ \A t \in Token : t <= minted => made[t].since <= now
                                      /\ made[t].until = made[t].since + Lease

\* A row is that of the claim it names, for the body of that claim; once it is
\* terminal its answer is that claim's.
RowsKnow ==
  \A k \in Keys :
    /\ ledger[k].status # "absent" =>
         /\ ledger[k].token \in Token
         /\ made[ledger[k].token].key = k /\ made[ledger[k].token].body = ledger[k].hash
    /\ ledger[k].status = "in_progress" => ledger[k].until = made[ledger[k].token].until
    /\ Terminal(ledger[k]) => ledger[k].answer = ledger[k].token

\* A request holds a token of its own, claimed for its key, and its agent
\* executes only while it waits for the answer.
CallsKnow ==
  \A c \in Callers :
    /\ call[c].pc = "idle" => call[c].token = NoToken
    /\ call[c].token # NoToken =>
         /\ made[call[c].token].key = call[c].key
         /\ call[c].token \in running => call[c].pc = "sent"
         /\ \A d \in Callers : call[d].token = call[c].token => d = c

\* Within its lease, a live attempt owns the row.
LiveHeld ==
  \A t \in Token :
    Live(t) /\ now < made[t].until => Owned(ledger[made[t].key], t)

\* Two live attempts of a key: the lease of the earlier had run out.
LiveApart ==
  \A t, u \in Token :
    Live(t) /\ Live(u) /\ t < u /\ made[t].key = made[u].key => made[t].until <= made[u].since

ServedKnow ==
  \A s \in served : /\ s.answer = s.claim /\ s.claim \in Token /\ s.claim <= minted
                    /\ made[s.answer].key = s.key /\ made[s.answer].body = s.body

IInv == TypeOK /\ TokensFresh /\ RowsKnow /\ CallsKnow /\ LiveHeld /\ LiveApart /\ ServedKnow

-----------------------------------------------------------------------------
(* Typing of the building blocks *)

\* The rows a ledger operation can leave are rows.
LEMMA RowTypes ==
  ASSUME TypeOK, NEW k \in Keys, NEW b \in Bodies, NEW t \in 0 .. MaxClaims,
         NEW s \in {"completed", "blocked"}
  PROVE  /\ Absent \in Row
         /\ Claimed(b, t) \in Row
         /\ Completed(ledger[k], t, s) \in Row
         /\ Abandoned(ledger[k], t) \in Row
<1> USE LedgerAssumption
<1>0. ledger[k] \in Row /\ now \in Nat
  BY DEF TypeOK
<1>1. Absent \in Row
  <2>1. (CHOOSE x \in Bodies : TRUE) \in Bodies
    OBVIOUS
  <2> QED BY <2>1 DEF Absent, Row, NoToken
<1>2. Claimed(b, t) \in Row
  BY <1>0 DEF Claimed, Row, NoToken
<1>3. Completed(ledger[k], t, s) \in Row
  BY <1>0 DEF Completed, Row
<1>4. Abandoned(ledger[k], t) \in Row
  BY <1>0, <1>1 DEF Abandoned
<1> QED BY <1>1, <1>2, <1>3, <1>4

\* A request that moves on, or leaves, is a request.
LEMMA CallTypes ==
  ASSUME TypeOK, NEW c \in Callers
  PROVE  /\ Idle \in Request
         /\ \A pc \in {"prepare", "sent", "persist", "memory", "completed", "block",
                       "blocked", "audit", "abandon"} :
              Goto(c, pc) => call' \in [Callers -> Request]
         /\ Leave(c) => call' \in [Callers -> Request]
<1> USE LedgerAssumption
<1>1. Idle \in Request
  <2>1. (CHOOSE x \in Keys : TRUE) \in Keys
    OBVIOUS
  <2> QED BY <2>1 DEF Idle, Request, NoToken
<1>2. ASSUME NEW pc \in {"prepare", "sent", "persist", "memory", "completed", "block",
                         "blocked", "audit", "abandon"}, Goto(c, pc)
      PROVE  call' \in [Callers -> Request]
  <2>1. [call[c] EXCEPT !.pc = pc] \in Request
    BY DEF TypeOK, Request
  <2> QED BY <1>2, <2>1 DEF Goto, TypeOK
<1>3. Leave(c) => call' \in [Callers -> Request]
  BY <1>1 DEF Leave, TypeOK
<1> QED BY <1>1, <1>2, <1>3

\* Init establishes the invariant.
LEMMA InitInv == Init => IInv
<1> USE LedgerAssumption
<1> SUFFICES ASSUME Init PROVE IInv
  OBVIOUS
<1>1. TypeOK
  <2>1. (CHOOSE x \in Bodies : TRUE) \in Bodies /\ (CHOOSE x \in Keys : TRUE) \in Keys
    OBVIOUS
  <2>2. Absent \in Row /\ Idle \in Request
    BY <2>1 DEF Absent, Row, Idle, Request, NoToken
  <2>3. Unmade \in [key : Keys, body : Bodies, since : Nat, until : Nat]
    BY <2>1 DEF Unmade
  <2> QED BY <2>2, <2>3 DEF Init, TypeOK
<1>2. \A t \in Token : ~Live(t)
  BY DEF Init, Live, Idle
<1>3. TokensFresh
  BY DEF Init, TokensFresh, Absent, Idle, NoToken, Token
<1>4. RowsKnow /\ CallsKnow /\ ServedKnow
  BY DEF Init, RowsKnow, CallsKnow, ServedKnow, Absent, Idle, Terminal
<1> QED BY <1>1, <1>2, <1>3, <1>4 DEF IInv, LiveHeld, LiveApart

-----------------------------------------------------------------------------
(* Steps that claim nothing *)

\* What is left to show of a step that mints no token and lets no time pass:
\* no attempt comes to life, and the row of one within its lease is not touched.
LEMMA NothingClaimed ==
  ASSUME IInv, TypeOK', CallsKnow', RowsKnow',
         UNCHANGED <<made, served, minted, now>>,
         \A k \in Keys : ledger'[k].token <= minted,
         \A c \in Callers : call'[c].token <= minted,
         \A t \in running' : t <= minted,
         \A t \in Token : Live(t)' => Live(t),
         \A t \in Token : Live(t) /\ now < made[t].until
                            => ledger'[made[t].key] = ledger[made[t].key]
  PROVE  IInv'
<1>1. TokensFresh'
  BY DEF IInv, TokensFresh
<1>2. LiveHeld'
  <2> SUFFICES ASSUME NEW t \in Token, Live(t)', now < made[t].until
               PROVE  Owned(ledger'[made[t].key], t)
    BY DEF LiveHeld
  <2>1. Live(t) /\ Owned(ledger[made[t].key], t)
    BY DEF IInv, LiveHeld
  <2> QED BY <2>1
<1>3. LiveApart'
  BY DEF IInv, LiveApart
<1>4. ServedKnow'
  BY DEF IInv, ServedKnow
<1> QED BY <1>1, <1>2, <1>3, <1>4 DEF IInv

\* Requests that move on: they keep token and key, or leave; none of them comes
\* to wait for an agent with a token it did not wait with.
Moves ==
  \A c \in Callers :
    \/ call'[c] = call[c]
    \/ call'[c] = Idle
    \/ /\ call'[c].token = call[c].token /\ call'[c].key = call[c].key
       /\ call'[c].pc # "idle"
       /\ call'[c].pc \in {"prepare", "sent"} =>
            call[c].token = NoToken \/ call[c].pc \in {"prepare", "sent"}
       /\ call'[c].token \in running' /\ call[c].token # NoToken => call'[c].pc = "sent"

\* The requests keep knowing their claims while they move.
LEMMA MovesKnow ==
  ASSUME IInv, Moves, UNCHANGED <<made, minted>>,
         \A c \in Callers : call'[c] = call[c] /\ call[c].token \in running' /\ call[c].token # NoToken
                              => call[c].pc = "sent"
  PROVE  CallsKnow' /\ \A c \in Callers : call'[c].token <= minted
<1> USE LedgerAssumption
<1>1. \A c \in Callers : call'[c].token = call[c].token \/ call'[c].token = NoToken
  <2>1. Idle.token = NoToken
    BY DEF Idle
  <2> QED BY <2>1 DEF Moves
<1>2. \A c \in Callers : call[c].token <= minted /\ minted \in Nat
  BY DEF IInv, TypeOK, TokensFresh
<1>3. ASSUME NEW c \in Callers
      PROVE  /\ call'[c].pc = "idle" => call'[c].token = NoToken
             /\ call'[c].token # NoToken =>
                  /\ made[call'[c].token].key = call'[c].key
                  /\ call'[c].token \in running' => call'[c].pc = "sent"
                  /\ \A d \in Callers : call'[d].token = call'[c].token => d = c
  <2>1. CASE call'[c] = call[c]
    BY <2>1, <1>1 DEF IInv, CallsKnow
  <2>2. CASE call'[c] = Idle
    BY <2>2 DEF Idle
  <2>3. CASE ~(call'[c] = call[c] \/ call'[c] = Idle)
    BY <2>3, <1>1 DEF IInv, CallsKnow, Moves
  <2> QED BY <2>1, <2>2, <2>3
<1>4. CallsKnow'
  BY <1>3 DEF CallsKnow
<1>5. \A c \in Callers : call'[c].token <= minted
  BY <1>1, <1>2 DEF NoToken
<1> QED BY <1>4, <1>5

\* A step that moves requests, and at most ends agents, comes to nothing new.
LEMMA OnlyMoves ==
  ASSUME IInv, TypeOK', Moves, UNCHANGED <<ledger, made, served, minted, now>>,
         running' \subseteq running,
         \A c \in Callers : call'[c] = call[c] /\ call[c].token \in running' /\ call[c].token # NoToken
                              => call[c].pc = "sent"
  PROVE  IInv'
<1> USE LedgerAssumption
<1>1. CallsKnow' /\ \A c \in Callers : call'[c].token <= minted
  BY MovesKnow
<1>2. RowsKnow'
  BY DEF IInv, RowsKnow
<1>3. \A t \in Token : Live(t)' => Live(t)
  <2> SUFFICES ASSUME NEW t \in Token, NEW c \in Callers, call'[c].token = t,
                      call'[c].pc \in {"prepare", "sent"}
               PROVE  Live(t)
    BY DEF Live
  <2>1. t # NoToken /\ Idle.token = NoToken
    BY DEF Token, NoToken, Idle
  <2>2. call[c].token = t /\ call[c].pc \in {"prepare", "sent"}
    BY <2>1 DEF Moves
  <2> QED BY <2>2 DEF Live
<1>4. /\ \A k \in Keys : ledger'[k].token <= minted
      /\ \A t \in running' : t <= minted
  BY DEF IInv, TokensFresh
<1> QED BY <1>1, <1>2, <1>3, <1>4, NothingClaimed

\* A request that goes to another place of its own code, no agent started.
LEMMA GoesOn ==
  ASSUME IInv, NEW c \in Callers,
         NEW pc \in {"persist", "memory", "completed", "block", "blocked", "audit", "abandon"},
         Goto(c, pc) \/ Leave(c), call[c].token \notin running'
  PROVE  Moves
<1>1. call \in [Callers -> Request]
  BY DEF IInv, TypeOK
<1>2. CASE Goto(c, pc)
  <2>1. \A d \in Callers : d # c => call'[d] = call[d]
    BY <1>1, <1>2 DEF Goto
  <2>2. call'[c] = [call[c] EXCEPT !.pc = pc]
    BY <1>1, <1>2 DEF Goto
  <2>3. call[c] \in Request
    BY <1>1
  <2>4. /\ call'[c].token = call[c].token /\ call'[c].key = call[c].key /\ call'[c].pc = pc
    BY <2>2, <2>3 DEF Request
  <2> QED BY <2>1, <2>4 DEF Moves
<1>3. CASE Leave(c)
  BY <1>1, <1>3 DEF Leave, Moves
<1> QED BY <1>2, <1>3

-----------------------------------------------------------------------------
(* One lemma per action *)

\* Typing of what the quiet steps write.
LEMMA EventTypes ==
  ASSUME TypeOK, NEW c \in Callers, NEW kind \in {"memory", "block", "audit"},
         Written(events, Event(c, kind))
  PROVE  events' \subseteq (0 .. MaxClaims) \X {"memory", "block", "audit"} /\ faults' \in Nat
<1> USE LedgerAssumption
<1>1. call[c].token \in 0 .. MaxClaims
  BY DEF TypeOK, Request
<1>2. faults' \in Nat
  BY DEF Written, Fault, TypeOK
<1>3. CASE Event(c, kind)
  BY <1>1, <1>2, <1>3 DEF Event, TypeOK
<1>4. CASE UNCHANGED events
  BY <1>2, <1>4 DEF TypeOK
<1> QED BY <1>3, <1>4 DEF Written

LEMMA PrepareSteps ==
  ASSUME IInv, NEW c \in Callers, Unledgered(c) \/ Precondition(c) \/ TooLarge(c)
  PROVE  IInv'
<1> USE LedgerAssumption
<1>1. TypeOK /\ call[c] \in Request
  BY DEF IInv, TypeOK
<1>2. CASE Unledgered(c)
  <2>1. call[c].token = NoToken
    BY <1>2 DEF IInv, CallsKnow, Unledgered
  <2>2. TypeOK'
    BY <1>1, <1>2, CallTypes DEF Unledgered, Fault, TypeOK
  <2>3. call' = [call EXCEPT ![c].pc = "prepare"]
    BY <1>2 DEF Unledgered, Goto
  <2>4. call'[c].token = call[c].token /\ call'[c].key = call[c].key /\ call'[c].pc = "prepare"
    BY <1>1, <2>3 DEF TypeOK, Request
  <2>5. Moves
    BY <1>1, <2>1, <2>3, <2>4 DEF Moves, TypeOK
  <2>6. \A d \in Callers : call[d].token \in running /\ call[d].token # NoToken
                             => call[d].pc = "sent"
    BY DEF IInv, CallsKnow
  <2> QED BY <1>2, <2>2, <2>5, <2>6, OnlyMoves DEF Unledgered
<1>3. CASE Precondition(c) \/ TooLarge(c)
  <2>1. call[c].token \notin running
    BY <1>1, <1>3 DEF IInv, CallsKnow, Precondition, TooLarge, TypeOK, Token, NoToken
  <2>2. TypeOK'
    BY <1>1, <1>3, CallTypes DEF Precondition, TooLarge, TypeOK
  <2>3. Moves
    BY <1>3, <2>1, GoesOn DEF Precondition, TooLarge
  <2>4. \A d \in Callers : call[d].token \in running /\ call[d].token # NoToken
                             => call[d].pc = "sent"
    BY DEF IInv, CallsKnow
  <2> QED BY <1>3, <2>2, <2>3, <2>4, OnlyMoves DEF Precondition, TooLarge
<1> QED BY <1>2, <1>3

LEMMA RecordSteps ==
  ASSUME IInv, NEW c \in Callers, RecordBlock(c) \/ RecordAudit(c) \/ PersistEvents(c)
  PROVE  IInv'
<1> USE LedgerAssumption
<1>1. TypeOK /\ call[c] \in Request
  BY DEF IInv, TypeOK
<1>2. /\ events' \subseteq (0 .. MaxClaims) \X {"memory", "block", "audit"} /\ faults' \in Nat
      /\ UNCHANGED <<ledger, running, made, served, minted, now>>
  BY <1>1, EventTypes DEF RecordBlock, RecordAudit, PersistEvents
<1>3. Goto(c, "blocked") \/ Goto(c, "completed") \/ Leave(c)
  BY DEF RecordBlock, RecordAudit, PersistEvents
<1>4. call[c].token \notin running
  BY <1>1 DEF IInv, CallsKnow, RecordBlock, RecordAudit, PersistEvents, TypeOK, Token, NoToken
<1>5. TypeOK'
  BY <1>1, <1>2, <1>3, CallTypes DEF TypeOK
<1>6. Moves
  BY <1>2, <1>3, <1>4, GoesOn
<1>7. \A d \in Callers : call[d].token \in running /\ call[d].token # NoToken
                           => call[d].pc = "sent"
  BY DEF IInv, CallsKnow
<1> QED BY <1>2, <1>5, <1>6, <1>7, OnlyMoves

LEMMA AgentSteps ==
  ASSUME IInv, (\E c \in Callers : Respond(c) \/ TransportError(c)) \/ AgentEnds \/ Crash
  PROVE  IInv'
<1> USE LedgerAssumption
<1>1. TypeOK
  BY DEF IInv
<1>2. UNCHANGED <<ledger, events, made, served, minted, now>> /\ running' \subseteq running
  BY DEF Respond, TransportError, AgentEnds, Crash
<1>3. \A d \in Callers : call[d].token \in running /\ call[d].token # NoToken
                           => call[d].pc = "sent"
  BY DEF IInv, CallsKnow
<1>4. ASSUME NEW c \in Callers, Respond(c) PROVE TypeOK' /\ Moves
  <2>1. PICK pc \in {"persist", "block", "audit", "abandon"} : Goto(c, pc)
    BY <1>4 DEF Respond
  <2>2. TypeOK'
    BY <1>1, <1>2, <1>4, <2>1, CallTypes DEF TypeOK, Respond
  <2>3. call[c].token \notin running'
    BY <1>4 DEF Respond
  <2> QED BY <2>1, <2>2, <2>3, GoesOn
<1>5. ASSUME NEW c \in Callers, TransportError(c) PROVE TypeOK' /\ Moves
  <2>1. TypeOK'
    BY <1>1, <1>2, <1>5, CallTypes DEF TypeOK, TransportError, Fault
  <2>2. Moves
    BY <1>1, <1>5 DEF TransportError, Leave, Moves, TypeOK
  <2> QED BY <2>1, <2>2
<1>6. ASSUME AgentEnds PROVE TypeOK' /\ Moves
  BY <1>1, <1>2, <1>6 DEF AgentEnds, TypeOK, Moves
<1>7. ASSUME Crash PROVE TypeOK' /\ Moves
  <2>1. Idle \in Request
    <3>1. (CHOOSE x \in Keys : TRUE) \in Keys
      OBVIOUS
    <3> QED BY <3>1 DEF Idle, Request, NoToken
  <2> QED BY <1>1, <1>2, <1>7, <2>1 DEF Crash, TypeOK, Moves, Fault
<1>8. TypeOK' /\ Moves
  BY <1>4, <1>5, <1>6, <1>7
<1> QED BY <1>2, <1>3, <1>8, OnlyMoves

\* The agent starts: its attempt was live already.
LEMMA ProceedStep ==
  ASSUME IInv, NEW c \in Callers, Proceed(c) PROVE IInv'
<1> USE LedgerAssumption
<1>1. TypeOK /\ call[c] \in Request
  BY DEF IInv, TypeOK
<1>2. /\ call' = [call EXCEPT ![c].pc = "sent"]
      /\ running' = running \cup ({call[c].token} \ {NoToken})
      /\ call[c].pc = "prepare"
  BY DEF Proceed, Goto
<1>3. call'[c].token = call[c].token /\ call'[c].key = call[c].key /\ call'[c].pc = "sent"
  BY <1>1, <1>2 DEF TypeOK, Request
<1>4. \A d \in Callers : d # c => call'[d] = call[d]
  BY <1>1, <1>2 DEF TypeOK
<1>5. TypeOK'
  <2>1. running' \subseteq Token
    BY <1>1, <1>2 DEF TypeOK, Request, Token, NoToken
  <2> QED BY <1>1, <2>1, CallTypes DEF Proceed, TypeOK
<1>6. Moves
  BY <1>2, <1>3, <1>4 DEF Moves
<1>7. \A d \in Callers : call'[d] = call[d] /\ call[d].token \in running' /\ call[d].token # NoToken
                           => call[d].pc = "sent"
  <2> SUFFICES ASSUME NEW d \in Callers, d # c, call[d].token \in running',
                      call[d].token # NoToken
               PROVE  call[d].pc = "sent"
    BY <1>2, <1>3
  <2>1. call[d].token # call[c].token
    BY DEF IInv, CallsKnow
  <2> QED BY <1>2, <2>1 DEF IInv, CallsKnow
<1>8. CallsKnow' /\ \A d \in Callers : call'[d].token <= minted
  BY <1>6, <1>7, MovesKnow DEF Proceed
<1>9. RowsKnow'
  BY DEF IInv, RowsKnow, Proceed
<1>10. \A t \in Token : Live(t)' => Live(t)
  <2> SUFFICES ASSUME NEW t \in Token, Live(t)' PROVE Live(t)
    OBVIOUS
  <2>1. CASE t \in running'
    BY <1>2, <2>1 DEF Live
  <2>2. CASE t \notin running'
    BY <1>2, <1>3, <1>4, <2>2 DEF Live
  <2> QED BY <2>1, <2>2
<1>11. /\ \A k \in Keys : ledger'[k].token <= minted
       /\ \A t \in running' : t <= minted
       /\ UNCHANGED <<ledger, made, served, minted, now>>
  BY <1>2 DEF IInv, TokensFresh, Proceed
<1> QED BY <1>5, <1>8, <1>9, <1>10, <1>11, NothingClaimed

\* A request that is past its agent's answer, or never reached it, writes its
\* row: the row changes only if the claim is still its own, and then no other
\* attempt of that key is within its lease.
LEMMA RowWritten ==
  ASSUME IInv, TypeOK', NEW c \in Callers, NEW k \in Keys, NEW s \in {"completed", "blocked"},
         call[c].key = k, call[c].pc \notin {"idle", "prepare", "sent"},
         NEW row, row \in {ledger[k], Completed(ledger[k], call[c].token, s),
                           Abandoned(ledger[k], call[c].token)},
         ledger' = [ledger EXCEPT ![k] = row],
         Moves, UNCHANGED <<running, made, served, minted, now>>
  PROVE  IInv'
<1> USE LedgerAssumption
<1> DEFINE t0 == call[c].token
<1>1. TypeOK /\ ledger[k] \in Row /\ t0 \in 0 .. MaxClaims
  BY DEF IInv, TypeOK, Request
<1>2. \A j \in Keys : j # k => ledger'[j] = ledger[j]
  BY <1>1 DEF TypeOK
<1>3. ledger'[k] = row
  BY <1>1 DEF TypeOK
<1>4. CASE row = ledger[k]
  <2>1. UNCHANGED ledger
    BY <1>1, <1>4 DEF TypeOK
  <2>2. \A d \in Callers : call'[d] = call[d] /\ call[d].token \in running' /\ call[d].token # NoToken
                             => call[d].pc = "sent"
    BY DEF IInv, CallsKnow
  <2> QED BY <2>1, <2>2, OnlyMoves
<1>5. CASE row # ledger[k]
  <2>1. Owned(ledger[k], t0)
    BY <1>5 DEF Completed, Abandoned
  <2>2. /\ t0 \in Token /\ t0 # NoToken /\ ledger[k].token = t0
        /\ made[t0].key = k
    BY <2>1 DEF IInv, RowsKnow, Owned, Token, NoToken
  <2>3. ~Live(t0)
    <3>1. t0 \notin running
      BY <2>2 DEF IInv, CallsKnow
    <3>2. \A d \in Callers : call[d].token = t0 => d = c
      BY <2>2 DEF IInv, CallsKnow
    <3> QED BY <3>1, <3>2 DEF Live
  <2>4. \A t \in Token : Live(t) /\ now < made[t].until
                           => ledger'[made[t].key] = ledger[made[t].key]
    <3> SUFFICES ASSUME NEW t \in Token, Live(t), now < made[t].until, made[t].key = k
                 PROVE  FALSE
      <4>1. \A t \in Token : made[t].key \in Keys
        BY <1>1 DEF TypeOK
      <4> QED BY <1>2, <4>1
    <3>1. Owned(ledger[k], t)
      BY DEF IInv, LiveHeld
    <3> QED BY <2>2, <2>3, <3>1 DEF Owned
  <2>5. RowsKnow' /\ \A j \in Keys : ledger'[j].token <= minted
    <3>1. /\ row.status # "absent" => row.token = t0 /\ row.hash = ledger[k].hash
          /\ row.status # "in_progress"
          /\ Terminal(row) => row.answer = row.token
          /\ row.token \in {t0, NoToken}
      <4>1. CASE row = Completed(ledger[k], t0, s)
        BY <1>1, <2>1, <2>2, <4>1 DEF Completed, Row, Terminal
      <4>2. CASE row = Abandoned(ledger[k], t0)
        BY <2>1, <4>2 DEF Abandoned, Absent, Terminal
      <4> QED BY <1>5, <4>1, <4>2
    <3>2. RowsKnow'
      <4> SUFFICES ASSUME NEW j \in Keys
                   PROVE  /\ ledger'[j].status # "absent" =>
                               /\ ledger'[j].token \in Token
                               /\ made[ledger'[j].token].key = j
                               /\ made[ledger'[j].token].body = ledger'[j].hash
                          /\ ledger'[j].status = "in_progress" =>
                               ledger'[j].until = made[ledger'[j].token].until
                          /\ Terminal(ledger'[j]) => ledger'[j].answer = ledger'[j].token
        BY DEF RowsKnow
      <4>1. CASE j # k
        BY <1>2, <4>1 DEF IInv, RowsKnow, Terminal
      <4>2. CASE j = k
        <5>1. made[t0].body = ledger[k].hash
          BY <2>1, <2>2 DEF IInv, RowsKnow, Owned
        <5> QED BY <1>3, <2>2, <3>1, <4>2, <5>1
      <4> QED BY <4>1, <4>2
    <3>3. ASSUME NEW j \in Keys PROVE ledger'[j].token <= minted
      <4>1. minted \in Nat
        BY <1>1 DEF TypeOK
      <4>2. ledger[j].token <= minted /\ ledger[k].token <= minted
        BY DEF IInv, TokensFresh
      <4> QED BY <1>2, <1>3, <2>2, <3>1, <4>1, <4>2 DEF NoToken
    <3> QED BY <3>2, <3>3
  <2>6. CallsKnow' /\ \A d \in Callers : call'[d].token <= minted
    <3>1. \A d \in Callers : call'[d] = call[d] /\ call[d].token \in running' /\ call[d].token # NoToken
                               => call[d].pc = "sent"
      BY DEF IInv, CallsKnow
    <3> QED BY <3>1, MovesKnow
  <2>7. \A t \in Token : Live(t)' => Live(t)
    <3> SUFFICES ASSUME NEW t \in Token, NEW d \in Callers, call'[d].token = t,
                        call'[d].pc \in {"prepare", "sent"}
                 PROVE  Live(t)
      BY DEF Live
    <3>1. t # NoToken /\ Idle.token = NoToken
      BY DEF Token, NoToken, Idle
    <3>2. call[d].token = t /\ call[d].pc \in {"prepare", "sent"}
      BY <3>1 DEF Moves
    <3> QED BY <3>2 DEF Live
  <2>8. \A t \in running' : t <= minted
    BY DEF IInv, TokensFresh
  <2> QED BY <2>4, <2>5, <2>6, <2>7, <2>8, NothingClaimed
<1> QED BY <1>4, <1>5

LEMMA LedgerSteps ==
  ASSUME IInv, NEW c \in Callers, complete_run(c) \/ abandon_run(c)
  PROVE  IInv'
<1> USE LedgerAssumption
<1> DEFINE k == call[c].key
           s == IF call[c].pc = "blocked" THEN "blocked" ELSE "completed"
<1>1. TypeOK /\ call[c] \in Request /\ k \in Keys
  BY DEF IInv, TypeOK, Request
<1>2. call[c].pc \notin {"idle", "prepare", "sent"} /\ s \in {"completed", "blocked"}
  BY DEF complete_run, abandon_run
<1>3. /\ UNCHANGED <<running, events, made, served, minted, now>>
      /\ Goto(c, "memory") \/ Leave(c)
  BY DEF complete_run, abandon_run
<1>4. call[c].token \notin running
  BY <1>1, <1>2 DEF IInv, CallsKnow, TypeOK, Token, NoToken
<1>5. Moves
  BY <1>3, <1>4, GoesOn
<1>6. PICK row \in {ledger[k], Completed(ledger[k], call[c].token, s),
                    Abandoned(ledger[k], call[c].token)} :
        ledger' = [ledger EXCEPT ![k] = row]
  <2>1. CASE UNCHANGED ledger
    <3>1. ledger' = [ledger EXCEPT ![k] = ledger[k]]
      BY <1>1, <2>1 DEF TypeOK
    <3> QED BY <3>1
  <2>2. CASE ~ UNCHANGED ledger
    BY <2>2 DEF complete_run, abandon_run, Written, SetRow
  <2> QED BY <2>1, <2>2
<1>7. TypeOK'
  <2>1. row \in Row
    <3>1. ledger[k] \in Row /\ call[c].token \in 0 .. MaxClaims
      BY <1>1 DEF TypeOK, Request
    <3>2. (CHOOSE x \in Bodies : TRUE) \in Bodies
      OBVIOUS
    <3> QED BY <1>1, <1>2, <1>6, <3>1, <3>2, RowTypes
  <2>2. faults' \in Nat
    BY <1>1 DEF complete_run, abandon_run, Written, Fault, TypeOK
  <2>3. ledger' \in [Keys -> Row]
    BY <1>1, <1>6, <2>1 DEF TypeOK
  <2> QED BY <1>1, <1>3, <2>2, <2>3, CallTypes DEF TypeOK
<1> QED BY <1>1, <1>2, <1>3, <1>5, <1>6, <1>7, RowWritten

\* The collector deletes terminal rows only, and those are no live attempt's.
LEMMA CollectStep == IInv /\ gc_terminal_runs => IInv'
<1> USE LedgerAssumption
<1> SUFFICES ASSUME IInv, gc_terminal_runs PROVE IInv'
  OBVIOUS
<1>1. TypeOK /\ Absent \in Row
  <2>1. (CHOOSE x \in Bodies : TRUE) \in Bodies
    OBVIOUS
  <2> QED BY <2>1 DEF IInv, Absent, Row, NoToken
<1>2. /\ \A k \in Keys : \/ ledger'[k] = ledger[k]
                         \/ ledger'[k] = Absent /\ Terminal(ledger[k])
      /\ ledger' \in [Keys -> Row]
      /\ UNCHANGED <<call, running, events, made, served, minted, now, faults>>
  BY <1>1 DEF gc_terminal_runs, TypeOK
<1>3. TypeOK'
  BY <1>1, <1>2 DEF TypeOK
<1>4. CallsKnow'
  BY <1>2 DEF IInv, CallsKnow
<1>5. RowsKnow'
  BY <1>2 DEF IInv, RowsKnow, Absent, Terminal
<1>6. \A k \in Keys : ledger'[k].token <= minted
  <2>1. Absent.token = 0 /\ minted \in Nat
    BY <1>1 DEF Absent, NoToken, TypeOK
  <2> QED BY <1>2, <2>1 DEF IInv, TokensFresh
<1>7. /\ \A d \in Callers : call'[d].token <= minted
      /\ \A t \in running' : t <= minted
      /\ \A t \in Token : Live(t)' => Live(t)
  BY <1>2 DEF IInv, TokensFresh, Live
<1>8. \A t \in Token : Live(t) /\ now < made[t].until
                         => ledger'[made[t].key] = ledger[made[t].key]
  <2> SUFFICES ASSUME NEW t \in Token, Live(t), now < made[t].until
               PROVE  ledger'[made[t].key] = ledger[made[t].key]
    OBVIOUS
  <2>1. Owned(ledger[made[t].key], t) /\ made[t].key \in Keys
    BY <1>1 DEF IInv, LiveHeld, TypeOK
  <2> QED BY <1>2, <2>1 DEF Owned, Terminal
<1> QED BY <1>2, <1>3, <1>4, <1>5, <1>6, <1>7, <1>8, NothingClaimed

\* Time passes: leases run out, and nothing else changes.
LEMMA TickStep == IInv /\ Tick => IInv'
<1> USE LedgerAssumption
<1> SUFFICES ASSUME IInv, Tick PROVE IInv'
  OBVIOUS
<1>1. /\ UNCHANGED <<ledger, call, running, events, made, served, minted, faults>>
      /\ now' = now + 1 /\ now \in Nat
  BY DEF Tick, IInv, TypeOK
<1>2. TypeOK'
  BY <1>1 DEF IInv, TypeOK
<1>3. TokensFresh'
  <2>1. \A t \in Token : made[t].since \in Nat
    BY DEF IInv, TypeOK
  <2> QED BY <1>1, <2>1 DEF IInv, TokensFresh
<1>4. RowsKnow' /\ CallsKnow' /\ ServedKnow'
  BY <1>1 DEF IInv, RowsKnow, CallsKnow, ServedKnow
<1>5. \A t \in Token : Live(t)' <=> Live(t)
  BY <1>1 DEF Live
<1>6. LiveHeld'
  <2> SUFFICES ASSUME NEW t \in Token, Live(t), now' < made[t].until
               PROVE  Owned(ledger[made[t].key], t)
    BY <1>1, <1>5 DEF LiveHeld
  <2>1. made[t].until \in Nat
    BY DEF IInv, TypeOK
  <2>2. now < made[t].until
    BY <1>1, <2>1
  <2> QED BY <2>2 DEF IInv, LiveHeld
<1>7. LiveApart'
  BY <1>1, <1>5 DEF IInv, LiveApart
<1> QED BY <1>2, <1>3, <1>4, <1>6, <1>7 DEF IInv

\* A replay serves the answer of a terminal row to a request for its body.
LEMMA ReplayStep ==
  ASSUME IInv, NEW c \in Callers, NEW k \in Keys, NEW b \in Bodies, Replay(c, k, b)
  PROVE  IInv'
<1> USE LedgerAssumption
<1>1. /\ UNCHANGED <<ledger, call, running, events, made, minted, now, faults>>
      /\ served' = served \cup {[key |-> k, body |-> b, answer |-> ledger[k].answer,
                                 claim |-> ledger[k].token]}
      /\ ledger[k].hash = b /\ Terminal(ledger[k])
  BY DEF Replay, Replayable
<1>2. TypeOK /\ ledger[k] \in Row
  BY DEF IInv, TypeOK
<1>3. TypeOK'
  BY <1>1, <1>2 DEF TypeOK, Row
<1>4. /\ ledger[k].answer = ledger[k].token /\ ledger[k].token \in Token
      /\ ledger[k].token <= minted
      /\ made[ledger[k].token].key = k /\ made[ledger[k].token].body = b
  BY <1>1 DEF IInv, RowsKnow, TokensFresh, Terminal
<1>5. ServedKnow'
  BY <1>1, <1>4 DEF IInv, ServedKnow
<1>6. TokensFresh' /\ RowsKnow' /\ CallsKnow'
  BY <1>1 DEF IInv, TokensFresh, RowsKnow, CallsKnow
<1>7. \A t \in Token : Live(t)' <=> Live(t)
  BY <1>1 DEF Live
<1>8. LiveHeld' /\ LiveApart'
  BY <1>1, <1>7 DEF IInv, LiveHeld, LiveApart
<1> QED BY <1>3, <1>5, <1>6, <1>8 DEF IInv

\* A claim: the token is new, and every live attempt of the key is past its
\* lease, for its row would not have been claimable otherwise.
LEMMA ClaimStep ==
  ASSUME IInv, NEW c \in Callers, NEW k \in Keys, NEW b \in Bodies, claim_run(c, k, b)
  PROVE  IInv'
<1> USE LedgerAssumption
<1> DEFINE u == minted + 1
           claim == [key |-> k, body |-> b, since |-> now, until |-> now + Lease]
           request == [pc |-> "prepare", key |-> k, token |-> u]
<1>1. TypeOK /\ minted \in Nat /\ now \in Nat /\ u \in Token /\ u # NoToken
  BY DEF IInv, TypeOK, claim_run, Token, NoToken
<1>2. /\ ledger' = [ledger EXCEPT ![k] = Claimed(b, u)]
      /\ made' = [made EXCEPT ![u] = claim]
      /\ call' = [call EXCEPT ![c] = request]
      /\ minted' = u
      /\ UNCHANGED <<running, events, served, now, faults>>
      /\ call[c].pc = "idle" /\ Claimable(ledger[k], b)
  BY DEF claim_run, SetRow
<1>3. Claimed(b, u) \in Row
  BY <1>1, RowTypes DEF Token
<1>4. /\ \A j \in Keys : ledger'[j] = IF j = k THEN Claimed(b, u) ELSE ledger[j]
      /\ \A t \in Token : made'[t] = IF t = u THEN claim ELSE made[t]
      /\ \A d \in Callers : call'[d] = IF d = c THEN request ELSE call[d]
  BY <1>1, <1>2 DEF TypeOK
<1>5. TypeOK'
  <2>1. request \in Request /\ claim \in [key : Keys, body : Bodies, since : Nat, until : Nat]
    BY <1>1 DEF Request, Token
  <2>2. ledger' \in [Keys -> Row] /\ call' \in [Callers -> Request]
    BY <1>1, <1>2, <1>3, <2>1 DEF TypeOK
  <2>3. made' \in [Token -> [key : Keys, body : Bodies, since : Nat, until : Nat]]
    BY <1>1, <1>2, <2>1 DEF TypeOK
  <2>4. minted' \in 0 .. MaxClaims
    BY <1>1, <1>2 DEF Token
  <2> QED BY <1>1, <1>2, <2>2, <2>3, <2>4 DEF TypeOK
<1>6. /\ \A j \in Keys : ledger[j].token \in 0 .. minted
      /\ \A d \in Callers : call[d].token \in 0 .. minted
      /\ \A t \in running : t \in 0 .. minted
  <2>1. \A j \in Keys : ledger[j].token \in Nat
    BY <1>1 DEF TypeOK, Row
  <2>2. \A d \in Callers : call[d].token \in Nat
    BY <1>1 DEF TypeOK, Request
  <2>3. running \subseteq Nat
    BY <1>1 DEF TypeOK, Token
  <2>4. /\ \A j \in Keys : ledger[j].token <= minted
        /\ \A d \in Callers : call[d].token <= minted
        /\ \A t \in running : t <= minted
    BY DEF IInv, TokensFresh
  <2>5. \A n \in Nat : n <= minted => n \in 0 .. minted
    BY <1>1
  <2>6. \A t \in running : t \in Nat
    BY <2>3
  <2> QED BY <2>1, <2>2, <2>4, <2>5, <2>6
<1>7. /\ \A j \in Keys : ledger[j].token # u
      /\ \A d \in Callers : call[d].token # u
      /\ u \notin running
  BY <1>1, <1>6
<1>8. TokensFresh'
  <2>1. \A j \in Keys : ledger'[j].token <= minted'
    BY <1>1, <1>2, <1>4, <1>6 DEF Claimed
  <2>2. \A d \in Callers : call'[d].token <= minted'
    BY <1>1, <1>2, <1>4, <1>6
  <2>3. \A t \in running' : t <= minted'
    BY <1>1, <1>2, <1>6
  <2>4. \A t \in Token : t <= minted' => made'[t].since <= now' /\ made'[t].until = made'[t].since + Lease
    <3> SUFFICES ASSUME NEW t \in Token, t <= u
                 PROVE  made'[t].since <= now /\ made'[t].until = made'[t].since + Lease
      BY <1>2
    <3>1. CASE t = u
      BY <1>1, <1>4, <3>1
    <3>2. CASE t # u
      <4>1. t <= minted
        BY <1>1, <3>2 DEF Token
      <4> QED BY <1>4, <3>2, <4>1 DEF IInv, TokensFresh
    <3> QED BY <3>1, <3>2
  <2> QED BY <2>1, <2>2, <2>3, <2>4 DEF TokensFresh
<1>9. RowsKnow'
  <2> SUFFICES ASSUME NEW j \in Keys
               PROVE  /\ ledger'[j].status # "absent" =>
                           /\ ledger'[j].token \in Token
                           /\ made'[ledger'[j].token].key = j
                           /\ made'[ledger'[j].token].body = ledger'[j].hash
                      /\ ledger'[j].status = "in_progress" =>
                           ledger'[j].until = made'[ledger'[j].token].until
                      /\ Terminal(ledger'[j]) => ledger'[j].answer = ledger'[j].token
    BY DEF RowsKnow
  <2>1. CASE j = k
    BY <1>1, <1>4, <2>1 DEF Claimed, Terminal
  <2>2. CASE j # k
    <3>1. ledger'[j] = ledger[j] /\ ledger[j].token # u
      BY <1>4, <1>7, <2>2
    <3> QED BY <1>4, <3>1 DEF IInv, RowsKnow, Terminal
  <2> QED BY <2>1, <2>2
<1>10. CallsKnow'
  <2> SUFFICES ASSUME NEW d \in Callers
               PROVE  /\ call'[d].pc = "idle" => call'[d].token = NoToken
                      /\ call'[d].token # NoToken =>
                           /\ made'[call'[d].token].key = call'[d].key
                           /\ call'[d].token \in running' => call'[d].pc = "sent"
                           /\ \A e \in Callers : call'[e].token = call'[d].token => e = d
    BY DEF CallsKnow
  <2>1. CASE d = c
    BY <1>1, <1>2, <1>4, <1>7, <2>1
  <2>2. CASE d # c
    <3>1. call'[d] = call[d] /\ call[d].token # u
      BY <1>4, <1>7, <2>2
    <3>2. call[d].token # NoToken => call[d].token \in Token
      BY <1>1 DEF TypeOK, Request, Token, NoToken
    <3>3. \A e \in Callers : call'[e].token = call[d].token /\ call[d].token # NoToken => e = d
      BY <1>4, <3>1 DEF IInv, CallsKnow
    <3> QED BY <1>2, <1>4, <3>1, <3>2, <3>3 DEF IInv, CallsKnow
  <2> QED BY <2>1, <2>2
<1>11. \A t \in Token : t # u /\ Live(t)' => Live(t)
  BY <1>2, <1>4 DEF Live
<1>12. \A t \in Token : t # u /\ Live(t)' /\ made[t].key = k => made[t].until <= now
  <2> SUFFICES ASSUME NEW t \in Token, Live(t), made[t].key = k, now < made[t].until
               PROVE  FALSE
    <3>1. \A t \in Token : made[t].until \in Nat
      BY <1>1 DEF TypeOK
    <3> QED BY <1>1, <1>11, <3>1
  <2>1. Owned(ledger[k], t)
    BY DEF IInv, LiveHeld
  <2>2. ledger[k].until = made[t].until
    BY <2>1 DEF IInv, RowsKnow, Owned
  <2>3. made[t].until \in Nat
    BY <1>1 DEF TypeOK
  <2> QED BY <1>1, <1>2, <2>1, <2>2, <2>3 DEF Owned, Claimable
<1>13. LiveHeld'
  <2> SUFFICES ASSUME NEW t \in Token, Live(t)', now < made'[t].until
               PROVE  Owned(ledger'[made'[t].key], t)
    BY <1>2 DEF LiveHeld
  <2>1. CASE t = u
    BY <1>1, <1>4, <2>1 DEF Owned, Claimed
  <2>2. CASE t # u
    <3>1. made'[t] = made[t] /\ Live(t) /\ now < made[t].until /\ made[t].until \in Nat
      BY <1>1, <1>4, <1>11, <2>2 DEF TypeOK
    <3>2. made[t].key # k
      BY <1>1, <1>12, <2>2, <3>1
    <3>3. made[t].key \in Keys
      BY <1>1 DEF TypeOK
    <3>4. ledger'[made[t].key] = ledger[made[t].key]
      BY <1>4, <3>2, <3>3
    <3> QED BY <3>1, <3>4 DEF IInv, LiveHeld
  <2> QED BY <2>1, <2>2
<1>14. LiveApart'
  <2> SUFFICES ASSUME NEW t \in Token, NEW v \in Token, Live(t)', Live(v)', t < v,
                      made'[t].key = made'[v].key
               PROVE  made'[t].until <= made'[v].since
    BY DEF LiveApart
  <2>1. \A w \in Token : w # u /\ Live(w)' => w <= minted
    BY <1>1, <1>6, <1>11 DEF Live
  <2>2. t # u
    <3>1. v \in Nat /\ t \in Nat /\ v <= u
      BY <1>1, <2>1 DEF Token
    <3> QED BY <1>1, <3>1
  <2>3. CASE v = u
    BY <1>4, <1>12, <2>2, <2>3
  <2>4. CASE v # u
    BY <1>4, <1>11, <2>2, <2>4 DEF IInv, LiveApart
  <2> QED BY <2>3, <2>4
<1>15. ServedKnow'
  <2> SUFFICES ASSUME NEW s \in served
               PROVE  /\ s.answer = s.claim /\ s.claim \in Token /\ s.claim <= minted'
                      /\ made'[s.answer].key = s.key /\ made'[s.answer].body = s.body
    BY <1>2 DEF ServedKnow
  <2>1. s.answer = s.claim /\ s.claim \in Token /\ s.claim <= minted
    BY DEF IInv, ServedKnow
  <2>2. s.claim \in Nat
    BY <2>1 DEF Token
  <2>3. s.claim # u /\ s.claim <= minted'
    BY <1>1, <1>2, <2>1, <2>2
  <2> QED BY <1>4, <2>1, <2>3 DEF IInv, ServedKnow
<1> QED BY <1>5, <1>8, <1>9, <1>10, <1>13, <1>14, <1>15 DEF IInv
-----------------------------------------------------------------------------
(* The theorems *)

\* Every step preserves the invariant.
LEMMA StepInv == IInv /\ [Next]_vars => IInv'
<1> SUFFICES ASSUME IInv, [Next]_vars PROVE IInv'
  OBVIOUS
<1>1. ASSUME NEW c \in Callers, NEW k \in Keys, NEW b \in Bodies,
             claim_run(c, k, b) \/ Replay(c, k, b)
      PROVE  IInv'
  BY <1>1, ClaimStep, ReplayStep
<1>2. ASSUME NEW c \in Callers, Unledgered(c) \/ Precondition(c) \/ TooLarge(c) \/ Proceed(c)
      PROVE  IInv'
  BY <1>2, PrepareSteps, ProceedStep
<1>3. ASSUME NEW c \in Callers, RecordBlock(c) \/ RecordAudit(c) \/ PersistEvents(c)
      PROVE  IInv'
  BY <1>3, RecordSteps
<1>4. ASSUME NEW c \in Callers, complete_run(c) \/ abandon_run(c)
      PROVE  IInv'
  BY <1>4, LedgerSteps
<1>5. ASSUME (\E c \in Callers : Respond(c) \/ TransportError(c)) \/ AgentEnds \/ Crash
      PROVE  IInv'
  BY <1>5, AgentSteps
<1>6. gc_terminal_runs \/ Tick => IInv'
  BY CollectStep, TickStep
<1>7. CASE UNCHANGED vars
  <2>1. \A t \in Token : Live(t)' <=> Live(t)
    BY <1>7 DEF vars, Live
  <2> QED BY <1>7, <2>1 DEF vars, IInv, TypeOK, TokensFresh, RowsKnow, CallsKnow, LiveHeld,
                            LiveApart, ServedKnow
<1> QED BY <1>1, <1>2, <1>3, <1>4, <1>5, <1>6, <1>7 DEF Next

LEMMA Invariance == Spec => []IInv
<1> QED BY InitInv, StepInv, PTL DEF Spec

\* The rows, the requests and the histories keep their types.
THEOREM TypeCorrect == Spec => []TypeOK
<1>1. IInv => TypeOK
  BY DEF IInv
<1> QED BY <1>1, Invariance, PTL

\* What claim_run replays is the answer of the attempt that last claimed the
\* key, made for the same request.
THEOREM ReplaysCorrect == Spec => []ReplaysAreTheRunsOwn
<1>1. IInv => ReplaysAreTheRunsOwn
  BY DEF IInv, ServedKnow, ReplaysAreTheRunsOwn
<1> QED BY <1>1, Invariance, PTL

\* The lease is the guard against a second run of the same key: of the agents
\* that execute for it, whenever they were started, one at most is within its own.
THEOREM LeaseExcludes == Spec => []LeaseGuardsRun
<1>1. IInv => LeaseGuardsRun
  <2> SUFFICES ASSUME IInv, NEW t \in running, NEW u \in running,
                      t # u, made[t].key = made[u].key
               PROVE  made[t].until <= now \/ made[u].until <= now
    BY DEF LeaseGuardsRun
  <2>1. t \in Token /\ u \in Token /\ t <= minted /\ u <= minted /\ Live(t) /\ Live(u)
    BY DEF IInv, TypeOK, TokensFresh, Live
  <2>2. /\ now \in Nat /\ made[t].until \in Nat /\ made[u].until \in Nat
        /\ made[t].since \in Nat /\ made[u].since \in Nat
    BY <2>1 DEF IInv, TypeOK
  <2>3. made[t].since <= now /\ made[u].since <= now
    BY <2>1 DEF IInv, TokensFresh
  <2>4. t < u \/ u < t
    BY <2>1, LedgerAssumption DEF Token
  <2>5. made[t].until <= made[u].since \/ made[u].until <= made[t].since
    BY <2>1, <2>4 DEF IInv, LiveApart
  <2> QED BY <2>2, <2>3, <2>5
<1> QED BY <1>1, Invariance, PTL

\* No completion, abandonment or claim touches a terminal row; the collector
\* deletes it once its replay window has lapsed.
THEOREM AnswerStands == Spec => StoredAnswerStands
<1>1. IInv /\ [Next]_vars =>
        [\A k \in Keys :
           Terminal(ledger[k]) =>
             ledger'[k] = ledger[k] \/ (ledger'[k] = Absent /\ ledger[k].done + Ttl < now)]_vars
  <2> SUFFICES ASSUME IInv, Next, NEW k \in Keys, Terminal(ledger[k])
               PROVE  \/ ledger'[k] = ledger[k]
                      \/ ledger'[k] = Absent /\ ledger[k].done + Ttl < now
    OBVIOUS
  <2>1. ledger \in [Keys -> Row]
    BY DEF IInv, TypeOK
  <2>2. ASSUME NEW c \in Callers, NEW j \in Keys, NEW b \in Bodies, claim_run(c, j, b)
        PROVE  ledger'[k] = ledger[k]
    <3>1. j # k
      BY <2>2 DEF claim_run, Claimable, Terminal
    <3> QED BY <2>1, <2>2, <3>1 DEF claim_run, SetRow
  <2>3. ASSUME NEW c \in Callers, complete_run(c) PROVE ledger'[k] = ledger[k]
    <3>1. \A t, s : Completed(ledger[k], t, s) = ledger[k]
      BY DEF Completed, Owned, Terminal
    <3> QED BY <2>1, <2>3, <3>1 DEF complete_run, Written, SetRow
  <2>4. ASSUME NEW c \in Callers, abandon_run(c) PROVE ledger'[k] = ledger[k]
    <3>1. \A t : Abandoned(ledger[k], t) = ledger[k]
      BY DEF Abandoned, Owned, Terminal
    <3> QED BY <2>1, <2>4, <3>1 DEF abandon_run, Written, SetRow
  <2>5. CASE gc_terminal_runs
    BY <2>1, <2>5 DEF gc_terminal_runs
  <2>6. CASE AgentEnds \/ Crash \/ Tick
    BY <2>6 DEF AgentEnds, Crash, Tick
  <2>7. ASSUME NEW c \in Callers, NEW j \in Keys, NEW b \in Bodies, Replay(c, j, b)
        PROVE  ledger'[k] = ledger[k]
    BY <2>7 DEF Replay
  <2>8. ASSUME NEW c \in Callers, \/ Unledgered(c) \/ Precondition(c) \/ TooLarge(c) \/ Proceed(c)
                                  \/ Respond(c) \/ TransportError(c)
                                  \/ RecordBlock(c) \/ RecordAudit(c) \/ PersistEvents(c)
        PROVE  ledger'[k] = ledger[k]
    BY <2>8 DEF Unledgered, Precondition, TooLarge, Proceed, Respond, TransportError,
                RecordBlock, RecordAudit, PersistEvents
  <2> QED BY <2>2, <2>3, <2>4, <2>5, <2>6, <2>7, <2>8 DEF Next
<1> QED BY <1>1, Invariance, PTL DEF Spec, StoredAnswerStands
=============================================================================
