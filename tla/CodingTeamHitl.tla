--------------------------- MODULE CodingTeamHitl ---------------------------
(***************************************************************************)
(* The pause/resume protocol of the coding team under Temporal             *)
(* (pause_strategy = "return").  One job record, one CodingTeamWorkflow,   *)
(* the attempts of run_pipeline_activity that run the orchestrator, and    *)
(* clients that POST answers or POST resume.  Nothing locks the record     *)
(* across two calls: every read and every write below is a step of its own.*)
(* The orchestrator fans the implementation of a round out to workers, each *)
(* on a thread of its own; they are counted, not named.  A worker's pause   *)
(* is on the record while the other workers of its round finish.            *)
(*                                                                         *)
(* A pause is identified by its resume_token; tokens are numbered in the   *)
(* order they are minted, 0 standing for None.  A question id is unique to *)
(* its pause, so an answer is the question's text, the token of the pause  *)
(* and what the client chose.  A worker's or the Tech Lead's wish to ask   *)
(* is a nondeterministic choice: it is the language model's.               *)
(***************************************************************************)
EXTENDS Naturals, Sequences, FiniteSets

CONSTANTS
  Attempts,    \* activity attempts that can run at once; a second one lets the
               \* server time an attempt out while its thread runs on
  Clients,     \* callers of the HITL routes
  EntryQs,     \* open questions handed in with the plan
  RaisedQs,    \* questions the Tech Lead or a worker may raise
  Choices,     \* what a client can decide
  Team,        \* workers a round is fanned out to at most
  MaxRounds,   \* max_rounds
  MaxTaskRevisions,  \* MAX_TASK_REVISIONS, escalations after which a task fails
  MaxCalls,    \* bound: HTTP calls the clients make
  MaxFaults,   \* bound: failed or timed-out attempts, signals not sent
  MaxLost      \* bound: workers' pause writes whose answer gets lost

ASSUME HitlAssumption ==
  /\ Attempts # {} /\ IsFiniteSet(Attempts)
  /\ Team \in Nat /\ MaxRounds \in Nat \ {0} /\ MaxTaskRevisions \in Nat \ {0}
  /\ MaxCalls \in Nat /\ MaxFaults \in Nat /\ MaxLost \in Nat

VARIABLES
  job,      \* the job record
  run,      \* per attempt: the orchestrator invocation it is executing
  wf,       \* the workflow's fields and what it is waiting on
  signals,  \* submit_answers signals the server accepted, not yet delivered
  client,   \* per client: the route handler it is executing
  minted,   \* resume tokens minted so far
  calls, faults, lost,
  sent,     \* history: tokens some signal carried
  inTime,   \* history: answers appended while their pause was outstanding
  escalated,\* history: per question, how often a worker escalated it
  astray    \* history: an attempt was timed out and its thread may run on, or a
            \* worker took the pause it had put on the record for a failure

vars ==
  <<job, run, wf, signals, client, minted, calls, faults, lost, sent, inTime, escalated, astray>>

None == 0
LastToken == MaxCalls + MaxFaults + MaxLost + 1
Token == 1 .. LastToken
Questions == EntryQs \cup RaisedQs
Answer == [q : Questions, token : Token, choice : Choices]

(* busy: workers of the round at work; committed: _escalation_pause_committed *)
Off == [pc |-> "off", ack |-> None, folded |-> {}, planned |-> FALSE,
        ask |-> {}, token |-> None, busy |-> 0, committed |-> FALSE, round |-> 0]
Idle == [pc |-> "idle", token |-> None, answers |-> {}]

(* A fresh invocation of the orchestrator with the request the workflow    *)
(* sends: plan_input comes from the request every time, so nothing an      *)
(* earlier invocation folded in survives except through the record.        *)
Invocation(ack) == [Off EXCEPT !.pc = "enter", !.ack = ack]

TypeOK ==
  /\ job \in [status : {"pending", "running", "waiting_for_user", "completed",
                        "already_complete", "failed"},
              waiting : BOOLEAN, asked : SUBSET Questions,
              token : Token \cup {None}, answers : SUBSET Answer,
              planned : BOOLEAN]
  /\ run \in [Attempts ->
       [pc : {"off", "enter", "consume", "reread", "plan", "begin", "work",
              "fanout", "pausing", "paused", "finished"},
        ack : Token \cup {None}, folded : SUBSET Answer, planned : BOOLEAN,
        ask : SUBSET Questions, token : Token \cup {None},
        busy : 0 .. Team, committed : BOOLEAN, round : 0 .. MaxRounds]]
  /\ wf \in [pc : {"executing", "waiting", "done"}, current : Attempts,
             active : Token \cup {None}, submitted : BOOLEAN,
             buffered : SUBSET Token, ack : Token \cup {None}]
  /\ signals \in Seq(Token)
  /\ client \in [Clients -> [pc : {"idle", "append", "signal"},
                             token : Token \cup {None}, answers : SUBSET Answer]]
  /\ minted \in 0 .. LastToken
  /\ calls \in 0 .. MaxCalls /\ faults \in 0 .. MaxFaults /\ lost \in 0 .. MaxLost
  /\ sent \subseteq Token /\ inTime \subseteq Answer
  /\ escalated \in [RaisedQs -> Nat] /\ astray \in BOOLEAN

Init ==
  \E a \in Attempts :
    /\ job = [status |-> "pending", waiting |-> FALSE, asked |-> {},
              token |-> None, answers |-> {}, planned |-> FALSE]
    /\ run = [b \in Attempts |-> IF b = a THEN Invocation(None) ELSE Off]
    /\ wf = [pc |-> "executing", current |-> a, active |-> None,
             submitted |-> FALSE, buffered |-> {}, ack |-> None]
    /\ signals = <<>>
    /\ client = [c \in Clients |-> Idle]
    /\ minted = 0 /\ calls = 0 /\ faults = 0 /\ lost = 0
    /\ sent = {} /\ inTime = {}
    /\ escalated = [q \in RaisedQs |-> 0]
    /\ astray = FALSE

(***************************************************************************)
(* The orchestrator, run_coding_team_orchestrator.                         *)
(***************************************************************************)
Local(a, new) == run' = [run EXCEPT ![a] = new]

Environment ==
  <<wf, signals, client, minted, calls, faults, lost, sent, inTime, escalated, astray>>

(* What _check_pending_pause_reentry calls a persisted, unresolved pause.  *)
PauseOutstanding == job.waiting /\ job.token # None

(* Bugs a change to Hydrated could bring: only the batch just acknowledged *)
(* is folded in; the entry gate is skipped once there is something to fold.*)
Hydrated_LastBatchOnly(r) ==
  LET batch == {e \in job.answers : e.token = r.ack}
      uncovered == EntryQs \ {e.q : e \in job.answers}
  IN  [r EXCEPT !.folded = batch, !.planned = job.planned, !.ask = uncovered,
                !.pc = IF uncovered # {} THEN "pausing"
                       ELSE IF job.planned THEN "begin" ELSE "plan"]

Hydrated_NoGateOnResume(r) ==
  LET uncovered == IF r.ack = None THEN EntryQs \ {e.q : e \in job.answers} ELSE {}
  IN  [r EXCEPT !.folded = job.answers, !.planned = job.planned, !.ask = uncovered,
                !.pc = IF uncovered # {} THEN "pausing"
                       ELSE IF job.planned THEN "begin" ELSE "plan"]

(* _hydrate_resolved_from_record folds every submitted answer into the     *)
(* resolved questions; the entry gate then asks what no text covers, and   *)
(* otherwise the run plans, or goes on from the snapshot if it has one.    *)
Hydrated(r) ==
  LET uncovered == EntryQs \ {e.q : e \in job.answers}
  IN  [r EXCEPT !.folded = job.answers, !.planned = job.planned,
                !.ask = uncovered,
                !.pc = IF uncovered # {} THEN "pausing"
                       ELSE IF job.planned THEN "begin" ELSE "plan"]

(* A bug: a retry reports a token of its own.                              *)
ReEmit_FreshToken(a) ==
  /\ run[a].pc = "enter" /\ PauseOutstanding /\ run[a].ack # job.token
  /\ minted < LastToken
  /\ minted' = minted + 1
  /\ Local(a, [run[a] EXCEPT !.pc = "paused", !.token = minted + 1])
  /\ UNCHANGED <<job, wf, signals, client, calls, faults, lost, sent, inTime, escalated, astray>>

(* A pre-work retry: the pause on the record is re-emitted unchanged.      *)
ReEmit(a) ==
  /\ run[a].pc = "enter" /\ PauseOutstanding /\ run[a].ack # job.token
  /\ Local(a, [run[a] EXCEPT !.pc = "paused", !.token = job.token])
  /\ UNCHANGED <<job, Environment>>

(* A bug: any invocation consumes the pause it finds.                      *)
Resume_AnyInvocation(a) ==
  /\ run[a].pc = "enter" /\ PauseOutstanding
  /\ Local(a, [run[a] EXCEPT !.pc = "consume"])
  /\ UNCHANGED <<job, Environment>>

(* The acknowledged token is the persisted one: this is a resume.          *)
Resume(a) ==
  /\ run[a].pc = "enter" /\ PauseOutstanding /\ run[a].ack = job.token
  /\ Local(a, [run[a] EXCEPT !.pc = "consume"])
  /\ UNCHANGED <<job, Environment>>

(* A bug: the pause on the record is not looked for.                       *)
Proceed_PastPause(a) ==
  /\ run[a].pc = "enter"
  /\ Local(a, Hydrated(run[a]))
  /\ UNCHANGED <<job, Environment>>

(* No pause outstanding: fold what that same read of the record holds.     *)
Proceed(a) ==
  /\ run[a].pc = "enter" /\ ~PauseOutstanding
  /\ Local(a, Hydrated(run[a]))
  /\ UNCHANGED <<job, Environment>>

(* The pause envelope is cleared; status and submitted_answers stay.       *)
Consume(a) ==
  /\ run[a].pc = "consume"
  /\ job' = [job EXCEPT !.waiting = FALSE, !.asked = {}, !.token = None]
  /\ Local(a, [run[a] EXCEPT !.pc = "reread"])
  /\ UNCHANGED Environment

(* The record is read again after the clear, then folded.                  *)
Reread(a) ==
  /\ run[a].pc = "reread"
  /\ Local(a, Hydrated(run[a]))
  /\ UNCHANGED <<job, Environment>>

(* The Tech Lead raises open questions instead of a plan.                  *)
LeadAsks(a) ==
  /\ run[a].pc = "plan"
  /\ \E qs \in SUBSET RaisedQs \ {{}} :
       Local(a, [run[a] EXCEPT !.pc = "pausing", !.ask = qs])
  /\ UNCHANGED <<job, Environment>>

(* The Tech Lead returns a task graph, which is persisted.                 *)
Planned(a) ==
  /\ run[a].pc = "plan"
  /\ job' = [job EXCEPT !.planned = TRUE]
  /\ Local(a, [run[a] EXCEPT !.pc = "begin"])
  /\ UNCHANGED Environment

(* The Tech Lead judges the work already complete.                         *)
AlreadyComplete(a) ==
  /\ run[a].pc = "plan"
  /\ job' = [job EXCEPT !.status = "already_complete"]
  /\ Local(a, [run[a] EXCEPT !.pc = "finished"])
  /\ UNCHANGED Environment

(* The workers cannot be built: the job fails; otherwise coding starts.    *)
BeginWork(a) ==
  /\ run[a].pc = "begin"
  /\ \/ /\ job' = [job EXCEPT !.status = "running"]
        /\ Local(a, [run[a] EXCEPT !.pc = "work"])
     \/ /\ job' = [job EXCEPT !.status = "failed"]
        /\ Local(a, [run[a] EXCEPT !.pc = "finished"])
  /\ UNCHANGED Environment

(* A round: the ready tasks are assigned and their workers started.        *)
StartRound(a) ==
  /\ run[a].pc = "work" /\ run[a].round < MaxRounds
  /\ \E n \in 0 .. Team :
       Local(a, [run[a] EXCEPT !.pc = "fanout", !.busy = n, !.committed = FALSE,
                               !.round = @ + 1])
  /\ UNCHANGED <<job, Environment>>

(* A worker is done with its task for this round: implemented, failed, or  *)
(* its question put off because a pause is committed; or it never started. *)
WorkerReturns(a) ==
  /\ run[a].busy > 0
  /\ Local(a, [run[a] EXCEPT !.busy = @ - 1])
  /\ UNCHANGED <<job, Environment>>

(* A bug: a second worker of the round asks too.                           *)
WorkerAsks_Uncommitted(a) ==
  /\ run[a].pc = "fanout" /\ run[a].busy > 0 /\ run[a].ask = {}
  /\ \E q \in RaisedQs :
       /\ Local(a, [run[a] EXCEPT !.busy = @ - 1, !.ask = {q}])
       /\ escalated' = [escalated EXCEPT ![q] = @ + 1]
  /\ UNCHANGED <<job, wf, signals, client, minted, calls, faults, lost, sent, inTime, astray>>

(* The first worker of the round to take _pause_lock with a question asks  *)
(* it, while the others go on.  The pause unwinds before the decision is   *)
(* entered in the task's feedback, which is what prior escalations are     *)
(* counted by: the count stays at zero, and the comparison with            *)
(* MaxTaskRevisions never fails the task.                                  *)
WorkerAsks(a) ==
  /\ run[a].pc = "fanout" /\ run[a].busy > 0 /\ ~run[a].committed
  /\ \E q \in RaisedQs :
       /\ Local(a, [run[a] EXCEPT !.busy = @ - 1, !.committed = TRUE, !.ask = {q}])
       /\ escalated' = [escalated EXCEPT ![q] = @ + 1]
  /\ UNCHANGED <<job, wf, signals, client, minted, calls, faults, lost, sent, inTime, astray>>

(* A bug: the pause unwinds without waiting for the stragglers.            *)
FanOutJoins_NoWait(a) ==
  /\ run[a].pc = "fanout" /\ run[a].ask = {}
  /\ run[a].busy = 0 \/ run[a].token # None
  /\ Local(a, [run[a] EXCEPT !.pc = IF run[a].token = None THEN "work" ELSE "paused"])
  /\ UNCHANGED <<job, Environment>>

(* parallel_map has waited for every worker (wait_for_stragglers): the     *)
(* pause one of them raised unwinds, or the round is reviewed.             *)
FanOutJoins(a) ==
  /\ run[a].pc = "fanout" /\ run[a].ask = {} /\ run[a].busy = 0
  /\ Local(a, [run[a] EXCEPT !.pc = IF run[a].token = None THEN "work" ELSE "paused"])
  /\ UNCHANGED <<job, Environment>>

(* The swarm is done, or out of rounds, and the terminal status is written.*)
WorkEnds(a) ==
  /\ run[a].pc = "work" /\ run[a].round > 0
  /\ job' = [job EXCEPT !.status = "completed"]
  /\ Local(a, [run[a] EXCEPT !.pc = "finished"])
  /\ UNCHANGED Environment

Asking(a) == run[a].pc = "pausing" \/ (run[a].pc = "fanout" /\ run[a].ask # {})

Recorded(a, token) ==
  job' = [job EXCEPT !.status = "waiting_for_user", !.waiting = TRUE,
                     !.asked = run[a].ask, !.token = token]

(* _run_pause_cycle: a fresh token, the questions and the flag go to the   *)
(* record in one update.  The coordinator unwinds to report the pause; a   *)
(* worker's pause is reported when its round has joined.                   *)
WritePause(a) ==
  LET token == minted + 1
  IN  /\ Asking(a)
      /\ token \in Token
      /\ minted' = token
      /\ Recorded(a, token)
      /\ Local(a, [run[a] EXCEPT !.pc = IF @ = "pausing" THEN "paused" ELSE @,
                                 !.ask = {}, !.token = token])
      /\ UNCHANGED <<wf, signals, client, calls, faults, lost, sent, inTime, escalated, astray>>

(* The update of a worker's pause raises, which _implement_and_verify      *)
(* takes for a failed implementation; the record may have it or not.       *)
PauseWriteLost(a) ==
  LET token == minted + 1
  IN  /\ run[a].pc = "fanout" /\ run[a].ask # {} /\ lost < MaxLost
      /\ lost' = lost + 1
      /\ Local(a, [run[a] EXCEPT !.ask = {}])
      /\ \/ UNCHANGED <<job, minted, astray>>
         \/ /\ token \in Token
            /\ minted' = token
            /\ Recorded(a, token)
            /\ astray' = TRUE
      /\ UNCHANGED <<wf, signals, client, calls, faults, sent, inTime, escalated>>

Orchestrate(a) ==
  \/ ReEmit(a) \/ Resume(a) \/ Proceed(a) \/ Consume(a) \/ Reread(a)
  \/ LeadAsks(a) \/ Planned(a) \/ AlreadyComplete(a) \/ BeginWork(a)
  \/ StartRound(a) \/ WorkerReturns(a) \/ WorkerAsks(a) \/ FanOutJoins(a)
  \/ WorkEnds(a) \/ WritePause(a)

(***************************************************************************)
(* Activity attempts.  No retry policy: a failed attempt is run again with *)
(* the same request, as often as it takes.  No heartbeat: an attempt that  *)
(* outlives start_to_close is replaced while its thread keeps writing.     *)
(***************************************************************************)
AttemptFails(a) ==
  /\ a = wf.current /\ wf.pc = "executing" /\ faults < MaxFaults
  /\ faults' = faults + 1
  /\ Local(a, Invocation(wf.ack))
  /\ UNCHANGED <<job, wf, signals, client, minted, calls, lost, sent, inTime, escalated, astray>>

AttemptTimesOut(a) ==
  /\ a = wf.current /\ wf.pc = "executing" /\ faults < MaxFaults
  /\ \E b \in Attempts :
       /\ run[b].pc = "off"
       /\ run' = [run EXCEPT ![b] = Invocation(wf.ack)]
       /\ wf' = [wf EXCEPT !.current = b]
  /\ faults' = faults + 1
  /\ astray' = TRUE
  /\ UNCHANGED <<job, signals, client, minted, calls, lost, sent, inTime, escalated>>

(* Nobody listens to the result of an attempt that was timed out.          *)
ZombieEnds(a) ==
  /\ a # wf.current /\ run[a].pc \in {"paused", "finished"}
  /\ Local(a, Off)
  /\ UNCHANGED <<job, Environment>>

(***************************************************************************)
(* The workflow, CodingTeamWorkflow.run and its submit_answers handler.    *)
(***************************************************************************)

(* A paused result: arm its token, apply an answer that came early for it, *)
(* forget every other early answer.                                        *)
ArmPause ==
  LET a == wf.current
  IN  /\ wf.pc = "executing" /\ run[a].pc = "paused"
      /\ wf' = [wf EXCEPT !.pc = "waiting", !.active = run[a].token, !.ack = None,
                          !.submitted = run[a].token \in wf.buffered,
                          !.buffered = {}]
      /\ Local(a, [Off EXCEPT !.busy = run[a].busy])
      /\ UNCHANGED <<job, signals, client, minted, calls, faults, lost, sent, inTime, escalated,
                     astray>>

(* The wait condition holds: acknowledge the token and execute the         *)
(* activity again.                                                         *)
Wake ==
  /\ wf.pc = "waiting" /\ wf.submitted
  /\ \E b \in Attempts :
       /\ run[b].pc = "off"
       /\ run' = [run EXCEPT ![b] = Invocation(wf.active)]
       /\ wf' = [wf EXCEPT !.pc = "executing", !.current = b, !.ack = wf.active,
                           !.active = None, !.submitted = FALSE]
  /\ UNCHANGED <<job, signals, client, minted, calls, faults, lost, sent, inTime, escalated,
                 astray>>

(* Any other outcome ends the workflow.                                    *)
WorkflowEnds ==
  /\ wf.pc = "executing" /\ run[wf.current].pc = "finished"
  /\ wf' = [wf EXCEPT !.pc = "done"]
  /\ Local(wf.current, Off)
  /\ UNCHANGED <<job, signals, client, minted, calls, faults, lost, sent, inTime, escalated,
                 astray>>

(* A bug: a signal that comes before its pause is armed is dropped.        *)
Handled_EarlyDropped(token) ==
  IF token = wf.active THEN [wf EXCEPT !.submitted = TRUE] ELSE wf

(* submit_answers: buffered while no pause is active, ignored when it is   *)
(* for another pause or this one has its answer already, else applied.     *)
Handled(token) ==
  IF wf.active = None THEN [wf EXCEPT !.buffered = @ \cup {token}]
  ELSE IF token = wf.active THEN [wf EXCEPT !.submitted = TRUE]
  ELSE wf

submit_answers ==
  /\ signals # <<>>
  /\ signals' = Tail(signals)
  /\ wf' = IF wf.pc = "done" THEN wf ELSE Handled(Head(signals))
  /\ UNCHANGED <<job, run, client, minted, calls, faults, lost, sent, inTime, escalated, astray>>

(***************************************************************************)
(* The routes.  A call that the read refuses changes nothing.              *)
(***************************************************************************)
Handler(c, new) == client' = [client EXCEPT ![c] = new]

(* POST answers: the record is read, the batch validated against its       *)
(* pending questions, and the client's token compared with it.             *)
PostAnswers(c) ==
  /\ client[c].pc = "idle" /\ calls < MaxCalls
  /\ PauseOutstanding /\ job.asked # {}
  /\ calls' = calls + 1
  /\ \E decision \in [job.asked -> Choices] :
       Handler(c, [pc |-> "append", token |-> job.token,
                   answers |-> {[q |-> q, token |-> job.token, choice |-> decision[q]]
                                  : q \in job.asked}])
  /\ UNCHANGED <<job, run, wf, signals, minted, faults, lost, sent, inTime, escalated, astray>>

(* The answers are appended to the record, whatever it says by now.        *)
AppendAnswers(c) ==
  /\ client[c].pc = "append"
  /\ job' = [job EXCEPT !.answers = @ \cup client[c].answers]
  /\ inTime' = IF job.token = client[c].token
               THEN inTime \cup client[c].answers ELSE inTime
  /\ Handler(c, [client[c] EXCEPT !.pc = "signal"])
  /\ UNCHANGED <<run, wf, signals, minted, calls, faults, lost, sent, escalated, astray>>

(* POST resume: a job waiting for the user is signalled with its token.    *)
PostResume(c) ==
  /\ client[c].pc = "idle" /\ calls < MaxCalls
  /\ job.status = "waiting_for_user" /\ job.token # None
  /\ calls' = calls + 1
  /\ Handler(c, [Idle EXCEPT !.pc = "signal", !.token = job.token])
  /\ UNCHANGED <<job, run, wf, signals, minted, faults, lost, sent, inTime, escalated, astray>>

Signal(c) ==
  /\ client[c].pc = "signal"
  /\ signals' = Append(signals, client[c].token)
  /\ sent' = sent \cup {client[c].token}
  /\ Handler(c, Idle)
  /\ UNCHANGED <<job, run, wf, minted, calls, faults, lost, inTime, escalated, astray>>

(* The server cannot be reached or the process dies: no signal is sent and *)
(* the answers stay on the record.                                         *)
SignalFails(c) ==
  /\ client[c].pc = "signal" /\ faults < MaxFaults
  /\ faults' = faults + 1
  /\ Handler(c, Idle)
  /\ UNCHANGED <<job, run, wf, signals, minted, calls, lost, sent, inTime, escalated, astray>>

(* The workflow is over and no one is doing anything any more, or it waits *)
(* for an answer nobody will give because the calls are used up.           *)
Quiet ==
  /\ \A c \in Clients : client[c].pc = "idle"
  /\ \A a \in Attempts : run[a].pc = "off"
  /\ signals = <<>>
  /\ wf.pc = "done" \/ (wf.pc = "waiting" /\ ~wf.submitted)
  /\ UNCHANGED vars

Next ==
  \/ \E a \in Attempts : \/ Orchestrate(a) \/ PauseWriteLost(a)
                         \/ AttemptFails(a) \/ AttemptTimesOut(a) \/ ZombieEnds(a)
  \/ ArmPause \/ Wake \/ WorkflowEnds \/ submit_answers
  \/ \E c \in Clients : \/ PostAnswers(c) \/ AppendAnswers(c) \/ PostResume(c)
                        \/ Signal(c) \/ SignalFails(c)
  \/ Quiet

Spec == Init /\ [][Next]_vars

(* Language-model calls return, the server schedules activities and        *)
(* delivers what it accepted, and a handler that started runs to its end.  *)
(* No client has to call, and nothing has to fail.                         *)
Fairness ==
  /\ \A a \in Attempts : WF_vars(Orchestrate(a)) /\ WF_vars(ZombieEnds(a))
  /\ WF_vars(ArmPause) /\ WF_vars(Wake) /\ WF_vars(WorkflowEnds)
  /\ WF_vars(submit_answers)
  /\ \A c \in Clients : WF_vars(AppendAnswers(c))
                        /\ WF_vars(Signal(c) \/ SignalFails(c))

FairSpec == Spec /\ Fairness

(***************************************************************************)
(* Properties.                                                             *)
(***************************************************************************)
(* Where an invocation starts something new, and where something is done.  *)
Starting == {"plan", "begin", "work"}
AtWork == Starting \cup {"fanout"}

(* A thread that outlives its attempt's timeout keeps writing the record,  *)
(* and what it can undo is stated apart (LiveTokenHeeded); so does a run   *)
(* that does not know that its pause is on the record.  What follows says  *)
(* of every behaviour what holds until then, and EntryQuestionsDecided     *)
(* what holds even then.                                                   *)

(* The pause the workflow waits on is the pause on the record, so the only *)
(* token a client can learn is the one that wakes the workflow; a token    *)
(* the handler ignores belongs to a round that is over.                    *)
LiveTokenHeeded ==
  wf.active # None => job.waiting /\ job.token = wf.active

(* As long as nothing went astray, the live token is heeded.               *)
ActivePauseIsRecorded == ~astray => LiveTokenHeeded

(* While the record says the job waits for the user nothing new is         *)
(* started, and a worker is still busy only in the very round that raised  *)
(* that pause: the pause reaches the workflow when all of them are back    *)
(* (the re-entry check, and wait_for_stragglers of the fan-out).           *)
OnlyStragglersWork ==
  ~astray /\ job.waiting =>
    \A a \in Attempts :
      /\ run[a].pc \notin Starting
      /\ run[a].busy > 0 => run[a].pc = "fanout" /\ run[a].token = job.token

(* An answer that reached the record before its pause was consumed is      *)
(* among the decisions of whatever works next: not lost to a crash after   *)
(* the clear, to a resume without answers, or to a failed signal.  Only    *)
(* the round that raised the pause may end without its answers.            *)
InTimeAnswersDecide ==
  ~astray =>
    \A a \in Attempts : run[a].pc \in AtWork \cup {"pausing"} =>
      \A e \in inTime : e.token # run[a].token => e \in run[a].folded

(* No invocation, a timed-out one included, plans or codes before every    *)
(* question handed in has an answer on the record; a resume without        *)
(* answers makes it ask again.                                             *)
EntryQuestionsDecided ==
  \A a \in Attempts : run[a].pc \in AtWork =>
    \A q \in EntryQs : \E e \in job.answers : e.q = q

(* A pause leaves the record only after a signal that carried its token.   *)
PauseLeftOnlyBySignal ==
  [][~astray => \A t \in Token : (job.token = t /\ job'.token # t) => t \in sent]_vars

(* A failed attempt, however late in it the failure comes, never puts a    *)
(* second pause in the place of one nobody has answered.                   *)
PauseNotReplaced ==
  [][~astray /\ job.token # None /\ job'.token # None => job'.token = job.token]_vars

(* One decision per question put to the user: two answers to the same      *)
(* question of the same pause never disagree among the decisions the team  *)
(* implements.                                                             *)
OneDecisionPerQuestion ==
  \A a \in Attempts : \A d, e \in run[a].folded :
    d.q = e.q /\ d.token = e.token => d.choice = e.choice

(* A task that escalates MaxTaskRevisions times is failed, rather than     *)
(* pausing the user indefinitely.                                          *)
EscalationsCapped == \A q \in RaisedQs : escalated[q] <= MaxTaskRevisions

(* The protocol as a whole implements the abstract pause.                  *)
Pauses == INSTANCE PauseProtocol WITH
  stage <- IF wf.pc = "done" THEN "finished"
           ELSE IF job.waiting THEN "paused" ELSE "working",
  round <- minted,
  acknowledged <- job.token \in sent

(* Every step is a pause, an acknowledgement, a continuation, an ending or *)
(* invisible, and an acknowledged pause is always left.                    *)
ImplementsPauseProtocol == Pauses!Spec

============================================================================
