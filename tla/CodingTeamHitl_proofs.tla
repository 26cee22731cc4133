------------------------ MODULE CodingTeamHitl_proofs ------------------------
(***************************************************************************)
(* Proofs about CodingTeamHitl, for any attempts, clients, questions and   *)
(* choices, workers, rounds and any number of calls and faults.  What is   *)
(* said of a behaviour until something goes astray needs that only one     *)
(* attempt runs by then, and that the record shows its pause or none.      *)
(***************************************************************************)
EXTENDS CodingTeamHitl, SequenceTheorems, TLAPS

-----------------------------------------------------------------------------
(* The inductive invariant *)

\* What an attempt does between the last look for a pause and the next pause.
Going == {"reread", "plan", "begin", "work", "pausing", "finished"}

\* The workflow executes, waits with a token armed, or is done.
Workflow ==
  /\ wf.pc = "waiting" <=> wf.active # None
  /\ wf.pc = "executing" => run[wf.current].pc # "off"
  /\ wf.submitted => wf.active \in sent
  /\ wf.buffered \subseteq sent
  /\ wf.ack # None => wf.ack \in sent
  /\ \A a \in Attempts :
       /\ run[a].ack # None => run[a].ack \in sent
       /\ run[a].pc = "paused" => run[a].token # None
  /\ \A i \in 1 .. Len(signals) : signals[i] \in sent

\* Every token that is anywhere was minted.
Minted ==
  /\ sent \subseteq 1 .. minted
  /\ job.token <= minted
  /\ \A c \in Clients : client[c].token <= minted

\* A handler on its way to the signal bears a token, its answers the same one.
Bearing ==
  \A c \in Clients :
    /\ client[c].pc # "idle" => client[c].token # None
    /\ \A e \in client[c].answers : e.token = client[c].token

\* An answer in time is on the record.
Appended == inTime \subseteq job.answers

\* Workers are busy, ask and have asked only inside a round, one of a round at
\* most; a pause that is written is reported before anything else.
FanOutOK(r) ==
  /\ r.busy > 0 => r.pc = "fanout"
  /\ r.pc \notin {"fanout", "paused"} => r.token = None
  /\ r.pc \notin {"fanout", "pausing"} => r.ask = {}
  /\ r.pc = "fanout" => /\ r.token # None => r.committed
                        /\ r.ask # {} => r.committed /\ r.token = None

FanOut == \A a \in Attempts : FanOutOK(run[a])

\* Until something goes astray only the one the workflow listens to runs.
OneRuns ==
  ~astray =>
    \A a \in Attempts : run[a].pc # "off" => wf.pc = "executing" /\ a = wf.current

\* The waiting flag and the token of the record come and go together.
Envelope == job.waiting <=> job.token # None

\* While nothing new is started the record shows the pause the workflow waits on
\* or is about to wait on or to leave, and in a fan-out the one of that round;
\* otherwise none.
PauseIsLive ==
  ~astray =>
    /\ wf.pc = "waiting" => job.token = wf.active
    /\ wf.pc = "done" => job.token = None
    /\ \A a \in Attempts :
         /\ run[a].pc \in Going => job.token = None
         /\ run[a].pc = "consume" => job.token # None /\ job.token = run[a].ack
         /\ run[a].pc = "paused" => job.token # None /\ job.token = run[a].token
         /\ run[a].pc = "fanout" => job.token = run[a].token

IInv ==
  /\ TypeOK /\ Workflow /\ Minted /\ Bearing /\ Appended /\ OneRuns /\ Envelope /\ FanOut
  /\ PauseIsLive /\ EntryQuestionsDecided /\ InTimeAnswersDecide

-----------------------------------------------------------------------------
(* Types *)

JobTypes == [status : {"pending", "running", "waiting_for_user", "completed",
                       "already_complete", "failed"},
             waiting : BOOLEAN, asked : SUBSET Questions, token : Token \cup {None},
             answers : SUBSET Answer, planned : BOOLEAN]

RunTypes == [pc : {"off", "enter", "consume", "reread", "plan", "begin", "work", "fanout",
                   "pausing", "paused", "finished"},
             ack : Token \cup {None}, folded : SUBSET Answer, planned : BOOLEAN,
             ask : SUBSET Questions, token : Token \cup {None},
             busy : 0 .. Team, committed : BOOLEAN, round : 0 .. MaxRounds]

WfTypes == [pc : {"executing", "waiting", "done"}, current : Attempts,
            active : Token \cup {None}, submitted : BOOLEAN, buffered : SUBSET Token,
            ack : Token \cup {None}]

ClientTypes == [pc : {"idle", "append", "signal"}, token : Token \cup {None},
                answers : SUBSET Answer]

\* TypeOK with its records named.
Typed ==
  /\ job \in JobTypes /\ run \in [Attempts -> RunTypes] /\ wf \in WfTypes
  /\ signals \in Seq(Token) /\ client \in [Clients -> ClientTypes]
  /\ minted \in 0 .. LastToken
  /\ calls \in 0 .. MaxCalls /\ faults \in 0 .. MaxFaults /\ lost \in 0 .. MaxLost
  /\ sent \subseteq Token /\ inTime \subseteq Answer
  /\ escalated \in [RaisedQs -> Nat] /\ astray \in BOOLEAN

LEMMA TypedNow == TypeOK <=> Typed
<1> QED BY DEF TypeOK, Typed, JobTypes, RunTypes, WfTypes, ClientTypes

LEMMA TypedNext == TypeOK' <=> Typed'
<1> QED BY DEF TypeOK, Typed, JobTypes, RunTypes, WfTypes, ClientTypes

LEMMA LocalTypes ==
  ASSUME IInv, NEW a \in Attempts, NEW new \in RunTypes, Local(a, new)
  PROVE  run' \in [Attempts -> RunTypes]
<1> QED BY DEF IInv, TypeOK, RunTypes, Local

LEMMA RunTyped == ASSUME IInv, NEW a \in Attempts PROVE run[a] \in RunTypes
<1> QED BY DEF IInv, TypeOK, RunTypes

LEMMA TokenTyped == ASSUME IInv PROVE job.token \in Token \cup {None}
<1> QED BY DEF IInv, TypeOK

LEMMA OffType == Off \in RunTypes
<1> QED BY HitlAssumption DEF Off, RunTypes, None

LEMMA InvocationType == ASSUME NEW ack \in Token \cup {None} PROVE Invocation(ack) \in RunTypes
<1> QED BY OffType DEF Invocation, RunTypes

LEMMA HydratedType == ASSUME IInv, NEW a \in Attempts PROVE Hydrated(run[a]) \in RunTypes
<1>1. run[a] \in RunTypes /\ job \in JobTypes
  BY DEF IInv, TypeOK, RunTypes, JobTypes
<1>2. EntryQs \ {e.q : e \in job.answers} \in SUBSET Questions
  BY DEF Questions
<1> QED BY <1>1, <1>2 DEF Hydrated, RunTypes, JobTypes

\* What a step of an attempt must leave of its own fan-out and decisions.
LEMMA FanOutLocal ==
  ASSUME IInv, NEW a \in Attempts, NEW new, Local(a, new), FanOutOK(new)
  PROVE  FanOut'
<1>1. run' = [run EXCEPT ![a] = new] /\ run \in [Attempts -> RunTypes]
  BY DEF IInv, TypeOK, RunTypes, Local
<1>2. ASSUME NEW b \in Attempts PROVE FanOutOK(run'[b])
  <2>1. CASE b = a
    BY <1>1, <2>1
  <2>2. CASE b # a
    BY <1>1, <2>2 DEF IInv, FanOut
  <2> QED BY <2>1, <2>2
<1> QED BY <1>2 DEF FanOut, FanOutOK

LEMMA DecideLocal ==
  ASSUME IInv, NEW a \in Attempts, NEW new, Local(a, new), inTime' = inTime, astray' = astray,
         new.pc \in AtWork \cup {"pausing"} =>
           \/ new.folded = run[a].folded /\ run[a].pc \in AtWork \cup {"pausing"}
              /\ run[a].token \in {new.token, None}
           \/ new.folded = job.answers
  PROVE  InTimeAnswersDecide'
<1>1. run' = [run EXCEPT ![a] = new] /\ run \in [Attempts -> RunTypes]
  BY DEF IInv, TypeOK, RunTypes, Local
<1>2. inTime \subseteq job.answers /\ InTimeAnswersDecide
  BY DEF IInv, Appended
<1>3. \A e \in inTime : e.token # None
  BY DEF IInv, TypeOK, Answer, Token, None
<1>4. ASSUME ~astray, NEW b \in Attempts, run'[b].pc \in AtWork \cup {"pausing"},
             NEW e \in inTime, e.token # run'[b].token
      PROVE  e \in run'[b].folded
  <2>1. CASE b = a
    BY <1>1, <1>2, <1>3, <1>4, <2>1 DEF InTimeAnswersDecide
  <2>2. CASE b # a
    BY <1>1, <1>2, <1>4, <2>2 DEF InTimeAnswersDecide
  <2> QED BY <2>1, <2>2
<1> QED BY <1>4 DEF InTimeAnswersDecide

-----------------------------------------------------------------------------
(* The orchestrator and its attempts *)

\* A retry before any work reports the pause that is there.
LEMMA ReEmitKeeps == ASSUME IInv, NEW a \in Attempts, ReEmit(a) PROVE IInv'
<1>1. TypeOK'
  <2>1. [run[a] EXCEPT !.pc = "paused", !.token = job.token] \in RunTypes
    BY RunTyped, TokenTyped DEF RunTypes
  <2>2. run' \in [Attempts -> RunTypes]
    BY <2>1, LocalTypes DEF IInv, ReEmit
  <2> QED BY <2>2, TypedNow, TypedNext DEF IInv, Typed, ReEmit, Environment
<1>2. Workflow' /\ Minted' /\ Bearing' /\ Appended' /\ OneRuns' /\ Envelope' /\ FanOut'
      /\ PauseIsLive' /\ EntryQuestionsDecided' /\ InTimeAnswersDecide'
  BY DEF IInv, ReEmit, Workflow, Minted, Bearing, Appended, OneRuns, Envelope, FanOut, FanOutOK,
         PauseIsLive, EntryQuestionsDecided, InTimeAnswersDecide, PauseOutstanding, Local,
         Environment, Going, AtWork, Starting
<1> QED BY <1>1, <1>2 DEF IInv

\* The invocation that brings the token back goes on to consume the pause.
LEMMA ResumeKeeps == ASSUME IInv, NEW a \in Attempts, Resume(a) PROVE IInv'
<1>1. TypeOK'
  <2>1. [run[a] EXCEPT !.pc = "consume"] \in RunTypes
    BY RunTyped DEF RunTypes
  <2>2. run' \in [Attempts -> RunTypes]
    BY <2>1, LocalTypes DEF IInv, Resume
  <2> QED BY <2>2, TypedNow, TypedNext DEF IInv, Typed, Resume, Environment
<1>2. Workflow' /\ Minted' /\ Bearing' /\ Appended' /\ OneRuns' /\ Envelope' /\ FanOut'
      /\ PauseIsLive' /\ EntryQuestionsDecided' /\ InTimeAnswersDecide'
  BY DEF IInv, Resume, Workflow, Minted, Bearing, Appended, OneRuns, Envelope, FanOut, FanOutOK,
         PauseIsLive, EntryQuestionsDecided, InTimeAnswersDecide, PauseOutstanding, Local,
         Environment, Going, AtWork, Starting
<1> QED BY <1>1, <1>2 DEF IInv

\* No pause is outstanding: what is folded is what the record holds.
LEMMA ProceedKeeps == ASSUME IInv, NEW a \in Attempts, Proceed(a) PROVE IInv'
<1>1. TypeOK'
  <2>1. run' \in [Attempts -> RunTypes]
    BY HydratedType, LocalTypes DEF IInv, Proceed
  <2> QED BY <2>1, TypedNow, TypedNext DEF IInv, Typed, Proceed, Environment
<1>2. PauseIsLive'
  BY DEF IInv, Proceed, PauseIsLive, Envelope, FanOut, FanOutOK, PauseOutstanding, Local,
         Hydrated, Environment
<1>3. InTimeAnswersDecide'
  BY DEF IInv, Proceed, InTimeAnswersDecide, Appended, Local, Hydrated, Environment
<1>4. Workflow' /\ Minted' /\ Bearing' /\ Appended' /\ OneRuns' /\ Envelope' /\ FanOut' /\
      EntryQuestionsDecided'
  BY DEF IInv, Proceed, Workflow, Minted, Bearing, Appended, OneRuns, Envelope, FanOut,
         FanOutOK, EntryQuestionsDecided, Local, Hydrated, Environment, AtWork, Starting
<1> QED BY <1>1, <1>2, <1>3, <1>4 DEF IInv

\* The pause leaves the record, and only this invocation was running.
LEMMA ConsumeKeeps == ASSUME IInv, NEW a \in Attempts, Consume(a) PROVE IInv'
<1>1. TypeOK'
  <2>1. [run[a] EXCEPT !.pc = "reread"] \in RunTypes
    BY RunTyped DEF RunTypes
  <2>2. run' \in [Attempts -> RunTypes]
    BY <2>1, LocalTypes DEF IInv, Consume
  <2>3. job' \in JobTypes
    BY DEF IInv, TypeOK, JobTypes, Consume, None
  <2> QED BY <2>2, <2>3, TypedNow, TypedNext DEF IInv, Typed, Consume, Environment
<1>2. PauseIsLive'
  <2>1. job'.token = None
    BY DEF IInv, TypeOK, Consume
  <2>2. ASSUME ~astray
        PROVE  wf.pc = "executing" /\ a = wf.current
    BY <2>2 DEF IInv, OneRuns, Consume
  <2>3. ASSUME ~astray, NEW b \in Attempts, b # a
        PROVE  run[b].pc = "off" /\ run'[b] = run[b]
    BY <2>2, <2>3 DEF IInv, TypeOK, OneRuns, Consume, Local
  <2>4. run'[a].pc = "reread"
    BY DEF IInv, TypeOK, Consume, Local
  <2> QED BY <2>1, <2>2, <2>3, <2>4 DEF PauseIsLive, Consume, Environment
<1>3. Minted'
  BY DEF IInv, Consume, TypeOK, Minted, None, Environment
<1>4. Workflow' /\ Bearing' /\ Appended' /\ OneRuns' /\ Envelope' /\ FanOut'
      /\ EntryQuestionsDecided' /\ InTimeAnswersDecide'
  BY DEF IInv, Consume, Workflow, Bearing, Appended, OneRuns, Envelope, FanOut, FanOutOK,
         EntryQuestionsDecided, InTimeAnswersDecide, Local, Environment, AtWork, Starting
<1> QED BY <1>1, <1>2, <1>3, <1>4 DEF IInv

\* What is folded is what the record holds, answers in time included.
LEMMA RereadKeeps == ASSUME IInv, NEW a \in Attempts, Reread(a) PROVE IInv'
<1>1. TypeOK'
  <2>1. run' \in [Attempts -> RunTypes]
    BY HydratedType, LocalTypes DEF IInv, Reread
  <2> QED BY <2>1, TypedNow, TypedNext DEF IInv, Typed, Reread, Environment
<1>2. InTimeAnswersDecide'
  BY DEF IInv, Reread, InTimeAnswersDecide, Appended, Local, Hydrated, Environment
<1>3. Workflow' /\ Minted' /\ Bearing' /\ Appended' /\ OneRuns' /\ Envelope' /\ FanOut'
      /\ PauseIsLive' /\ EntryQuestionsDecided'
  BY DEF IInv, Reread, Workflow, Minted, Bearing, Appended, OneRuns, Envelope, FanOut, FanOutOK,
         PauseIsLive, EntryQuestionsDecided, Local, Hydrated, Environment, Going, AtWork,
         Starting
<1> QED BY <1>1, <1>2, <1>3 DEF IInv

\* The questions are the Tech Lead's, asked before any work.
LEMMA LeadAsksKeeps == ASSUME IInv, NEW a \in Attempts, LeadAsks(a) PROVE IInv'
<1>1. TypeOK'
  <2>1. PICK qs \in SUBSET RaisedQs \ {{}} :
          Local(a, [run[a] EXCEPT !.pc = "pausing", !.ask = qs])
    BY DEF LeadAsks
  <2>2. [run[a] EXCEPT !.pc = "pausing", !.ask = qs] \in RunTypes
    BY RunTyped DEF RunTypes, Questions
  <2>3. run' \in [Attempts -> RunTypes]
    BY <2>1, <2>2, LocalTypes DEF IInv
  <2> QED BY <2>3, TypedNow, TypedNext DEF IInv, Typed, LeadAsks, Environment
<1>2. Workflow' /\ Minted' /\ Bearing' /\ Appended' /\ OneRuns' /\ Envelope' /\ FanOut'
      /\ PauseIsLive' /\ EntryQuestionsDecided' /\ InTimeAnswersDecide'
  BY DEF IInv, LeadAsks, Workflow, Minted, Bearing, Appended, OneRuns, Envelope, FanOut,
         FanOutOK, PauseIsLive, EntryQuestionsDecided, InTimeAnswersDecide, Local, Environment,
         Going, AtWork, Starting
<1> QED BY <1>1, <1>2 DEF IInv

\* The plan is on the record.
LEMMA PlannedKeeps == ASSUME IInv, NEW a \in Attempts, Planned(a) PROVE IInv'
<1>1. TypeOK'
  <2>1. [run[a] EXCEPT !.pc = "begin"] \in RunTypes
    BY RunTyped DEF RunTypes
  <2>2. run' \in [Attempts -> RunTypes]
    BY <2>1, LocalTypes DEF IInv, Planned
  <2>3. job' \in JobTypes
    BY DEF IInv, TypeOK, JobTypes, Planned
  <2> QED BY <2>2, <2>3, TypedNow, TypedNext DEF IInv, Typed, Planned, Environment
<1>2. Workflow' /\ Minted' /\ Bearing' /\ Appended' /\ OneRuns' /\ Envelope' /\ FanOut'
      /\ PauseIsLive' /\ EntryQuestionsDecided' /\ InTimeAnswersDecide'
  BY DEF IInv, Planned, Workflow, Minted, Bearing, Appended, OneRuns, Envelope, FanOut,
         FanOutOK, PauseIsLive, EntryQuestionsDecided, InTimeAnswersDecide, Local, Environment,
         Going, AtWork, Starting
<1> QED BY <1>1, <1>2 DEF IInv

\* Nothing is to be done.
LEMMA AlreadyCompleteKeeps == ASSUME IInv, NEW a \in Attempts, AlreadyComplete(a) PROVE IInv'
<1>1. TypeOK'
  <2>1. [run[a] EXCEPT !.pc = "finished"] \in RunTypes
    BY RunTyped DEF RunTypes
  <2>2. run' \in [Attempts -> RunTypes]
    BY <2>1, LocalTypes DEF IInv, AlreadyComplete
  <2>3. job' \in JobTypes
    BY DEF IInv, TypeOK, JobTypes, AlreadyComplete
  <2> QED BY <2>2, <2>3, TypedNow, TypedNext DEF IInv, Typed, AlreadyComplete, Environment
<1>2. Workflow' /\ Minted' /\ Bearing' /\ Appended' /\ OneRuns' /\ Envelope' /\ FanOut'
      /\ PauseIsLive' /\ EntryQuestionsDecided' /\ InTimeAnswersDecide'
  BY DEF IInv, AlreadyComplete, Workflow, Minted, Bearing, Appended, OneRuns, Envelope, FanOut,
         FanOutOK, PauseIsLive, EntryQuestionsDecided, InTimeAnswersDecide, Local, Environment,
         Going, AtWork, Starting
<1> QED BY <1>1, <1>2 DEF IInv

\* The workers are built, or the job fails.
LEMMA BeginWorkKeeps == ASSUME IInv, NEW a \in Attempts, BeginWork(a) PROVE IInv'
<1>0. PICK pc \in {"work", "finished"}, status \in {"running", "failed"} :
        /\ Local(a, [run[a] EXCEPT !.pc = pc])
        /\ job' = [job EXCEPT !.status = status]
  BY DEF BeginWork
<1>1. TypeOK'
  <2>1. [run[a] EXCEPT !.pc = pc] \in RunTypes
    BY RunTyped DEF RunTypes
  <2>2. run' \in [Attempts -> RunTypes]
    BY <1>0, <2>1, LocalTypes DEF IInv
  <2>3. job' \in JobTypes
    BY <1>0 DEF IInv, TypeOK, JobTypes
  <2> QED BY <2>2, <2>3, TypedNow, TypedNext DEF IInv, Typed, BeginWork, Environment
<1>2. Workflow' /\ Minted' /\ Appended' /\ OneRuns' /\ Envelope' /\ FanOut' /\ PauseIsLive' /\
      EntryQuestionsDecided' /\ InTimeAnswersDecide'
  BY <1>0
  DEF IInv, BeginWork, TypeOK, Workflow, Minted, Appended, OneRuns, Envelope, FanOut, FanOutOK,
      PauseIsLive, EntryQuestionsDecided, InTimeAnswersDecide, Local, Environment, Going,
      AtWork, Starting
<1>3. Bearing'
  BY <1>0 DEF IInv, BeginWork, Bearing, Environment
<1> QED BY <1>1, <1>2, <1>3 DEF IInv

\* A round begins, and nobody of it has asked.
LEMMA StartRoundKeeps == ASSUME IInv, NEW a \in Attempts, StartRound(a) PROVE IInv'
<1>0. PICK n \in 0 .. Team :
        Local(a, [run[a] EXCEPT !.pc = "fanout", !.busy = n, !.committed = FALSE,
                                !.round = @ + 1])
  BY DEF StartRound
<1>1. TypeOK'
  <2>1. run[a].round + 1 \in 0 .. MaxRounds
    BY RunTyped, HitlAssumption DEF RunTypes, StartRound
  <2>2. [run[a] EXCEPT !.pc = "fanout", !.busy = n, !.committed = FALSE, !.round = @ + 1]
          \in RunTypes
    BY <2>1, RunTyped DEF RunTypes
  <2>3. run' \in [Attempts -> RunTypes]
    BY <1>0, <2>2, LocalTypes DEF IInv
  <2> QED BY <2>3, TypedNow, TypedNext DEF IInv, Typed, StartRound, Environment
<1>2. Workflow' /\ Minted' /\ Bearing' /\ Appended' /\ OneRuns' /\ Envelope' /\ FanOut'
      /\ PauseIsLive' /\ EntryQuestionsDecided' /\ InTimeAnswersDecide'
  BY <1>0 DEF IInv, StartRound, TypeOK, RunTypes, Workflow, Minted, Bearing, Appended, OneRuns,
         Envelope, FanOut, FanOutOK, PauseIsLive, EntryQuestionsDecided, InTimeAnswersDecide,
         Local, Environment, Going, AtWork, Starting, None
<1> QED BY <1>1, <1>2 DEF IInv

\* A worker is back.
LEMMA WorkerReturnsKeeps == ASSUME IInv, NEW a \in Attempts, WorkerReturns(a) PROVE IInv'
<1>1. TypeOK'
  <2>1. run[a].busy - 1 \in 0 .. Team
    BY RunTyped, HitlAssumption DEF RunTypes, WorkerReturns
  <2>2. [run[a] EXCEPT !.busy = @ - 1] \in RunTypes
    BY <2>1, RunTyped DEF RunTypes
  <2>3. run' \in [Attempts -> RunTypes]
    BY <2>2, LocalTypes DEF IInv, WorkerReturns
  <2> QED BY <2>3, TypedNow, TypedNext DEF IInv, Typed, WorkerReturns, Environment
<1>2. Workflow' /\ Minted' /\ Bearing' /\ Appended' /\ OneRuns' /\ Envelope' /\ PauseIsLive'
      /\ EntryQuestionsDecided'
  BY DEF IInv, WorkerReturns, TypeOK, Workflow, Minted, Bearing, Appended, OneRuns, Envelope,
         PauseIsLive, EntryQuestionsDecided, Local, Environment
<1>3. run[a] \in RunTypes /\ FanOutOK(run[a]) /\ run[a].busy > 0
  BY RunTyped DEF IInv, FanOut, WorkerReturns
<1>4. FanOut'
  <2>1. FanOutOK([run[a] EXCEPT !.busy = @ - 1])
    BY <1>3 DEF FanOutOK, RunTypes
  <2> QED BY <2>1, FanOutLocal DEF WorkerReturns
<1>5. InTimeAnswersDecide'
  <2>1. /\ [run[a] EXCEPT !.busy = @ - 1].pc = "fanout"
        /\ [run[a] EXCEPT !.busy = @ - 1].folded = run[a].folded
        /\ [run[a] EXCEPT !.busy = @ - 1].token = run[a].token
        /\ run[a].pc = "fanout"
    BY <1>3 DEF FanOutOK, RunTypes
  <2> QED BY <2>1, DecideLocal DEF WorkerReturns, Environment, AtWork
<1> QED BY <1>1, <1>2, <1>4, <1>5 DEF IInv

\* A worker asks in the middle of its round, while the others go on.
LEMMA WorkerAsksKeeps == ASSUME IInv, NEW a \in Attempts, WorkerAsks(a) PROVE IInv'
<1>0. PICK q \in RaisedQs :
        /\ Local(a, [run[a] EXCEPT !.busy = @ - 1, !.committed = TRUE, !.ask = {q}])
        /\ escalated' = [escalated EXCEPT ![q] = @ + 1]
  BY DEF WorkerAsks
<1>1. TypeOK'
  <2>1. run[a].busy - 1 \in 0 .. Team
    BY RunTyped, HitlAssumption DEF RunTypes, WorkerAsks
  <2>2. [run[a] EXCEPT !.busy = @ - 1, !.committed = TRUE, !.ask = {q}] \in RunTypes
    BY <2>1, RunTyped DEF RunTypes, Questions
  <2>3. run' \in [Attempts -> RunTypes]
    BY <1>0, <2>2, LocalTypes DEF IInv
  <2>4. escalated' \in [RaisedQs -> Nat]
    BY <1>0 DEF IInv, TypeOK
  <2> QED BY <2>3, <2>4, TypedNow, TypedNext DEF IInv, Typed, WorkerAsks
<1>2. /\ run'[a].pc = run[a].pc /\ run'[a].ack = run[a].ack /\ run'[a].token = run[a].token
      /\ \A b \in Attempts \ {a} : run'[b] = run[b]
  BY <1>0 DEF IInv, TypeOK, Local
<1>6. Workflow' /\ OneRuns' /\ PauseIsLive'
  <2>1. /\ wf' = wf /\ sent' = sent /\ signals' = signals /\ job' = job /\ astray' = astray
        /\ wf.current \in Attempts
    BY DEF IInv, TypeOK, WorkerAsks
  <2>2. \A b \in Attempts : run'[b].pc = run[b].pc /\ run'[b].ack = run[b].ack
                             /\ run'[b].token = run[b].token
    BY <1>2
  <2>3. Workflow'
    BY <2>1, <2>2 DEF IInv, Workflow
  <2> QED BY <2>1, <2>2, <2>3 DEF IInv, OneRuns, PauseIsLive
<1>7. Minted' /\ Bearing' /\ Appended' /\ Envelope' /\ EntryQuestionsDecided'
  BY <1>2
  DEF IInv, WorkerAsks, Minted, Bearing, Appended, Envelope, EntryQuestionsDecided
<1>3. /\ run[a] \in RunTypes /\ FanOutOK(run[a]) /\ run[a].busy > 0
      /\ run[a].pc = "fanout" /\ ~run[a].committed
  BY RunTyped DEF IInv, FanOut, WorkerAsks
<1> DEFINE new == [run[a] EXCEPT !.busy = @ - 1, !.committed = TRUE, !.ask = {q}]
<1>4. FanOut'
  <2>1. FanOutOK(new)
    BY <1>3 DEF FanOutOK, RunTypes
  <2> QED BY <1>0, <2>1, FanOutLocal
<1>5. InTimeAnswersDecide'
  <2>1. new.pc = "fanout" /\ new.folded = run[a].folded /\ new.token = run[a].token
    BY <1>3 DEF RunTypes
  <2>2. inTime' = inTime /\ astray' = astray
    BY DEF WorkerAsks
  <2> HIDE DEF new
  <2> QED BY <1>0, <1>3, <2>1, <2>2, DecideLocal DEF AtWork, new
<1> QED BY <1>1, <1>4, <1>5, <1>6, <1>7 DEF IInv

\* The round joins: its pause is reported, or its work is reviewed.
LEMMA FanOutJoinsKeeps == ASSUME IInv, NEW a \in Attempts, FanOutJoins(a) PROVE IInv'
<1>0. PICK pc \in {"work", "paused"} :
        /\ Local(a, [run[a] EXCEPT !.pc = pc])
        /\ pc = "work" <=> run[a].token = None
  BY DEF FanOutJoins
<1>1. TypeOK'
  <2>1. [run[a] EXCEPT !.pc = pc] \in RunTypes
    BY RunTyped DEF RunTypes
  <2>2. run' \in [Attempts -> RunTypes]
    BY <1>0, <2>1, LocalTypes DEF IInv
  <2> QED BY <2>2, TypedNow, TypedNext DEF IInv, Typed, FanOutJoins, Environment
<1>2. Workflow' /\ Minted' /\ Bearing' /\ Appended' /\ OneRuns' /\ Envelope' /\ FanOut'
      /\ PauseIsLive' /\ EntryQuestionsDecided' /\ InTimeAnswersDecide'
  BY <1>0 DEF IInv, FanOutJoins, TypeOK, RunTypes, Workflow, Minted, Bearing, Appended, OneRuns,
         Envelope, FanOut, FanOutOK, PauseIsLive, EntryQuestionsDecided, InTimeAnswersDecide,
         Local, Environment, Going, AtWork, Starting, None
<1> QED BY <1>1, <1>2 DEF IInv

\* The work is done.
LEMMA WorkEndsKeeps == ASSUME IInv, NEW a \in Attempts, WorkEnds(a) PROVE IInv'
<1>1. TypeOK'
  <2>1. [run[a] EXCEPT !.pc = "finished"] \in RunTypes
    BY RunTyped DEF RunTypes
  <2>2. run' \in [Attempts -> RunTypes]
    BY <2>1, LocalTypes DEF IInv, WorkEnds
  <2>3. job' \in JobTypes
    BY DEF IInv, TypeOK, JobTypes, WorkEnds
  <2> QED BY <2>2, <2>3, TypedNow, TypedNext DEF IInv, Typed, WorkEnds, Environment
<1>2. Workflow' /\ Minted' /\ Bearing' /\ Appended' /\ OneRuns' /\ Envelope' /\ FanOut'
      /\ PauseIsLive' /\ EntryQuestionsDecided' /\ InTimeAnswersDecide'
  BY DEF IInv, WorkEnds, Workflow, Minted, Bearing, Appended, OneRuns, Envelope, FanOut,
         FanOutOK, PauseIsLive, EntryQuestionsDecided, InTimeAnswersDecide, Local, Environment,
         Going, AtWork, Starting
<1> QED BY <1>1, <1>2 DEF IInv

\* A token that was never used marks the new pause.
LEMMA WritePauseKeeps == ASSUME IInv, NEW a \in Attempts, WritePause(a) PROVE IInv'
<1>0. PICK pc \in {"paused", "fanout"} :
        /\ Local(a, [run[a] EXCEPT !.pc = pc, !.ask = {}, !.token = minted'])
        /\ pc = "fanout" <=> run[a].pc = "fanout"
        /\ run[a].pc \in {"pausing", "fanout"}
  BY DEF WritePause, Asking
<1>9. job' = [job EXCEPT !.status = "waiting_for_user", !.waiting = TRUE,
                         !.asked = run[a].ask, !.token = minted']
      /\ minted' = minted + 1 /\ minted' \in Token
  BY DEF WritePause, Recorded
<1>1. TypeOK'
  <2>1. minted' \in 0 .. LastToken
    BY <1>9 DEF Token
  <2>2. [run[a] EXCEPT !.pc = pc, !.ask = {}, !.token = minted'] \in RunTypes
    BY <1>9, RunTyped DEF RunTypes
  <2>3. run' \in [Attempts -> RunTypes]
    BY <1>0, <2>2, LocalTypes DEF IInv
  <2>4. run[a].ask \in SUBSET Questions
    BY DEF IInv, TypeOK
  <2>5. job' \in JobTypes
    BY <1>9, <2>4 DEF IInv, TypeOK, JobTypes
  <2> QED BY <2>1, <2>3, <2>5, TypedNow, TypedNext DEF IInv, Typed, WritePause
<1> DEFINE new == [run[a] EXCEPT !.pc = pc, !.ask = {}, !.token = minted']
<1>2. /\ run[a] \in RunTypes /\ FanOutOK(run[a]) /\ minted' # None
      /\ run[a].pc = "fanout" => run[a].ask # {}
  BY <1>9, RunTyped DEF IInv, FanOut, WritePause, Asking, Token, None
<1>3. /\ new.pc = pc /\ new.ask = {} /\ new.token = minted' /\ new.folded = run[a].folded
      /\ new.busy = run[a].busy /\ new.committed = run[a].committed /\ new.ack = run[a].ack
  BY <1>2 DEF RunTypes
<1>4. job'.token = minted' /\ job'.waiting /\ job'.answers = job.answers
  BY <1>9 DEF IInv, TypeOK
<1>5. run'[a] = new /\ \A b \in Attempts \ {a} : run'[b] = run[b]
  BY <1>0 DEF IInv, TypeOK, Local
<1> HIDE DEF new
<1>6. PauseIsLive'
  <2>1. ASSUME ~astray, NEW b \in Attempts, b # a PROVE run[b].pc = "off"
    BY <1>0, <2>1 DEF IInv, OneRuns
  <2>2. ASSUME ~astray PROVE wf.pc = "executing"
    BY <1>0, <2>2 DEF IInv, OneRuns
  <2> QED BY <1>0, <1>2, <1>3, <1>4, <1>5, <2>1, <2>2 DEF PauseIsLive, Going, WritePause
<1>7. Minted'
  <2>1. minted \in Nat /\ job'.token = minted + 1 /\ sent \subseteq 1 .. minted
    BY <1>4, <1>9 DEF IInv, TypeOK, Minted
  <2>2. \A c \in Clients : client[c].token \in Nat /\ client[c].token <= minted
    BY DEF IInv, TypeOK, Minted, Token, None
  <2>3. sent' \subseteq 1 .. minted'
    BY <1>9, <2>1 DEF WritePause
  <2> QED BY <1>9, <2>1, <2>2, <2>3 DEF WritePause, Minted
<1>8. FanOut'
  <2>1. FanOutOK(new)
    BY <1>0, <1>2, <1>3 DEF FanOutOK
  <2> QED BY <1>0, <2>1, FanOutLocal DEF new
<1>10. Workflow' /\ OneRuns'
  <2>1. /\ wf' = wf /\ sent' = sent /\ signals' = signals /\ astray' = astray
        /\ wf.current \in Attempts
    BY DEF IInv, TypeOK, WritePause
  <2>2. \A b \in Attempts : /\ run'[b].ack = run[b].ack
                            /\ run'[b].pc = "off" <=> run[b].pc = "off"
                            /\ run'[b].pc = "paused" => run'[b].token # None
    BY <1>0, <1>2, <1>3, <1>5 DEF IInv, Workflow
  <2> QED BY <2>1, <2>2 DEF IInv, Workflow, OneRuns
<1>11. Bearing' /\ Appended' /\ Envelope'
  BY <1>2, <1>4 DEF IInv, WritePause, Bearing, Appended, Envelope
<1>12. EntryQuestionsDecided'
  BY <1>0, <1>3, <1>4, <1>5 DEF IInv, EntryQuestionsDecided, AtWork, Starting
<1>13. InTimeAnswersDecide'
  <2>1. run[a].token = None
    BY <1>0, <1>2 DEF FanOutOK
  <2>2. inTime' = inTime /\ astray' = astray
    BY DEF WritePause
  <2> QED BY <1>0, <1>3, <2>1, <2>2, DecideLocal DEF AtWork, new
<1> QED BY <1>1, <1>6, <1>7, <1>8, <1>10, <1>11, <1>12, <1>13 DEF IInv

\* A worker's pause is not on the record, or it is and nobody knows of it.
LEMMA PauseWriteLostKeeps == ASSUME IInv, NEW a \in Attempts, PauseWriteLost(a) PROVE IInv'
<1>0. Local(a, [run[a] EXCEPT !.ask = {}])
  BY DEF PauseWriteLost
<1>1. run' \in [Attempts -> RunTypes]
  <2>1. [run[a] EXCEPT !.ask = {}] \in RunTypes
    BY RunTyped DEF RunTypes
  <2> QED BY <1>0, <2>1, LocalTypes DEF IInv
<1>2. lost' \in 0 .. MaxLost
  BY HitlAssumption, TypedNow DEF IInv, Typed, PauseWriteLost
<1>3. Workflow' /\ Bearing' /\ OneRuns'
  BY <1>0
  DEF IInv, PauseWriteLost, TypeOK, Workflow, Bearing, OneRuns, Local
<1>6. FanOut'
  <2>1. run[a] \in RunTypes /\ FanOutOK(run[a]) /\ run[a].pc = "fanout"
    BY RunTyped DEF IInv, FanOut, PauseWriteLost
  <2>2. FanOutOK([run[a] EXCEPT !.ask = {}])
    BY <2>1 DEF FanOutOK, RunTypes
  <2> QED BY <1>0, <2>2, FanOutLocal
<1>7. job'.answers = job.answers /\ inTime' = inTime
  BY DEF IInv, TypeOK, PauseWriteLost, Recorded
<1>8. Appended' /\ EntryQuestionsDecided'
  BY <1>0, <1>7 DEF IInv, TypeOK, Appended, EntryQuestionsDecided, Local
<1>4. CASE UNCHANGED <<job, minted, astray>>
  <2>1. TypeOK'
    BY <1>1, <1>2, <1>4, TypedNow, TypedNext DEF IInv, Typed, PauseWriteLost
  <2>2. Minted' /\ Envelope' /\ PauseIsLive' /\ InTimeAnswersDecide'
    BY <1>0, <1>4
    DEF IInv, PauseWriteLost, TypeOK, Minted, Envelope, PauseIsLive, InTimeAnswersDecide, Local,
        Going, AtWork, Starting
  <2> QED BY <1>3, <1>6, <1>8, <2>1, <2>2 DEF IInv
<1>5. CASE Recorded(a, minted + 1) /\ minted' = minted + 1 /\ minted + 1 \in Token /\ astray'
  <2>1. job' \in JobTypes
    BY <1>5, RunTyped DEF IInv, TypeOK, JobTypes, RunTypes, Recorded
  <2>2. minted' \in 0 .. LastToken
    BY <1>5 DEF Token
  <2>3. TypeOK'
    BY <1>1, <1>2, <1>5, <2>1, <2>2, TypedNow, TypedNext DEF IInv, Typed, PauseWriteLost
  <2>4. job'.token = minted + 1 /\ job'.waiting
    BY <1>5 DEF IInv, TypeOK, Recorded
  <2>5. Minted'
    <3>1. minted \in Nat /\ sent \subseteq 1 .. minted
      BY DEF IInv, TypeOK, Minted
    <3>2. \A c \in Clients : client[c].token \in Nat /\ client[c].token <= minted
      BY DEF IInv, TypeOK, Minted, Token, None
    <3>3. sent' \subseteq 1 .. minted'
      BY <1>5, <3>1 DEF PauseWriteLost
    <3> QED BY <1>5, <2>4, <3>1, <3>2, <3>3 DEF PauseWriteLost, Minted
  <2>6. Envelope'
    BY <1>5, <2>4 DEF Envelope, Token, None
  <2>7. PauseIsLive' /\ InTimeAnswersDecide'
    BY <1>5 DEF PauseIsLive, InTimeAnswersDecide
  <2> QED BY <1>3, <1>6, <1>8, <2>3, <2>5, <2>6, <2>7 DEF IInv
<1> QED BY <1>4, <1>5 DEF PauseWriteLost

\* A failed attempt is run again with the token it had.
LEMMA AttemptFailsKeeps == ASSUME IInv, NEW a \in Attempts, AttemptFails(a) PROVE IInv'
<1>1. TypeOK'
  <2>1. Invocation(wf.ack) \in RunTypes
    BY InvocationType DEF IInv, TypeOK
  <2>2. run' \in [Attempts -> RunTypes]
    BY <2>1, LocalTypes DEF IInv, AttemptFails
  <2>3. faults' \in 0 .. MaxFaults
    BY HitlAssumption, TypedNow DEF IInv, Typed, AttemptFails
  <2> QED BY <2>2, <2>3, TypedNow, TypedNext DEF IInv, Typed, AttemptFails
<1>2. /\ Local(a, Invocation(wf.ack)) /\ Invocation(wf.ack).pc = "enter"
      /\ Invocation(wf.ack).ack = wf.ack /\ FanOutOK(Invocation(wf.ack))
  BY DEF AttemptFails, Invocation, Off, FanOutOK
<1>3. run'[a] = Invocation(wf.ack) /\ \A b \in Attempts \ {a} : run'[b] = run[b]
  BY <1>2 DEF IInv, TypeOK, Local
<1>4. FanOut'
  BY <1>2, FanOutLocal
<1>5. Workflow' /\ OneRuns'
  BY <1>2, <1>3 DEF IInv, AttemptFails, Workflow, OneRuns
<1>6. Minted' /\ Bearing' /\ Appended' /\ Envelope'
  BY DEF IInv, AttemptFails, Minted, Bearing, Appended, Envelope
<1>7. PauseIsLive' /\ EntryQuestionsDecided' /\ InTimeAnswersDecide'
  BY <1>2, <1>3 DEF IInv, AttemptFails, PauseIsLive, EntryQuestionsDecided, InTimeAnswersDecide,
     Going, AtWork, Starting
<1> QED BY <1>1, <1>4, <1>5, <1>6, <1>7 DEF IInv

\* From here on two attempts run, and only what holds even then is claimed.
LEMMA AttemptTimesOutKeeps == ASSUME IInv, NEW a \in Attempts, AttemptTimesOut(a) PROVE IInv'
<1>1. TypeOK'
  <2>1. PICK b \in Attempts :
          /\ run' = [run EXCEPT ![b] = Invocation(wf.ack)]
          /\ wf' = [wf EXCEPT !.current = b]
    BY DEF AttemptTimesOut
  <2>2. Invocation(wf.ack) \in RunTypes
    BY InvocationType DEF IInv, TypeOK
  <2>3. run' \in [Attempts -> RunTypes]
    BY <2>1, <2>2 DEF IInv, TypeOK, RunTypes
  <2>4. wf' \in WfTypes
    BY <2>1 DEF IInv, TypeOK, WfTypes
  <2>5. faults' \in 0 .. MaxFaults
    BY HitlAssumption, TypedNow DEF IInv, Typed, AttemptTimesOut
  <2> QED BY <2>3, <2>4, <2>5, TypedNow, TypedNext DEF IInv, Typed, AttemptTimesOut
<1>2. Workflow'
  BY DEF IInv, AttemptTimesOut, TypeOK, Workflow, Invocation
<1>3. PICK b \in Attempts : Local(b, Invocation(wf.ack))
  BY DEF AttemptTimesOut, Local
<1>4. Invocation(wf.ack).pc = "enter" /\ FanOutOK(Invocation(wf.ack))
  BY DEF Invocation, Off, FanOutOK
<1>5. run'[b] = Invocation(wf.ack) /\ \A d \in Attempts \ {b} : run'[d] = run[d]
  BY <1>3 DEF IInv, TypeOK, Local
<1>6. FanOut'
  BY <1>3, <1>4, FanOutLocal
<1>7. Minted' /\ Bearing' /\ Appended' /\ OneRuns' /\ Envelope' /\ PauseIsLive'
      /\ InTimeAnswersDecide'
  BY DEF IInv, AttemptTimesOut, Minted, Bearing, Appended, OneRuns, Envelope, PauseIsLive,
         InTimeAnswersDecide
<1>8. EntryQuestionsDecided'
  BY <1>4, <1>5 DEF IInv, AttemptTimesOut, EntryQuestionsDecided, AtWork, Starting
<1> QED BY <1>1, <1>2, <1>6, <1>7, <1>8 DEF IInv

\* A result nobody waits for is dropped.
LEMMA ZombieEndsKeeps == ASSUME IInv, NEW a \in Attempts, ZombieEnds(a) PROVE IInv'
<1>1. /\ Local(a, Off) /\ Off.pc = "off" /\ Off.ack = None /\ FanOutOK(Off)
      /\ a # wf.current
  BY DEF ZombieEnds, Off, FanOutOK
<1>2. run'[a] = Off /\ \A b \in Attempts \ {a} : run'[b] = run[b]
  BY <1>1 DEF IInv, TypeOK, Local
<1>3. TypeOK'
  <2>1. run' \in [Attempts -> RunTypes]
    BY <1>1, OffType, LocalTypes
  <2> QED BY <2>1, TypedNow, TypedNext DEF IInv, Typed, ZombieEnds, Environment
<1>4. FanOut'
  BY <1>1, FanOutLocal
<1>5. Workflow' /\ OneRuns'
  <2>1. /\ wf' = wf /\ sent' = sent /\ signals' = signals /\ astray' = astray
        /\ wf.current \in Attempts \ {a}
    BY <1>1 DEF IInv, TypeOK, ZombieEnds, Environment
  <2> QED BY <1>1, <1>2, <2>1 DEF IInv, Workflow, OneRuns
<1>6. Minted' /\ Bearing' /\ Appended' /\ Envelope'
  BY DEF IInv, ZombieEnds, Minted, Bearing, Appended, Envelope, Environment
<1>7. PauseIsLive' /\ EntryQuestionsDecided' /\ InTimeAnswersDecide'
  BY <1>1, <1>2 DEF IInv, ZombieEnds, Environment, PauseIsLive, EntryQuestionsDecided,
     InTimeAnswersDecide, Going, AtWork, Starting
<1> QED BY <1>3, <1>4, <1>5, <1>6, <1>7 DEF IInv

-----------------------------------------------------------------------------
(* The workflow *)

\* The token the workflow arms is the one that was reported.
LEMMA ArmPauseKeeps == ASSUME IInv, ArmPause PROVE IInv'
<1>1. TypeOK'
  <2>1. wf.current \in Attempts /\ run[wf.current].token \in Token \cup {None}
    BY DEF IInv, TypeOK
  <2>2. run' \in [Attempts -> RunTypes]
    <3>1. [Off EXCEPT !.busy = run[wf.current].busy] \in RunTypes
      BY <2>1, OffType, RunTyped DEF RunTypes
    <3> QED BY <2>1, <3>1, LocalTypes DEF IInv, ArmPause
  <2>4. wf \in WfTypes
    BY DEF IInv, TypeOK, WfTypes
  <2>5. ASSUME NEW t \in Token \cup {None}, NEW s \in BOOLEAN
        PROVE  [wf EXCEPT !.pc = "waiting", !.active = t, !.ack = None, !.submitted = s,
                          !.buffered = {}] \in WfTypes
    BY <2>4 DEF WfTypes, None
  <2>6. (run[wf.current].token \in wf.buffered) \in BOOLEAN
    BY SMT
  <2>7. wf' \in WfTypes
    BY <2>1, <2>5, <2>6, Zenon DEF ArmPause
  <2> QED BY <2>2, <2>7, TypedNow, TypedNext DEF IInv, Typed, ArmPause
<1>2. /\ wf'.pc = "waiting" /\ wf'.active = run[wf.current].token /\ wf'.ack = None
      /\ wf'.submitted => run[wf.current].token \in wf.buffered
      /\ wf'.buffered = {} /\ wf.current \in Attempts
  BY DEF IInv, TypeOK, ArmPause
<1>4. run'[wf.current].pc = "off" /\ run'[wf.current].ack = None
      /\ \A b \in Attempts \ {wf.current} : run'[b] = run[b]
  BY DEF IInv, TypeOK, ArmPause, Local, Off
<1>5. Workflow'
  BY <1>2, <1>4 DEF IInv, ArmPause, Workflow
<1>6. OneRuns' /\ PauseIsLive'
  BY <1>2, <1>4 DEF IInv, ArmPause, OneRuns, PauseIsLive, Going
<1>3. Minted' /\ Bearing' /\ Appended' /\ Envelope' /\ FanOut' /\ EntryQuestionsDecided' /\
      InTimeAnswersDecide'
  BY DEF IInv, ArmPause, Minted, Bearing, Appended, Envelope, FanOut, FanOutOK,
         EntryQuestionsDecided, InTimeAnswersDecide, Local, Off, AtWork, Starting
<1> QED BY <1>1, <1>3, <1>5, <1>6 DEF IInv

\* The workflow wakes with a token a signal carried.
LEMMA WakeKeeps == ASSUME IInv, Wake PROVE IInv'
<1>1. TypeOK'
  <2>1. PICK b \in Attempts :
          /\ run' = [run EXCEPT ![b] = Invocation(wf.active)]
          /\ wf' = [wf EXCEPT !.pc = "executing", !.current = b, !.ack = wf.active,
                              !.active = None, !.submitted = FALSE]
    BY DEF Wake
  <2>2. Invocation(wf.active) \in RunTypes
    BY InvocationType DEF IInv, TypeOK
  <2>3. run' \in [Attempts -> RunTypes]
    BY <2>1, <2>2 DEF IInv, TypeOK, RunTypes
  <2>4. wf' \in WfTypes
    BY <2>1 DEF IInv, TypeOK, WfTypes, None
  <2> QED BY <2>3, <2>4, TypedNow, TypedNext DEF IInv, Typed, Wake
<1>2. Workflow'
  BY DEF IInv, Wake, TypeOK, Workflow, Invocation
<1>3. PICK b \in Attempts :
        /\ Local(b, Invocation(wf.active))
        /\ wf' = [wf EXCEPT !.pc = "executing", !.current = b, !.ack = wf.active,
                            !.active = None, !.submitted = FALSE]
  BY DEF Wake, Local
<1>4. Invocation(wf.active).pc = "enter" /\ FanOutOK(Invocation(wf.active))
  BY DEF Invocation, Off, FanOutOK
<1>5. run'[b] = Invocation(wf.active) /\ \A d \in Attempts \ {b} : run'[d] = run[d]
  BY <1>3 DEF IInv, TypeOK, Local
<1>6. FanOut'
  BY <1>3, <1>4, FanOutLocal
<1>7. wf'.pc = "executing" /\ wf'.current = b
  BY <1>3 DEF IInv, TypeOK
<1>8. Minted' /\ Bearing' /\ Appended' /\ Envelope'
  BY DEF IInv, Wake, Minted, Bearing, Appended, Envelope
<1>9. OneRuns' /\ PauseIsLive' /\ EntryQuestionsDecided' /\ InTimeAnswersDecide'
  BY <1>4, <1>5, <1>7 DEF IInv, Wake, OneRuns, PauseIsLive, EntryQuestionsDecided,
     InTimeAnswersDecide, Going, AtWork, Starting
<1> QED BY <1>1, <1>2, <1>6, <1>8, <1>9 DEF IInv

\* The workflow ends with its last attempt.
LEMMA WorkflowEndsKeeps == ASSUME IInv, WorkflowEnds PROVE IInv'
<1>1. EntryQuestionsDecided'
  BY DEF IInv, WorkflowEnds, EntryQuestionsDecided, Local, Off, AtWork, Starting
<1>2. InTimeAnswersDecide'
  BY DEF IInv, WorkflowEnds, InTimeAnswersDecide, Local, Off, AtWork, Starting
<1>3. OneRuns' /\ PauseIsLive'
  BY DEF IInv, WorkflowEnds, TypeOK, OneRuns, PauseIsLive, Local, Off, Going
<1>4. FanOut'
  <2>1. FanOutOK(Off) /\ wf.current \in Attempts /\ Local(wf.current, Off)
    BY DEF IInv, TypeOK, WorkflowEnds, Off, FanOutOK
  <2> QED BY <2>1, FanOutLocal
<1>5. TypeOK'
  <2>1. run' \in [Attempts -> RunTypes]
    BY OffType, LocalTypes DEF IInv, TypeOK, WorkflowEnds
  <2>2. wf' \in WfTypes
    BY DEF IInv, TypeOK, WfTypes, WorkflowEnds
  <2> QED BY <2>1, <2>2, TypedNow, TypedNext DEF IInv, Typed, WorkflowEnds
<1>6. Workflow' /\ Minted' /\ Bearing' /\ Appended' /\ Envelope'
  BY DEF IInv, WorkflowEnds, TypeOK, Workflow, Minted, Bearing, Appended, Envelope, Local, Off
<1> QED BY <1>1, <1>2, <1>3, <1>4, <1>5, <1>6 DEF IInv

\* A signal is applied, buffered or ignored.
LEMMA submit_answersKeeps == ASSUME IInv, submit_answers PROVE IInv'
<1>1. TypeOK'
  <2>1. Head(signals) \in Token /\ Tail(signals) \in Seq(Token)
    BY HeadTailProperties DEF IInv, TypeOK, submit_answers
  <2>2. Handled(Head(signals)) \in WfTypes
    BY <2>1 DEF IInv, TypeOK, WfTypes, Handled
  <2>3. wf' \in WfTypes
    BY <2>2 DEF IInv, TypeOK, WfTypes, submit_answers
  <2> QED BY <2>1, <2>3, TypedNow, TypedNext DEF IInv, Typed, submit_answers
<1>2. Workflow' /\ Minted' /\ Bearing' /\ Appended' /\ OneRuns' /\ Envelope' /\ FanOut'
      /\ PauseIsLive' /\ EntryQuestionsDecided' /\ InTimeAnswersDecide'
  BY DEF IInv, submit_answers, Workflow, Minted, Bearing, Appended, OneRuns, Envelope, FanOut,
         FanOutOK, PauseIsLive, EntryQuestionsDecided, InTimeAnswersDecide, Handled
<1> QED BY <1>1, <1>2 DEF IInv

\* Nothing happens.
LEMMA QuietKeeps == ASSUME IInv, Quiet PROVE IInv'
<1>1. TypeOK' /\ Workflow' /\ Minted' /\ Bearing' /\ Appended' /\ OneRuns' /\ Envelope'
      /\ FanOut' /\ PauseIsLive' /\ EntryQuestionsDecided' /\ InTimeAnswersDecide'
  BY DEF IInv, Quiet, TypeOK, Workflow, Minted, Bearing, Appended, OneRuns, Envelope, FanOut,
         FanOutOK, PauseIsLive, EntryQuestionsDecided, InTimeAnswersDecide, vars
<1> QED BY <1>1 DEF IInv

-----------------------------------------------------------------------------
(* The routes *)

\* A client answers the pause it reads.
LEMMA PostAnswersKeeps == ASSUME IInv, NEW c \in Clients, PostAnswers(c) PROVE IInv'
<1>1. TypeOK' /\ Workflow' /\ Minted' /\ Bearing' /\ Appended' /\ OneRuns' /\ Envelope'
      /\ FanOut' /\ PauseIsLive' /\ EntryQuestionsDecided' /\ InTimeAnswersDecide'
  BY HitlAssumption
  DEF IInv, PostAnswers, TypeOK, Workflow, Minted, Bearing, Appended, OneRuns, Envelope, FanOut,
      FanOutOK, PauseIsLive, EntryQuestionsDecided, InTimeAnswersDecide, PauseOutstanding,
      Handler, Answer
<1> QED BY <1>1 DEF IInv

\* Answers that come in time find a pause, so nobody works.
LEMMA AppendAnswersKeeps == ASSUME IInv, NEW c \in Clients, AppendAnswers(c) PROVE IInv'
<1>1. TypeOK'
  <2>1. client[c] \in ClientTypes /\ job \in JobTypes
    BY DEF IInv, TypeOK, ClientTypes, JobTypes
  <2>2. client' \in [Clients -> ClientTypes]
    BY <2>1 DEF IInv, TypeOK, ClientTypes, AppendAnswers, Handler
  <2>3. job' \in JobTypes
    BY <2>1 DEF JobTypes, ClientTypes, AppendAnswers
  <2>4. inTime' \subseteq Answer
    BY <2>1 DEF IInv, TypeOK, ClientTypes, AppendAnswers
  <2> QED BY <2>2, <2>3, <2>4, TypedNow, TypedNext DEF IInv, Typed, AppendAnswers
<1>2. PauseIsLive'
  BY DEF IInv, AppendAnswers, PauseIsLive
<1>3. EntryQuestionsDecided'
  BY DEF IInv, AppendAnswers, EntryQuestionsDecided
<1>4. InTimeAnswersDecide'
  BY DEF IInv, AppendAnswers, InTimeAnswersDecide, Bearing, PauseIsLive, AtWork, Starting, Going
<1>5. Workflow' /\ Minted' /\ Bearing' /\ Appended' /\ OneRuns' /\ Envelope' /\ FanOut'
  BY DEF IInv, AppendAnswers, Workflow, Minted, Bearing, Appended, OneRuns, Envelope, FanOut,
         FanOutOK, Handler
<1> QED BY <1>1, <1>2, <1>3, <1>4, <1>5 DEF IInv

\* A client resumes the pause it reads.
LEMMA PostResumeKeeps == ASSUME IInv, NEW c \in Clients, PostResume(c) PROVE IInv'
<1>1. TypeOK'
  <2>1. client' \in [Clients -> ClientTypes]
    BY DEF IInv, TypeOK, ClientTypes, PostResume, Handler, Idle, None
  <2>2. calls' \in 0 .. MaxCalls
    BY HitlAssumption DEF IInv, TypeOK, PostResume
  <2> QED BY <2>1, <2>2, TypedNow, TypedNext DEF IInv, Typed, PostResume
<1>2. Workflow' /\ Appended' /\ OneRuns' /\ Envelope' /\ FanOut' /\ PauseIsLive'
      /\ EntryQuestionsDecided' /\ InTimeAnswersDecide'
  BY DEF IInv, PostResume, Workflow, Appended, OneRuns, Envelope, FanOut, FanOutOK,
         PauseIsLive, EntryQuestionsDecided, InTimeAnswersDecide
<1>3. /\ client'[c] = [pc |-> "signal", token |-> job.token, answers |-> {}]
      /\ \A d \in Clients \ {c} : client'[d] = client[d]
      /\ job.token # None
  BY DEF IInv, TypeOK, PostResume, Handler, Idle
<1>4. Minted' /\ Bearing'
  BY <1>3 DEF IInv, PostResume, Minted, Bearing
<1> QED BY <1>1, <1>2, <1>4 DEF IInv

\* The token a signal carries is one that was minted.
LEMMA SignalKeeps == ASSUME IInv, NEW c \in Clients, Signal(c) PROVE IInv'
<1>1. TypeOK'
  <2>1. client[c].token \in Token
    BY DEF IInv, TypeOK, Bearing, Signal
  <2>2. signals' \in Seq(Token) /\ sent' \subseteq Token
    BY <2>1, AppendProperties DEF IInv, TypeOK, Signal
  <2>3. client' \in [Clients -> ClientTypes]
    BY DEF IInv, TypeOK, ClientTypes, Signal, Handler, Idle, None
  <2> QED BY <2>2, <2>3, TypedNow, TypedNext DEF IInv, Typed, Signal
<1>2. Minted'
  <2>1. client[c].token \in 1 .. minted
    BY DEF IInv, TypeOK, Token, None, Bearing, Minted, Signal
  <2>2. sent' \subseteq 1 .. minted'
    BY <2>1 DEF IInv, Minted, Signal
  <2>3. \A d \in Clients : client'[d].token <= minted'
    BY DEF IInv, TypeOK, Minted, Signal, Handler, Idle, None
  <2> QED BY <2>2, <2>3 DEF IInv, Minted, Signal
<1>3. Workflow' /\ Bearing' /\ Appended' /\ OneRuns' /\ Envelope' /\ FanOut' /\ PauseIsLive' /\
      EntryQuestionsDecided' /\ InTimeAnswersDecide'
  BY DEF IInv, Signal, Workflow, Bearing, Appended, OneRuns, Envelope, FanOut, FanOutOK,
         PauseIsLive, EntryQuestionsDecided, InTimeAnswersDecide, Handler, Idle
<1> QED BY <1>1, <1>2, <1>3 DEF IInv

\* A signal that fails leaves the answers on the record.
LEMMA SignalFailsKeeps == ASSUME IInv, NEW c \in Clients, SignalFails(c) PROVE IInv'
<1>1. Minted'
  BY DEF IInv, SignalFails, TypeOK, Minted, Handler, Idle, None
<1>2. TypeOK' /\ Workflow' /\ Bearing' /\ Appended' /\ OneRuns' /\ Envelope' /\ FanOut'
      /\ PauseIsLive' /\ EntryQuestionsDecided' /\ InTimeAnswersDecide'
  BY HitlAssumption
  DEF IInv, SignalFails, TypeOK, Workflow, Bearing, Appended, OneRuns, Envelope, FanOut,
      FanOutOK, PauseIsLive, EntryQuestionsDecided, InTimeAnswersDecide, Handler, Idle
<1> QED BY <1>1, <1>2 DEF IInv

-----------------------------------------------------------------------------
(* The invariant is inductive *)

LEMMA Initially == Init => IInv
<1> SUFFICES ASSUME Init PROVE IInv
  OBVIOUS
<1>1. PICK a \in Attempts :
        /\ job = [status |-> "pending", waiting |-> FALSE, asked |-> {},
                  token |-> None, answers |-> {}, planned |-> FALSE]
        /\ run = [b \in Attempts |-> IF b = a THEN Invocation(None) ELSE Off]
        /\ wf = [pc |-> "executing", current |-> a, active |-> None,
                 submitted |-> FALSE, buffered |-> {}, ack |-> None]
  BY DEF Init
<1>2. Invocation(None) \in RunTypes
  BY InvocationType
<1>3. run \in [Attempts -> RunTypes]
  BY <1>1, <1>2, OffType
<1>4. client \in [Clients -> ClientTypes]
  BY DEF Init, ClientTypes, Idle, None
<1>5. /\ signals = <<>> /\ minted = 0 /\ calls = 0 /\ faults = 0 /\ lost = 0
      /\ sent = {} /\ inTime = {}
  BY DEF Init
<1>6. escalated \in [RaisedQs -> Nat] /\ astray = FALSE
  BY DEF Init
<1>7. job \in JobTypes /\ wf \in WfTypes
  BY <1>1 DEF JobTypes, WfTypes, None
<1>8. signals \in Seq(Token) /\ sent \subseteq Token /\ inTime \subseteq Answer
  BY <1>5
<1>15. LastToken \in Nat
  BY HitlAssumption DEF LastToken
<1>16. /\ minted \in 0 .. LastToken
       /\ calls \in 0 .. MaxCalls /\ faults \in 0 .. MaxFaults /\ lost \in 0 .. MaxLost
  BY <1>5, <1>15, HitlAssumption
<1>9. TypeOK
  BY <1>3, <1>4, <1>6, <1>7, <1>8, <1>16 DEF TypeOK, RunTypes, ClientTypes, JobTypes, WfTypes
<1>10. \A b \in Attempts : /\ run[b].pc # "off" => b = a
                          /\ run[b].pc \in {"off", "enter"} /\ run[b].ack = None
  BY <1>1 DEF Invocation, Off
<1>11. run[a].pc = "enter"
  BY <1>1 DEF Invocation, Off
<1>12. Workflow
  BY <1>1, <1>5, <1>10, <1>11 DEF Workflow, None
<1>13. Minted /\ Bearing /\ Appended /\ OneRuns /\ Envelope
  BY <1>1, <1>5, <1>10, <1>11
  DEF Init, Minted, Bearing, Appended, OneRuns, Envelope, Idle, None
<1>17. FanOut
  BY <1>1 DEF FanOut, FanOutOK, Invocation, Off
<1>14. PauseIsLive /\ EntryQuestionsDecided /\ InTimeAnswersDecide
  BY <1>1, <1>5, <1>10
  DEF PauseIsLive, EntryQuestionsDecided, InTimeAnswersDecide, AtWork, Starting, Going, None
<1> QED BY <1>9, <1>12, <1>13, <1>14, <1>17 DEF IInv

LEMMA Stutters == ASSUME IInv, UNCHANGED vars PROVE IInv'
<1> QED BY DEF IInv, vars, TypeOK, Workflow, Minted, Bearing, Appended, OneRuns, Envelope,
               FanOut, FanOutOK, PauseIsLive, EntryQuestionsDecided, InTimeAnswersDecide

LEMMA Inductive == IInv /\ [Next]_vars => IInv'
<1> SUFFICES ASSUME IInv, [Next]_vars PROVE IInv'
  OBVIOUS
<1>1. ASSUME NEW a \in Attempts, Orchestrate(a) PROVE IInv'
  BY <1>1, ReEmitKeeps, ResumeKeeps, ProceedKeeps, ConsumeKeeps, RereadKeeps, LeadAsksKeeps,
     PlannedKeeps, AlreadyCompleteKeeps, BeginWorkKeeps, StartRoundKeeps, WorkerReturnsKeeps,
     WorkerAsksKeeps, FanOutJoinsKeeps, WorkEndsKeeps, WritePauseKeeps
  DEF Orchestrate
<1>2. ASSUME NEW a \in Attempts,
             PauseWriteLost(a) \/ AttemptFails(a) \/ AttemptTimesOut(a) \/ ZombieEnds(a)
      PROVE  IInv'
  BY <1>2, PauseWriteLostKeeps, AttemptFailsKeeps, AttemptTimesOutKeeps, ZombieEndsKeeps
<1>3. CASE ArmPause \/ Wake \/ WorkflowEnds \/ submit_answers
  BY <1>3, ArmPauseKeeps, WakeKeeps, WorkflowEndsKeeps, submit_answersKeeps
<1>4. ASSUME NEW c \in Clients,
             \/ PostAnswers(c) \/ AppendAnswers(c) \/ PostResume(c)
             \/ Signal(c) \/ SignalFails(c)
      PROVE  IInv'
  BY <1>4, PostAnswersKeeps, AppendAnswersKeeps, PostResumeKeeps, SignalKeeps, SignalFailsKeeps
<1>5. CASE Quiet \/ UNCHANGED vars
  BY <1>5, Stutters DEF Quiet
<1> QED BY <1>1, <1>2, <1>3, <1>4, <1>5 DEF Next

LEMMA Invariance == Spec => []IInv
<1> QED BY Initially, Inductive, PTL DEF Spec

-----------------------------------------------------------------------------
(* What the protocol promises *)

\* Every behaviour has the types the records, fields and queues are declared
\* with, and tokens and counters stay within their bounds.
THEOREM TypeCorrect == Spec => []TypeOK
<1>1. IInv => TypeOK
  BY DEF IInv
<1> QED BY <1>1, Invariance, PTL

\* The pause the workflow waits on is the pause on the record, so the token a
\* client reads there is the one that wakes the workflow (the read of the
\* record by the routes, the comparison of tokens in the signal handler).
THEOREM PauseRecorded == Spec => []ActivePauseIsRecorded
<1>1. IInv => ActivePauseIsRecorded
  <2> SUFFICES ASSUME IInv, ~astray, wf.active # None
               PROVE  job.waiting /\ job.token = wf.active
    BY DEF ActivePauseIsRecorded, LiveTokenHeeded
  <2>1. wf.pc = "waiting"
    BY DEF IInv, Workflow
  <2> QED BY <2>1 DEF IInv, PauseIsLive, Envelope
<1> QED BY <1>1, Invariance, PTL

\* While the record says the job waits for the user, nothing new is started, and
\* only workers of the round that asked still finish (the re-entry check at the
\* top of the orchestrator, wait_for_stragglers of the fan-out).
THEOREM StragglersOnly == Spec => []OnlyStragglersWork
<1>1. IInv => OnlyStragglersWork
  BY DEF IInv, TypeOK, Envelope, FanOut, FanOutOK, PauseIsLive, OnlyStragglersWork, Starting,
         Going
<1> QED BY <1>1, Invariance, PTL

\* An answer that came before its pause was consumed decides whatever is done
\* next (the read after the clear, and the fold of all answers).
THEOREM InTimeKept == Spec => []InTimeAnswersDecide
<1>1. IInv => InTimeAnswersDecide
  BY DEF IInv
<1> QED BY <1>1, Invariance, PTL

\* Nothing is planned or coded, not even by an attempt that was timed out,
\* before every question handed in has an answer (the entry gate).
THEOREM EntryDecided == Spec => []EntryQuestionsDecided
<1>1. IInv => EntryQuestionsDecided
  BY DEF IInv
<1> QED BY <1>1, Invariance, PTL

-----------------------------------------------------------------------------
(* What a step may do to the pause *)

\* What leaves the record's pause alone.
Aside ==
  \/ \E a \in Attempts :
       \/ ReEmit(a) \/ Resume(a) \/ Proceed(a) \/ Reread(a) \/ LeadAsks(a) \/ Planned(a)
       \/ AlreadyComplete(a) \/ BeginWork(a) \/ StartRound(a) \/ WorkerReturns(a)
       \/ WorkerAsks(a) \/ FanOutJoins(a) \/ WorkEnds(a)
       \/ AttemptFails(a) \/ AttemptTimesOut(a) \/ ZombieEnds(a)
  \/ ArmPause \/ Wake \/ WorkflowEnds \/ submit_answers
  \/ \E c \in Clients : \/ PostAnswers(c) \/ AppendAnswers(c) \/ PostResume(c)
                        \/ Signal(c) \/ SignalFails(c)
  \/ UNCHANGED vars

LEMMA StepKinds ==
  [Next]_vars =>
    Aside \/ \E a \in Attempts : Consume(a) \/ WritePause(a) \/ PauseWriteLost(a)
<1> QED BY DEF Next, Orchestrate, Quiet, Aside

LEMMA PauseUntouched ==
  ASSUME TypeOK, Aside PROVE job'.waiting = job.waiting /\ job'.token = job.token
<1>1. ASSUME NEW a \in Attempts,
             \/ ReEmit(a) \/ Resume(a) \/ Proceed(a) \/ Reread(a) \/ LeadAsks(a)
             \/ StartRound(a) \/ WorkerReturns(a) \/ WorkerAsks(a) \/ FanOutJoins(a)
             \/ AttemptFails(a) \/ AttemptTimesOut(a) \/ ZombieEnds(a)
      PROVE  job' = job
  BY <1>1
  DEF ReEmit, Resume, Proceed, Reread, LeadAsks, StartRound, WorkerReturns, WorkerAsks,
      FanOutJoins, AttemptFails, AttemptTimesOut, ZombieEnds
<1>2. ASSUME NEW a \in Attempts, Planned(a) \/ AlreadyComplete(a) \/ BeginWork(a) \/ WorkEnds(a)
      PROVE  job'.waiting = job.waiting /\ job'.token = job.token
  BY <1>2 DEF TypeOK, Planned, AlreadyComplete, BeginWork, WorkEnds
<1>3. CASE ArmPause \/ Wake \/ WorkflowEnds \/ submit_answers \/ UNCHANGED vars
  BY <1>3 DEF ArmPause, Wake, WorkflowEnds, submit_answers, vars
<1>4. ASSUME NEW c \in Clients,
             \/ PostAnswers(c) \/ AppendAnswers(c) \/ PostResume(c)
             \/ Signal(c) \/ SignalFails(c)
      PROVE  job'.waiting = job.waiting /\ job'.token = job.token
  BY <1>4 DEF TypeOK, PostAnswers, AppendAnswers, PostResume, Signal, SignalFails
<1> QED BY <1>1, <1>2, <1>3, <1>4 DEF Aside

\* Who consumes a pause brings a token some signal carried.
LEMMA ConsumeLeaves ==
  ASSUME IInv, ~astray, NEW a \in Attempts, Consume(a)
  PROVE  /\ job.waiting /\ job.token \in sent
         /\ ~job'.waiting /\ job'.token = None
         /\ wf.pc = "executing" /\ wf' = wf /\ minted' = minted /\ sent' = sent
<1>1. job.token # None /\ job.token = run[a].ack
  BY DEF IInv, PauseIsLive, Consume
<1>2. run[a].ack \in sent
  BY <1>1 DEF IInv, Workflow
<1>3. job'.token = None /\ ~job'.waiting
  BY DEF IInv, TypeOK, Consume
<1>4. wf.pc = "executing"
  BY DEF IInv, OneRuns, Consume
<1> QED BY <1>1, <1>2, <1>3, <1>4 DEF IInv, Envelope, Consume, Environment

\* Who writes a pause finds none, and its token is new.
LEMMA WriteEnters ==
  ASSUME IInv, ~astray, NEW a \in Attempts, WritePause(a)
  PROVE  /\ ~job.waiting /\ job.token = None
         /\ job'.waiting /\ job'.token = minted + 1 /\ minted' = minted + 1
         /\ job'.token \notin sent'
         /\ wf.pc = "executing" /\ wf' = wf
<1>1. job.token = None
  BY DEF IInv, PauseIsLive, Going, FanOut, FanOutOK, WritePause, Asking
<1>2. job'.waiting /\ job'.token = minted + 1 /\ minted' = minted + 1
  BY DEF IInv, TypeOK, WritePause, Recorded
<1>3. minted + 1 \notin sent
  BY DEF IInv, TypeOK, Minted
<1>4. wf.pc = "executing"
  BY DEF IInv, OneRuns, WritePause, Asking
<1> QED BY <1>1, <1>2, <1>3, <1>4 DEF IInv, Envelope, WritePause

\* A worker's pause write that gets lost finds no pause, and leaves none unless
\* the run goes astray with it.
LEMMA LostFindsNone ==
  ASSUME IInv, ~astray, NEW a \in Attempts, PauseWriteLost(a)
  PROVE  /\ job.token = None
         /\ sent' = sent /\ wf' = wf
         /\ ~astray' => job' = job /\ minted' = minted
<1>1. job.token = None
  BY DEF IInv, PauseIsLive, FanOut, FanOutOK, PauseWriteLost
<1> QED BY <1>1 DEF PauseWriteLost

\* A pause leaves the record only after a signal that carried its token (the
\* re-entry check, which consumes the acknowledged token and no other).
THEOREM PauseLeft == Spec => PauseLeftOnlyBySignal
<1>1. ASSUME IInv, [Next]_vars, ~astray, NEW t \in Token, job.token = t, job'.token # t
      PROVE  t \in sent
  <2>1. CASE Aside
    BY <1>1, <2>1, PauseUntouched DEF IInv
  <2>2. ASSUME NEW a \in Attempts, Consume(a) PROVE t \in sent
    BY <1>1, <2>2, ConsumeLeaves
  <2>3. ASSUME NEW a \in Attempts, WritePause(a) \/ PauseWriteLost(a) PROVE FALSE
    BY <1>1, <2>3, WriteEnters, LostFindsNone DEF Token, None
  <2> QED BY <1>1, <2>1, <2>2, <2>3, StepKinds
<1>2. IInv /\ [Next]_vars =>
        [~astray => \A t \in Token : (job.token = t /\ job'.token # t) => t \in sent]_vars
  BY <1>1
<1> QED BY <1>2, Invariance, PTL DEF Spec, PauseLeftOnlyBySignal

\* No pause takes the place of one nobody has answered (a retry re-emits what
\* it finds, and a pause is consumed before the next one is written).
THEOREM NotReplaced == Spec => PauseNotReplaced
<1>1. ASSUME IInv, [Next]_vars, ~astray, job.token # None, job'.token # None
      PROVE  job'.token = job.token
  <2>1. CASE Aside
    BY <1>1, <2>1, PauseUntouched DEF IInv
  <2>2. ASSUME NEW a \in Attempts, Consume(a) PROVE FALSE
    BY <1>1, <2>2, ConsumeLeaves
  <2>3. ASSUME NEW a \in Attempts, WritePause(a) \/ PauseWriteLost(a) PROVE FALSE
    BY <1>1, <2>3, WriteEnters, LostFindsNone
  <2> QED BY <1>1, <2>1, <2>2, <2>3, StepKinds
<1>2. IInv /\ [Next]_vars =>
        [~astray /\ job.token # None /\ job'.token # None => job'.token = job.token]_vars
  BY <1>1
<1> QED BY <1>2, Invariance, PTL DEF Spec, PauseNotReplaced

-----------------------------------------------------------------------------
(* The abstract pause *)

\* A step that touches neither the pause, the tokens nor the workflow's end is
\* not seen.
LEMMA Unseen ==
  ASSUME job'.waiting = job.waiting, job'.token = job.token, minted' = minted, sent' = sent,
         wf'.pc = "done" <=> wf.pc = "done"
  PROVE  UNCHANGED Pauses!vars
<1> QED BY DEF Pauses!vars

LEMMA ConsumeContinues ==
  ASSUME IInv, ~astray, NEW a \in Attempts, Consume(a) PROVE Pauses!Continue
<1>1. None \notin sent
  BY DEF IInv, TypeOK, Token, None
<1> QED BY <1>1, ConsumeLeaves DEF Pauses!Continue

LEMMA WritePauses ==
  ASSUME IInv, ~astray, NEW a \in Attempts, WritePause(a) PROVE Pauses!Pause
<1> QED BY WriteEnters DEF Pauses!Pause

LEMMA EndFinishes ==
  ASSUME IInv, ~astray, WorkflowEnds PROVE Pauses!Finish
<1>1. job.token = None /\ ~job.waiting
  BY DEF IInv, TypeOK, PauseIsLive, Envelope, FanOut, FanOutOK, Going, WorkflowEnds
<1>2. wf.pc = "executing" /\ wf'.pc = "done"
  BY DEF IInv, TypeOK, WorkflowEnds
<1> QED BY <1>1, <1>2 DEF WorkflowEnds, Pauses!Finish

LEMMA SignalAcknowledges ==
  ASSUME IInv, ~astray, NEW c \in Clients, Signal(c)
  PROVE  Pauses!Acknowledge \/ UNCHANGED Pauses!vars
<1>1. job' = job /\ wf' = wf /\ minted' = minted /\ sent' = sent \cup {client[c].token}
  BY DEF Signal
<1>2. CASE job.token \in sent' /\ job.token \notin sent
  <2>1. job.token # None
    BY <1>1, <1>2 DEF IInv, Bearing, Signal
  <2>2. job.waiting /\ wf.pc # "done"
    BY <2>1 DEF IInv, TypeOK, Envelope, FanOut, FanOutOK, PauseIsLive
  <2> QED BY <1>1, <1>2, <2>2 DEF Pauses!Acknowledge
<1>3. CASE job.token \in sent' <=> job.token \in sent
  BY <1>1, <1>3 DEF Pauses!vars
<1> QED BY <1>1, <1>2, <1>3

LEMMA AsideMaps ==
  ASSUME IInv, Aside, ~astray, ~astray' PROVE [Pauses!Next]_(Pauses!vars)
<1>1. job'.waiting = job.waiting /\ job'.token = job.token
  BY PauseUntouched DEF IInv
<1>2. CASE WorkflowEnds
  BY <1>2, EndFinishes DEF Pauses!Next
<1>3. ASSUME NEW c \in Clients, Signal(c) PROVE [Pauses!Next]_(Pauses!vars)
  BY <1>3, SignalAcknowledges DEF Pauses!Next
<1>4. ASSUME NEW a \in Attempts,
             \/ ReEmit(a) \/ Resume(a) \/ Proceed(a) \/ Reread(a) \/ LeadAsks(a)
             \/ Planned(a) \/ AlreadyComplete(a) \/ BeginWork(a) \/ StartRound(a)
             \/ WorkerReturns(a) \/ WorkerAsks(a) \/ FanOutJoins(a) \/ WorkEnds(a)
             \/ AttemptFails(a) \/ ZombieEnds(a)
      PROVE  minted' = minted /\ sent' = sent /\ wf' = wf
  BY <1>4
  DEF ReEmit, Resume, Proceed, Reread, LeadAsks, Planned, AlreadyComplete, BeginWork,
      StartRound, WorkerReturns, WorkerAsks, FanOutJoins, WorkEnds, AttemptFails, ZombieEnds,
      Environment
<1>5. ASSUME NEW a \in Attempts, AttemptTimesOut(a) PROVE FALSE
  BY <1>5 DEF AttemptTimesOut
<1>6. CASE ArmPause \/ Wake
  <2>1. minted' = minted /\ sent' = sent /\ wf.pc # "done"
    BY <1>6 DEF ArmPause, Wake
  <2>2. wf'.pc # "done"
    BY <1>6 DEF IInv, TypeOK, ArmPause, Wake
  <2> QED BY <1>1, <2>1, <2>2, Unseen
<1>7. CASE submit_answers
  <2>1. minted' = minted /\ sent' = sent
    BY <1>7 DEF submit_answers
  <2>2. wf'.pc = wf.pc
    BY <1>7 DEF IInv, TypeOK, submit_answers, Handled
  <2> QED BY <1>1, <2>1, <2>2, Unseen
<1>8. ASSUME NEW c \in Clients,
             PostAnswers(c) \/ AppendAnswers(c) \/ PostResume(c) \/ SignalFails(c)
      PROVE  minted' = minted /\ sent' = sent /\ wf' = wf
  BY <1>8 DEF PostAnswers, AppendAnswers, PostResume, SignalFails
<1>9. CASE UNCHANGED vars
  BY <1>1, <1>9, Unseen DEF vars
<1> QED BY <1>1, <1>2, <1>3, <1>4, <1>5, <1>6, <1>7, <1>8, <1>9, Unseen DEF Aside

\* As long as nothing goes astray, every step is one of the abstract pause
\* or is not seen there: a run works again only after the very round it paused
\* for was acknowledged.
THEOREM StepsPause ==
  Spec => Pauses!Init /\ [][~astray /\ ~astray' => [Pauses!Next]_(Pauses!vars)]_vars
<1>1. Init => Pauses!Init
  BY DEF Init, None, Pauses!Init
<1>2. ASSUME IInv, [Next]_vars, ~astray, ~astray' PROVE [Pauses!Next]_(Pauses!vars)
  <2>1. CASE Aside
    BY <1>2, <2>1, AsideMaps
  <2>2. ASSUME NEW a \in Attempts, Consume(a) \/ WritePause(a)
        PROVE  [Pauses!Next]_(Pauses!vars)
    BY <1>2, <2>2, ConsumeContinues, WritePauses DEF Pauses!Next
  <2>3. ASSUME NEW a \in Attempts, PauseWriteLost(a) PROVE [Pauses!Next]_(Pauses!vars)
    BY <1>2, <2>3, LostFindsNone, Unseen
  <2> QED BY <1>2, <2>1, <2>2, <2>3, StepKinds
<1>3. IInv /\ [Next]_vars =>
        [~astray /\ ~astray' => [Pauses!Next]_(Pauses!vars)]_vars
  BY <1>2
<1> QED BY <1>1, <1>3, Invariance, PTL DEF Spec

=============================================================================
