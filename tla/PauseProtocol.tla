--------------------------- MODULE PauseProtocol ---------------------------
(***************************************************************************)
(* What a paused-for-the-user run promises, without the job record, the    *)
(* durable workflow, the activity attempts and the HTTP handlers that      *)
(* carry it out: the run works, pauses for a new round of questions, and   *)
(* works again only after that very round was acknowledged.                *)
(***************************************************************************)
EXTENDS Naturals

VARIABLES
  stage,        \* "working", "paused" or "finished"
  round,        \* how many pauses there have been
  acknowledged  \* the current round has been answered or resumed by someone

vars == <<stage, round, acknowledged>>

Init == stage = "working" /\ round = 0 /\ acknowledged = FALSE

Pause == /\ stage = "working"
         /\ stage' = "paused"
         /\ round' = round + 1
         /\ acknowledged' = FALSE

Acknowledge == /\ stage = "paused"
               /\ acknowledged' = TRUE
               /\ UNCHANGED <<stage, round>>

Continue == /\ stage = "paused"
            /\ acknowledged
            /\ stage' = "working"
            /\ acknowledged' = FALSE
            /\ UNCHANGED round

Finish == /\ stage = "working"
          /\ stage' = "finished"
          /\ UNCHANGED <<round, acknowledged>>

Next == Pause \/ Acknowledge \/ Continue \/ Finish

(* An acknowledged round is always left, and a run at work pauses or ends. *)
Spec == /\ Init /\ [][Next]_vars
        /\ WF_vars(Continue)
        /\ WF_vars(Pause \/ Finish)

============================================================================
