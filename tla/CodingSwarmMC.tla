--------------------------- MODULE CodingSwarmMC ---------------------------
(* Plans and rosters for model checking CodingSwarm. *)
EXTENDS CodingSwarm, TLC

CONSTANTS t1, t2, t3, t4, a1, a2, Front, Back

\* Three tasks one after the other, and one beside them.
ChainAndOneDeps == (t1 :> {}) @@ (t2 :> {t1}) @@ (t3 :> {t2}) @@ (t4 :> {})
Chain3Deps == (t1 :> {}) @@ (t2 :> {t1}) @@ (t3 :> {t2})
PairDeps == (t1 :> {}) @@ (t2 :> {t1})
SoleDeps == t1 :> {}

AllFront == [t \in Tasks |-> Front]
AnyWorker == [t \in Tasks |-> AnyTeam]
\* A task that nobody on a front-end roster can do.
ThirdBack == [t \in Tasks |-> IF t = t3 THEN Back ELSE Front]

FrontTeam == [a \in Agents |-> Front]
AgentsAlike == Permutations(Agents)
=============================================================================
