-------------------------- MODULE CodingTeamHitlMC --------------------------
(***************************************************************************)
(* Small instances of CodingTeamHitl, and one-line bugs of its code that   *)
(* its properties must notice.                                             *)
(***************************************************************************)
EXTENDS CodingTeamHitl, TLC

CONSTANTS c1, c2, yes, no, a1, a2

(* Clients and attempts may be renamed; so may what a client can choose.   *)
Renaming == Permutations({c1, c2}) \cup Permutations({a1, a2}) \cup Permutations({yes, no})

=============================================================================
