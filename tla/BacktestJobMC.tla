---------------------------- MODULE BacktestJobMC ----------------------------
(***************************************************************************)
(* BacktestJob for TLC: one job, its thread and its attempts.              *)
(***************************************************************************)
EXTENDS BacktestJob
=============================================================================
