---------------------------- MODULE MCExchange ----------------------------
(***************************************************************************)
(* Instances of Exchange for TLC.                                          *)
(***************************************************************************)
EXTENDS Exchange, TLC

\* Executions are interchangeable.
ExecutionSymmetry == Permutations(Executions)
=============================================================================
