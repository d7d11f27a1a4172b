---------------------------- MODULE MCScheduler ----------------------------
(***************************************************************************)
(* Instances of Scheduler for TLC.  The .cfg files give the constants; the *)
(* definitions here keep the larger instances within reach.                *)
(***************************************************************************)
EXTENDS Scheduler, TLC

\* Targets are interchangeable: nothing reads the target of a run that does
\* not exist yet, the only place where one is singled out (RegistryInit).
TargetSymmetry == Permutations(Targets)

\* Bound of the larger runs: policies are not edited.
PoliciesStay == \A p \in Policies : policies[p].enabled

\* Bounds of Rollover: no target is retired (Retirement is about that), no run in
\* flight is cancelled but by a stop (Contention), and Runners that carry no payload
\* are not followed.
TargetsStay == \A t \in Targets : ~targets[t].retired
NotCancelled == \A r \in RunIDs : ~exec[r].cancel
RunnersCarry == \A r \in RunIDs : runner[r].state # "none" => runner[r].gen # 0
=============================================================================
