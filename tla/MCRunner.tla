------------------------------ MODULE MCRunner ------------------------------
(***************************************************************************)
(* Instances of Runner and LocalProcess for TLC.                           *)
(***************************************************************************)
EXTENDS LocalProcess, TLC

CONSTANTS g1, g2, key

\* Run 1 provisions g1, run 2 uses it, run 3 has no generation, run 4 provisions g1
\* with a payload that was sealed for g2.
MCAccountOf == <<g1, g1, Legacy, g1>>
MCPayload ==
  (1 :> [key |-> key, scoped |-> FALSE, account |-> g1]) @@
  (4 :> [key |-> key, scoped |-> FALSE, account |-> g2])

\* The later envelopes outlive the first and its marker.
MCExpiry == <<1, 3, 3, 3>>

\* The Runner of the first run has longer timeouts than the others.
MCMaxRunTime == <<2, 1, 1, 1>>
MCStaleAfter == <<2, 1, 1, 1>>

\* Bound: whatever else is started, the first generation is being provisioned.
WithProvisioning == begun[1] > 0 \/ \A run \in Runs : begun[run] = 0

\* Bound: beside a run of another account, or one whose payload does not open, either
\* an operation fails or a signal arrives, not both.
OneFailureBeside == begun[3] + begun[4] > 0 => faults + stops <= 1

\* Runner processes are interchangeable.
RunnerSymmetry == Permutations(Runners)
=============================================================================
