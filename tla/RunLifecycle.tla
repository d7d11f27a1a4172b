---------------------------- MODULE RunLifecycle ----------------------------
(***************************************************************************)
(* What the registry and the scheduler together promise about runs: a run  *)
(* is requested for a target that has no other active one, the oldest      *)
(* queued run is started first, and it ends once.  Who does each of these  *)
(* (the loop, a handler, an executor, a sweep, a restarted process) and    *)
(* how often a write is tried is left to the implementation.               *)
(***************************************************************************)
EXTENDS Integers

CONSTANTS Targets, Runs

VARIABLES
  status,    \* per run: "none" before it exists
  owner      \* per run: its target, once it exists

InFlight == {"queued", "starting", "running"}
Ended    == {"succeeded", "failed", "cancelled"}

Busy(t) == \E r \in Runs : status[r] \in InFlight /\ owner[r] = t

Init ==
  /\ status = [r \in Runs |-> "none"]
  /\ owner \in [Runs -> Targets]

\* Before a run exists its target may be chosen at will.
Request(r, t) ==
  /\ status[r] = "none"
  /\ ~Busy(t)
  /\ status' = [status EXCEPT ![r] = "queued"]
  /\ owner' = [owner EXCEPT ![r] = t]

Move(r, from, to) ==
  /\ status[r] \in from
  /\ status' = [status EXCEPT ![r] = to]
  /\ UNCHANGED owner

Claim(r) ==
  /\ Move(r, {"queued"}, "starting")
  /\ \A q \in Runs : status[q] = "queued" => r <= q

Begin(r) == Move(r, {"starting"}, "running")

\* A queued run can only be withdrawn; a started one ends with any outcome,
\* also when its start was never recorded.
End(r) ==
  \/ Move(r, {"queued"}, "cancelled")
  \/ \E s \in Ended : Move(r, {"starting", "running"}, s)

Next == \E r \in Runs : \/ \E t \in Targets : Request(r, t)
                        \/ Claim(r) \/ Begin(r) \/ End(r)

Spec == Init /\ [][Next]_<<status, owner>>
=============================================================================
