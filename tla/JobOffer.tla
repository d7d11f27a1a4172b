------------------------------ MODULE JobOffer ------------------------------
(***************************************************************************)
(* What the exchange directory promises of a job offered to Runners that   *)
(* start on their own: it is taken by one execution or withdrawn by the    *)
(* Conductor, never both, and neither is ever undone.                      *)
(***************************************************************************)
CONSTANTS Runs, Executions

VARIABLES
  offered,  \* the runs whose job has been offered
  holders,  \* per run: the executions that have taken its job
  back      \* the runs whose job the Conductor has taken back

Init ==
  /\ offered = {}
  /\ holders = [r \in Runs |-> {}]
  /\ back = {}

Offer(r) ==
  /\ r \notin offered
  /\ offered' = offered \cup {r}
  /\ UNCHANGED <<holders, back>>

Open(r) == r \in offered /\ holders[r] = {} /\ r \notin back

Take(e, r) ==
  /\ Open(r)
  /\ holders' = [holders EXCEPT ![r] = {e}]
  /\ UNCHANGED <<offered, back>>

Withdraw(r) ==
  /\ Open(r)
  /\ back' = back \cup {r}
  /\ UNCHANGED <<offered, holders>>

Next == \E r \in Runs : \/ Offer(r) \/ Withdraw(r)
                        \/ \E e \in Executions : Take(e, r)

Spec == Init /\ [][Next]_<<offered, holders, back>>
=============================================================================
