----------------------------- MODULE Published -----------------------------
(***************************************************************************)
(* What a published directory (ACME account state, a store object)        *)
(* promises: one current version that changes in one step and is read in   *)
(* one step, whole.  A change becomes settled; until then a power loss may *)
(* bring back any version that has been current since the last settled one.*)
(***************************************************************************)
CONSTANTS Versions, Readers, None, Unread
VARIABLES
  current,     \* the version readers get, None before the first
  unsettled,   \* the versions a power loss may leave behind
  got          \* what each reader's last read returned, Unread before

Init ==
  /\ current = None /\ unsettled = {None}
  /\ got = [r \in Readers |-> Unread]

Swap(v) ==
  /\ current' = v /\ unsettled' = unsettled \cup {v}
  /\ UNCHANGED got

Settle == unsettled' = {current} /\ UNCHANGED <<current, got>>

Read(r) == got' = [got EXCEPT ![r] = current] /\ UNCHANGED <<current, unsettled>>

Retry(r) == got' = [got EXCEPT ![r] = Unread] /\ UNCHANGED <<current, unsettled>>

PowerLoss ==
  /\ current' \in unsettled /\ unsettled' = {current'}
  /\ \E lost \in SUBSET Readers :
       got' = [r \in Readers |-> IF r \in lost THEN Unread ELSE got[r]]

Next ==
  \/ \E v \in Versions : Swap(v)
  \/ Settle \/ PowerLoss
  \/ \E r \in Readers : Read(r) \/ Retry(r)

Spec == Init /\ [][Next]_<<current, unsettled, got>>
=============================================================================
