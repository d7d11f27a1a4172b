------------------------------ MODULE MCAdmin ------------------------------
(***************************************************************************)
(* Instances of Admin for TLC: the request bodies, and the symmetries.     *)
(***************************************************************************)
EXTENDS Admin, TLC

ab == <<"a", ".", "b">>
xab == <<"x", ".", "a", ".", "b">>

MCBindings == [acme |-> {"le", "test"}, dns |-> {"zone"}, store |-> {"vault"}]
Usual == [dns |-> "zone", store |-> "vault"]

\* The Runner does less than the Conductor's policies allow.
MCTrusted ==
  [suffixes |-> {xab}, allowWildcard |-> FALSE, maxNames |-> 2,
   allowed |-> [MCBindings EXCEPT !.acme = {"le"}]]

\* Two suffixes nested in one another; some bodies leave fields out.
MCPolicyInputs ==
  {[name |-> {}, suffixes |-> {<<"A", ".", "b", ".">>}, allowWildcard |-> TRUE, acme |-> "le",
    maxSANs |-> {2}, enabled |-> {TRUE}],
   [name |-> {"n"}, suffixes |-> {xab}, allowWildcard |-> FALSE, acme |-> "test",
    maxSANs |-> {}, enabled |-> {}]}

\* The suffix itself, names under it, a wildcard, and a name that ends in the
\* suffix's characters without lying under it.
MCTargetInputs ==
  {[fqdn |-> <<" ", "x", ".", "A", ".", "b">>, additional |-> <<>>, enabled |-> TRUE,
    bindings |-> Usual],
   [fqdn |-> <<"*", ".", "x", ".", "a", ".", "b">>, additional |-> <<xab>>, enabled |-> FALSE,
    bindings |-> Usual],
   [fqdn |-> <<"x", "a", ".", "b">>, additional |-> <<ab>>, enabled |-> TRUE,
    bindings |-> Usual]}

SecondPolicy == \A p \in Policies : policies[p] # NoRow
SecondTarget == \A t \in Targets : targets[t] # NoRow
Ledger == \E t \in Targets : consumers[t] # 0
Execution == run # NoRow \/ job # NoRow
Busy == {h \in Handlers : session[h].at # "idle"}

\* Bound: at most one of a second policy, a second target, a ledger entry and an
\* execution, or a second policy and an execution beside a single handler.
OneThingMore ==
  \/ Cardinality({i \in 1..4 : <<SecondPolicy, SecondTarget, Ledger, Execution>>[i]}) <= 1
  \/ SecondPolicy /\ Execution /\ ~SecondTarget /\ ~Ledger /\ Cardinality(Busy) <= 1

AdminSymmetry == Permutations(Handlers) \cup Permutations(Targets) \cup Permutations(Policies)
=============================================================================
