------------------------------ MODULE Registry ------------------------------
(***************************************************************************)
(* The Conductor's registry: the rows the run lifecycle and the ACME       *)
(* account generations live in, and the transactions on them               *)
(* (internal/conductor/sqlite/sqlite.go, schema included).                 *)
(*                                                                         *)
(* The database has one connection, so transactions are serial: every      *)
(* action below is one committed transaction, its guard the rows it        *)
(* selects and the partial unique indexes it must respect.  A transaction  *)
(* that finds its guard false changes nothing and reports an error to its  *)
(* caller (ErrRunActive, ErrConflict, ErrRetired, ErrStaleRevision).       *)
(*                                                                         *)
(* Abstracted: times, names, owners, bindings other than the ACME binding, *)
(* and the text of audit events (only how many run.started and closing     *)
(* events a run has is kept).                                              *)
(***************************************************************************)
EXTENDS Integers, FiniteSets

CONSTANTS
  Targets,               \* target ids
  Policies,              \* policy ids
  Bindings,              \* ACME bindings
  ProvisioningBindings,  \* bindings whose CA takes an EAB
  TargetScopedBindings,  \* of those, the ones with one account per target
  NoScope,               \* the scope of a binding's own account ("")
  MaxRuns,               \* bound: runs ever created
  MaxGeneration,         \* bound: generations per account
  MaxRevision            \* bound: revisions of a target

ASSUME RegistryAssumption ==
  /\ Targets # {} /\ Policies # {} /\ Bindings # {}
  /\ ProvisioningBindings \subseteq Bindings
  /\ TargetScopedBindings \subseteq ProvisioningBindings
  /\ NoScope \notin Targets
  /\ MaxRuns \in Nat \ {0}
  /\ MaxGeneration \in Nat
  /\ MaxRevision \in Nat \ {0}

VARIABLES
  targets,    \* the targets table
  policies,   \* the policies table
  runs,       \* the runs table; status "none": no such row yet
  accounts,   \* the acme_accounts table; status "none": no such row yet
  audit       \* per run, its run.started and its closing audit events

registryVars == <<targets, policies, runs, accounts, audit>>

-----------------------------------------------------------------------------
RunIDs    == 1 .. MaxRuns
NoRun     == 0
Revisions == 1 .. MaxRevision
Gens      == 1 .. MaxGeneration

ActiveStatus   == {"queued", "starting", "running"}
TerminalStatus == {"succeeded", "failed", "cancelled"}
RunStatus      == ActiveStatus \cup TerminalStatus

\* The account a run of target t under binding b uses: (binding, scope).
AccountOf(b, t) == <<b, IF b \in TargetScopedBindings THEN t ELSE NoScope>>
Accounts        == {AccountOf(b, t) : b \in Bindings, t \in Targets}
NoAccount       == <<>>

AccountStatus ==
  {"provisioning", "active", "retired", "failed", "cancelled"}

TargetRow  == [enabled : BOOLEAN, retired : BOOLEAN,
               revision : Revisions, policy : Policies]
PolicyRow  == [enabled : BOOLEAN, acme : Bindings]
RunRow     == [target : Targets, revision : Revisions,
               status : RunStatus \cup {"none"}]
AccountRow == [status : AccountStatus \cup {"none"}, run : RunIDs \cup {NoRun}]
AuditRow   == [started : Nat, closed : Nat]

RegistryTypeOK ==
  /\ targets  \in [Targets -> TargetRow]
  /\ policies \in [Policies -> PolicyRow]
  /\ runs     \in [RunIDs -> RunRow]
  /\ accounts \in [Accounts -> [Gens -> AccountRow]]
  /\ audit    \in [RunIDs -> AuditRow]

\* Targets and policies are registered; no run and no account exists yet.
RegistryInit ==
  /\ targets \in [Targets -> [enabled : {TRUE}, retired : {FALSE},
                              revision : {1}, policy : Policies]]
  /\ policies \in [Policies -> [enabled : {TRUE}, acme : Bindings]]
  /\ runs = [r \in RunIDs |-> [target |-> CHOOSE t \in Targets : TRUE,
                               revision |-> 1, status |-> "none"]]
  /\ accounts = [k \in Accounts |->
                   [g \in Gens |-> [status |-> "none", run |-> NoRun]]]
  /\ audit = [r \in RunIDs |-> [started |-> 0, closed |-> 0]]

-----------------------------------------------------------------------------
(* Runs *)

Active(r)       == runs[r].status \in ActiveStatus
HasActiveRun(t) == \E r \in RunIDs : Active(r) /\ runs[r].target = t

\* Faulty variant of CreateRun: without runs_one_active_per_target.
CreateRunNoIndex(r, t, rev) ==
  /\ runs[r].status = "none"
  /\ ~targets[t].retired
  /\ runs' = [runs EXCEPT ![r] = [target |-> t, revision |-> rev,
                                  status |-> "queued"]]
  /\ UNCHANGED <<targets, policies, accounts, audit>>

\* Insert a queued run: refused for a retired target and, by the partial
\* unique index, while the target has an active run.  The id is drawn before
\* the transaction, so rows need not be inserted in id order.
CreateRun(r, t, rev) ==
  /\ runs[r].status = "none"
  /\ ~targets[t].retired
  /\ ~HasActiveRun(t)
  /\ runs' = [runs EXCEPT ![r] = [target |-> t, revision |-> rev,
                                  status |-> "queued"]]
  /\ UNCHANGED <<targets, policies, accounts, audit>>

RunRefused(t) == targets[t].retired \/ HasActiveRun(t)

OldestQueued(r) ==
  /\ runs[r].status = "queued"
  /\ \A q \in RunIDs : runs[q].status = "queued" => r <= q

\* Faulty variant of ClaimQueuedRun: any queued run.
ClaimAnyQueuedRun(r) ==
  /\ runs[r].status = "queued"
  /\ runs' = [runs EXCEPT ![r].status = "starting"]
  /\ UNCHANGED <<targets, policies, accounts, audit>>

\* Move the oldest queued run (the lowest id) to starting.
ClaimQueuedRun(r) ==
  /\ OldestQueued(r)
  /\ runs' = [runs EXCEPT ![r].status = "starting"]
  /\ UNCHANGED <<targets, policies, accounts, audit>>

\* The audit event written in the transaction that moves a run to status.
Audited(row, status) ==
  [started |-> row.started + (IF status = "running" THEN 1 ELSE 0),
   closed  |-> row.closed  + (IF status = "running" THEN 0 ELSE 1)]

\* Faulty variant of UpdateRun: no expected-status guard.
UpdateRunUnguarded(r, expected, status) ==
  /\ runs' = [runs EXCEPT ![r].status = status]
  /\ audit' = [audit EXCEPT ![r] = Audited(@, status)]
  /\ UNCHANGED <<targets, policies, accounts>>

\* Move a run to status if the row still holds the expected one; otherwise
\* the caller gets ErrConflict.
UpdateRun(r, expected, status) ==
  /\ runs[r].status = expected
  /\ runs' = [runs EXCEPT ![r].status = status]
  /\ audit' = [audit EXCEPT ![r] = Audited(@, status)]
  /\ UNCHANGED <<targets, policies, accounts>>

-----------------------------------------------------------------------------
(* ACME account generations *)

Pending(k, g)    == accounts[k][g].status = "provisioning"
Unattached(k, g) == Pending(k, g) /\ accounts[k][g].run = NoRun
Attached(k, g, r) == Pending(k, g) /\ accounts[k][g].run = r
HasActiveGen(k)  == \E g \in Gens : accounts[k][g].status = "active"

SetAccount(k, g, row) == accounts' = [accounts EXCEPT ![k][g] = row]

\* Faulty variant of the request: does not look at the target.
RequestForRetired(k, g) ==
  /\ \A h \in Gens : accounts[k][h].status = "none" <=> h >= g
  /\ \A h \in Gens : ~Pending(k, h)
  /\ SetAccount(k, g, [status |-> "provisioning", run |-> NoRun])
  /\ UNCHANGED <<targets, policies, runs, audit>>

\* A new pending generation: the highest recorded plus one, and no other
\* pending generation (acme_accounts_one_pending), attached or not.
RequestACMEAccountProvisioning(k, g) ==
  /\ k[2] \in Targets => ~targets[k[2]].retired
  /\ \A h \in Gens : accounts[k][h].status = "none" <=> h >= g
  /\ \A h \in Gens : ~Pending(k, h)
  /\ SetAccount(k, g, [status |-> "provisioning", run |-> NoRun])
  /\ UNCHANGED <<targets, policies, runs, audit>>

\* Attach the pending generation no run carries to run r.
ClaimACMEAccountProvisioning(k, g, r) ==
  /\ Unattached(k, g)
  /\ SetAccount(k, g, [status |-> "provisioning", run |-> r])
  /\ UNCHANGED <<targets, policies, runs, audit>>

\* Detach the generation if it is still pending and attached to r; the
\* statement matches no row, and succeeds, otherwise.
ReleaseACMEAccountProvisioning(k, g, r) ==
  /\ accounts' = IF Attached(k, g, r)
                   THEN [accounts EXCEPT ![k][g].run = NoRun]
                   ELSE accounts
  /\ UNCHANGED <<targets, policies, runs, audit>>

\* Faulty variant of the completion: retires the previous active generation
\* whatever the outcome.
CompleteRetiringAlways(k, g, r, registered) ==
  /\ Attached(k, g, r)
  /\ accounts' = [accounts EXCEPT ![k] =
       [h \in Gens |->
          CASE h = g -> [status |-> IF registered THEN "active" ELSE "failed",
                         run |-> NoRun]
            [] h # g /\ @[h].status = "active" -> [@[h] EXCEPT !.status = "retired"]
            [] OTHER -> @[h]]]
  /\ UNCHANGED <<targets, policies, runs, audit>>

\* Resolve an attached generation, in one transaction: when it was
\* registered the previous active generation is retired and this one
\* activated, otherwise this one is burnt.  ErrConflict (nothing changes)
\* unless it is pending and attached to r.
CompleteACMEAccountProvisioning(k, g, r, registered) ==
  /\ Attached(k, g, r)
  /\ accounts' = [accounts EXCEPT ![k] =
       [h \in Gens |->
          CASE h = g -> [status |-> IF registered THEN "active" ELSE "failed",
                         run |-> NoRun]
            [] h # g /\ registered /\ @[h].status = "active" ->
                 [@[h] EXCEPT !.status = "retired"]
            [] OTHER -> @[h]]]
  /\ UNCHANGED <<targets, policies, runs, audit>>

\* Faulty variant of the cancellation: also withdraws an attached request.
CancelAttachedProvisioning(k, g) ==
  /\ Pending(k, g)
  /\ SetAccount(k, g, [status |-> "cancelled", run |-> NoRun])
  /\ UNCHANGED <<targets, policies, runs, audit>>

\* Withdraw a pending generation no run carries.
CancelACMEAccountProvisioning(k, g) ==
  /\ Unattached(k, g)
  /\ SetAccount(k, g, [status |-> "cancelled", run |-> NoRun])
  /\ UNCHANGED <<targets, policies, runs, audit>>

-----------------------------------------------------------------------------
(* Targets and policies *)

\* Replace a target's mutable fields; the compare-and-set on the revision
\* its handler read makes read and write one step.
UpdateTarget(t, enabled, policy) ==
  /\ ~targets[t].retired
  /\ targets[t].revision < MaxRevision
  /\ targets' = [targets EXCEPT ![t] = [enabled |-> enabled, retired |-> FALSE,
                                        revision |-> @.revision + 1,
                                        policy |-> policy]]
  /\ UNCHANGED <<policies, runs, accounts, audit>>

\* Take a disabled target with no active run out of service for good and
\* withdraw every pending request for an account of its own.
RetireTarget(t) ==
  /\ ~targets[t].retired /\ ~targets[t].enabled
  /\ targets[t].revision < MaxRevision
  /\ ~HasActiveRun(t)
  /\ targets' = [targets EXCEPT ![t].retired = TRUE, ![t].revision = @ + 1]
  /\ accounts' = [k \in Accounts |-> [g \in Gens |->
       IF k[2] = t /\ Pending(k, g) THEN [status |-> "cancelled", run |-> NoRun]
                                    ELSE accounts[k][g]]]
  /\ UNCHANGED <<policies, runs, audit>>

UpdatePolicy(p, enabled, acme) ==
  /\ policies' = [policies EXCEPT ![p] = [enabled |-> enabled, acme |-> acme]]
  /\ UNCHANGED <<targets, runs, accounts, audit>>
=============================================================================
