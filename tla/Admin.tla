------------------------------- MODULE Admin -------------------------------
(***************************************************************************)
(* Targets, policies, the names targets own and their consumer ledgers:    *)
(* the administrative API's handlers (internal/conductor/api) over the     *)
(* registry's transactions (internal/conductor/sqlite).                    *)
(*                                                                         *)
(* A handler is a session: it reads, checks what it read, and writes in    *)
(* one transaction.  Only the transaction is atomic; other sessions commit *)
(* between the reads and the write.  execute (internal/conductor/scheduler)*)
(* is one more reader: it builds a job from a target and a policy it reads *)
(* one after the other.                                                    *)
(*                                                                         *)
(* An optional field of a request is a set: empty when omitted.            *)
(***************************************************************************)
EXTENDS Names

CONSTANTS
  Policies, Targets, Handlers,   \* identifiers
  PolicyInputs,      \* the policy bodies a request may carry
  TargetInputs,      \* the target bodies a request may carry
  Bindings,          \* the Conductor's binding names, per kind
  Trusted,           \* the Runner's own authorization policy
  NoRow,             \* no such row
  MaxNames,          \* v1alpha1.MaxNames, 100 in the code
  MaxRevision,       \* bound: writes of one target
  MaxVersion         \* bound: writes of one consumer ledger

NormalizeAdditionalNames(more) == [i \in DOMAIN more |-> NormalizeFQDN(more[i])]

\* The columns of a policy's row and of a target's.
PolicyRow ==
  [name : {""} \cup UNION {in.name : in \in PolicyInputs}, acme : {in.acme : in \in PolicyInputs},
   suffixes : {{NormalizeSuffix(x) : x \in in.suffixes} : in \in PolicyInputs},
   allowWildcard : {in.allowWildcard : in \in PolicyInputs},
   maxSANs : 1..MaxNames, enabled : {TRUE} \cup UNION {in.enabled : in \in PolicyInputs}]

TargetRow ==
  [fqdn : {NormalizeFQDN(in.fqdn) : in \in TargetInputs}, policy : Policies,
   additional : {NormalizeAdditionalNames(in.additional) : in \in TargetInputs},
   bindings : {in.bindings : in \in TargetInputs},
   enabled : BOOLEAN, revision : Nat, retired : BOOLEAN]

ASSUME AdminAssumptions ==
  /\ NoRow \notin Policies \cup Targets \cup PolicyRow \cup TargetRow
  /\ \A in \in TargetInputs : in.enabled \in BOOLEAN
  /\ \A in \in PolicyInputs : in.allowWildcard \in BOOLEAN /\ in.enabled \subseteq BOOLEAN
  /\ DOMAIN Bindings = {"acme", "dns", "store"}
  /\ DOMAIN Trusted = {"suffixes", "allowWildcard", "maxNames", "allowed"}
  /\ MaxNames \in Nat \ {0} /\ MaxRevision \in Nat \ {0} /\ MaxVersion \in Nat

\* Names and suffixes are strings.  A Runner starts only with suffixes in normal form
\* and a maxNames of at most MaxNames, where 0 stands for 1 (Authorization.validate).
ASSUME NameAssumptions ==
  /\ \A in \in TargetInputs : in.fqdn \in Seq(Characters) /\ in.additional \in Seq(Seq(Characters))
  /\ \A in \in PolicyInputs : \A s \in in.suffixes : s \in Seq(Characters)
  /\ \A s \in Trusted.suffixes : s \in Seq(Characters) /\ NormalizeSuffix(s) = s
  /\ Trusted.maxNames \in 0..MaxNames

VARIABLES
  policies,    \* policies table: id -> row or NoRow
  targets,     \* targets table: id -> row or NoRow
  owner,       \* target_names table: the set of <<name, target>>
  consumers,   \* target_consumers.version, 0 before the first write
  session,     \* per handler: what it has read so far
  run,         \* execute: the target it read, NoRow when idle
  job,         \* the JobSpec of the last run, NoRow unless one was launched
  issued,      \* the job a Runner went to work on
  raced        \* history: targets whose last check was overtaken by another write

vars == <<policies, targets, owner, consumers, session, run, job, issued, raced>>

Idle == [at |-> "idle", policy |-> NoRow, target |-> NoRow, row |-> NoRow,
         read |-> NoRow, overtaken |-> FALSE]

InService(t) == targets[t] # NoRow /\ ~targets[t].retired

NamesOf(row) == AllNames(row.fqdn, row.additional)

\* checkNames: whether a target's names satisfy a policy.
CheckNames(row, p) == NamesAllowed(NamesOf(row), p.suffixes, p.allowWildcard, p.maxSANs)

Given(option, default) == IF option = {} THEN default ELSE CHOOSE v \in option : TRUE

---------------------------------------------------------------------------
(* Requests. *)

AdminInit ==
  /\ policies = [p \in Policies |-> NoRow]
  /\ targets = [t \in Targets |-> NoRow]
  /\ owner = {}
  /\ consumers = [t \in Targets |-> 0]
  /\ session = [h \in Handlers |-> Idle]
  /\ run = NoRow /\ job = NoRow /\ issued = NoRow /\ raced = {}

\* applyPolicyInput refuses a body: suffixes missing or malformed, too many names.
PolicyInputValid(in, was) ==
  /\ in.suffixes # {}
  /\ \A s \in in.suffixes : NormalizeSuffix(s) # Refused
  /\ \A s1, s2 \in in.suffixes : NormalizeSuffix(s1) = NormalizeSuffix(s2) => s1 = s2
  /\ in.acme \in Bindings.acme
  /\ Given(in.maxSANs, was.maxSANs) \in 1..MaxNames

\* applyPolicyInput: the row written, fields left out taken from the row read.
ApplyPolicyInput(in, was) ==
  [name          |-> Given(in.name, was.name),
   acme          |-> in.acme,
   suffixes      |-> {NormalizeSuffix(s) : s \in in.suffixes},
   allowWildcard |-> in.allowWildcard,
   maxSANs       |-> Given(in.maxSANs, was.maxSANs),
   enabled       |-> Given(in.enabled, was.enabled)]

NewPolicy == [name |-> "", maxSANs |-> 1, enabled |-> TRUE]

Fold(name) == IF name = "N" THEN "n" ELSE name

\* checkPolicyName: another policy has the name, ignoring case.
PolicyNameTaken(p, name) ==
  name # "" /\ \E q \in Policies \ {p} :
                  policies[q] # NoRow /\ Fold(policies[q].name) = Fold(name)

\* The other sessions learn, in history only, that what they checked has changed:
\* the policy a target was checked against, ...
PolicyChanged(h, p) ==
  [g \in Handlers |->
     IF g = h THEN Idle
     ELSE IF session[g].at \in {"insertTarget", "writeTarget"} /\ session[g].policy = p
       THEN [session[g] EXCEPT !.overtaken = TRUE] ELSE session[g]]

\* ... or the targets a policy edit was checked against.
TargetChanged(h, p) ==
  [g \in Handlers |->
     IF g = h THEN Idle
     ELSE IF session[g].at = "writePolicy" /\ session[g].policy = p
       THEN [session[g] EXCEPT !.overtaken = TRUE] ELSE session[g]]

CreatePolicy(h, p, in) ==
  /\ session[h].at = "idle" /\ policies[p] = NoRow
  /\ PolicyInputValid(in, NewPolicy)
  /\ LET row == ApplyPolicyInput(in, NewPolicy)
     IN /\ ~PolicyNameTaken(p, row.name)
        /\ policies' = [policies EXCEPT ![p] = row]
  /\ UNCHANGED <<targets, owner, consumers, session, run, job, issued, raced>>

\* handleUpdatePolicy: read the policy and apply the body to it ...
ReadPolicy(h, p, in) ==
  /\ session[h].at = "idle" /\ policies[p] # NoRow
  /\ PolicyInputValid(in, policies[p])
  /\ session' = [session EXCEPT ![h] =
       [Idle EXCEPT !.at = "listTargets", !.policy = p, !.read = policies[p],
                    !.row = ApplyPolicyInput(in, policies[p])]]
  /\ UNCHANGED <<policies, targets, owner, consumers, run, job, issued, raced>>

Offending(p, row) ==
  {t \in Targets : InService(t) /\ targets[t].policy = p /\ ~CheckNames(targets[t], row)}

\* ... list the targets under it and refuse if one would no longer satisfy it ...
CheckTargets(h) ==
  LET s == session[h]
  IN /\ s.at = "listTargets"
     /\ session' = [session EXCEPT ![h] =
          IF Offending(s.policy, s.row) = {} THEN [s EXCEPT !.at = "writePolicy"] ELSE Idle]
     /\ UNCHANGED <<policies, targets, owner, consumers, run, job, issued, raced>>

\* ... and overwrite the row (UpdatePolicy).
WritePolicy(h) ==
  LET s == session[h]
      under == {t \in Targets : targets[t] # NoRow /\ targets[t].policy = s.policy}
  IN /\ s.at = "writePolicy"
     /\ \/ /\ ~PolicyNameTaken(s.policy, s.row.name)
           /\ policies' = [policies EXCEPT ![s.policy] = s.row]
           /\ session' = PolicyChanged(h, s.policy)
           /\ raced' = IF s.overtaken THEN raced \cup under ELSE raced \ under
        \/ /\ PolicyNameTaken(s.policy, s.row.name)
           /\ session' = [session EXCEPT ![h] = Idle]
           /\ UNCHANGED <<policies, raced>>
     /\ UNCHANGED <<targets, owner, consumers, run, job, issued>>

---------------------------------------------------------------------------
(* Targets. *)

\* The names a request adds to the FQDN are few enough and have a normal form.
AdditionalValid(more) ==
  Len(more) <= MaxNames - 1 /\ \A i \in DOMAIN more : NormalizeFQDN(more[i]) # Refused

CheckBindings(in) == \A kind \in {"dns", "store"} : in.bindings[kind] \in Bindings[kind]

\* checkPolicy: the target's names satisfy the policy as it is now.
CheckPolicy(p, row) == policies[p] # NoRow /\ CheckNames(row, policies[p])

\* handleCreateTarget up to its write.
CheckNewTarget(h, t, in, p) ==
  /\ session[h].at = "idle" /\ targets[t] = NoRow
  /\ \A g \in Handlers : session[g].target # t     \* identifiers are fresh
  /\ NormalizeFQDN(in.fqdn) # Refused /\ AdditionalValid(in.additional) /\ CheckBindings(in)
  /\ LET row == [fqdn |-> NormalizeFQDN(in.fqdn), policy |-> p,
                 additional |-> NormalizeAdditionalNames(in.additional),
                 bindings |-> in.bindings, enabled |-> in.enabled, revision |-> 1, retired |-> FALSE]
     IN /\ CheckPolicy(p, row)
        /\ session' = [session EXCEPT ![h] =
             [Idle EXCEPT !.at = "insertTarget", !.policy = p, !.target = t, !.row = row]]
  /\ UNCHANGED <<policies, targets, owner, consumers, run, job, issued, raced>>

Taken(t, names) == \E i \in DOMAIN names : \E u \in Targets \ {t} : <<names[i], u>> \in owner

\* claimNames after the target's other rows are dropped.
ClaimNames(t, names) ==
  {o \in owner : o[2] # t} \cup {<<names[i], t>> : i \in DOMAIN names}

\* What a target write does to the history: an unovertaken one has just been checked.
Rechecked(t, s) == IF s.overtaken THEN raced \cup {t} ELSE raced \ {t}

\* CreateTarget: insert and claim every name, or nothing.
InsertTarget(h) ==
  LET s == session[h]
      conflict == \/ Taken(s.target, NamesOf(s.row))
                  \/ \E u \in Targets : InService(u) /\ targets[u].fqdn = s.row.fqdn
  IN /\ s.at = "insertTarget"
     /\ \/ /\ ~conflict
           /\ targets' = [targets EXCEPT ![s.target] = s.row]
           /\ owner' = ClaimNames(s.target, NamesOf(s.row))
           /\ session' = TargetChanged(h, s.policy)
           /\ raced' = Rechecked(s.target, s)
        \/ /\ conflict
           /\ session' = [session EXCEPT ![h] = Idle]
           /\ UNCHANGED <<targets, owner, raced>>
     /\ UNCHANGED <<policies, consumers, run, job, issued>>

\* handleUpdateTarget: the caller's revision is the current one; the names, the
\* policy and the enabled flag may change, the FQDN never.
ReadTarget(h, t, in, p) ==
  /\ session[h].at = "idle" /\ InService(t)
  /\ targets[t].revision < MaxRevision
  /\ AdditionalValid(in.additional) /\ CheckBindings(in)
  /\ session' = [session EXCEPT ![h] =
       [Idle EXCEPT !.at = "checkPolicy", !.policy = p, !.target = t, !.read = targets[t],
                    !.row = [targets[t] EXCEPT !.additional = NormalizeAdditionalNames(in.additional),
                                               !.bindings = in.bindings, !.policy = p,
                                               !.enabled = in.enabled]]]
  /\ UNCHANGED <<policies, targets, owner, consumers, run, job, issued, raced>>

CheckTarget(h) ==
  LET s == session[h]
  IN /\ s.at = "checkPolicy"
     /\ session' = [session EXCEPT ![h] =
          IF CheckPolicy(s.policy, s.row)
            THEN [s EXCEPT !.at = "writeTarget"] ELSE Idle]
     /\ UNCHANGED <<policies, targets, owner, consumers, run, job, issued, raced>>

\* handleSetTargetEnabled: read, flip the flag; the policy is not consulted.
ReadForEnable(h, t) ==
  /\ session[h].at = "idle" /\ InService(t)
  /\ targets[t].revision < MaxRevision
  /\ session' = [session EXCEPT ![h] =
       [Idle EXCEPT !.at = "writeEnabled", !.target = t, !.read = targets[t],
                    !.row = [targets[t] EXCEPT !.enabled = ~@]]]
  /\ UNCHANGED <<policies, targets, owner, consumers, run, job, issued, raced>>

\* Faulty variant of UpdateTarget: the revision is checked but not raised.
UpdateTargetSameRevision(t, row, expected) ==
  /\ InService(t) /\ targets[t].revision = expected
  /\ ~Taken(t, NamesOf(row))
  /\ targets' = [targets EXCEPT ![t] = row]
  /\ owner' = ClaimNames(t, NamesOf(row))

\* UpdateTarget: only if the row is still at the revision read and in service.
UpdateTarget(t, row, expected) ==
  /\ InService(t) /\ targets[t].revision = expected
  /\ ~Taken(t, NamesOf(row))
  /\ targets' = [targets EXCEPT ![t] = [row EXCEPT !.revision = expected + 1]]
  /\ owner' = ClaimNames(t, NamesOf(row))

WriteTarget(h) ==
  LET s == session[h]
  IN /\ s.at \in {"writeTarget", "writeEnabled"}
     /\ \/ /\ UpdateTarget(s.target, s.row, s.read.revision)
           /\ session' = TargetChanged(h, s.policy)
           /\ raced' = IF s.at = "writeTarget" THEN Rechecked(s.target, s) ELSE raced
        \/ /\ ~(InService(s.target) /\ targets[s.target].revision = s.read.revision
                  /\ ~Taken(s.target, NamesOf(s.row)))
           /\ session' = [session EXCEPT ![h] = Idle]
           /\ UNCHANGED <<targets, owner, raced>>
     /\ UNCHANGED <<policies, consumers, run, job, issued>>

\* Faulty variant of RetireTarget: the names stay claimed.
RetireTargetHoldingNames(t) ==
  /\ InService(t) /\ ~targets[t].enabled
  /\ targets' = [targets EXCEPT ![t].retired = TRUE, ![t].revision = @ + 1]
  /\ UNCHANGED <<owner, policies, consumers, session, run, job, issued, raced>>

\* RetireTarget: a disabled target leaves service for good and releases its
\* names.  (Runs and account generations: module Registry.)
RetireTarget(t) ==
  /\ InService(t) /\ ~targets[t].enabled
  /\ targets' = [targets EXCEPT ![t].retired = TRUE, ![t].revision = @ + 1]
  /\ owner' = {o \in owner : o[2] # t}
  /\ UNCHANGED <<policies, consumers, session, run, job, issued, raced>>

\* Faulty variant of SetTargetConsumers: a retired target's ledger may be written.
SetTargetConsumersAnytime(t, version) ==
  /\ targets[t] # NoRow /\ consumers[t] = version
  /\ consumers' = [consumers EXCEPT ![t] = @ + 1]

\* The ledger has a version of its own; the target's row is not touched.
SetTargetConsumers(t, version) ==
  /\ InService(t) /\ consumers[t] = version
  /\ consumers' = [consumers EXCEPT ![t] = @ + 1]

\* version is what the caller last saw.
PutConsumers(t, version) ==
  /\ version < MaxVersion /\ SetTargetConsumers(t, version)
  /\ UNCHANGED <<policies, targets, owner, session, run, job, issued, raced>>

---------------------------------------------------------------------------
(* execute reads the target, then its policy, and validates what it built. *)

ExecuteReads(t) ==
  /\ run = NoRow /\ InService(t) /\ targets[t].enabled
  /\ run' = targets[t] /\ job' = NoRow /\ issued' = NoRow
  /\ UNCHANGED <<policies, targets, owner, consumers, session, raced>>

NormalizedFQDN(name) == name # Refused /\ NormalizeFQDN(name) = name

PolicySpecValid(p) ==
  /\ p.suffixes # {} /\ \A s \in p.suffixes : s # Refused /\ NormalizeSuffix(s) = s
  /\ p.maxSANs \in 1..MaxNames

\* JobSpec.Validate: names and policy snapshot of one document agree.
JobSpecValid(names, p) ==
  /\ Len(names) <= MaxNames /\ \A i \in DOMAIN names : NormalizedFQDN(names[i])
  /\ CheckDistinct(names)
  /\ PolicySpecValid(p)
  /\ NamesAllowed(names, p.suffixes, p.allowWildcard, p.maxSANs)

BuildJobSpec(t, p) ==
  [names |-> NamesOf(t), snapshot |-> p,
   bindings |-> [acme |-> p.acme, dns |-> t.bindings.dns, store |-> t.bindings.store]]

\* BuildJobSpec from the target read and the policy as it is now; a document that
\* does not validate is audited and never launched.
ExecuteLaunches ==
  LET p == policies[run.policy]
  IN /\ run # NoRow
     /\ job' = IF p.enabled /\ JobSpecValid(NamesOf(run), p)
                 THEN BuildJobSpec(run, p) ELSE NoRow
     /\ run' = NoRow
     /\ UNCHANGED <<policies, targets, owner, consumers, session, issued, raced>>

\* reconcile starts with the Runner's own policy; the snapshot in the job is not part of it.
RunnerAuthorizes ==
  /\ job # NoRow /\ issued = NoRow
  /\ Authorize(job.names, job.bindings, Trusted)
  /\ issued' = job
  /\ UNCHANGED <<policies, targets, owner, consumers, session, run, job, raced>>

Next ==
  \/ \E h \in Handlers :
       \/ \E p \in Policies, in \in PolicyInputs : CreatePolicy(h, p, in) \/ ReadPolicy(h, p, in)
       \/ CheckTargets(h) \/ WritePolicy(h)
       \/ \E t \in Targets, in \in TargetInputs, p \in Policies :
            CheckNewTarget(h, t, in, p) \/ ReadTarget(h, t, in, p)
       \/ InsertTarget(h) \/ CheckTarget(h) \/ WriteTarget(h)
       \/ \E t \in Targets : ReadForEnable(h, t)
  \/ \E t \in Targets : RetireTarget(t) \/ ExecuteReads(t)
  \/ \E t \in Targets, v \in 0..MaxVersion : PutConsumers(t, v)
  \/ ExecuteLaunches \/ RunnerAuthorizes

Spec == AdminInit /\ [][Next]_vars

---------------------------------------------------------------------------
(* Properties. *)

IsPolicy(r) ==
  /\ r \in PolicyRow
  /\ r.suffixes # {} /\ \A s \in r.suffixes : NormalizeSuffix(s) = s /\ s # Refused
  /\ r.maxSANs \in 1..MaxNames /\ r.allowWildcard \in BOOLEAN /\ r.enabled \in BOOLEAN
IsTarget(r) ==
  /\ r \in TargetRow /\ r.revision \in 1..MaxRevision + 1
  /\ \A i \in DOMAIN NamesOf(r) : NormalizeFQDN(NamesOf(r)[i]) = NamesOf(r)[i]
  /\ policies[r.policy] # NoRow

\* Every stored row is well formed: names and suffixes are kept in normal form,
\* a target's policy exists, and at most MaxNames names are allowed.
TypeOK ==
  /\ \A p \in Policies : policies[p] # NoRow => IsPolicy(policies[p])
  /\ \A t \in Targets : targets[t] # NoRow => IsTarget(targets[t])
  /\ \A o \in owner : o[2] \in Targets
  /\ consumers \in [Targets -> 0..MaxVersion]
  /\ raced \subseteq Targets

\* The reference: every name lies, label by label, at or under a suffix of the
\* policy, a wildcard only where wildcards are allowed, no name twice, not too many.
Allowed(names, p) ==
  /\ Cardinality({names[i] : i \in DOMAIN names}) = Len(names)
  /\ Len(names) <= p.maxSANs
  /\ \A i \in DOMAIN names :
       /\ LabelsOf(names[i])[1] = <<Wildcard>> => p.allowWildcard
       /\ \E s \in p.suffixes :
            UnderSuffix(IF LabelsOf(names[i])[1] = <<Wildcard>>
                          THEN SubSeq(names[i], 3, Len(names[i])) ELSE names[i], s)

\* The only targets outside their policy are those written while the other side
\* was between its check and its write.
CoveredUnlessRaced ==
  \A t \in Targets \ raced :
    InService(t) => Allowed(NamesOf(targets[t]), policies[targets[t].policy])

\* Whatever was raced, no job leaves the Conductor with a name that the policy
\* snapshot in the same document does not allow, and no Runner works on a name or
\* with a binding outside its own policy, whatever the Conductor's have become since.
JobWithinPolicy ==
  /\ job # NoRow => Allowed(job.names, job.snapshot)
  /\ issued # NoRow =>
       /\ Allowed(issued.names, [suffixes |-> Trusted.suffixes, allowWildcard |-> Trusted.allowWildcard,
                                maxSANs |-> IF Trusted.maxNames = 0 THEN 1 ELSE Trusted.maxNames])
       /\ \A kind \in DOMAIN issued.bindings : issued.bindings[kind] \in Trusted.allowed[kind]

\* target_names holds exactly the names of the targets in service, and no name
\* belongs to two of them: retiring releases all, editing releases what it drops.
NamesExclusive ==
  /\ owner = UNION {{<<NamesOf(targets[t])[i], t>> : i \in DOMAIN NamesOf(targets[t])} :
                      t \in {u \in Targets : InService(u)}}
  /\ \A o1, o2 \in owner : o1[1] = o2[1] => o1 = o2

\* An edit of a target is only ever applied to the row it was made from: no edit
\* is lost under another, nor revives a retired target.
EditOnRowRead ==
  [][\A h \in Handlers :
       LET s == session[h]
       IN s.at \in {"writeTarget", "writeEnabled"} /\ session'[h] = Idle
            /\ targets' # targets => s.read = targets[s.target]]_vars

\* Once retired, a target's row and its consumer ledger never change again.
RetiredIsFinal ==
  [][\A t \in Targets : targets[t] # NoRow /\ targets[t].retired =>
       targets'[t] = targets[t] /\ consumers'[t] = consumers[t]]_vars

=============================================================================
