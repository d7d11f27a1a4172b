--------------------------- MODULE AccountProofs ---------------------------
(***************************************************************************)
(* Theorems about the account generations, the retirement of targets, the  *)
(* Runners and the re-reads of scheduler.record, for every value of the    *)
(* constants of Scheduler.                                                 *)
(***************************************************************************)
EXTENDS SchedulerProofs

-----------------------------------------------------------------------------
(* What each transaction does to the rows of acme_accounts *)

LEMMA RequestEffect ==
  ASSUME RegistryTypeOK, NEW k \in Accounts, NEW g \in Gens,
         RequestACMEAccountProvisioning(k, g)
  PROVE  /\ accounts'[k][g].status = "provisioning" /\ accounts'[k][g].run = NoRun
         /\ \A h \in Gens : accounts[k][h].status = "none" <=> h >= g
         /\ k[2] \in Targets => ~targets[k[2]].retired
         /\ \A j \in Accounts, h \in Gens :
              j # k \/ h # g => accounts'[j][h] = accounts[j][h]
         /\ UNCHANGED <<targets, policies, runs, audit>>
BY DEF RegistryTypeOK, RequestACMEAccountProvisioning, SetAccount

LEMMA ClaimEffect ==
  ASSUME RegistryTypeOK, NEW k, NEW g, NEW r, ClaimACMEAccountProvisioning(k, g, r)
  PROVE  /\ k \in Accounts /\ g \in Gens =>
              /\ accounts'[k][g].status = "provisioning" /\ accounts'[k][g].run = r
              /\ accounts[k][g].status = "provisioning" /\ accounts[k][g].run = NoRun
         /\ \A j \in Accounts, h \in Gens :
              j # k \/ h # g => accounts'[j][h] = accounts[j][h]
         /\ UNCHANGED <<targets, policies, runs, audit>>
BY DEF RegistryTypeOK, ClaimACMEAccountProvisioning, SetAccount, Unattached, Pending

LEMMA ReleaseEffect ==
  ASSUME RegistryTypeOK, NEW k, NEW g, NEW r, ReleaseACMEAccountProvisioning(k, g, r)
  PROVE  /\ \A j \in Accounts, h \in Gens :
              /\ accounts'[j][h].status = accounts[j][h].status
              /\ \/ accounts'[j][h] = accounts[j][h]
                 \/ j = k /\ h = g /\ Attached(k, g, r) /\ accounts'[j][h].run = NoRun
         /\ UNCHANGED <<targets, policies, runs, audit>>
<1> USE DEF RegistryTypeOK, ReleaseACMEAccountProvisioning
<1>1. CASE Attached(k, g, r) /\ k \in Accounts
  <2>1. accounts[k] \in [Gens -> AccountRow]
    BY <1>1
  <2>2. accounts' = [accounts EXCEPT ![k] = [accounts[k] EXCEPT ![g].run = NoRun]]
    BY <1>1
  <2>3. accounts'[k] = [accounts[k] EXCEPT ![g].run = NoRun]
    BY <1>1, <2>2
  <2>4. \A j \in Accounts \ {k} : accounts'[j] = accounts[j]
    BY <2>2
  <2>5. \A h \in Gens : /\ accounts'[k][h].status = accounts[k][h].status
                        /\ h # g => accounts'[k][h] = accounts[k][h]
                        /\ h = g => accounts'[k][h].run = NoRun
    BY <2>1, <2>3 DEF AccountRow
  <2> QED
    BY <1>1, <2>4, <2>5
<1>2. CASE Attached(k, g, r) /\ k \notin Accounts
  BY <1>2
<1>3. CASE ~Attached(k, g, r)
  BY <1>3
<1> QED
  BY <1>1, <1>2, <1>3

LEMMA CompleteEffect ==
  ASSUME RegistryTypeOK, NEW k \in Accounts, NEW g \in Gens, NEW r, NEW ok \in BOOLEAN,
         CompleteACMEAccountProvisioning(k, g, r, ok)
  PROVE  /\ Attached(k, g, r)
         /\ accounts'[k][g].status = IF ok THEN "active" ELSE "failed"
         /\ \A h \in Gens \ {g} :
              IF ok /\ accounts[k][h].status = "active"
                THEN accounts'[k][h].status = "retired"
                ELSE accounts'[k][h] = accounts[k][h]
         /\ \A j \in Accounts \ {k} : accounts'[j] = accounts[j]
         /\ UNCHANGED <<targets, policies, runs, audit>>
<1> DEFINE Row(h) ==
      CASE h = g -> [status |-> IF ok THEN "active" ELSE "failed", run |-> NoRun]
        [] h # g /\ ok /\ accounts[k][h].status = "active" ->
             [accounts[k][h] EXCEPT !.status = "retired"]
        [] OTHER -> accounts[k][h]
<1>1. accounts' = [accounts EXCEPT ![k] = [h \in Gens |-> Row(h)]]
  BY DEF CompleteACMEAccountProvisioning
<1>2. accounts \in [Accounts -> [Gens -> AccountRow]]
  BY DEF RegistryTypeOK
<1>3. \A h \in Gens : accounts'[k][h] = Row(h)
  <2> HIDE DEF Row
  <2> QED
    BY <1>1, <1>2
<1>4. \A j \in Accounts \ {k} : accounts'[j] = accounts[j]
  <2> HIDE DEF Row
  <2> QED
    BY <1>1, <1>2
<1>5. Row(g) = [status |-> IF ok THEN "active" ELSE "failed", run |-> NoRun]
  OBVIOUS
<1>6. ASSUME NEW h \in Gens \ {g}
      PROVE  IF ok /\ accounts[k][h].status = "active"
                THEN Row(h).status = "retired" ELSE Row(h) = accounts[k][h]
  <2>1. accounts[k][h] \in AccountRow
    BY <1>2
  <2> QED
    BY <2>1 DEF AccountRow
<1>7. Attached(k, g, r) /\ UNCHANGED <<targets, policies, runs, audit>>
  BY DEF CompleteACMEAccountProvisioning
<1> HIDE DEF Row
<1> QED
  BY <1>3, <1>4, <1>5, <1>6, <1>7

LEMMA CancelEffect ==
  ASSUME RegistryTypeOK, NEW k \in Accounts, NEW g \in Gens,
         CancelACMEAccountProvisioning(k, g)
  PROVE  /\ accounts'[k][g].status = "cancelled"
         /\ accounts[k][g].status = "provisioning" /\ accounts[k][g].run = NoRun
         /\ \A j \in Accounts, h \in Gens :
              j # k \/ h # g => accounts'[j][h] = accounts[j][h]
         /\ UNCHANGED <<targets, policies, runs, audit>>
BY DEF RegistryTypeOK, CancelACMEAccountProvisioning, SetAccount, Unattached, Pending

LEMMA RetireEffect ==
  ASSUME RegistryTypeOK, NEW t \in Targets, RetireTarget(t)
  PROVE  /\ ~HasActiveRun(t)
         /\ \A j \in Accounts, h \in Gens :
              IF j[2] = t /\ Pending(j, h)
                THEN accounts'[j][h].status = "cancelled"
                ELSE accounts'[j][h] = accounts[j][h]
         /\ \A s \in Targets : targets'[s].retired <=> (s = t \/ targets[s].retired)
         /\ UNCHANGED <<policies, runs, audit>>
<1>1. \A j \in Accounts, h \in Gens :
        accounts'[j][h] = IF j[2] = t /\ Pending(j, h)
                            THEN [status |-> "cancelled", run |-> NoRun]
                            ELSE accounts[j][h]
  BY DEF RetireTarget
<1>2. \A s \in Targets : targets'[s].retired <=> (s = t \/ targets[s].retired)
  BY DEF RetireTarget, RegistryTypeOK, TargetRow
<1>3. ~HasActiveRun(t) /\ UNCHANGED <<policies, runs, audit>>
  BY DEF RetireTarget
<1> QED
  BY <1>1, <1>2, <1>3

-----------------------------------------------------------------------------
(* What a step of the executor of r does to its own state, the account rows  *)
(* and its Runner: one operator per kind of step                             *)

\* The payload the executor carries, and what it knows of its run's status.
KeepsPayload(r) == /\ exec'[r].key = exec[r].key /\ exec'[r].gen = exec[r].gen
                   /\ exec'[r].report = exec[r].report
KeepsBase(r)    == /\ exec'[r].recorded = exec[r].recorded
                   /\ exec'[r].rereads = exec[r].rereads

\* It turns to recording an outcome.
Turns(r) == /\ exec'[r].pc = "finish" /\ exec'[r].gen = 0 /\ exec'[r].rereads = 0
            /\ exec'[r].recorded = exec[r].recorded

Drops(r) ==
  /\ \/ exec[r].pc \in {"target", "policy", "account"}
     \/ exec[r].pc = "launch" /\ exec[r].gen = 0
  /\ Turns(r) /\ UNCHANGED <<accounts, runner>>

Reads(r) ==
  /\ exec[r].pc = "target" /\ exec'[r].pc = "policy"
  /\ KeepsPayload(r) /\ KeepsBase(r) /\ UNCHANGED <<accounts, runner>>

Chooses(r) ==
  /\ exec[r].pc = "policy" /\ exec'[r].pc \in {"claim", "account"}
  /\ \E b \in Bindings : exec'[r].key = AccountOf(b, runs[r].target)
  /\ exec'[r].gen = exec[r].gen
  /\ KeepsBase(r) /\ UNCHANGED <<accounts, runner>>

Claims(r) ==
  /\ exec[r].pc = "claim" /\ exec'[r].pc \in {"launch", "settle"}
  /\ exec'[r].gen \in Gens
  /\ ClaimACMEAccountProvisioning(exec[r].key, exec'[r].gen, r)
  /\ exec'[r].key = exec[r].key
  /\ exec'[r].pc = "settle" => exec'[r].report = "lost"
  /\ KeepsBase(r) /\ UNCHANGED runner

LosesClaim(r) ==
  /\ exec[r].pc = "claim" /\ Turns(r) /\ UNCHANGED runner
  /\ \/ UNCHANGED accounts
     \/ \E g \in Gens : ClaimACMEAccountProvisioning(exec[r].key, g, r)

Proceeds(r) ==
  /\ \/ exec[r].pc = "claim" /\ exec'[r].pc = "account"
     \/ exec[r].pc = "account" /\ exec'[r].pc = "launch"
     \/ exec[r].pc = "launch" /\ exec'[r].pc = "release"
  /\ KeepsPayload(r) /\ KeepsBase(r) /\ UNCHANGED <<accounts, runner>>

\* A Runner takes the job.
Takes(r, disowned) ==
  /\ runner'[r].state = "live" /\ runner'[r].gen = exec[r].gen
  /\ exec[r].gen # 0 => runner'[r].key = exec[r].key
  /\ runner'[r].tried = FALSE /\ runner'[r].registered = FALSE
  /\ runner'[r].disowned = disowned
  /\ \A q \in RunIDs \ {r} : runner'[q] = runner[q]

Starts(r) ==
  /\ exec[r].pc = "launch" /\ exec'[r].pc = "began"
  /\ KeepsPayload(r) /\ KeepsBase(r) /\ UNCHANGED accounts
  /\ Takes(r, FALSE)

\* Start fails and a Runner has the job all the same.
Disowns(r) ==
  /\ exec[r].pc = "launch" /\ ~LauncherReaps
  /\ \/ exec[r].gen = 0 /\ Turns(r)
     \/ exec'[r].pc = "release" /\ KeepsPayload(r) /\ KeepsBase(r)
  /\ UNCHANGED accounts /\ Takes(r, TRUE)

GivesBack(r) ==
  /\ exec[r].pc = "release" /\ Turns(r) /\ UNCHANGED runner
  /\ \/ UNCHANGED accounts
     \/ ReleaseACMEAccountProvisioning(exec[r].key, exec[r].gen, r)

Records(r) ==
  /\ Recording(r) /\ KeepsPayload(r) /\ UNCHANGED <<accounts, runner>>
  /\ \/ exec'[r].pc = exec[r].pc
     \/ exec'[r].rereads = 0 /\
          \/ exec[r].pc = "began" /\ exec'[r].pc = "wait"
          \/ exec[r].pc = "again" /\ exec'[r].pc = "settle"
          \/ exec[r].pc = "finish" /\ exec'[r].pc = "exit"

Waits(r) ==
  /\ exec[r].pc = "wait" /\ exec'[r].pc \in {"again", "settle"}
  /\ exec'[r].key = exec[r].key /\ exec'[r].gen = exec[r].gen
  /\ KeepsBase(r) /\ UNCHANGED accounts
  /\ exec[r].gen # 0 /\ exec'[r].report = "registered" => runner[r].registered
  /\ exec[r].gen # 0 /\ exec'[r].report = "none" =>
       runner[r].state = "ended" /\ ~runner[r].tried
  /\ \/ UNCHANGED runner /\ (runner[r].state = "ended" \/ ~LauncherReaps)
     \/ /\ runner'[r].state = "ended"
        /\ runner'[r].key = runner[r].key /\ runner'[r].gen = runner[r].gen
        /\ runner'[r].tried = runner[r].tried
        /\ runner'[r].registered = runner[r].registered
        /\ runner'[r].disowned = runner[r].disowned
        /\ \A q \in RunIDs \ {r} : runner'[q] = runner[q]

Settles(r) ==
  /\ exec[r].pc = "settle" /\ Turns(r) /\ UNCHANGED runner
  /\ \/ UNCHANGED accounts
     \/ /\ exec[r].gen # 0 /\ exec[r].report = "none"
        /\ ReleaseACMEAccountProvisioning(exec[r].key, exec[r].gen, r)
     \/ /\ exec[r].gen # 0 /\ exec[r].report # "none"
        /\ CompleteACMEAccountProvisioning(exec[r].key, exec[r].gen, r,
                                           exec[r].report = "registered")

Leaves(r) ==
  /\ exec[r].pc = "exit" /\ exec'[r].pc = "idle"
  /\ exec'[r].gen = 0 /\ exec'[r].rereads = 0
  /\ UNCHANGED <<accounts, runner>>

ExecutorStep(r) ==
  /\ \/ Drops(r) \/ Reads(r) \/ Chooses(r) \/ Claims(r) \/ LosesClaim(r) \/ Proceeds(r)
     \/ Starts(r) \/ Disowns(r) \/ GivesBack(r) \/ Records(r) \/ Waits(r) \/ Settles(r)
     \/ Leaves(r)
  /\ \A q \in RunIDs \ {r} : exec'[q] = exec[q]
  /\ UNCHANGED <<mode, loop, stops, targets>>

LEMMA TurnsFields ==
  ASSUME TypeOK, NEW r \in RunIDs, NEW s \in TerminalStatus, Set(r, ToFinish(r, s))
  PROVE  Turns(r) /\ \A q \in RunIDs \ {r} : exec'[q] = exec[q]
<1>1. exec \in [RunIDs -> ExecRow] /\ ToFinish(r, s) \in ExecRow
  BY ToFinishType DEF TypeOK
<1>2. exec'[r] = ToFinish(r, s) /\ \A q \in RunIDs \ {r} : exec'[q] = exec[q]
  BY <1>1 DEF Set
<1>3. /\ ToFinish(r, s).pc = "finish" /\ ToFinish(r, s).gen = 0
      /\ ToFinish(r, s).rereads = 0 /\ ToFinish(r, s).recorded = exec[r].recorded
  BY DEF ToFinish, IdleExec
<1> QED
  BY <1>2, <1>3 DEF Turns

LEMMA SetFields ==
  ASSUME TypeOK, NEW r \in RunIDs, NEW e, Set(r, e)
  PROVE  exec'[r] = e /\ \A q \in RunIDs \ {r} : exec'[q] = exec[q]
BY DEF TypeOK, Set


\* The steps up to the start of the Runner.
LEMMA PrepareSteps ==
  ASSUME TypeOK, NEW r \in RunIDs,
         LoadTarget(r) \/ LoadPolicy(r) \/ ClaimProvisioning(r) \/ LoadAccount(r)
  PROVE  ExecutorStep(r)
<1>1. exec[r] \in ExecRow /\ runs[r].target \in Targets
  BY DEF TypeOK, RegistryTypeOK, RunRow
<1>2. {"failed", "cancelled"} \subseteq TerminalStatus
  BY DEF TerminalStatus
<1>3. UNCHANGED <<mode, loop, stops, targets, runner>>
  BY DEF LoadTarget, LoadPolicy, ClaimProvisioning, LoadAccount, ExecutorKeeps,
     registryVars, ClaimACMEAccountProvisioning
<1>4. ASSUME NEW s \in TerminalStatus, Set(r, ToFinish(r, s)), UNCHANGED accounts,
             exec[r].pc \in {"target", "policy", "account"}
      PROVE  ExecutorStep(r)
  BY <1>3, <1>4, TurnsFields DEF ExecutorStep, Drops
<1>5. CASE LoadTarget(r)
  <2>1. UNCHANGED accounts /\ exec[r].pc = "target"
    BY <1>5 DEF LoadTarget, registryVars, At
  <2>2. CASE Set(r, [exec[r] EXCEPT !.pc = "policy",
                                    !.policy = targets[runs[r].target].policy])
    <3> DEFINE e1 == [exec[r] EXCEPT !.pc = "policy"]
               e2 == [e1 EXCEPT !.policy = targets[runs[r].target].policy]
    <3>2. exec'[r] = e2 /\ \A q \in RunIDs \ {r} : exec'[q] = exec[q]
      BY <2>2, SetFields
    <3>3. /\ e2.pc = "policy" /\ e2.key = exec[r].key /\ e2.gen = exec[r].gen
          /\ e2.report = exec[r].report /\ e2.recorded = exec[r].recorded
          /\ e2.rereads = exec[r].rereads
      BY <1>1 DEF ExecRow
    <3> HIDE DEF e2
    <3>1. /\ exec'[r].pc = "policy" /\ KeepsPayload(r) /\ KeepsBase(r)
          /\ \A q \in RunIDs \ {r} : exec'[q] = exec[q]
      BY <3>2, <3>3 DEF KeepsPayload, KeepsBase
    <3> QED
      BY <1>3, <2>1, <3>1 DEF ExecutorStep, Reads
  <2>3. \/ \E s \in {"failed", "cancelled"} : Set(r, ToFinish(r, s))
        \/ Set(r, [exec[r] EXCEPT !.pc = "policy",
                                  !.policy = targets[runs[r].target].policy])
    BY <1>5 DEF LoadTarget
  <2> QED
    BY <1>2, <1>4, <2>1, <2>2, <2>3
<1>6. CASE LoadPolicy(r)
  <2> DEFINE p  == policies[exec[r].policy]
             pc == IF p.acme \in ProvisioningBindings THEN "claim" ELSE "account"
             k  == AccountOf(p.acme, runs[r].target)
  <2>1. UNCHANGED accounts /\ exec[r].pc = "policy"
    BY <1>6 DEF LoadPolicy, registryVars, At
  <2>2. p.acme \in Bindings /\ pc \in {"claim", "account"}
    BY <1>1 DEF TypeOK, RegistryTypeOK, PolicyRow, ExecRow
  <2>3. \/ \E s \in {"failed", "cancelled"} : Set(r, ToFinish(r, s))
        \/ Set(r, [exec[r] EXCEPT !.pc = pc, !.key = k])
    BY <1>6 DEF LoadPolicy
  <2>4. CASE Set(r, [exec[r] EXCEPT !.pc = pc, !.key = k])
    <3> HIDE DEF pc, k
    <3>1. /\ exec'[r].pc = pc /\ exec'[r].key = k /\ exec'[r].gen = exec[r].gen
          /\ KeepsBase(r) /\ \A q \in RunIDs \ {r} : exec'[q] = exec[q]
      <4> DEFINE e1 == [exec[r] EXCEPT !.pc = pc]
                 e2 == [e1 EXCEPT !.key = k]
      <4>1. exec'[r] = e2 /\ \A q \in RunIDs \ {r} : exec'[q] = exec[q]
        BY <2>4, SetFields
      <4>2. /\ e2.pc = pc /\ e2.key = k /\ e2.gen = exec[r].gen
            /\ e2.recorded = exec[r].recorded /\ e2.rereads = exec[r].rereads
        BY <1>1 DEF ExecRow
      <4> HIDE DEF e2
      <4> QED
        BY <4>1, <4>2 DEF KeepsBase
    <3>2. Chooses(r)
      BY <1>3, <2>1, <2>2, <3>1 DEF Chooses, k
    <3> QED
      BY <1>3, <3>1, <3>2 DEF ExecutorStep
  <2> QED
    BY <1>2, <1>4, <2>1, <2>3, <2>4
<1>7. CASE ClaimProvisioning(r)
  <2>1. exec[r].pc = "claim"
    BY <1>7 DEF ClaimProvisioning, At
  <2>2. ASSUME NEW g \in Gens, ClaimACMEAccountProvisioning(exec[r].key, g, r),
               Set(r, [exec[r] EXCEPT !.pc = "launch", !.gen = g])
        PROVE  ExecutorStep(r)
    <3>1. /\ exec'[r].pc = "launch" /\ exec'[r].gen = g /\ exec'[r].key = exec[r].key
          /\ KeepsBase(r) /\ \A q \in RunIDs \ {r} : exec'[q] = exec[q]
      <4> DEFINE e1 == [exec[r] EXCEPT !.pc = "launch"]
                 e2 == [e1 EXCEPT !.gen = g]
      <4>1. exec'[r] = e2 /\ \A q \in RunIDs \ {r} : exec'[q] = exec[q]
        BY <2>2, SetFields
      <4>2. /\ e2.pc = "launch" /\ e2.gen = g /\ e2.key = exec[r].key
            /\ e2.recorded = exec[r].recorded /\ e2.rereads = exec[r].rereads
        BY <1>1 DEF ExecRow
      <4> HIDE DEF e2
      <4> QED
        BY <4>1, <4>2 DEF KeepsBase
    <3>2. Claims(r)
      BY <1>3, <2>1, <2>2, <3>1 DEF Claims
    <3> QED
      BY <1>3, <3>1, <3>2 DEF ExecutorStep
  <2>3. ASSUME NEW g \in Gens, ClaimACMEAccountProvisioning(exec[r].key, g, r),
               Set(r, [exec[r] EXCEPT !.pc = "settle", !.gen = g,
                                      !.report = "lost", !.out = "failed"])
        PROVE  ExecutorStep(r)
    <3> DEFINE e1 == [exec[r] EXCEPT !.pc = "settle"]
               e2 == [e1 EXCEPT !.gen = g]
               e3 == [e2 EXCEPT !.report = "lost"]
               e4 == [e3 EXCEPT !.out = "failed"]
    <3>1. exec'[r] = e4 /\ \A q \in RunIDs \ {r} : exec'[q] = exec[q]
      BY <2>3, SetFields
    <3>2. /\ e4.pc = "settle" /\ e4.gen = g /\ e4.report = "lost" /\ e4.key = exec[r].key
          /\ e4.recorded = exec[r].recorded /\ e4.rereads = exec[r].rereads
      BY <1>1 DEF ExecRow
    <3> HIDE DEF e4
    <3>3. Claims(r)
      BY <1>3, <2>1, <2>3, <3>1, <3>2 DEF Claims, KeepsBase
    <3> QED
      BY <1>3, <3>1, <3>3 DEF ExecutorStep
  <2>4. CASE Set(r, [exec[r] EXCEPT !.pc = "account"]) /\ UNCHANGED accounts
    <3>1. /\ exec'[r].pc = "account" /\ KeepsPayload(r) /\ KeepsBase(r)
          /\ \A q \in RunIDs \ {r} : exec'[q] = exec[q]
      BY <1>1, <2>4, SetFields DEF ExecRow, KeepsPayload, KeepsBase
    <3> QED
      BY <1>3, <2>1, <2>4, <3>1 DEF ExecutorStep, Proceeds
  <2>5. CASE /\ Set(r, ToFinish(r, "failed"))
             /\ \/ UNCHANGED accounts
                \/ \E g \in Gens : ClaimACMEAccountProvisioning(exec[r].key, g, r)
    BY <1>2, <1>3, <2>1, <2>5, TurnsFields DEF ExecutorStep, LosesClaim
  <2> QED
    BY <1>7, <2>2, <2>3, <2>4, <2>5 DEF ClaimProvisioning, registryVars
<1>8. CASE LoadAccount(r)
  <2>1. UNCHANGED accounts /\ exec[r].pc = "account"
    BY <1>8 DEF LoadAccount, registryVars, At
  <2>2. CASE Set(r, [exec[r] EXCEPT !.pc = "launch"])
    <3>1. /\ exec'[r].pc = "launch" /\ KeepsPayload(r) /\ KeepsBase(r)
          /\ \A q \in RunIDs \ {r} : exec'[q] = exec[q]
      BY <1>1, <2>2, SetFields DEF ExecRow, KeepsPayload, KeepsBase
    <3> QED
      BY <1>3, <2>1, <3>1 DEF ExecutorStep, Proceeds
  <2> QED
    BY <1>2, <1>4, <1>8, <2>1, <2>2 DEF LoadAccount
<1> QED
  BY <1>5, <1>6, <1>7, <1>8


\* Launch, release and settlement.
LEMMA LaunchSteps ==
  ASSUME TypeOK, NEW r \in RunIDs,
         Launch(r) \/ ReleaseClaim(r) \/ FinishProvisioning(r) \/ ExecReturns(r)
  PROVE  ExecutorStep(r)
<1>1. exec[r] \in ExecRow /\ runner \in [RunIDs -> RunnerRow]
  BY DEF TypeOK
<1>2. {"failed", "cancelled"} \subseteq TerminalStatus /\ exec[r].out \in TerminalStatus
  BY <1>1 DEF TerminalStatus, ExecRow
<1>3. UNCHANGED <<mode, loop, stops, targets>>
  BY DEF Launch, ReleaseClaim, FinishProvisioning, ExecReturns, ExecutorKeeps,
     registryVars, ReleaseACMEAccountProvisioning, CompleteACMEAccountProvisioning
<1>4. CASE Launch(r)
  <2>1. UNCHANGED accounts /\ exec[r].pc = "launch"
    BY <1>4 DEF Launch, registryVars, At
  <2>2. ASSUME NEW b \in BOOLEAN, runner' = [runner EXCEPT ![r] = Taken(r, b)]
        PROVE  Takes(r, b)
    <3> DEFINE key == IF exec[r].gen = 0 THEN NoAccount ELSE exec[r].key
               w1  == [NoRunner EXCEPT !.state = "live"]
               w2  == [w1 EXCEPT !.gen = exec[r].gen]
               w3  == [w2 EXCEPT !.disowned = b]
               w4  == [w3 EXCEPT !.key = key]
    <3>1. runner'[r] = w4 /\ \A q \in RunIDs \ {r} : runner'[q] = runner[q]
      BY <1>1, <2>2 DEF Taken
    <3>2. /\ w4.state = "live" /\ w4.gen = exec[r].gen /\ w4.key = key
          /\ w4.tried = FALSE /\ w4.registered = FALSE /\ w4.disowned = b
      BY DEF NoRunner
    <3>3. exec[r].gen # 0 => key = exec[r].key
      OBVIOUS
    <3> HIDE DEF w4, key
    <3> QED
      BY <3>1, <3>2, <3>3 DEF Takes
  <2>3. ASSUME NEW s \in {"failed", "cancelled"}, Set(r, ToRelease(r, s)),
               UNCHANGED runner \/ (~LauncherReaps /\ Takes(r, TRUE))
        PROVE  ExecutorStep(r)
    <3>1. CASE exec[r].gen = 0
      <4>1. Set(r, ToFinish(r, s))
        BY <2>3, <3>1 DEF ToRelease
      <4>2. Turns(r) /\ \A q \in RunIDs \ {r} : exec'[q] = exec[q]
        BY <1>2, <4>1, TurnsFields
      <4> QED
        BY <1>3, <2>1, <2>3, <3>1, <4>2 DEF ExecutorStep, Drops, Disowns
    <3>2. CASE exec[r].gen # 0
      <4> DEFINE e1 == [exec[r] EXCEPT !.pc = "release"]
                 e2 == [e1 EXCEPT !.out = s]
      <4>1. Set(r, e2)
        BY <2>3, <3>2 DEF ToRelease
      <4>2. /\ e2.pc = "release" /\ e2.key = exec[r].key /\ e2.gen = exec[r].gen
            /\ e2.report = exec[r].report /\ e2.recorded = exec[r].recorded
            /\ e2.rereads = exec[r].rereads
        BY <1>1 DEF ExecRow
      <4> HIDE DEF e2
      <4>3. exec'[r] = e2 /\ \A q \in RunIDs \ {r} : exec'[q] = exec[q]
        BY <4>1, SetFields
      <4>4. KeepsPayload(r) /\ KeepsBase(r) /\ exec'[r].pc = "release"
        BY <4>2, <4>3 DEF KeepsPayload, KeepsBase
      <4> QED
        BY <1>3, <2>1, <2>3, <4>3, <4>4 DEF ExecutorStep, Proceeds, Disowns
    <3> QED
      BY <3>1, <3>2
  <2>4. CASE /\ Set(r, [exec[r] EXCEPT !.pc = "began"])
             /\ runner' = [runner EXCEPT ![r] = Taken(r, FALSE)]
    <3>1. /\ exec'[r].pc = "began" /\ KeepsPayload(r) /\ KeepsBase(r)
          /\ \A q \in RunIDs \ {r} : exec'[q] = exec[q]
      BY <1>1, <2>4, SetFields DEF ExecRow, KeepsPayload, KeepsBase
    <3>2. Starts(r)
      BY <2>1, <2>2, <2>4, <3>1 DEF Starts
    <3> QED
      BY <1>3, <3>1, <3>2 DEF ExecutorStep
  <2> QED
    BY <1>4, <2>2, <2>3, <2>4 DEF Launch
<1>5. CASE ReleaseClaim(r)
  <2>1. /\ exec[r].pc = "release" /\ UNCHANGED runner /\ Set(r, ToFinish(r, exec[r].out))
        /\ \/ UNCHANGED accounts
           \/ ReleaseACMEAccountProvisioning(exec[r].key, exec[r].gen, r)
    BY <1>5 DEF ReleaseClaim, registryVars, At
  <2> QED
    BY <1>2, <1>3, <2>1, TurnsFields DEF ExecutorStep, GivesBack
<1>6. CASE FinishProvisioning(r)
  <2>1. /\ exec[r].pc = "settle" /\ UNCHANGED runner /\ Set(r, ToFinish(r, exec[r].out))
        /\ \/ UNCHANGED accounts
           \/ /\ exec[r].gen # 0 /\ exec[r].report = "none"
              /\ ReleaseACMEAccountProvisioning(exec[r].key, exec[r].gen, r)
           \/ /\ exec[r].gen # 0 /\ exec[r].report # "none"
              /\ CompleteACMEAccountProvisioning(exec[r].key, exec[r].gen, r,
                                                 exec[r].report = "registered")
    BY <1>6 DEF FinishProvisioning, registryVars, At
  <2> QED
    BY <1>2, <1>3, <2>1, TurnsFields DEF ExecutorStep, Settles
<1>7. CASE ExecReturns(r)
  <2>1. exec[r].pc = "exit" /\ Set(r, IdleExec) /\ UNCHANGED <<accounts, runner>>
    BY <1>7 DEF ExecReturns, registryVars, At
  <2>2. IdleExec.pc = "idle" /\ IdleExec.gen = 0 /\ IdleExec.rereads = 0
    BY DEF IdleExec
  <2> QED
    BY <1>3, <2>1, <2>2, SetFields DEF ExecutorStep, Leaves
<1> QED
  BY <1>4, <1>5, <1>6, <1>7

LEMMA RecordedFields ==
  ASSUME TypeOK, NEW r \in RunIDs, NEW s, Recording(r), Set(r, Recorded(r, s))
  PROVE  /\ KeepsPayload(r) /\ exec'[r].rereads = 0
         /\ \/ exec[r].pc = "began" /\ exec'[r].pc = "wait"
            \/ exec[r].pc = "again" /\ exec'[r].pc = "settle"
            \/ exec[r].pc = "finish" /\ exec'[r].pc = "exit"
         /\ \A q \in RunIDs \ {r} : exec'[q] = exec[q]
<1> DEFINE pc == CASE exec[r].pc = "began" -> "wait" [] exec[r].pc = "again" -> "settle"
                   [] exec[r].pc = "finish" -> "exit"
           e1 == [exec[r] EXCEPT !.recorded = s]
           e2 == [e1 EXCEPT !.conflict = FALSE]
           e3 == [e2 EXCEPT !.rereads = 0]
           e4 == [e3 EXCEPT !.pc = pc]
<1>1. exec[r] \in ExecRow
  BY DEF TypeOK
<1>2. /\ exec[r].pc = "began" => pc = "wait"
      /\ exec[r].pc = "again" => pc = "settle"
      /\ exec[r].pc = "finish" => pc = "exit"
  OBVIOUS
<1>3. e3.pc = exec[r].pc
  BY <1>1 DEF ExecRow
<1>4. exec'[r] = e4 /\ \A q \in RunIDs \ {r} : exec'[q] = exec[q]
  BY <1>1, SetFields DEF Recorded, ExecRow
<1> HIDE DEF pc
<1>5. /\ e4.pc = pc /\ e4.key = exec[r].key /\ e4.gen = exec[r].gen
      /\ e4.report = exec[r].report /\ e4.rereads = 0
  BY <1>1 DEF ExecRow
<1> HIDE DEF e4
<1> QED
  BY <1>2, <1>4, <1>5 DEF Recording, KeepsPayload


\* The calls of record.
LEMMA RecordSteps ==
  ASSUME TypeOK, NEW r \in RunIDs,
         RecordWrite(r) \/ RecordConflict(r) \/ RecordFails(r) \/ RecordReread(r)
  PROVE  ExecutorStep(r)
<1>1. exec[r] \in ExecRow
  BY DEF TypeOK
<1>2. Recording(r) /\ UNCHANGED <<mode, loop, stops, targets, accounts, runner>>
  BY DEF RecordWrite, RecordConflict, RecordFails, RecordReread, ExecutorKeeps,
     registryVars, UpdateRun
<1>3. ASSUME NEW s, Set(r, Recorded(r, s)) PROVE ExecutorStep(r)
  BY <1>2, <1>3, RecordedFields DEF ExecutorStep, Records
<1>4. ASSUME NEW b, Set(r, [exec[r] EXCEPT !.conflict = b]) PROVE ExecutorStep(r)
  <2> DEFINE e == [exec[r] EXCEPT !.conflict = b]
  <2>1. /\ e.pc = exec[r].pc /\ e.key = exec[r].key /\ e.gen = exec[r].gen
        /\ e.report = exec[r].report
    BY <1>1 DEF ExecRow
  <2>2. exec'[r] = e /\ \A q \in RunIDs \ {r} : exec'[q] = exec[q]
    BY <1>4, SetFields
  <2> HIDE DEF e
  <2> QED
    BY <1>2, <2>1, <2>2 DEF ExecutorStep, Records, KeepsPayload
<1>5. CASE Set(r, [exec[r] EXCEPT !.recorded = runs[r].status, !.conflict = FALSE,
                                  !.rereads = @ + 1])
  <2> DEFINE e1 == [exec[r] EXCEPT !.recorded = runs[r].status]
             e2 == [e1 EXCEPT !.conflict = FALSE]
             e3 == [e2 EXCEPT !.rereads = @ + 1]
  <2>1. /\ e3.pc = exec[r].pc /\ e3.key = exec[r].key /\ e3.gen = exec[r].gen
        /\ e3.report = exec[r].report
    BY <1>1 DEF ExecRow
  <2>2. exec'[r] = e3 /\ \A q \in RunIDs \ {r} : exec'[q] = exec[q]
    BY <1>5, SetFields
  <2> HIDE DEF e3
  <2> QED
    BY <1>2, <2>1, <2>2 DEF ExecutorStep, Records, KeepsPayload
<1>6. AttemptFailed(r) => ExecutorStep(r)
  BY <1>3, <1>4 DEF AttemptFailed
<1> QED
  BY <1>3, <1>4, <1>5, <1>6 DEF RecordWrite, RecordConflict, RecordFails, RecordReread

\* Wait returns.
LEMMA WaitSteps ==
  ASSUME TypeOK, NEW r \in RunIDs, WaitReturns(r)
  PROVE  ExecutorStep(r)
<1>1. exec[r] \in ExecRow /\ runner \in [RunIDs -> RunnerRow] /\ runner[r] \in RunnerRow
  BY DEF TypeOK
<1>2. /\ exec[r].pc = "wait"
      /\ UNCHANGED <<mode, loop, stops, targets, accounts>>
  BY DEF WaitReturns, At, ExecutorKeeps, registryVars
<1>3. PICK out \in TerminalStatus, report \in Reports :
       /\ \/ /\ report \in MayReport(r)
             /\ runner[r].state = "ended" /\ UNCHANGED runner
          \/ /\ report = "lost" /\ out # "succeeded"
             /\ IF LauncherReaps
                  THEN runner' = [runner EXCEPT ![r].state = "ended"]
                  ELSE UNCHANGED runner
       /\ Set(r, [exec[r] EXCEPT !.out = out,
                    !.report = IF exec[r].gen = 0 THEN "none" ELSE report,
                    !.pc = IF exec[r].recorded = "starting"
                             THEN "again" ELSE "settle"])
  BY DEF WaitReturns
<1> DEFINE pc  == IF exec[r].recorded = "starting" THEN "again" ELSE "settle"
           rep == IF exec[r].gen = 0 THEN "none" ELSE report
           e1  == [exec[r] EXCEPT !.out = out]
           e2  == [e1 EXCEPT !.report = rep]
           e3  == [e2 EXCEPT !.pc = pc]
<1>4. e1.gen = exec[r].gen /\ e2.recorded = exec[r].recorded
  BY <1>1 DEF ExecRow
<1>5. exec'[r] = e3 /\ \A q \in RunIDs \ {r} : exec'[q] = exec[q]
  BY <1>3, <1>4, SetFields
<1>6. /\ pc \in {"again", "settle"}
      /\ exec[r].gen # 0 => rep = report
  OBVIOUS
<1> HIDE DEF pc, rep
<1>7. /\ e3.pc = pc /\ e3.key = exec[r].key /\ e3.gen = exec[r].gen /\ e3.report = rep
      /\ e3.recorded = exec[r].recorded /\ e3.rereads = exec[r].rereads
  BY <1>1 DEF ExecRow
<1> HIDE DEF e3
<1>8. \/ UNCHANGED runner /\ (runner[r].state = "ended" \/ ~LauncherReaps)
      \/ /\ runner'[r].state = "ended"
         /\ runner'[r].key = runner[r].key /\ runner'[r].gen = runner[r].gen
         /\ runner'[r].tried = runner[r].tried
         /\ runner'[r].registered = runner[r].registered
         /\ runner'[r].disowned = runner[r].disowned
         /\ \A q \in RunIDs \ {r} : runner'[q] = runner[q]
  BY <1>1, <1>3 DEF RunnerRow
<1>9. /\ report = "registered" => runner[r].registered
      /\ report = "none" => runner[r].state = "ended" /\ ~runner[r].tried
  BY <1>3 DEF MayReport
<1>10. Waits(r)
  BY <1>2, <1>5, <1>6, <1>7, <1>8, <1>9 DEF Waits, KeepsBase
<1> QED
  BY <1>2, <1>5, <1>10 DEF ExecutorStep

LEMMA ExecuteSteps ==
  ASSUME TypeOK, NEW r \in RunIDs, Execute(r)
  PROVE  ExecutorStep(r)
BY PrepareSteps, LaunchSteps, RecordSteps, WaitSteps DEF Execute

-----------------------------------------------------------------------------
(* What the other steps do to the executors *)

\* Everything of an executor's state but its cancel flag.
SameExec(r) == /\ exec'[r].pc = exec[r].pc /\ KeepsPayload(r) /\ KeepsBase(r)

\* An executor that has just been dropped or created carries nothing.
Empty(r) == exec'[r].gen = 0 /\ exec'[r].rereads = 0

\* The executor of r, seen from a step that is not its own.
Elsewhere(r) ==
  \/ SameExec(r)
  \/ Empty(r) /\ exec'[r].pc = "idle" /\ Gone
  \/ /\ Empty(r) /\ exec'[r].pc = "target" /\ loop.pc = "register" /\ loop.run = r
     /\ UNCHANGED runs

LEMMA GoneElsewhere == ASSUME Gone, NEW r \in RunIDs PROVE Elsewhere(r)
BY DEF Gone, Elsewhere, Empty, IdleExec

LEMMA ProcessElsewhere ==
  ASSUME Process, NEW r \in RunIDs
  PROVE  Elsewhere(r) /\ UNCHANGED <<accounts, targets, runs, runner>>
<1> USE DEF Elsewhere, SameExec, KeepsPayload, KeepsBase
<1>1. UNCHANGED <<accounts, targets, runs, runner>> /\ (Gone \/ UNCHANGED exec)
  BY DEF Process, StartProcess, Crash, Stop, StopLoop, DrainDeadline, DrainDone,
     ExitProcess, registryVars
<1> QED
  BY <1>1, GoneElsewhere

LEMMA LoopElsewhere ==
  ASSUME TypeOK, ClaimedExists, Loop, NEW r \in RunIDs
  PROVE  Elsewhere(r) /\ UNCHANGED <<accounts, targets, runner>>
<1> USE DEF Elsewhere, SameExec, KeepsPayload, KeepsBase
<1>1. CASE DispatchRegister
  <2>1. UNCHANGED <<accounts, targets, runner, runs>>
    BY <1>1 DEF DispatchRegister, registryVars
  <2>2. loop.pc = "register" /\ loop.run \in RunIDs
    BY <1>1 DEF DispatchRegister, ClaimedExists
  <2>3. /\ exec'[loop.run] = [IdleExec EXCEPT !.pc = "target"]
        /\ \A q \in RunIDs \ {loop.run} : exec'[q] = exec[q]
    BY <1>1, <2>2 DEF DispatchRegister, TypeOK
  <2>4. /\ [IdleExec EXCEPT !.pc = "target"].pc = "target"
        /\ [IdleExec EXCEPT !.pc = "target"].gen = 0
        /\ [IdleExec EXCEPT !.pc = "target"].rereads = 0
    BY DEF IdleExec
  <2> QED
    BY <2>1, <2>2, <2>3, <2>4 DEF Empty
<1>2. CASE ~DispatchRegister
  <2>1. UNCHANGED <<accounts, targets, runner>> /\ (Gone \/ UNCHANGED exec)
    BY <1>2 DEF Loop, PlanList, PlanBindings, PlanDone, PlanFails, PlanTarget, PlanCreate,
       PlanBinding, DispatchDone, DispatchFails, DispatchClaim, SweepList, SweepDone,
       SweepFails, SweepClose, registryVars, CreateRun, ClaimQueuedRun, UpdateRun
  <2> QED
    BY <2>1, GoneElsewhere
<1> QED
  BY <1>1, <1>2

LEMMA ApiElsewhere ==
  ASSUME TypeOK, API, NEW r \in RunIDs
  PROVE  SameExec(r) /\ UNCHANGED <<runner, inflight, mode, loop, stops>>
<1> USE DEF SameExec, KeepsPayload, KeepsBase
<1>1. /\ UNCHANGED <<runner, inflight, mode, loop, stops>>
      /\ UNCHANGED exec \/ \E q \in RunIDs : exec' = [exec EXCEPT ![q].cancel = TRUE]
  BY DEF API, ApiRequestRun, ApiUpdateTarget, ApiRetireTarget, ApiCreateRun,
     ApiCancelQueued, ApiCancelInFlight, ApiUpdatePolicy, ApiRequestProvisioning,
     ApiCancelProvisioning, ApiKeeps
<1>2. exec \in [RunIDs -> ExecRow] /\ exec[r] \in ExecRow
  BY DEF TypeOK
<1>3. ASSUME NEW q \in RunIDs, exec' = [exec EXCEPT ![q].cancel = TRUE]
      PROVE  SameExec(r)
  <2> DEFINE e == [exec[r] EXCEPT !.cancel = TRUE]
  <2>1. exec'[r] = exec[r] \/ exec'[r] = e
    BY <1>2, <1>3
  <2>2. /\ e.pc = exec[r].pc /\ e.key = exec[r].key /\ e.gen = exec[r].gen
        /\ e.report = exec[r].report /\ e.recorded = exec[r].recorded
        /\ e.rereads = exec[r].rereads
    BY <1>2 DEF ExecRow
  <2> HIDE DEF e
  <2> QED
    BY <2>1, <2>2
<1> QED
  BY <1>1, <1>3

\* The account rows under a request.
LEMMA ApiAccounts ==
  ASSUME API
  PROVE  \/ UNCHANGED accounts
         \/ \E k \in Accounts, g \in Gens : RequestACMEAccountProvisioning(k, g)
         \/ \E k \in Accounts, g \in Gens : CancelACMEAccountProvisioning(k, g)
         \/ \E t \in Targets : RetireTarget(t)
BY DEF API, ApiRequestRun, ApiUpdateTarget, ApiRetireTarget, ApiCreateRun,
     ApiCancelQueued, ApiCancelInFlight, ApiUpdatePolicy, ApiRequestProvisioning,
     ApiCancelProvisioning, registryVars, CreateRun, UpdateRun, UpdateTarget, UpdatePolicy


\* A step, seen from the executor of r.
LEMMA StepCases ==
  ASSUME TypeOK, ClaimedExists, [Next]_vars, NEW r \in RunIDs
  PROVE  ExecutorStep(r) \/ Elsewhere(r)
<1>1. ASSUME NEW q \in RunIDs, Execute(q) PROVE ExecutorStep(r) \/ Elsewhere(r)
  <2>1. ExecutorStep(q)
    BY <1>1, ExecuteSteps
  <2> QED
    BY <2>1 DEF ExecutorStep, Elsewhere, SameExec, KeepsPayload, KeepsBase
<1>2. ASSUME NEW q \in RunIDs, Runner(q) PROVE Elsewhere(r)
  BY <1>2 DEF Runner, RunnerTries, RunnerEnds, processVars, Elsewhere, SameExec,
     KeepsPayload, KeepsBase
<1>3. CASE UNCHANGED vars
  BY <1>3 DEF vars, Elsewhere, SameExec, KeepsPayload, KeepsBase
<1> QED
  BY <1>1, <1>2, <1>3, ProcessElsewhere, LoopElsewhere, ApiElsewhere DEF Next, Elsewhere

\* A step, seen from the account rows.
LEMMA AccountCases ==
  ASSUME TypeOK, ClaimedExists, [Next]_vars
  PROVE  UNCHANGED accounts \/ API \/ \E q \in RunIDs : ExecutorStep(q)
<1>1. Process \/ Loop => UNCHANGED accounts
  <2>1. 1 \in RunIDs
    BY RegistryAssumption DEF RunIDs
  <2> QED
    BY <2>1, ProcessElsewhere, LoopElsewhere
<1>2. ASSUME NEW q \in RunIDs, Runner(q) PROVE UNCHANGED accounts
  BY <1>2 DEF Runner, RunnerTries, RunnerEnds, registryVars
<1> QED
  BY <1>1, <1>2, ExecuteSteps DEF Next, vars, registryVars

\* The target of a run that exists does not change.
LEMMA TargetStays ==
  ASSUME IInv, RunStep, NEW r \in RunIDs, runs[r].status # "none"
  PROVE  runs'[r].target = runs[r].target
<1>1. ASSUME NEW q \in RunIDs, NEW t \in Targets, NEW rev \in Revisions,
             CreateRun(q, t, rev)
      PROVE  runs'[r].target = runs[r].target
  BY <1>1, CreateShape
<1> QED
  BY <1>1, MovesKeepTargets

\* The run of a busy executor exists and, until its outcome is being recorded, is
\* active.
LEMMA BusyRun ==
  ASSUME IInv, NEW r \in RunIDs, exec[r].pc # "idle"
  PROVE  /\ runs[r].status # "none"
         /\ exec[r].pc \notin {"finish", "exit"} => Active(r)
<1>1. exec[r].out \in TerminalStatus /\ RowOwned(exec[r], runs[r].status)
  BY DEF IInv, TypeOK, ExecRow, Ownership
<1> QED
  BY <1>1 DEF RowOwned, TerminalStatus, Active, ActiveStatus

-----------------------------------------------------------------------------
(* The payload an executor carries stays attached to its run                 *)

Carrying == {"launch", "release", "began", "wait", "again", "settle"}
Keyed    == {"claim", "account"} \cup Carrying

\* The account an executor has chosen is one its run's target may use.
KeyOfTarget(r) ==
  exec[r].pc \in Keyed =>
    exec[r].key \in Accounts
      /\ (exec[r].key[2] \in Targets => exec[r].key[2] = runs[r].target)

\* A generation is carried between its claim and its settlement only, and is
\* attached to the run meanwhile.
Holds(r) ==
  exec[r].gen # 0 => /\ exec[r].pc \in Carrying
                     /\ Attached(exec[r].key, exec[r].gen, r)

Holding == \A r \in RunIDs : KeyOfTarget(r) /\ Holds(r)

LEMMA KeyStep ==
  ASSUME IInv, Holding, [Next]_vars, NEW r \in RunIDs
  PROVE  KeyOfTarget(r)'
<1>1. TypeOK /\ ClaimedExists /\ RunStep
  BY EveryStepMovesRuns DEF IInv
<1>2. exec[r].pc # "idle" => runs'[r].target = runs[r].target
  BY <1>1, BusyRun, TargetStays
<1>3. KeyOfTarget(r) /\ runs[r].target \in Targets
  BY DEF Holding, IInv, TypeOK, RegistryTypeOK, RunRow
<1>4. \A b \in Bindings, t \in Targets :
        /\ AccountOf(b, t) \in Accounts
        /\ AccountOf(b, t)[2] \in Targets => AccountOf(b, t)[2] = t
  BY RegistryAssumption DEF AccountOf, Accounts
<1>5. CASE Elsewhere(r)
  BY <1>2, <1>3, <1>5 DEF Elsewhere, SameExec, KeepsPayload, KeyOfTarget, Keyed, Carrying
<1>6. CASE Chooses(r)
  BY <1>2, <1>3, <1>4, <1>6 DEF Chooses, KeyOfTarget
<1>7. CASE ExecutorStep(r) /\ ~Chooses(r)
  <2>1. exec[r].pc # "idle"
    BY <1>7 DEF ExecutorStep, Drops, Reads, Claims, LosesClaim, Proceeds, Starts,
       Disowns, Takes, GivesBack, Records, Recording, Waits, Settles, Leaves
  <2>2. exec'[r].pc \in Keyed => exec[r].pc \in Keyed /\ exec'[r].key = exec[r].key
    BY <1>7 DEF ExecutorStep, Drops, Reads, Claims, LosesClaim, Proceeds, Starts,
       Disowns, Takes, GivesBack, Records, Recording, Waits, Settles, Leaves, Turns, KeepsPayload,
       Keyed, Carrying
  <2> QED
    BY <1>2, <1>3, <2>1, <2>2 DEF KeyOfTarget
<1> QED
  BY <1>1, <1>5, <1>6, <1>7, StepCases

\* No step of anybody else touches a row attached to a run that is active under its
\* own target.
LEMMA AttachmentStays ==
  ASSUME TypeOK, Holding, NEW r \in RunIDs, NEW k \in Accounts, NEW g \in Gens,
         Attached(k, g, r), Active(r), k[2] \in Targets => k[2] = runs[r].target,
         UNCHANGED accounts \/ API \/ \E q \in RunIDs \ {r} : ExecutorStep(q)
  PROVE  Attached(k, g, r)'
<1> USE DEF Attached, Pending
<1>1. RegistryTypeOK /\ r # NoRun
  BY DEF TypeOK, RunIDs, NoRun
<1>2. CASE UNCHANGED accounts
  BY <1>2
<1>3. ASSUME NEW j \in Accounts, NEW h \in Gens, RequestACMEAccountProvisioning(j, h)
      PROVE  Attached(k, g, r)'
  <2>1. accounts[j][h].status = "none"
    BY <1>1, <1>3, RequestEffect DEF Gens
  <2> QED
    BY <1>1, <1>3, <2>1, RequestEffect
<1>4. ASSUME NEW j \in Accounts, NEW h \in Gens, CancelACMEAccountProvisioning(j, h)
      PROVE  Attached(k, g, r)'
  BY <1>1, <1>4, CancelEffect
<1>5. ASSUME NEW t \in Targets, RetireTarget(t)
      PROVE  Attached(k, g, r)'
  <2>1. k[2] # t
    BY <1>1, <1>5, RetireEffect DEF HasActiveRun
  <2> QED
    BY <1>1, <1>5, <2>1, RetireEffect
<1>6. ASSUME NEW q \in RunIDs \ {r}, NEW h, ClaimACMEAccountProvisioning(exec[q].key, h, q)
      PROVE  Attached(k, g, r)'
  BY <1>1, <1>6, ClaimEffect
<1>7. ASSUME NEW q \in RunIDs \ {r},
             ReleaseACMEAccountProvisioning(exec[q].key, exec[q].gen, q)
      PROVE  Attached(k, g, r)'
  BY <1>1, <1>7, ReleaseEffect
<1>8. ASSUME NEW q \in RunIDs \ {r}, Settles(q),
             CompleteACMEAccountProvisioning(exec[q].key, exec[q].gen, q,
                                             exec[q].report = "registered"),
             exec[q].gen # 0
      PROVE  Attached(k, g, r)'
  <2>1. exec[q].key \in Accounts /\ exec[q].gen \in Gens
    BY <1>8 DEF Holding, KeyOfTarget, Settles, Keyed, Carrying, TypeOK, ExecRow
  <2> DEFINE ok == exec[q].report = "registered"
  <2>2. ok \in BOOLEAN
    OBVIOUS
  <2>3. CompleteACMEAccountProvisioning(exec[q].key, exec[q].gen, q, ok)
    BY <1>8
  <2> HIDE DEF ok
  <2>4. Attached(exec[q].key, exec[q].gen, q)
    BY <1>1, <2>1, <2>2, <2>3, CompleteEffect
  <2>5. k # exec[q].key \/ g # exec[q].gen
    BY <2>4
  <2>6. accounts'[k][g] = accounts[k][g]
    BY <1>1, <2>1, <2>2, <2>3, <2>5, CompleteEffect
  <2> QED
    BY <2>6
<1>9. ASSUME NEW q \in RunIDs \ {r}, ExecutorStep(q) PROVE Attached(k, g, r)'
  <2>1. \/ UNCHANGED accounts
        \/ \E h : ClaimACMEAccountProvisioning(exec[q].key, h, q)
        \/ ReleaseACMEAccountProvisioning(exec[q].key, exec[q].gen, q)
        \/ /\ Settles(q) /\ exec[q].gen # 0
           /\ CompleteACMEAccountProvisioning(exec[q].key, exec[q].gen, q,
                                              exec[q].report = "registered")
    BY <1>9 DEF ExecutorStep, Drops, Reads, Chooses, Claims, LosesClaim, Proceeds, Starts,
       Disowns, Takes, GivesBack, Records, Waits, Settles, Leaves
  <2> QED
    BY <1>2, <1>6, <1>7, <1>8, <2>1
<1>10. API => Attached(k, g, r)'
  BY <1>2, <1>3, <1>4, <1>5, ApiAccounts
<1> QED
  BY <1>2, <1>9, <1>10

LEMMA HoldsStep ==
  ASSUME IInv, Holding, [Next]_vars, NEW r \in RunIDs
  PROVE  Holds(r)'
<1>1. TypeOK /\ ClaimedExists /\ RegistryTypeOK /\ KeyOfTarget(r) /\ Holds(r)
  BY DEF IInv, TypeOK, Holding
<1>2. exec[r].gen \in Gens \cup {0} /\ 0 \notin Gens
  BY <1>1 DEF TypeOK, ExecRow, Gens
<1>3. ASSUME exec[r].gen # 0,
             UNCHANGED accounts \/ API \/ \E q \in RunIDs \ {r} : ExecutorStep(q)
      PROVE  Attached(exec[r].key, exec[r].gen, r)'
             \/ ~(exec'[r].key = exec[r].key /\ exec'[r].gen = exec[r].gen)
  <2>1. exec[r].pc \in Carrying /\ Attached(exec[r].key, exec[r].gen, r)
    BY <1>1, <1>3 DEF Holds
  <2>2. /\ exec[r].key \in Accounts /\ exec[r].gen \in Gens
        /\ exec[r].key[2] \in Targets => exec[r].key[2] = runs[r].target
    BY <1>1, <1>2, <1>3, <2>1 DEF KeyOfTarget, Keyed
  <2>3. Active(r)
    BY <2>1, BusyRun DEF Carrying
  <2>4. ASSUME NEW k \in Accounts, NEW g \in Gens, k = exec[r].key, g = exec[r].gen
        PROVE  Attached(k, g, r)'
    BY <1>1, <1>3, <2>1, <2>2, <2>3, <2>4, AttachmentStays
  <2> QED
    BY <2>2, <2>4 DEF Attached, Pending
<1>4. CASE UNCHANGED accounts /\ ExecutorStep(r)
  <2>1. \/ exec'[r].gen = 0 \/ Claims(r)
        \/ /\ exec'[r].gen = exec[r].gen
           /\ exec[r].pc \in Carrying => exec'[r].pc \in Carrying
                                         /\ exec'[r].key = exec[r].key
    <3>1. CASE Drops(r) \/ LosesClaim(r) \/ GivesBack(r) \/ Settles(r) \/ Leaves(r)
      BY <3>1 DEF Drops, LosesClaim, GivesBack, Settles, Leaves, Turns
    <3>2. CASE Reads(r) \/ Chooses(r) \/ Proceeds(r) \/ Starts(r) \/ Disowns(r)
      BY <3>2 DEF Reads, Chooses, Proceeds, Starts, Disowns, Turns, KeepsPayload, Carrying
    <3>3. CASE Records(r) \/ Waits(r)
      BY <3>3 DEF Records, Recording, Waits, KeepsPayload, Carrying
    <3> QED
      BY <1>4, <3>1, <3>2, <3>3 DEF ExecutorStep
  <2>2. CASE Claims(r)
    BY <1>1, <2>2, ClaimEffect DEF Claims, KeyOfTarget, Keyed, Holds, Carrying, Attached,
       Pending
  <2> QED
    BY <1>1, <1>4, <2>1, <2>2 DEF Holds, Attached, Pending
<1>5. CASE ExecutorStep(r)
  <2>1. \/ exec'[r].gen = 0 \/ UNCHANGED accounts \/ Claims(r)
    BY <1>5 DEF ExecutorStep, Drops, Reads, Chooses, Claims, LosesClaim, Proceeds, Starts,
       Disowns, Takes, GivesBack, Records, Waits, Settles, Leaves, Turns
  <2>2. CASE Claims(r)
    BY <1>1, <2>2, ClaimEffect DEF Claims, KeyOfTarget, Keyed, Holds, Carrying, Attached,
       Pending
  <2> QED
    BY <1>4, <1>5, <2>1, <2>2 DEF Holds
<1>6. CASE ~ExecutorStep(r)
  <2>1. exec'[r].gen = 0 \/ SameExec(r)
    BY <1>1, <1>6, StepCases DEF Elsewhere, Empty
  <2>2. UNCHANGED accounts \/ API \/ \E q \in RunIDs \ {r} : ExecutorStep(q)
    BY <1>1, <1>6, AccountCases
  <2> QED
    BY <1>1, <1>3, <2>1, <2>2 DEF Holds, SameExec, KeepsPayload, Attached, Pending
<1> QED
  BY <1>5, <1>6


LEMMA HoldingInit == Init => Holding
<1> SUFFICES ASSUME Init, NEW r \in RunIDs PROVE KeyOfTarget(r) /\ Holds(r)
  BY DEF Holding
<1>1. exec[r].pc = "idle" /\ exec[r].gen = 0
  BY DEF Init, IdleExec
<1> QED
  BY <1>1 DEF KeyOfTarget, Holds, Keyed, Carrying

\* Executors choose accounts of their own target, and keep what they carry.
THEOREM HoldingInductive == Spec => []Holding
<1>1. IInv /\ Holding /\ [Next]_vars => Holding'
  BY KeyStep, HoldsStep DEF Holding
<1> QED
  BY <1>1, HoldingInit, Inductive, PTL DEF Spec

\* The generation an executor carries stays attached to its run until the executor has
\* resolved it (ClaimACMEAccountProvisioning, finishProvisioning): no other run claims
\* it, no operator withdraws it and no retirement cancels it meanwhile.
THEOREM PayloadHeldCorrect == Spec => []PayloadHeld
<1>1. IInv /\ Holding => PayloadHeld
  BY DEF IInv, TypeOK, Holding, Holds, PayloadHeld
<1> QED
  BY <1>1, Inductive, HoldingInductive, PTL

-----------------------------------------------------------------------------
(* How the generations of an account move                                    *)

\* Nothing becomes pending, active or retired, and nothing is inserted.
Calm ==
  \A k \in Accounts, g \in Gens :
    /\ Pending(k, g)' => Pending(k, g)
    /\ accounts'[k][g].status = "none" <=> accounts[k][g].status = "none"
    /\ accounts'[k][g].status = "active" <=> accounts[k][g].status = "active"
    /\ accounts'[k][g].status = "retired" <=> accounts[k][g].status = "retired"

\* Generation g of k takes over.
Activates(k, g) ==
  /\ Pending(k, g) /\ accounts'[k][g].status = "active"
  /\ \A h \in Gens \ {g} : IF accounts[k][h].status = "active"
                             THEN accounts'[k][h].status = "retired"
                             ELSE accounts'[k][h] = accounts[k][h]
  /\ \A j \in Accounts \ {k} : accounts'[j] = accounts[j]

LEMMA RetireCalm ==
  ASSUME RegistryTypeOK, NEW t \in Targets, RetireTarget(t)
  PROVE  Calm
<1>1. \A j \in Accounts, h \in Gens :
        IF j[2] = t /\ Pending(j, h)
          THEN accounts'[j][h].status = "cancelled"
          ELSE accounts'[j][h] = accounts[j][h]
  BY RetireEffect
<1> QED
  BY <1>1 DEF Calm, Pending

LEMMA CancelCalm ==
  ASSUME RegistryTypeOK, NEW k \in Accounts, NEW g \in Gens,
         CancelACMEAccountProvisioning(k, g)
  PROVE  Calm
<1>1. /\ accounts'[k][g].status = "cancelled"
      /\ accounts[k][g].status = "provisioning"
      /\ \A j \in Accounts, h \in Gens :
           j # k \/ h # g => accounts'[j][h] = accounts[j][h]
  BY CancelEffect
<1> QED
  BY <1>1 DEF Calm, Pending

LEMMA ClaimCalm ==
  ASSUME RegistryTypeOK, NEW k \in Accounts, NEW g \in Gens, NEW r,
         ClaimACMEAccountProvisioning(k, g, r)
  PROVE  Calm
<1>1. /\ accounts'[k][g].status = "provisioning"
      /\ accounts[k][g].status = "provisioning"
      /\ \A j \in Accounts, h \in Gens :
           j # k \/ h # g => accounts'[j][h] = accounts[j][h]
  BY ClaimEffect
<1> QED
  BY <1>1 DEF Calm, Pending

LEMMA ReleaseCalm ==
  ASSUME RegistryTypeOK, NEW k, NEW g, NEW r, ReleaseACMEAccountProvisioning(k, g, r)
  PROVE  Calm
<1>1. \A j \in Accounts, h \in Gens : accounts'[j][h].status = accounts[j][h].status
  BY ReleaseEffect
<1> QED
  BY <1>1 DEF Calm, Pending

LEMMA CompleteMoves ==
  ASSUME RegistryTypeOK, NEW k \in Accounts, NEW g \in Gens, NEW r, NEW ok \in BOOLEAN,
         CompleteACMEAccountProvisioning(k, g, r, ok)
  PROVE  IF ok THEN Activates(k, g) ELSE Calm
<1>1. /\ Attached(k, g, r)
      /\ accounts'[k][g].status = IF ok THEN "active" ELSE "failed"
      /\ \A h \in Gens \ {g} :
           IF ok /\ accounts[k][h].status = "active"
             THEN accounts'[k][h].status = "retired"
             ELSE accounts'[k][h] = accounts[k][h]
      /\ \A j \in Accounts \ {k} : accounts'[j] = accounts[j]
  BY CompleteEffect
<1>2. CASE ok
  BY <1>1, <1>2 DEF Activates, Attached
<1>3. CASE ~ok
  BY <1>1, <1>3 DEF Calm, Attached, Pending
<1> QED
  BY <1>2, <1>3

\* A step of an executor, seen from the generations: only the settlement of a payload
\* reported as registered activates one.
Registers(r) == /\ exec[r].pc = "settle" /\ exec[r].gen \in Gens /\ exec[r].key \in Accounts
                /\ exec[r].report = "registered"
                /\ Activates(exec[r].key, exec[r].gen)

LEMMA ExecutorMoves ==
  ASSUME TypeOK, Holding, NEW r \in RunIDs, ExecutorStep(r)
  PROVE  Calm \/ Registers(r)
<1>1. /\ RegistryTypeOK /\ exec[r] \in ExecRow
      /\ exec[r].pc \in Keyed => exec[r].key \in Accounts
  BY DEF TypeOK, Holding, KeyOfTarget
<1>2. UNCHANGED accounts => Calm
  BY DEF Calm, Pending
<1>3. CASE Claims(r) \/ LosesClaim(r)
  <2>1. exec[r].key \in Accounts
    BY <1>1, <1>3 DEF Claims, LosesClaim, Keyed
  <2> QED
    BY <1>1, <1>2, <1>3, <2>1, ClaimCalm DEF Claims, LosesClaim
<1>4. CASE GivesBack(r)
  BY <1>1, <1>2, <1>4, ReleaseCalm DEF GivesBack
<1>5. CASE Settles(r)
  <2>1. exec[r].pc = "settle" /\ exec[r].key \in Accounts
    BY <1>1, <1>5 DEF Settles, Keyed, Carrying
  <2>2. ASSUME exec[r].gen # 0,
               CompleteACMEAccountProvisioning(exec[r].key, exec[r].gen, r,
                                               exec[r].report = "registered")
        PROVE  Calm \/ Registers(r)
    <3> DEFINE ok == exec[r].report = "registered"
    <3>1. ok \in BOOLEAN
      OBVIOUS
    <3>2. CompleteACMEAccountProvisioning(exec[r].key, exec[r].gen, r, ok)
      BY <2>2
    <3>3. exec[r].gen \in Gens
      BY <1>1, <2>2 DEF ExecRow
    <3> HIDE DEF ok
    <3>4. IF ok THEN Activates(exec[r].key, exec[r].gen) ELSE Calm
      BY <1>1, <2>1, <3>1, <3>2, <3>3, CompleteMoves
    <3> QED
      BY <2>1, <3>3, <3>4 DEF Registers, ok
  <2> QED
    BY <1>1, <1>2, <1>5, <2>2, ReleaseCalm DEF Settles
<1> QED
  BY <1>2, <1>3, <1>4, <1>5 DEF ExecutorStep, Drops, Reads, Chooses, Proceeds, Starts,
     Disowns, Takes, Records, Waits, Leaves

\* What any step may do to the generations.
AccountStep ==
  \/ Calm
  \/ \E k \in Accounts, g \in Gens : RequestACMEAccountProvisioning(k, g)
  \/ \E r \in RunIDs : Registers(r)

LEMMA EveryStepMovesAccounts ==
  ASSUME TypeOK, ClaimedExists, Holding, [Next]_vars
  PROVE  AccountStep
<1>1. UNCHANGED accounts => Calm
  BY DEF Calm, Pending
<1>2. API => AccountStep
  BY <1>1, ApiAccounts, CancelCalm, RetireCalm DEF AccountStep, TypeOK
<1> QED
  BY <1>1, <1>2, AccountCases, ExecutorMoves DEF AccountStep

-----------------------------------------------------------------------------
(* One pending and one active generation; activation goes upwards            *)

\* A pending generation is the highest recorded one.
PendingIsHighest ==
  \A k \in Accounts : \A g, h \in Gens :
    Pending(k, g) /\ accounts[k][h].status # "none" => h <= g

OneActiveGen ==
  \A k \in Accounts : \A g, h \in Gens :
    accounts[k][g].status = "active" /\ accounts[k][h].status = "active" => g = h

LEMMA GenerationsInit == Init => PendingIsHighest /\ OneActiveGen
<1> SUFFICES ASSUME Init PROVE PendingIsHighest /\ OneActiveGen
  OBVIOUS
<1>1. \A k \in Accounts, g \in Gens : accounts[k][g].status = "none"
  BY DEF Init, RegistryInit
<1> QED
  BY <1>1 DEF PendingIsHighest, OneActiveGen, Pending

LEMMA GenerationsStep ==
  ASSUME RegistryTypeOK, PendingIsHighest, OneActiveGen, AccountStep
  PROVE  PendingIsHighest' /\ OneActiveGen'
<1> USE DEF PendingIsHighest, OneActiveGen, Pending
<1>1. CASE Calm
  BY <1>1 DEF Calm
<1>2. ASSUME NEW k \in Accounts, NEW g \in Gens, RequestACMEAccountProvisioning(k, g)
      PROVE  PendingIsHighest' /\ OneActiveGen'
  <2>1. /\ accounts'[k][g].status = "provisioning"
        /\ \A h \in Gens : accounts[k][h].status = "none" <=> h >= g
        /\ \A j \in Accounts, h \in Gens :
             j # k \/ h # g => accounts'[j][h] = accounts[j][h]
    BY <1>2, RequestEffect
  <2>2. \A h \in Gens : ~Pending(k, h)
    BY <1>2 DEF RequestACMEAccountProvisioning
  <2> QED
    BY <2>1, <2>2 DEF Gens
<1>3. ASSUME NEW r \in RunIDs, Registers(r)
      PROVE  PendingIsHighest' /\ OneActiveGen'
  <2> DEFINE k == exec[r].key  g == exec[r].gen
  <2>1. k \in Accounts /\ g \in Gens
    BY <1>3 DEF Registers
  <2>2. /\ Pending(k, g) /\ accounts'[k][g].status = "active"
        /\ \A h \in Gens \ {g} : IF accounts[k][h].status = "active"
                                   THEN accounts'[k][h].status = "retired"
                                   ELSE accounts'[k][h] = accounts[k][h]
        /\ \A j \in Accounts \ {k} : accounts'[j] = accounts[j]
    BY <1>3 DEF Registers, Activates
  <2> HIDE DEF k, g
  <2> QED
    BY <2>1, <2>2
<1> QED
  BY <1>1, <1>2, <1>3 DEF AccountStep

LEMMA ActiveStays ==
  ASSUME RegistryTypeOK, PendingIsHighest, OneActiveGen, AccountStep,
         NEW k \in Accounts, HasActiveGen(k)
  PROVE  \E g \in Gens : /\ accounts'[k][g].status = "active"
                         /\ \A h \in Gens : accounts[k][h].status = "active" => h <= g
                         /\ \A h \in Gens : accounts'[k][h].status = "active" => h = g
<1>1. PICK a \in Gens : accounts[k][a].status = "active"
  BY DEF HasActiveGen
<1>2. /\ \A h \in Gens : accounts[k][h].status = "active" => h = a
      /\ a <= a
  BY <1>1 DEF OneActiveGen, Gens
<1>3. CASE \A h \in Gens : accounts'[k][h].status = "active" <=> accounts[k][h].status = "active"
  BY <1>1, <1>2, <1>3
<1>4. CASE Calm
  BY <1>3, <1>4 DEF Calm
<1>5. ASSUME NEW j \in Accounts, NEW g \in Gens, RequestACMEAccountProvisioning(j, g)
      PROVE  \A h \in Gens :
               accounts'[k][h].status = "active" <=> accounts[k][h].status = "active"
  <2>1. /\ accounts'[j][g].status = "provisioning" /\ accounts[j][g].status = "none"
        /\ \A i \in Accounts, h \in Gens :
             i # j \/ h # g => accounts'[i][h] = accounts[i][h]
    BY <1>5, RequestEffect DEF Gens
  <2> QED
    BY <2>1
<1>6. ASSUME NEW r \in RunIDs, Registers(r)
      PROVE  \E g \in Gens : /\ accounts'[k][g].status = "active"
                             /\ \A h \in Gens : accounts[k][h].status = "active" => h <= g
                             /\ \A h \in Gens : accounts'[k][h].status = "active" => h = g
  <2> DEFINE j == exec[r].key  g == exec[r].gen
  <2>1. /\ j \in Accounts /\ g \in Gens
        /\ Pending(j, g) /\ accounts'[j][g].status = "active"
        /\ \A h \in Gens \ {g} : IF accounts[j][h].status = "active"
                                   THEN accounts'[j][h].status = "retired"
                                   ELSE accounts'[j][h] = accounts[j][h]
        /\ \A i \in Accounts \ {j} : accounts'[i] = accounts[i]
    BY <1>6 DEF Registers, Activates
  <2> HIDE DEF j, g
  <2>2. CASE k # j
    BY <1>3, <2>1, <2>2
  <2>3. CASE k = j
    <3>1. \A h \in Gens : accounts[k][h].status = "active" => h <= g
      BY <2>1, <2>3 DEF PendingIsHighest
    <3>2. \A h \in Gens : accounts'[k][h].status = "active" => h = g
      BY <2>1, <2>3
    <3> QED
      BY <2>1, <2>3, <3>1, <3>2
  <2> QED
    BY <2>2, <2>3
<1> QED
  BY <1>3, <1>4, <1>5, <1>6 DEF AccountStep

\* Of each account at most one generation is active, and one that is pending is newer
\* than all others (acme_accounts_one_active, acme_accounts_one_pending).
THEOREM GenerationsInductive == Spec => [](PendingIsHighest /\ OneActiveGen)
<1>1. IInv /\ Holding /\ PendingIsHighest /\ OneActiveGen /\ [Next]_vars
        => PendingIsHighest' /\ OneActiveGen'
  BY EveryStepMovesAccounts, GenerationsStep DEF IInv, TypeOK
<1> QED
  BY <1>1, GenerationsInit, Inductive, HoldingInductive, PTL DEF Spec

\* An account in use stays in use: once it has an active generation it has exactly one
\* after every step, never an older one, and a failed provisioning does not take it away
\* (CompleteACMEAccountProvisioning).
THEOREM ActiveNeverLostCorrect == Spec => ActiveNeverLost
<1> DEFINE Kept == \A k \in Accounts : HasActiveGen(k) =>
             \E g \in Gens : /\ accounts'[k][g].status = "active"
                             /\ \A h \in Gens : accounts[k][h].status = "active" => h <= g
                             /\ \A h \in Gens : accounts'[k][h].status = "active" => h = g
<1>1. IInv /\ Holding /\ PendingIsHighest /\ OneActiveGen /\ [Next]_vars => [Kept]_vars
  BY EveryStepMovesAccounts, ActiveStays DEF IInv, TypeOK
<1> QED
  BY <1>1, Inductive, HoldingInductive, GenerationsInductive, PTL DEF Spec, ActiveNeverLost


-----------------------------------------------------------------------------
(* Retirement                                                                *)

\* Only RetireTarget retires, and nothing brings a target back.
LEMMA RetiredMoves ==
  ASSUME TypeOK, ClaimedExists, [Next]_vars
  PROVE  \/ \A t \in Targets : targets'[t].retired <=> targets[t].retired
         \/ \E t \in Targets : RetireTarget(t)
<1>1. Process \/ Loop => UNCHANGED targets
  <2>1. 1 \in RunIDs
    BY RegistryAssumption DEF RunIDs
  <2> QED
    BY <2>1, ProcessElsewhere, LoopElsewhere
<1>2. ASSUME NEW q \in RunIDs, Runner(q) PROVE UNCHANGED targets
  BY <1>2 DEF Runner, RunnerTries, RunnerEnds, registryVars
<1>3. ASSUME NEW q \in RunIDs, Execute(q) PROVE UNCHANGED targets
  BY <1>3, ExecuteSteps DEF ExecutorStep
<1>4. ASSUME NEW t \in Targets, NEW on \in BOOLEAN, NEW p \in Policies,
             UpdateTarget(t, on, p)
      PROVE  \A u \in Targets : targets'[u].retired <=> targets[u].retired
  BY <1>4 DEF UpdateTarget, TypeOK, RegistryTypeOK
<1>5. API => \/ UNCHANGED targets
             \/ \E t \in Targets : RetireTarget(t)
             \/ \E t \in Targets, on \in BOOLEAN, p \in Policies : UpdateTarget(t, on, p)
  BY DEF API, ApiRequestRun, ApiUpdateTarget, ApiRetireTarget, ApiCreateRun,
     ApiCancelQueued, ApiCancelInFlight, ApiUpdatePolicy, ApiRequestProvisioning,
     ApiCancelProvisioning, registryVars, CreateRun, UpdateRun, UpdatePolicy,
     RequestACMEAccountProvisioning, CancelACMEAccountProvisioning
<1> QED
  BY <1>1, <1>2, <1>3, <1>4, <1>5 DEF Next, vars, registryVars

LEMMA QuietStep ==
  ASSUME IInv, Holding, RetiredIsQuiet, [Next]_vars
  PROVE  RetiredIsQuiet'
<1>1. TypeOK /\ ClaimedExists /\ RegistryTypeOK /\ RunStep /\ AccountStep
  BY EveryStepMovesRuns, EveryStepMovesAccounts DEF IInv, TypeOK
<1>2. ASSUME NEW t \in Targets, targets[t].retired PROVE ~HasActiveRun(t)'
  <2>1. ~HasActiveRun(t)
    BY <1>2 DEF RetiredIsQuiet
  <2>2. ASSUME NEW r \in RunIDs, NEW u \in Targets, NEW rev \in Revisions,
               CreateRun(r, u, rev)
        PROVE  ~HasActiveRun(t)'
    <3>1. u # t
      BY <1>2, <2>2 DEF CreateRun
    <3>2. /\ runs'[r].target = u
          /\ \A q \in RunIDs \ {r} : runs'[q] = runs[q]
      BY <2>2, CreateShape
    <3> QED
      BY <2>1, <3>1, <3>2 DEF HasActiveRun, Active
  <2>3. CASE \A q \in RunIDs : /\ runs'[q].target = runs[q].target
                               /\ Active(q)' => Active(q)
    BY <2>1, <2>3 DEF HasActiveRun
  <2> QED
    BY <1>1, <2>2, <2>3, MovesKeepTargets
<1>3. ASSUME NEW t \in Targets, targets[t].retired,
             NEW k \in Accounts, NEW g \in Gens, k[2] = t
      PROVE  ~Pending(k, g)'
  <2>1. ~Pending(k, g)
    BY <1>3 DEF RetiredIsQuiet
  <2>2. CASE Calm
    BY <2>1, <2>2 DEF Calm
  <2>3. ASSUME NEW j \in Accounts, NEW h \in Gens, RequestACMEAccountProvisioning(j, h)
        PROVE  ~Pending(k, g)'
    <3>1. j # k
      BY <1>1, <1>3, <2>3, RequestEffect
    <3> QED
      BY <1>1, <2>1, <2>3, <3>1, RequestEffect DEF Pending
  <2>4. ASSUME NEW r \in RunIDs, Registers(r) PROVE ~Pending(k, g)'
    <3>1. /\ accounts'[exec[r].key][exec[r].gen].status = "active"
          /\ \A h \in Gens \ {exec[r].gen} :
               IF accounts[exec[r].key][h].status = "active"
                 THEN accounts'[exec[r].key][h].status = "retired"
                 ELSE accounts'[exec[r].key][h] = accounts[exec[r].key][h]
          /\ \A j \in Accounts \ {exec[r].key} : accounts'[j] = accounts[j]
      BY <2>4 DEF Registers, Activates
    <3> QED
      BY <2>1, <3>1 DEF Pending
  <2> QED
    BY <1>1, <2>2, <2>3, <2>4 DEF AccountStep
<1>4. CASE \A t \in Targets : targets'[t].retired <=> targets[t].retired
  BY <1>2, <1>3, <1>4 DEF RetiredIsQuiet, Accounts, Gens
<1>5. ASSUME NEW t \in Targets, RetireTarget(t) PROVE RetiredIsQuiet'
  <2>1. /\ ~HasActiveRun(t)
        /\ \A j \in Accounts, h \in Gens :
             IF j[2] = t /\ Pending(j, h)
               THEN accounts'[j][h].status = "cancelled"
               ELSE accounts'[j][h] = accounts[j][h]
        /\ \A u \in Targets : targets'[u].retired <=> (u = t \/ targets[u].retired)
        /\ UNCHANGED runs
    BY <1>1, <1>5, RetireEffect
  <2>2. ~HasActiveRun(t)'
    BY <2>1 DEF HasActiveRun, Active
  <2>3. \A k \in Accounts, g \in Gens : k[2] = t => ~Pending(k, g)'
    BY <2>1 DEF Pending
  <2> QED
    BY <1>2, <1>3, <2>1, <2>2, <2>3 DEF RetiredIsQuiet, Accounts, Gens
<1> QED
  BY <1>1, <1>4, <1>5, RetiredMoves

\* A retired target has no active run and no pending request for an account of its own,
\* ever again: a run or a request decided before the retirement commits is refused by
\* its own transaction (CreateRun, RequestACMEAccountProvisioning), and what a run of
\* the target carries keeps the retirement out (RetireTarget).
THEOREM RetiredIsQuietCorrect == Spec => []RetiredIsQuiet
<1>1. Init => RetiredIsQuiet
  <2> SUFFICES ASSUME Init PROVE RetiredIsQuiet
    OBVIOUS
  <2>1. \A t \in Targets : ~targets[t].retired
    BY DEF Init, RegistryInit
  <2> QED
    BY <2>1 DEF RetiredIsQuiet
<1>2. IInv /\ Holding /\ RetiredIsQuiet /\ [Next]_vars => RetiredIsQuiet'
  BY QuietStep
<1> QED
  BY <1>1, <1>2, Inductive, HoldingInductive, PTL DEF Spec


-----------------------------------------------------------------------------
(* The Runners and the executors that started them                           *)

Unlaunched == {"target", "policy", "claim", "account", "launch", "release"}

\* What the executor of r knows of its Runner: there is none before Start, and after a
\* Start error none or a disowned one; it was given the payload the executor carries;
\* and a report says what the Runner did.
KnowsRunner(r) ==
  /\ exec[r].pc \in Unlaunched =>
       runner[r].state = "none" \/ (exec[r].pc = "release" /\ runner[r].disowned)
  /\ exec[r].pc \in {"began", "wait"} => runner[r].gen = exec[r].gen
  /\ exec[r].pc \in {"began", "wait"} /\ exec[r].gen # 0 => runner[r].key = exec[r].key
  /\ exec[r].pc \in {"again", "settle"} /\ exec[r].gen # 0
       /\ exec[r].report = "registered" =>
         /\ runner[r].key = exec[r].key /\ runner[r].gen = exec[r].gen
         /\ runner[r].registered
  /\ exec[r].pc \in {"again", "settle"} /\ exec[r].gen # 0 /\ exec[r].report = "none" =>
       runner[r].state = "ended" /\ ~runner[r].tried

Registering(r) == loop.pc = "register" /\ loop.run = r

\* A Runner registers only what it was given, a run no executor had yet has none, and a
\* launcher that reaps disowns none.
RunnerSane(r) ==
  /\ runner[r].disowned => ~LauncherReaps
  /\ runner[r].registered => runner[r].tried
  /\ runner[r].tried => runner[r].gen # 0 /\ runner[r].state # "none"
  /\ runner[r].gen # 0 => runner[r].key \in Accounts
  /\ runs[r].status \in {"none", "queued"} => runner[r].state = "none"
  /\ Registering(r) => runner[r].state = "none"

Runners == \A r \in RunIDs : KnowsRunner(r) /\ RunnerSane(r)

\* The Runner's own steps.
Acts(r) ==
  /\ runner[r].state = "live" /\ runner'[r].disowned = runner[r].disowned
  /\ runner'[r].key = runner[r].key /\ runner'[r].gen = runner[r].gen
  /\ \/ /\ runner[r].gen # 0 /\ ~runner[r].tried
        /\ runner'[r].state = "live" /\ runner'[r].tried
     \/ /\ runner'[r].state = "ended" /\ runner'[r].tried = runner[r].tried
        /\ runner'[r].registered = runner[r].registered
  /\ UNCHANGED <<registryVars, processVars, stops>>
  /\ \A q \in RunIDs \ {r} : runner'[q] = runner[q]

LEMMA RunnerActs ==
  ASSUME TypeOK, NEW r \in RunIDs, Runner(r)
  PROVE  Acts(r)
<1>1. runner \in [RunIDs -> RunnerRow] /\ runner[r] \in RunnerRow
  BY DEF TypeOK
<1>2. runner[r].state = "live" /\ UNCHANGED <<registryVars, processVars, stops>>
  BY DEF Runner, RunnerTries, RunnerEnds
<1>3. CASE RunnerEnds(r)
  <2> DEFINE w == [runner[r] EXCEPT !.state = "ended"]
  <2>1. runner'[r] = w /\ \A q \in RunIDs \ {r} : runner'[q] = runner[q]
    BY <1>1, <1>3 DEF RunnerEnds
  <2>2. /\ w.state = "ended" /\ w.key = runner[r].key /\ w.gen = runner[r].gen
        /\ w.tried = runner[r].tried /\ w.registered = runner[r].registered
        /\ w.disowned = runner[r].disowned
    BY <1>1 DEF RunnerRow
  <2> HIDE DEF w
  <2> QED
    BY <1>2, <2>1, <2>2 DEF Acts
<1>4. CASE RunnerTries(r)
  <2>1. PICK ok \in BOOLEAN :
          runner' = [runner EXCEPT ![r].tried = TRUE, ![r].registered = ok]
    BY <1>4 DEF RunnerTries
  <2> DEFINE w1 == [runner[r] EXCEPT !.tried = TRUE]
             w2 == [w1 EXCEPT !.registered = ok]
  <2>2. runner'[r] = w2 /\ \A q \in RunIDs \ {r} : runner'[q] = runner[q]
    BY <1>1, <2>1
  <2>3. /\ w2.state = runner[r].state /\ w2.key = runner[r].key /\ w2.gen = runner[r].gen
        /\ w2.tried = TRUE /\ w2.disowned = runner[r].disowned
    BY <1>1 DEF RunnerRow
  <2>4. runner[r].gen # 0 /\ ~runner[r].tried
    BY <1>4 DEF RunnerTries
  <2> HIDE DEF w2
  <2> QED
    BY <1>2, <2>2, <2>3, <2>4 DEF Acts
<1> QED
  BY <1>3, <1>4 DEF Runner

\* A step, seen from the Runner of r.
LEMMA RunnerCases ==
  ASSUME TypeOK, ClaimedExists, [Next]_vars, NEW r \in RunIDs
  PROVE  \/ runner'[r] = runner[r]
         \/ ExecutorStep(r) /\ (Starts(r) \/ Disowns(r) \/ Waits(r))
         \/ Acts(r)
<1>1. ASSUME NEW q \in RunIDs, Execute(q)
      PROVE  \/ runner'[r] = runner[r]
             \/ ExecutorStep(r) /\ (Starts(r) \/ Disowns(r) \/ Waits(r))
  <2>1. ExecutorStep(q)
    BY <1>1, ExecuteSteps
  <2> QED
    BY <2>1 DEF ExecutorStep, Drops, Reads, Chooses, Claims, LosesClaim, Proceeds, Starts,
       Disowns, Takes, GivesBack, Records, Waits, Settles, Leaves
<1>2. ASSUME NEW q \in RunIDs, Runner(q) PROVE runner'[r] = runner[r] \/ Acts(r)
  <2>1. Acts(q)
    BY <1>2, RunnerActs
  <2> QED
    BY <2>1 DEF Acts
<1>3. Process \/ Loop \/ API \/ UNCHANGED vars => runner'[r] = runner[r]
  BY ProcessElsewhere, LoopElsewhere, ApiElsewhere DEF vars
<1> QED
  BY <1>1, <1>2, <1>3 DEF Next

\* A run is between claim and registration only after Dispatch claimed it.
LEMMA RegisterCases ==
  ASSUME TypeOK, ClaimedExists, [Next]_vars, NEW r \in RunIDs, Registering(r)'
  PROVE  Registering(r) \/ (runs[r].status = "queued" /\ UNCHANGED runner)
<1>1. Process => UNCHANGED loop \/ loop'.pc # "register"
  BY DEF Process, StartProcess, Crash, Stop, StopLoop, DrainDeadline, DrainDone,
     ExitProcess, Gone, IdleLoop
<1>2. CASE \/ PlanList \/ PlanBindings \/ PlanDone \/ PlanFails
           \/ \E x \in loop.todo : PlanTarget(x)
           \/ \E x \in loop.pick : PlanCreate(x)
           \/ \E b \in Bindings : PlanBinding(b)
  BY <1>2, PlanType DEF Registering
<1>3. ASSUME NEW q \in RunIDs, DispatchClaim(q)
      PROVE  runs[r].status = "queued" /\ UNCHANGED runner
  BY <1>3 DEF DispatchClaim, ClaimQueuedRun, OldestQueued, Registering, TypeOK, LoopRow
<1>4. loop \in LoopRow
  BY DEF TypeOK
<1>5. CASE DispatchRegister \/ DispatchDone \/ DispatchFails
  BY <1>4, <1>5 DEF DispatchRegister, DispatchDone, DispatchFails, Registering, LoopRow
<1>6. CASE SweepList \/ SweepDone \/ SweepFails
           \/ \E q \in RunIDs, s \in {"starting", "running"} : SweepClose(q, s)
  <2>1. loop'.pc # "register"
    <3>1. CASE SweepList
      BY <1>4, <3>1 DEF SweepList, LoopRow
    <3>2. CASE SweepDone \/ SweepFails
      <4>1. loop' = IdleLoop \/ loop' = [IdleLoop EXCEPT !.pc = "plan"]
        BY <3>2 DEF SweepDone, SweepFails, Gone
      <4> QED
        BY <4>1 DEF IdleLoop
    <3>3. ASSUME NEW q \in RunIDs, NEW s \in {"starting", "running"}, SweepClose(q, s)
          PROVE  loop'.pc # "register"
      <4>1. loop.pc = "close" /\ loop' = [loop EXCEPT !.snap = @ \ {<<q, s>>}]
        BY <3>3 DEF SweepClose, LoopAt
      <4> QED
        BY <1>4, <4>1 DEF LoopRow
    <3> QED
      BY <1>6, <3>1, <3>2, <3>3
  <2> QED
    BY <2>1 DEF Registering
<1>7. ASSUME NEW q \in RunIDs, Execute(q) PROVE UNCHANGED loop
  BY <1>7, ExecuteSteps DEF ExecutorStep
<1>8. ASSUME NEW q \in RunIDs, Runner(q) PROVE UNCHANGED loop
  BY <1>8, RunnerActs DEF Acts, processVars
<1>9. API => UNCHANGED loop
  BY ApiElsewhere
<1> QED
  BY <1>1, <1>2, <1>3, <1>5, <1>6, <1>7, <1>8, <1>9 DEF Next, Loop, vars, Registering

\* A run that exists and was claimed never goes back.
LEMMA NeverUnclaimed ==
  ASSUME IInv, RunStep, NEW r \in RunIDs, runs'[r].status \in {"none", "queued"}
  PROVE  runs[r].status \in {"none", "queued"}
<1>1. ASSUME NEW q \in RunIDs, NEW from \in RunStatus, NEW to \in RunStatus \ {"queued"},
             UpdateRun(q, from, to)
      PROVE  runs[r].status \in {"none", "queued"}
  <2>1. to \in RunStatus
    OBVIOUS
  <2>2. runs'[q].status = to /\ \A p \in RunIDs \ {q} : runs'[p] = runs[p]
    BY <1>1, <2>1, MoveShape
  <2>3. to # "none"
    BY DEF RunStatus, ActiveStatus, TerminalStatus
  <2> QED
    BY <1>1, <2>2, <2>3
<1>2. ASSUME NEW q \in RunIDs, ClaimQueuedRun(q)
      PROVE  runs[r].status \in {"none", "queued"}
  BY <1>2, ClaimShape
<1>3. ASSUME NEW q \in RunIDs, NEW t \in Targets, NEW rev \in Revisions,
             CreateRun(q, t, rev)
      PROVE  runs[r].status \in {"none", "queued"}
  BY <1>3, CreateShape
<1>4. /\ {"queued", "starting", "running"} \subseteq RunStatus
      /\ {"cancelled", "running"} \subseteq RunStatus \ {"queued"}
      /\ TerminalStatus \subseteq RunStatus \ {"queued"}
  BY DEF RunStatus, ActiveStatus, TerminalStatus
<1>5. CASE UNCHANGED <<runs, audit>>
  BY <1>5
<1> QED
  BY <1>1, <1>2, <1>3, <1>4, <1>5 DEF RunStep


LEMMA RunnersInit == Init => Runners
<1> SUFFICES ASSUME Init, NEW r \in RunIDs PROVE KnowsRunner(r) /\ RunnerSane(r)
  BY DEF Runners
<1>1. exec[r].pc = "idle"
  BY DEF Init, IdleExec
<1>2. /\ runner[r].state = "none" /\ runner[r].gen = 0
      /\ runner[r].tried = FALSE /\ runner[r].registered = FALSE
      /\ runner[r].disowned = FALSE
  BY DEF Init, NoRunner
<1> QED
  BY <1>1, <1>2 DEF KnowsRunner, RunnerSane, Unlaunched

LEMMA SaneStep ==
  ASSUME IInv, Holding, Runners, [Next]_vars, NEW r \in RunIDs
  PROVE  RunnerSane(r)'
<1>1. TypeOK /\ ClaimedExists /\ RunStep /\ KnowsRunner(r) /\ RunnerSane(r)
  BY EveryStepMovesRuns DEF IInv, Runners
<1>2. runs'[r].status \in {"none", "queued"} => runner[r].state = "none"
  BY <1>1, NeverUnclaimed DEF RunnerSane
<1>3. Registering(r)' => runner[r].state = "none"
  BY <1>1, RegisterCases DEF RunnerSane
<1>4. CASE runner'[r] = runner[r]
  BY <1>1, <1>2, <1>3, <1>4 DEF RunnerSane
<1>5. CASE Acts(r)
  BY <1>1, <1>2, <1>3, <1>5 DEF RunnerSane, Acts
<1>6. CASE ExecutorStep(r) /\ (Starts(r) \/ Disowns(r))
  <2>1. exec[r].gen # 0 => exec[r].key \in Accounts
    BY <1>6 DEF Holding, KeyOfTarget, Keyed, Carrying, Starts, Disowns
  <2>2. exec[r].pc = "launch" /\ UNCHANGED loop
    BY <1>6 DEF ExecutorStep, Starts, Disowns
  <2>3. /\ runs[r].status \notin {"none", "queued"} /\ r \in inflight
    BY <2>2 DEF IInv, Ownership, RowOwned
  <2>4. runs'[r].status \notin {"none", "queued"}
    BY <1>1, <2>3, NeverUnclaimed
  <2>5. ~Registering(r)
    BY <2>3 DEF Registering, IInv, Ownership
  <2>6. ~Registering(r)'
    BY <2>2, <2>5 DEF Registering
  <2> QED
    BY <1>6, <2>1, <2>4, <2>6 DEF Starts, Disowns, Takes, RunnerSane
<1>7. CASE ExecutorStep(r) /\ Waits(r) /\ runner'[r] # runner[r]
  <2>1. exec[r].pc = "wait" /\ UNCHANGED loop
    BY <1>7 DEF ExecutorStep, Waits
  <2>2. /\ runs[r].status \notin {"none", "queued"} /\ r \in inflight
    BY <2>1 DEF IInv, Ownership, RowOwned
  <2>3. runs'[r].status \notin {"none", "queued"}
    BY <1>1, <2>2, NeverUnclaimed
  <2>4. ~Registering(r)'
    BY <2>1, <2>2 DEF Registering, IInv, Ownership
  <2> QED
    BY <1>1, <1>7, <2>3, <2>4 DEF Waits, RunnerSane
<1> QED
  BY <1>1, <1>4, <1>5, <1>6, <1>7, RunnerCases

LEMMA KnowsStep ==
  ASSUME IInv, Holding, Runners, [Next]_vars, NEW r \in RunIDs
  PROVE  KnowsRunner(r)'
<1>1. TypeOK /\ ClaimedExists /\ KnowsRunner(r) /\ RunnerSane(r) /\ Holds(r)
  BY DEF IInv, Runners, Holding
<1>2. CASE SameExec(r) /\ runner'[r] = runner[r]
  BY <1>1, <1>2 DEF SameExec, KeepsPayload, KnowsRunner
<1>3. CASE Acts(r)
  <2>1. exec'[r] = exec[r]
    BY <1>3 DEF Acts, processVars
  <2> QED
    BY <1>1, <1>3, <2>1 DEF Acts, KnowsRunner, RunnerSane
<1>4. CASE Elsewhere(r) /\ runner'[r] = runner[r]
  <2>1. CASE Empty(r) /\ exec'[r].pc = "idle"
    BY <2>1 DEF KnowsRunner, Unlaunched
  <2>2. CASE Empty(r) /\ exec'[r].pc = "target" /\ Registering(r)
    BY <1>1, <1>4, <2>2 DEF KnowsRunner, RunnerSane
  <2> QED
    BY <1>2, <1>4, <2>1, <2>2 DEF Elsewhere, Registering
<1>5. CASE ExecutorStep(r)
  <2>1. CASE Drops(r) \/ LosesClaim(r) \/ GivesBack(r) \/ Settles(r) \/ Leaves(r)
    BY <2>1 DEF Drops, LosesClaim, GivesBack, Settles, Leaves, Turns, KnowsRunner,
       Unlaunched
  <2>2. CASE Reads(r) \/ Chooses(r) \/ Proceeds(r)
    BY <1>1, <2>2 DEF Reads, Chooses, Proceeds, KnowsRunner, Unlaunched
  <2>3. CASE Claims(r)
    BY <1>1, <2>3 DEF Claims, KnowsRunner, Unlaunched
  <2>4. CASE Starts(r) \/ Disowns(r)
    BY <1>1, <2>4 DEF Starts, Disowns, Takes, Turns, KeepsPayload, KnowsRunner, Unlaunched
  <2>5. CASE Records(r)
    BY <1>1, <2>5 DEF Records, Recording, KeepsPayload, KnowsRunner, Unlaunched
  <2>6. CASE Waits(r)
    <3>1. /\ exec[r].pc = "wait" /\ exec'[r].pc \in {"again", "settle"}
          /\ exec'[r].key = exec[r].key /\ exec'[r].gen = exec[r].gen
          /\ exec[r].gen # 0 /\ exec'[r].report = "registered" => runner[r].registered
          /\ exec[r].gen # 0 /\ exec'[r].report = "none" =>
               runner[r].state = "ended" /\ ~runner[r].tried
      BY <2>6 DEF Waits
    <3>2. /\ runner'[r].key = runner[r].key /\ runner'[r].gen = runner[r].gen
          /\ runner'[r].tried = runner[r].tried
          /\ runner'[r].registered = runner[r].registered
          /\ runner'[r].state = "ended" \/ runner'[r].state = runner[r].state
      BY <2>6 DEF Waits
    <3> QED
      BY <1>1, <3>1, <3>2 DEF KnowsRunner, Unlaunched
  <2> QED
    BY <1>5, <2>1, <2>2, <2>3, <2>4, <2>5, <2>6 DEF ExecutorStep
<1> QED
  BY <1>1, <1>3, <1>4, <1>5, StepCases, RunnerCases

\* Executors know their Runners, and Runners do what they were given.
THEOREM RunnersInductive == Spec => []Runners
<1>1. IInv /\ Holding /\ Runners /\ [Next]_vars => Runners'
  BY SaneStep, KnowsStep DEF Runners
<1> QED
  BY <1>1, RunnersInit, Inductive, HoldingInductive, PTL DEF Spec


-----------------------------------------------------------------------------
(* A payload is spent once                                                   *)

\* The Runner of r, whose start was reported, has opened its payload or still may.
Spends(r) ==
  ~runner[r].disowned /\ runner[r].gen # 0 /\ (runner[r].tried \/ runner[r].state = "live")

RowOf(r) == accounts[runner[r].key][runner[r].gen]

\* What a Runner spends is recorded, and attached to its run as long as it is pending.
SpendsItsOwn(r) ==
  Spends(r) => /\ RowOf(r).status # "none"
               /\ RowOf(r).status = "provisioning" => RowOf(r).run = r

SpentByOne ==
  \A q, r \in RunIDs :
    /\ Spends(q) /\ Spends(r)
    /\ runner[q].key = runner[r].key /\ runner[q].gen = runner[r].gen
    => q = r

Spending == (\A r \in RunIDs : SpendsItsOwn(r)) /\ SpentByOne

\* A pending row keeps its run but for that run's own release.
LEMMA RowKeepsRun ==
  ASSUME TypeOK, Holding, NEW r \in RunIDs, NEW k \in Accounts, NEW g \in Gens,
         accounts[k][g].status # "none",
         accounts[k][g].status = "provisioning" => accounts[k][g].run = r,
         UNCHANGED accounts \/ API \/ (\E q \in RunIDs : ExecutorStep(q)),
         ExecutorStep(r) => ~Settles(r) /\ ~GivesBack(r)
  PROVE  /\ accounts'[k][g].status # "none"
         /\ accounts'[k][g].status = "provisioning" => accounts'[k][g].run = r
<1> DEFINE Goal == /\ accounts'[k][g].status # "none"
                   /\ accounts'[k][g].status = "provisioning" => accounts'[k][g].run = r
<1>1. RegistryTypeOK /\ r # NoRun
  BY DEF TypeOK, RunIDs, NoRun
<1>2. CASE UNCHANGED accounts
  BY <1>2
<1>3. ASSUME NEW j \in Accounts, NEW h \in Gens, RequestACMEAccountProvisioning(j, h)
      PROVE  Goal
  <2>1. accounts[j][h].status = "none"
    BY <1>1, <1>3, RequestEffect DEF Gens
  <2>2. accounts'[k][g] = accounts[k][g]
    BY <1>1, <1>3, <2>1, RequestEffect
  <2> QED
    BY <2>2
<1>4. ASSUME NEW j \in Accounts, NEW h \in Gens, CancelACMEAccountProvisioning(j, h)
      PROVE  Goal
  <2>1. accounts'[k][g] = accounts[k][g]
    BY <1>1, <1>4, CancelEffect
  <2> QED
    BY <2>1
<1>5. ASSUME NEW t \in Targets, RetireTarget(t)
      PROVE  Goal
  <2>1. accounts'[k][g].status = "cancelled" \/ accounts'[k][g] = accounts[k][g]
    BY <1>1, <1>5, RetireEffect
  <2> QED
    BY <2>1
<1>6. ASSUME NEW q \in RunIDs, NEW h \in Gens, exec[q].key \in Accounts,
             ClaimACMEAccountProvisioning(exec[q].key, h, q)
      PROVE  Goal
  <2>1. accounts'[k][g] = accounts[k][g]
    BY <1>1, <1>6, ClaimEffect
  <2> QED
    BY <2>1
<1>7. ASSUME NEW q \in RunIDs \ {r},
             ReleaseACMEAccountProvisioning(exec[q].key, exec[q].gen, q)
      PROVE  Goal
  <2>1. accounts'[k][g] = accounts[k][g]
    BY <1>1, <1>7, ReleaseEffect DEF Attached, Pending
  <2> QED
    BY <2>1
<1>8. ASSUME NEW q \in RunIDs \ {r}, Settles(q), exec[q].gen # 0,
             CompleteACMEAccountProvisioning(exec[q].key, exec[q].gen, q,
                                             exec[q].report = "registered")
      PROVE  Goal
  <2> DEFINE ok == exec[q].report = "registered"
             j  == exec[q].key
             h  == exec[q].gen
  <2>1. j \in Accounts /\ h \in Gens
    BY <1>8 DEF Holding, KeyOfTarget, Settles, Keyed, Carrying, TypeOK, ExecRow
  <2>2. ok \in BOOLEAN /\ CompleteACMEAccountProvisioning(j, h, q, ok)
    BY <1>8
  <2> HIDE DEF ok, j, h
  <2>3. /\ accounts'[j][h].status = IF ok THEN "active" ELSE "failed"
        /\ \A i \in Gens \ {h} :
             IF ok /\ accounts[j][i].status = "active"
               THEN accounts'[j][i].status = "retired"
               ELSE accounts'[j][i] = accounts[j][i]
        /\ \A i \in Accounts \ {j} : accounts'[i] = accounts[i]
    BY <1>1, <2>1, <2>2, CompleteEffect
  <2>4. accounts'[k][g].status \in {"active", "failed", "retired"}
        \/ accounts'[k][g] = accounts[k][g]
    BY <2>1, <2>3
  <2> QED
    BY <2>4
<1>9. ASSUME NEW q \in RunIDs, ExecutorStep(q) PROVE Goal
  <2>1. exec[q].pc \in Keyed => exec[q].key \in Accounts
    BY DEF Holding, KeyOfTarget
  <2>2. CASE Claims(q) \/ LosesClaim(q)
    <3>1. exec[q].key \in Accounts
      BY <2>1, <2>2 DEF Claims, LosesClaim, Keyed
    <3> QED
      BY <1>2, <1>6, <2>2, <3>1 DEF Claims, LosesClaim
  <2>3. CASE GivesBack(q)
    <3>1. q # r
      BY <1>9, <2>3
    <3> QED
      BY <1>2, <1>7, <2>3, <3>1 DEF GivesBack
  <2>4. CASE Settles(q)
    <3>1. q # r
      BY <1>9, <2>4
    <3> QED
      BY <1>2, <1>7, <1>8, <2>4, <3>1 DEF Settles
  <2> QED
    BY <1>2, <1>9, <2>2, <2>3, <2>4 DEF ExecutorStep, Drops, Reads, Chooses, Proceeds,
       Starts, Disowns, Takes, Records, Waits, Leaves
<1>10. API => Goal
  BY <1>2, <1>3, <1>4, <1>5, ApiAccounts
<1> QED
  BY <1>2, <1>9, <1>10

\* A Runner begins to spend when it is started, and only then.
LEMMA SpendsCases ==
  ASSUME IInv, Runners, [Next]_vars, NEW r \in RunIDs, Spends(r)'
  PROVE  \/ /\ Spends(r) /\ runner'[r].key = runner[r].key
            /\ runner'[r].gen = runner[r].gen
         \/ /\ ExecutorStep(r) /\ Starts(r)
            /\ runner'[r].key = exec[r].key /\ runner'[r].gen = exec[r].gen
<1>1. TypeOK /\ ClaimedExists
  BY DEF IInv
<1>2. CASE runner'[r] = runner[r]
  BY <1>2 DEF Spends
<1>3. CASE Acts(r)
  BY <1>3 DEF Spends, Acts
<1>4. CASE ExecutorStep(r) /\ Starts(r)
  BY <1>4 DEF Spends, Starts, Takes
<1>5. CASE Waits(r)
  BY <1>5 DEF Spends, Waits
<1>6. CASE Disowns(r)
  BY <1>6 DEF Spends, Disowns, Takes
<1> QED
  BY <1>1, <1>2, <1>3, <1>4, <1>5, <1>6, RunnerCases

LEMMA SpendingStep ==
  ASSUME IInv, Holding, Runners, Spending, [Next]_vars
  PROVE  Spending'
<1>1. TypeOK /\ ClaimedExists
  BY DEF IInv
<1>2. ASSUME NEW r \in RunIDs, ExecutorStep(r), Starts(r), exec[r].gen # 0
      PROVE  Attached(exec[r].key, exec[r].gen, r) /\ UNCHANGED accounts
  BY <1>2 DEF Holding, Holds, Starts
<1>3. ASSUME NEW r \in RunIDs, Spends(r)' PROVE SpendsItsOwn(r)'
  <2>1. CASE /\ Spends(r) /\ runner'[r].key = runner[r].key
             /\ runner'[r].gen = runner[r].gen
    <3> DEFINE k == runner[r].key  g == runner[r].gen
    <3>1. k \in Accounts /\ g \in Gens
      BY <1>1, <2>1 DEF Runners, RunnerSane, Spends, TypeOK, RunnerRow
    <3>2. /\ accounts[k][g].status # "none"
          /\ accounts[k][g].status = "provisioning" => accounts[k][g].run = r
      BY <2>1 DEF Spending, SpendsItsOwn, RowOf
    <3>3. Settles(r) \/ GivesBack(r) =>
            \/ UNCHANGED accounts \/ accounts'[k][g] = accounts[k][g]
            \/ accounts'[k][g].status \in {"active", "failed", "retired"}
      <4>1. ASSUME GivesBack(r) PROVE FALSE
        <5>1. runner[r].state = "none" \/ runner[r].disowned
          BY <4>1 DEF Runners, KnowsRunner, GivesBack, Unlaunched
        <5> QED
          BY <2>1, <5>1 DEF Runners, RunnerSane, Spends
      <4>2. ASSUME Settles(r), exec[r].gen # 0, exec[r].report = "none" PROVE FALSE
        <5>1. runner[r].state = "ended" /\ ~runner[r].tried
          BY <4>2 DEF Runners, KnowsRunner, Settles
        <5> QED
          BY <2>1, <5>1 DEF Spends
      <4>3. ASSUME Settles(r), exec[r].gen # 0,
                   CompleteACMEAccountProvisioning(exec[r].key, exec[r].gen, r,
                                                   exec[r].report = "registered")
            PROVE  accounts'[k][g].status \in {"active", "failed", "retired"}
                   \/ accounts'[k][g] = accounts[k][g]
        <5> DEFINE ok == exec[r].report = "registered"
                   j  == exec[r].key
                   h  == exec[r].gen
        <5>1. j \in Accounts /\ h \in Gens
          BY <1>1, <4>3 DEF Holding, KeyOfTarget, Settles, Keyed, Carrying, TypeOK, ExecRow
        <5>2. ok \in BOOLEAN /\ CompleteACMEAccountProvisioning(j, h, r, ok)
          BY <4>3
        <5> HIDE DEF ok, j, h
        <5>3. /\ accounts'[j][h].status = IF ok THEN "active" ELSE "failed"
              /\ \A i \in Gens \ {h} :
                   IF ok /\ accounts[j][i].status = "active"
                     THEN accounts'[j][i].status = "retired"
                     ELSE accounts'[j][i] = accounts[j][i]
              /\ \A i \in Accounts \ {j} : accounts'[i] = accounts[i]
          BY <1>1, <5>1, <5>2, CompleteEffect DEF TypeOK
        <5> HIDE DEF k, g
        <5> QED
          BY <3>1, <5>1, <5>3
      <4> QED
        BY <4>1, <4>2, <4>3 DEF Settles
    <3>4. UNCHANGED accounts \/ API \/ \E q \in RunIDs : ExecutorStep(q)
      BY <1>1, AccountCases
    <3>5. /\ accounts'[k][g].status # "none"
          /\ accounts'[k][g].status = "provisioning" => accounts'[k][g].run = r
      <4> HIDE DEF k, g
      <4>1. CASE ExecutorStep(r) => ~Settles(r) /\ ~GivesBack(r)
        BY <1>1, <3>1, <3>2, <3>4, <4>1, RowKeepsRun
      <4>2. CASE \/ UNCHANGED accounts \/ accounts'[k][g] = accounts[k][g]
                 \/ accounts'[k][g].status \in {"active", "failed", "retired"}
        BY <3>2, <4>2
      <4> QED
        BY <3>3, <4>1, <4>2
    <3> QED
      BY <2>1, <3>5 DEF SpendsItsOwn, RowOf
  <2>2. CASE /\ ExecutorStep(r) /\ Starts(r)
             /\ runner'[r].key = exec[r].key /\ runner'[r].gen = exec[r].gen
    <3>1. exec[r].gen # 0
      BY <1>3, <2>2 DEF Spends
    <3> QED
      BY <1>2, <2>2, <3>1 DEF SpendsItsOwn, RowOf, Attached, Pending
  <2> QED
    BY <1>3, <2>1, <2>2, SpendsCases
<1>4. ASSUME NEW q \in RunIDs, NEW r \in RunIDs, q # r, ExecutorStep(r), Starts(r),
             exec[r].gen # 0, Spends(q), runner[q].key = exec[r].key,
             runner[q].gen = exec[r].gen
      PROVE  FALSE
  BY <1>2, <1>4 DEF Spending, SpendsItsOwn, RowOf, Attached, Pending
<1>5. ASSUME NEW q \in RunIDs, NEW r \in RunIDs, Spends(q)', Spends(r)',
             runner'[q].key = runner'[r].key, runner'[q].gen = runner'[r].gen
      PROVE  q = r
  <2> SUFFICES ASSUME q # r PROVE FALSE
    OBVIOUS
  <2>1. runner'[q].gen # 0 /\ runner'[r].gen # 0
    BY <1>5 DEF Spends
  <2>2. /\ ExecutorStep(r) /\ Starts(r) => Spends(q) /\ runner'[q] = runner[q]
        /\ ExecutorStep(q) /\ Starts(q) => Spends(r) /\ runner'[r] = runner[r]
    BY <1>5 DEF Starts, Takes, Spends
  <2> QED
    BY <1>4, <1>5, <2>1, <2>2, SpendsCases DEF Spending, SpentByOne
<1> QED
  BY <1>3, <1>5 DEF Spending, SpentByOne, SpendsItsOwn

LEMMA SpendingInit == Init => Spending
<1> SUFFICES ASSUME Init PROVE Spending
  OBVIOUS
<1>1. \A r \in RunIDs : runner[r].gen = 0
  BY DEF Init, NoRunner
<1> QED
  BY <1>1 DEF Spending, SpendsItsOwn, SpentByOne, Spends

\* A payload that a Runner has opened or may open is attached to that Runner's run as
\* long as it is pending, also when the process that started it is gone.
THEOREM SpendingInductive == Spec => []Spending
<1>1. IInv /\ Holding /\ Runners /\ Spending /\ [Next]_vars => Spending'
  BY SpendingStep
<1> QED
  BY <1>1, SpendingInit, Inductive, HoldingInductive, RunnersInductive, PTL DEF Spec

\* A sealed payload is opened by at most one of the Runners whose start was reported,
\* whatever process started them and however it ended: a generation is released for
\* another run only when the Runner of its run did not try it (finishProvisioning) or
\* Start failed (execute), and a run that was swept keeps it.
THEOREM PayloadSpentOnceCorrect == Spec => []PayloadSpentOnce
<1>1. Runners /\ Spending => PayloadSpentOnce
  BY DEF Runners, RunnerSane, Spending, SpentByOne, Spends, PayloadSpentOnce
<1> QED
  BY <1>1, RunnersInductive, SpendingInductive, PTL

\* With a launcher whose Start error means that no Runner has the job (local-process), a
\* sealed payload is opened by at most one Runner, without exception.
THEOREM PayloadSpentOnceReaped ==
  Spec => [](LauncherReaps => \A q, r \in RunIDs :
               /\ runner[q].tried /\ runner[r].tried
               /\ runner[q].key = runner[r].key /\ runner[q].gen = runner[r].gen
               => q = r)
<1> DEFINE Once == LauncherReaps => \A q, r \in RunIDs :
               /\ runner[q].tried /\ runner[r].tried
               /\ runner[q].key = runner[r].key /\ runner[q].gen = runner[r].gen
               => q = r
<1>1. Runners /\ PayloadSpentOnce => Once
  BY DEF Runners, RunnerSane, PayloadSpentOnce
<1> QED
  BY <1>1, RunnersInductive, PayloadSpentOnceCorrect, PTL


-----------------------------------------------------------------------------
(* An active generation was registered                                       *)

\* What a Runner has registered it does not take back.
LEMMA RegistrationStays ==
  ASSUME IInv, Runners, [Next]_vars, NEW r \in RunIDs, runner[r].registered
  PROVE  /\ runner'[r].registered /\ runner'[r].key = runner[r].key
         /\ runner'[r].gen = runner[r].gen
<1>1. TypeOK /\ ClaimedExists /\ runner[r].tried /\ runner[r].state # "none"
  BY DEF IInv, Runners, RunnerSane
<1>2. CASE Acts(r)
  BY <1>1, <1>2 DEF Acts
<1>3. CASE Starts(r) \/ Disowns(r)
  BY <1>1, <1>3 DEF Starts, Disowns, Runners, KnowsRunner, Unlaunched
<1>4. CASE Waits(r)
  BY <1>4 DEF Waits
<1> QED
  BY <1>1, <1>2, <1>3, <1>4, RunnerCases

LEMMA RegisteredStep ==
  ASSUME IInv, Holding, Runners, ActiveIsRegistered, [Next]_vars
  PROVE  ActiveIsRegistered'
<1> DEFINE Known(k, g) ==
      \E r \in RunIDs : runner[r].key = k /\ runner[r].gen = g /\ runner[r].registered
<1>1. RegistryTypeOK /\ AccountStep
  BY EveryStepMovesAccounts DEF IInv, TypeOK
<1>2. ASSUME NEW k \in Accounts, NEW g \in Gens, Known(k, g) PROVE Known(k, g)'
  BY <1>2, RegistrationStays
<1> SUFFICES ASSUME NEW k \in Accounts, NEW g \in Gens,
                    accounts'[k][g].status \in {"active", "retired"}
             PROVE  Known(k, g)
  BY <1>2 DEF ActiveIsRegistered, Accounts, Gens
<1>3. accounts[k][g].status \in {"active", "retired"} => Known(k, g)
  BY DEF ActiveIsRegistered
<1> HIDE DEF Known
<1>4. CASE Calm
  BY <1>3, <1>4 DEF Calm
<1>5. ASSUME NEW j \in Accounts, NEW h \in Gens, RequestACMEAccountProvisioning(j, h)
      PROVE  Known(k, g)
  <2>1. accounts'[k][g] = accounts[k][g]
    BY <1>1, <1>5, RequestEffect
  <2> QED
    BY <1>3, <2>1
<1>6. ASSUME NEW r \in RunIDs, Registers(r) PROVE Known(k, g)
  <2>1. CASE k = exec[r].key /\ g = exec[r].gen
    <3>1. /\ exec[r].pc = "settle" /\ exec[r].gen # 0 /\ exec[r].report = "registered"
      BY <1>6 DEF Registers, Gens
    <3>2. /\ runner[r].key = k /\ runner[r].gen = g /\ runner[r].registered
      BY <2>1, <3>1 DEF Runners, KnowsRunner
    <3> QED
      BY <3>2 DEF Known
  <2>2. CASE k # exec[r].key \/ g # exec[r].gen
    <3>1. \/ accounts[k][g].status = "active"
          \/ accounts'[k][g] = accounts[k][g]
      BY <1>6, <2>2 DEF Registers, Activates
    <3> QED
      BY <1>3, <3>1
  <2> QED
    BY <2>1, <2>2
<1> QED
  BY <1>1, <1>4, <1>5, <1>6 DEF AccountStep

\* A generation is only ever active, or retired after it was, because a Runner durably
\* registered that very generation of that very account at the CA (finishProvisioning
\* trusts a matching report only).
THEOREM ActiveIsRegisteredCorrect == Spec => []ActiveIsRegistered
<1>1. Init => ActiveIsRegistered
  <2> SUFFICES ASSUME Init PROVE ActiveIsRegistered
    OBVIOUS
  <2>1. \A k \in Accounts, g \in Gens : accounts[k][g].status = "none"
    BY DEF Init, RegistryInit
  <2> QED
    BY <2>1 DEF ActiveIsRegistered
<1>2. IInv /\ Holding /\ Runners /\ ActiveIsRegistered /\ [Next]_vars => ActiveIsRegistered'
  BY RegisteredStep
<1> QED
  BY <1>1, <1>2, Inductive, HoldingInductive, RunnersInductive, PTL DEF Spec

-----------------------------------------------------------------------------
(* One re-read converges                                                     *)

\* After its one re-read an executor knows what the row holds, unless its own write has
\* closed it since.
Rereading(r) ==
  exec[r].rereads # 0 =>
    /\ exec[r].pc = "finish" /\ exec[r].rereads = 1
    /\ runs[r].status = exec[r].recorded \/ runs[r].status \in TerminalStatus

\* Nobody but its executor moves the run of a busy executor.
LEMMA OwnedStays ==
  ASSUME IInv, [Next]_vars, NEW r \in RunIDs, exec[r].pc # "idle", exec'[r].pc # "idle",
         SameExec(r)
  PROVE  \/ runs'[r].status = runs[r].status
         \/ Execute(r)
<1>1. TypeOK /\ ClaimedExists /\ Ownership /\ r \in inflight /\ Owned(r)
  BY DEF IInv, Ownership, Owned
<1>2. CASE Process
  BY <1>1, <1>2, ProcessElsewhere
<1>3. ASSUME NEW q \in RunIDs, Runner(q) PROVE runs'[r].status = runs[r].status
  BY <1>3 DEF Runner, RunnerTries, RunnerEnds, registryVars
<1>4. CASE Loop
  <2>1. \/ UNCHANGED runs
        \/ \E q \in RunIDs, x \in loop.pick : CreateRun(q, x.target, x.revision)
        \/ \E q \in RunIDs : ClaimQueuedRun(q)
        \/ \E q \in RunIDs \ inflight, s \in {"starting", "running"} :
             LoopRuns /\ loop.pc \in {"sweep", "close"} /\ UpdateRun(q, s, "failed")
    BY <1>4 DEF Loop, PlanList, PlanBindings, PlanDone, PlanFails, PlanTarget, PlanCreate,
       PlanBinding, DispatchRegister, DispatchDone, DispatchFails, DispatchClaim, SweepList,
       SweepDone, SweepFails, SweepClose, registryVars, LoopAt
  <2> QED
    BY <1>1, <2>1, TransactionsSpareOwned DEF Owned
<1>5. CASE API
  <2>1. \/ UNCHANGED runs
        \/ \E q \in RunIDs, x \in api : CreateRun(q, x.target, x.revision)
        \/ \E q \in RunIDs : UpdateRun(q, "queued", "cancelled")
    BY <1>5 DEF API, ApiRequestRun, ApiUpdateTarget, ApiRetireTarget, ApiCreateRun,
       ApiCancelQueued, ApiCancelInFlight, ApiUpdatePolicy, ApiRequestProvisioning,
       ApiCancelProvisioning, registryVars, UpdateTarget, RetireTarget, UpdatePolicy,
       RequestACMEAccountProvisioning, CancelACMEAccountProvisioning
  <2> QED
    BY <1>1, <2>1, TransactionsSpareOwned
<1>6. ASSUME NEW q \in RunIDs \ {r}, Execute(q) PROVE runs'[r].status = runs[r].status
  <2>1. \/ UNCHANGED runs
        \/ UpdateRun(q, exec[q].recorded, Want(q))
    BY <1>6 DEF Execute, LoadTarget, LoadPolicy, ClaimProvisioning, LoadAccount, Launch,
       ReleaseClaim, RecordWrite, RecordConflict, RecordFails, RecordReread, WaitReturns,
       FinishProvisioning, ExecReturns, registryVars, ClaimACMEAccountProvisioning,
       ReleaseACMEAccountProvisioning, CompleteACMEAccountProvisioning
  <2> QED
    BY <1>1, <2>1 DEF UpdateRun, TypeOK, RegistryTypeOK
<1>7. CASE UNCHANGED vars
  BY <1>7 DEF vars, registryVars
<1> QED
  BY <1>2, <1>3, <1>4, <1>5, <1>6, <1>7 DEF Next


\* The calls of record.
LEMMA RereadingRecord ==
  ASSUME IInv, NEW r \in RunIDs, Rereading(r),
         RecordWrite(r) \/ RecordConflict(r) \/ RecordFails(r) \/ RecordReread(r)
  PROVE  Rereading(r)'
<1>1. /\ TypeOK /\ exec[r] \in ExecRow /\ runs \in [RunIDs -> RunRow]
      /\ exec[r].out \in TerminalStatus /\ RowOwned(exec[r], runs[r].status)
  BY DEF IInv, TypeOK, RegistryTypeOK, ExecRow, Ownership
<1>2. Recording(r)
  BY DEF RecordWrite, RecordConflict, RecordFails, RecordReread
<1>3. ASSUME NEW s, Set(r, Recorded(r, s)) PROVE Rereading(r)'
  BY <1>1, <1>2, <1>3, RecordedFields DEF Rereading
<1>4. ASSUME NEW b, Set(r, [exec[r] EXCEPT !.conflict = b]),
             \/ runs'[r].status = runs[r].status
             \/ exec[r].pc = "finish" /\ runs'[r].status \in TerminalStatus
      PROVE  Rereading(r)'
  <2> DEFINE e == [exec[r] EXCEPT !.conflict = b]
  <2>1. /\ e.pc = exec[r].pc /\ e.rereads = exec[r].rereads
        /\ e.recorded = exec[r].recorded
    BY <1>1 DEF ExecRow
  <2>2. exec'[r] = e
    BY <1>1, <1>4, SetFields
  <2> HIDE DEF e
  <2> QED
    BY <1>4, <2>1, <2>2 DEF Rereading
<1>5. CASE RecordWrite(r)
  BY <1>3, <1>5 DEF RecordWrite
<1>6. CASE RecordConflict(r)
  BY <1>4, <1>6 DEF RecordConflict, registryVars
<1>7. CASE RecordFails(r)
  <2>1. \/ runs'[r].status = runs[r].status
        \/ runs'[r].status = Want(r)
    BY <1>1, <1>7 DEF RecordFails, UpdateRun, registryVars, RunRow
  <2>2. \/ \E s : Set(r, Recorded(r, s))
        \/ exec[r].pc = "finish" /\ Set(r, [exec[r] EXCEPT !.conflict = FALSE])
    BY <1>7 DEF RecordFails, AttemptFailed
  <2> QED
    BY <1>1, <1>3, <1>4, <2>1, <2>2 DEF Want
<1>8. CASE RecordReread(r)
  <2>1. UNCHANGED runs
    BY <1>8 DEF RecordReread, registryVars
  <2>2. AttemptFailed(r) => Rereading(r)'
    BY <1>3, <1>4, <2>1 DEF AttemptFailed
  <2>3. CASE /\ runs[r].status # Want(r) /\ runs[r].status # exec[r].recorded
             /\ runs[r].status \in ActiveStatus
             /\ Set(r, [exec[r] EXCEPT !.recorded = runs[r].status, !.conflict = FALSE,
                                       !.rereads = @ + 1])
    <3> DEFINE e1 == [exec[r] EXCEPT !.recorded = runs[r].status]
               e2 == [e1 EXCEPT !.conflict = FALSE]
               e3 == [e2 EXCEPT !.rereads = @ + 1]
    <3>1. /\ e3.pc = exec[r].pc /\ e3.recorded = runs[r].status
          /\ e3.rereads = exec[r].rereads + 1
      BY <1>1 DEF ExecRow
    <3>2. exec'[r] = e3
      BY <1>1, <2>3, SetFields
    <3> HIDE DEF e3
    <3>3. exec[r].pc = "finish"
      BY <1>1, <1>2, <2>3 DEF Recording, Want, RowOwned, EarlyPC
    <3>4. exec[r].rereads = 0
      BY <2>3 DEF Rereading, ActiveStatus, TerminalStatus
    <3> QED
      BY <2>1, <3>1, <3>2, <3>3, <3>4 DEF Rereading
  <2>4. \/ \E s : Set(r, Recorded(r, s))
        \/ AttemptFailed(r)
        \/ /\ runs[r].status # Want(r) /\ runs[r].status # exec[r].recorded
           /\ runs[r].status \in ActiveStatus
           /\ Set(r, [exec[r] EXCEPT !.recorded = runs[r].status, !.conflict = FALSE,
                                     !.rereads = @ + 1])
    BY <1>8 DEF RecordReread
  <2> QED
    BY <1>3, <2>2, <2>3, <2>4
<1> QED
  BY <1>5, <1>6, <1>7, <1>8

LEMMA RereadingStep ==
  ASSUME IInv, [Next]_vars, NEW r \in RunIDs, Rereading(r)
  PROVE  Rereading(r)'
<1>1. TypeOK /\ ClaimedExists
  BY DEF IInv
<1>2. CASE RecordWrite(r) \/ RecordConflict(r) \/ RecordFails(r) \/ RecordReread(r)
  BY <1>2, RereadingRecord
<1>3. CASE LoadTarget(r) \/ LoadPolicy(r) \/ ClaimProvisioning(r) \/ LoadAccount(r)
           \/ Launch(r) \/ ReleaseClaim(r) \/ FinishProvisioning(r) \/ ExecReturns(r)
           \/ WaitReturns(r)
  <2>1. ExecutorStep(r) /\ exec[r].pc # "finish"
    BY <1>1, <1>3, PrepareSteps, LaunchSteps, WaitSteps DEF LoadTarget, LoadPolicy,
       ClaimProvisioning, LoadAccount, Launch, ReleaseClaim, FinishProvisioning,
       ExecReturns, WaitReturns, At
  <2>2. exec[r].rereads = 0
    BY <2>1 DEF Rereading
  <2>3. CASE Records(r)
    <3>1. exec[r].pc \notin {"began", "again", "finish"}
      BY <1>3 DEF LoadTarget, LoadPolicy, ClaimProvisioning, LoadAccount, Launch,
         ReleaseClaim, FinishProvisioning, ExecReturns, WaitReturns, At
    <3> QED
      BY <2>3, <3>1 DEF Records, Recording
  <2>4. CASE ~Records(r)
    <3>1. exec'[r].rereads = 0
      BY <2>1, <2>2, <2>4 DEF ExecutorStep, Drops, Reads, Chooses, Claims, LosesClaim,
         Proceeds, Starts, Disowns, Takes, GivesBack, Waits, Settles, Leaves, Turns, KeepsBase
    <3> QED
      BY <3>1 DEF Rereading
  <2> QED
    BY <2>3, <2>4
<1>4. CASE ~Execute(r)
  <2>1. CASE exec'[r].rereads = 0
    BY <2>1 DEF Rereading
  <2>2. CASE SameExec(r) /\ exec[r].rereads # 0
    <3>1. exec[r].pc = "finish" /\ exec'[r].pc = "finish"
      BY <2>2 DEF Rereading, SameExec
    <3>2. runs'[r].status = runs[r].status
      BY <1>4, <2>2, <3>1, OwnedStays
    <3> QED
      BY <2>2, <3>2 DEF Rereading, SameExec, KeepsBase
  <2>3. Elsewhere(r)
    <3>1. ASSUME NEW q \in RunIDs \ {r}, Execute(q) PROVE Elsewhere(r)
      <4>1. ExecutorStep(q)
        BY <1>1, <3>1, ExecuteSteps
      <4> QED
        BY <4>1 DEF ExecutorStep, Elsewhere, SameExec, KeepsPayload, KeepsBase
    <3>2. ASSUME NEW q \in RunIDs, Runner(q) PROVE Elsewhere(r)
      BY <3>2 DEF Runner, RunnerTries, RunnerEnds, processVars, Elsewhere, SameExec,
         KeepsPayload, KeepsBase
    <3>3. CASE UNCHANGED vars
      BY <3>3 DEF vars, Elsewhere, SameExec, KeepsPayload, KeepsBase
    <3> QED
      BY <1>1, <1>4, <3>1, <3>2, <3>3, ProcessElsewhere, LoopElsewhere, ApiElsewhere
      DEF Next, Elsewhere
  <2> QED
    BY <2>1, <2>2, <2>3 DEF Elsewhere, Empty, SameExec, KeepsBase
<1> QED
  BY <1>2, <1>3, <1>4 DEF Execute

\* "One re-read converges" (scheduler.record), for any number of failed and late writes:
\* the status an executor re-reads is its own run's, so the bound maxConflictRereads
\* never decides anything.
THEOREM RereadConvergesCorrect == Spec => []RereadConverges
<1>1. Init => \A r \in RunIDs : Rereading(r)
  BY DEF Init, IdleExec, Rereading
<1>2. IInv /\ (\A r \in RunIDs : Rereading(r)) /\ [Next]_vars
        => (\A r \in RunIDs : Rereading(r))'
  BY RereadingStep
<1>3. (\A r \in RunIDs : Rereading(r)) => RereadConverges
  BY DEF Rereading, RereadConverges
<1> QED
  BY <1>1, <1>2, <1>3, Inductive, PTL DEF Spec

-----------------------------------------------------------------------------
(* One Runner per target, under a launcher that reaps and until a stop       *)

\* Before the first stop of the process, a launcher that reaps leaves no Runner alive
\* that an executor is not waiting for.
Reaped ==
  LauncherReaps /\ stops = 0 =>
    /\ mode \in {"down", "recovering", "up"}
    /\ mode # "up" => inflight = {} /\ loop.pc \in {"stopped", "sweep", "close"}
    /\ \A r \in RunIDs : runner[r].state = "live" => exec[r].pc \in {"began", "wait"}

\* The process before a stop: it starts, recovers, perhaps gives up and starts again.
LEMMA ModeStep ==
  ASSUME IInv, Reaped, [Next]_vars, LauncherReaps, stops' = 0
  PROVE  /\ stops = 0
         /\ mode' \in {"down", "recovering", "up"}
         /\ mode' # "up" => inflight' = {} /\ loop'.pc \in {"stopped", "sweep", "close"}
         /\ Gone => inflight = {}
<1>1. TypeOK /\ ClaimedExists /\ loop \in LoopRow /\ stops \in Nat /\ 1 \in RunIDs
  BY RegistryAssumption, SchedulerAssumption DEF IInv, TypeOK, RunIDs
<1>2. stops = 0 /\ (stops' = stops)
  <2>1. stops' = stops \/ stops' = stops + 1
    <3>1. Process \/ Loop \/ API => stops' = stops \/ stops' = stops + 1
      BY <1>1, ApiElsewhere DEF Process, StartProcess, Crash, Stop, StopLoop, DrainDeadline, DrainDone,
         ExitProcess, Loop, PlanList, PlanBindings, PlanDone, PlanFails, PlanTarget,
         PlanCreate, PlanBinding, DispatchRegister, DispatchDone, DispatchFails,
         DispatchClaim, SweepList, SweepDone, SweepFails, SweepClose
    <3>2. ASSUME NEW q \in RunIDs, Execute(q) \/ Runner(q) PROVE stops' = stops
      BY <1>1, <3>2, ExecuteSteps, RunnerActs DEF ExecutorStep, Acts
    <3> QED
      BY <3>1, <3>2 DEF Next, vars
  <2> QED
    BY <1>1, <2>1
<1>3. /\ mode \in {"down", "recovering", "up"}
      /\ mode # "up" => inflight = {} /\ loop.pc \in {"stopped", "sweep", "close"}
  BY <1>2 DEF Reaped
<1>4. CASE Process
  <2>1. StartProcess
    BY <1>1, <1>2, <1>3, <1>4 DEF Process, Crash, Stop, StopLoop, DrainDeadline, DrainDone,
       ExitProcess
  <2>2. loop'.pc = "sweep"
    BY <2>1 DEF StartProcess, IdleLoop
  <2> QED
    BY <1>2, <1>3, <2>1, <2>2 DEF StartProcess, Gone
<1>5. CASE Loop
  <2>1. CASE mode = "up"
    <3>1. UNCHANGED mode \/ mode' = "up"
      BY <1>5, <2>1 DEF Loop, PlanList, PlanBindings, PlanDone, PlanFails, PlanTarget,
         PlanCreate, PlanBinding, DispatchRegister, DispatchDone, DispatchFails,
         DispatchClaim, SweepList, SweepDone, SweepFails, SweepClose
    <3> QED
      BY <1>2, <2>1, <3>1 DEF Gone
  <2>2. CASE mode # "up"
    <3>1. \/ SweepList \/ SweepDone \/ SweepFails
          \/ \E r \in RunIDs, s \in {"starting", "running"} : SweepClose(r, s)
      BY <1>3, <1>5, <2>2 DEF Loop, PlanList, PlanBindings, PlanDone, PlanFails, PlanTarget,
         PlanCreate, PlanBinding, DispatchRegister, DispatchDone, DispatchFails,
         DispatchClaim, LoopAt
    <3>2. CASE SweepList
      BY <1>1, <1>2, <1>3, <2>2, <3>2 DEF SweepList, LoopRow
    <3>3. CASE SweepDone
      BY <1>2, <1>3, <2>2, <3>3 DEF SweepDone
    <3>4. CASE SweepFails
      <4>1. mode = "recovering"
        BY <1>3, <2>2, <3>4 DEF SweepFails, LoopRuns
      <4>2. Gone
        BY <3>4, <4>1 DEF SweepFails
      <4> QED
        BY <1>2, <1>3, <2>2, <4>2 DEF Gone, IdleLoop
    <3>5. ASSUME NEW r \in RunIDs, NEW s \in {"starting", "running"}, SweepClose(r, s)
          PROVE  UNCHANGED <<mode, inflight>> /\ loop'.pc = loop.pc
      BY <1>1, <3>5 DEF SweepClose, LoopRow
    <3> QED
      BY <1>2, <1>3, <2>2, <3>1, <3>2, <3>3, <3>4, <3>5
  <2> QED
    BY <2>1, <2>2
<1>6. CASE API \/ UNCHANGED vars
  BY <1>1, <1>2, <1>3, <1>6, ApiElsewhere DEF vars, Gone
<1>7. ASSUME NEW r \in RunIDs, Execute(r)
      PROVE  mode = "up" /\ UNCHANGED mode
  <2>1. exec[r].pc # "idle"
    BY <1>7 DEF Execute, LoadTarget, LoadPolicy, ClaimProvisioning, LoadAccount, Launch,
       ReleaseClaim, RecordWrite, RecordConflict, RecordFails, RecordReread, WaitReturns,
       FinishProvisioning, ExecReturns, At, Recording
  <2>2. r \in inflight
    BY <2>1 DEF IInv, Ownership
  <2>3. UNCHANGED mode
    BY <1>1, <1>7, ExecuteSteps DEF ExecutorStep
  <2> QED
    BY <1>3, <2>2, <2>3
<1>8. ASSUME NEW r \in RunIDs, Runner(r)
      PROVE  UNCHANGED <<mode, inflight, loop>>
  BY <1>1, <1>8, RunnerActs DEF Acts, processVars
<1> QED
  BY <1>2, <1>3, <1>4, <1>5, <1>6, <1>7, <1>8 DEF Next, Gone


LEMMA ReapedStep ==
  ASSUME IInv, Reaped, [Next]_vars
  PROVE  Reaped'
<1> SUFFICES ASSUME LauncherReaps, stops' = 0, NEW r \in RunIDs, runner'[r].state = "live"
             PROVE  exec'[r].pc \in {"began", "wait"}
  BY ModeStep DEF Reaped
<1>1. /\ TypeOK /\ ClaimedExists /\ stops = 0
      /\ Gone => inflight = {}
  BY ModeStep DEF IInv
<1>2. runner[r].state = "live" => exec[r].pc \in {"began", "wait"} /\ r \in inflight
  BY <1>1 DEF Reaped, IInv, Ownership
<1>3. CASE Acts(r)
  BY <1>2, <1>3 DEF Acts, processVars
<1>4. CASE Starts(r)
  BY <1>4 DEF Starts
<1>5. CASE Waits(r)
  BY <1>5 DEF Waits
<1>6. CASE runner'[r] = runner[r] /\ Elsewhere(r)
  <2>1. ~(Registering(r))
    BY <1>2, <1>6 DEF Registering, IInv, Ownership
  <2> QED
    BY <1>1, <1>2, <1>6, <2>1 DEF Elsewhere, SameExec, Registering
<1>7. CASE runner'[r] = runner[r] /\ ExecutorStep(r) /\ ~Waits(r)
  <2>1. exec[r].pc \in {"began", "wait"}
    BY <1>2, <1>7
  <2>2. Records(r)
    BY <1>7, <2>1 DEF ExecutorStep, Drops, Reads, Chooses, Claims, LosesClaim, Proceeds,
       Starts, Disowns, Takes, GivesBack, Settles, Leaves
  <2> QED
    BY <2>1, <2>2 DEF Records, Recording
<1>8. ~Disowns(r)
  BY DEF Disowns
<1> QED
  BY <1>1, <1>3, <1>4, <1>5, <1>6, <1>7, <1>8, StepCases, RunnerCases

\* With a launcher whose Wait outlasts the Runner (localprocess) no two Runners work for
\* one target at the same time, for any number of targets, runs, executors and failed
\* calls, until the process is stopped for the first time.  (A stop may leave a Runner
\* behind whose run Recover then closes.)
THEOREM OneRunnerCorrect == Spec => [](LauncherReaps /\ stops = 0 => OneRunnerPerTarget)
<1>1. Init => Reaped
  BY DEF Init, IdleLoop, NoRunner, Reaped
<1>2. IInv /\ Reaped /\ [Next]_vars => Reaped'
  BY ReapedStep
<1>3. IInv /\ OneActiveRun /\ Reaped => (LauncherReaps /\ stops = 0 => OneRunnerPerTarget)
  <2> SUFFICES ASSUME IInv, OneActiveRun, Reaped, LauncherReaps, stops = 0,
                      NEW q \in RunIDs, NEW r \in RunIDs,
                      runner[q].state = "live", runner[r].state = "live",
                      runs[q].target = runs[r].target
               PROVE  q = r
    BY DEF OneRunnerPerTarget
  <2>1. exec[q].pc \in {"began", "wait"} /\ exec[r].pc \in {"began", "wait"}
    BY DEF Reaped
  <2>2. Active(q) /\ Active(r)
    BY <2>1, BusyRun
  <2> QED
    BY <2>2 DEF OneActiveRun
<1> QED
  BY <1>1, <1>2, <1>3, Inductive, OneActiveRunCorrect, PTL DEF Spec

=============================================================================
