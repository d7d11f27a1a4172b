-------------------------- MODULE SchedulerProofs --------------------------
(***************************************************************************)
(* Theorems about Scheduler, for every value of its constants.             *)
(***************************************************************************)
EXTENDS Scheduler, TLAPS

-----------------------------------------------------------------------------
(* Types of the registry transactions *)

LEMMA CreateRunType ==
  ASSUME RegistryTypeOK, NEW r \in RunIDs, NEW t \in Targets,
         NEW rev \in Revisions, CreateRun(r, t, rev)
  PROVE  RegistryTypeOK'
BY DEF RegistryTypeOK, CreateRun, RunRow, RunStatus, ActiveStatus

LEMMA ClaimQueuedRunType ==
  ASSUME RegistryTypeOK, NEW r \in RunIDs, ClaimQueuedRun(r)
  PROVE  RegistryTypeOK'
BY DEF RegistryTypeOK, ClaimQueuedRun, RunRow, RunStatus, ActiveStatus

LEMMA UpdateRunType ==
  ASSUME RegistryTypeOK, NEW r \in RunIDs, NEW from,
         NEW s \in RunStatus, UpdateRun(r, from, s)
  PROVE  RegistryTypeOK'
BY DEF RegistryTypeOK, UpdateRun, RunRow, AuditRow, Audited

LEMMA RequestType ==
  ASSUME RegistryTypeOK, NEW k \in Accounts, NEW g \in Gens,
         RequestACMEAccountProvisioning(k, g)
  PROVE  RegistryTypeOK'
BY DEF RegistryTypeOK, RequestACMEAccountProvisioning, SetAccount, AccountRow,
       AccountStatus

LEMMA ClaimType ==
  ASSUME RegistryTypeOK, NEW k, NEW g \in Gens, NEW r \in RunIDs,
         ClaimACMEAccountProvisioning(k, g, r)
  PROVE  RegistryTypeOK'
BY DEF RegistryTypeOK, ClaimACMEAccountProvisioning, SetAccount, AccountRow,
       AccountStatus

LEMMA ReleaseType ==
  ASSUME RegistryTypeOK, NEW k, NEW g, NEW r,
         ReleaseACMEAccountProvisioning(k, g, r)
  PROVE  RegistryTypeOK'
<1> USE DEF RegistryTypeOK, ReleaseACMEAccountProvisioning
<1>1. CASE Attached(k, g, r) /\ k \in Accounts
  <2>1. accounts[k] \in [Gens -> AccountRow]
    BY <1>1
  <2>2. [accounts[k] EXCEPT ![g].run = NoRun] \in [Gens -> AccountRow]
    BY <2>1 DEF AccountRow
  <2>3. accounts' = [accounts EXCEPT ![k] = [accounts[k] EXCEPT ![g].run = NoRun]]
    BY <1>1
  <2> QED
    BY <2>2, <2>3
<1>2. CASE Attached(k, g, r) /\ k \notin Accounts
  BY <1>2
<1>3. CASE ~Attached(k, g, r)
  BY <1>3
<1> QED
  BY <1>1, <1>2, <1>3

LEMMA CompleteType ==
  ASSUME RegistryTypeOK, NEW k, NEW g, NEW r, NEW ok \in BOOLEAN,
         CompleteACMEAccountProvisioning(k, g, r, ok)
  PROVE  RegistryTypeOK'
<1> USE DEF RegistryTypeOK, CompleteACMEAccountProvisioning
<1>1. CASE k \in Accounts
  <2> DEFINE New == [h \in Gens |->
          CASE h = g -> [status |-> IF ok THEN "active" ELSE "failed", run |-> NoRun]
            [] h # g /\ ok /\ accounts[k][h].status = "active" ->
                 [accounts[k][h] EXCEPT !.status = "retired"]
            [] OTHER -> accounts[k][h]]
  <2>1. accounts' = [accounts EXCEPT ![k] = New]
    OBVIOUS
  <2>2. ASSUME NEW h \in Gens PROVE New[h] \in AccountRow
    <3>1. accounts[k][h] \in AccountRow
      BY <1>1
    <3> QED
      BY <3>1 DEF AccountRow, AccountStatus
  <2>3. New \in [Gens -> AccountRow]
    BY <2>2
  <2> HIDE DEF New
  <2> QED
    BY <2>1, <2>3
<1>2. CASE k \notin Accounts
  BY <1>2
<1> QED
  BY <1>1, <1>2

LEMMA CancelType ==
  ASSUME RegistryTypeOK, NEW k, NEW g,
         CancelACMEAccountProvisioning(k, g)
  PROVE  RegistryTypeOK'
BY DEF RegistryTypeOK, CancelACMEAccountProvisioning, SetAccount, AccountRow,
       AccountStatus

LEMMA UpdateTargetType ==
  ASSUME RegistryTypeOK, NEW t \in Targets, NEW on \in BOOLEAN,
         NEW p \in Policies, UpdateTarget(t, on, p)
  PROVE  RegistryTypeOK'
BY RegistryAssumption DEF RegistryTypeOK, UpdateTarget, TargetRow, Revisions

LEMMA RetireTargetType ==
  ASSUME RegistryTypeOK, NEW t \in Targets, RetireTarget(t)
  PROVE  RegistryTypeOK'
BY RegistryAssumption
   DEF RegistryTypeOK, RetireTarget, TargetRow, Revisions, AccountRow, AccountStatus

LEMMA UpdatePolicyType ==
  ASSUME RegistryTypeOK, NEW p \in Policies, NEW on \in BOOLEAN,
         NEW b \in Bindings, UpdatePolicy(p, on, b)
  PROVE  RegistryTypeOK'
BY DEF RegistryTypeOK, UpdatePolicy, PolicyRow
-----------------------------------------------------------------------------
(* Types of the process *)

\* The run Dispatch has claimed and not yet registered exists.
ClaimedExists == loop.pc = "register" => loop.run \in RunIDs

LEMMA RegistryUnchanged ==
  ASSUME RegistryTypeOK, UNCHANGED registryVars
  PROVE  RegistryTypeOK'
BY DEF RegistryTypeOK, registryVars

LEMMA IdleLoopType == IdleLoop \in LoopRow
BY DEF IdleLoop, LoopRow, LoopPC

LEMMA IdleExecType == IdleExec \in ExecRow
<1>1. (CHOOSE p \in Policies : TRUE) \in Policies
  BY RegistryAssumption
<1>2. 0 \in Rereads
  BY DEF Rereads, MaxConflictRereads
<1> QED
  BY <1>1, <1>2 DEF IdleExec, ExecRow, ExecPC, RunStatus, ActiveStatus,
              TerminalStatus, Reports

LEMMA NoRunnerType == NoRunner \in RunnerRow
BY DEF NoRunner, RunnerRow

LEMMA FaultType ==
  ASSUME TypeOK, Fault \/ NoFault
  PROVE  faults' \in 0 .. MaxFaults
BY SchedulerAssumption DEF TypeOK, Fault, NoFault

LEMMA GoneType ==
  ASSUME Gone
  PROVE  /\ mode' \in Modes /\ loop' \in LoopRow /\ inflight' \in SUBSET RunIDs
         /\ exec' \in [RunIDs -> ExecRow] /\ api' \in SUBSET SeenTarget
         /\ ClaimedExists'
<1>1. loop'.pc = "stopped"
  BY DEF Gone, IdleLoop
<1> QED
  BY <1>1, IdleLoopType, IdleExecType DEF Gone, Modes, ClaimedExists

LEMMA ProcessType ==
  ASSUME TypeOK, ClaimedExists, Process
  PROVE  TypeOK' /\ ClaimedExists'
<1> USE DEF TypeOK
<1>1. CASE StartProcess
  <2>1. loop' \in LoopRow /\ loop'.pc = "sweep"
    BY <1>1, IdleLoopType DEF StartProcess, IdleLoop, LoopRow, LoopPC
  <2> QED
    BY <1>1, <2>1, RegistryUnchanged DEF StartProcess, Modes, ClaimedExists
<1>2. CASE Crash
  BY <1>2, GoneType, RegistryUnchanged, SchedulerAssumption DEF Crash
<1>3. CASE Stop
  BY <1>3, RegistryUnchanged, SchedulerAssumption DEF Stop, Modes, ClaimedExists
<1>4. CASE StopLoop
  <2>1. loop'.pc = "stopped"
    BY <1>4 DEF StopLoop, IdleLoop
  <2> QED
    BY <1>4, <2>1, IdleLoopType, RegistryUnchanged DEF StopLoop, ClaimedExists
<1>5. CASE DrainDeadline
  BY <1>5, RegistryUnchanged DEF DrainDeadline, Modes, ClaimedExists
<1>6. CASE DrainDone
  BY <1>6, RegistryUnchanged DEF DrainDone, Modes, ClaimedExists
<1>7. CASE ExitProcess
  BY <1>7, GoneType, RegistryUnchanged DEF ExitProcess
<1> QED
  BY <1>1, <1>2, <1>3, <1>4, <1>5, <1>6, <1>7 DEF Process
LEMMA PolicyInPassType ==
  ASSUME TypeOK, NEW p \in Policies
  PROVE  PolicyInPass(p) \in SeenPolicy
<1>1. CASE \E s \in loop.seen : s.policy = p
  <2>1. PICK s \in loop.seen : s.policy = p
    BY <1>1
  <2>2. (CHOOSE x \in loop.seen : x.policy = p) \in loop.seen
    BY <2>1
  <2>3. loop.seen \subseteq SeenPolicy
    BY DEF TypeOK, LoopRow
  <2> QED
    BY <1>1, <2>2, <2>3 DEF PolicyInPass
<1>2. CASE ~ \E s \in loop.seen : s.policy = p
  <2>1. policies[p] \in PolicyRow
    BY DEF TypeOK, RegistryTypeOK
  <2> QED
    BY <1>2, <2>1 DEF PolicyInPass, SeenPolicy, PolicyRow
<1> QED
  BY <1>1, <1>2

LEMMA SeenType ==
  ASSUME TypeOK, NEW t \in Targets
  PROVE  Seen(t) \in SeenTarget
<1>1. targets[t] \in TargetRow
  BY DEF TypeOK, RegistryTypeOK
<1> QED
  BY <1>1 DEF Seen, SeenTarget, TargetRow

\* What the steps of Plan, Dispatch and the sweep leave alone.
LEMMA LoopTypeFromParts ==
  ASSUME TypeOK, RegistryTypeOK', Fault \/ NoFault, UNCHANGED <<runner, stops>>,
         mode' \in Modes, loop' \in LoopRow, ClaimedExists',
         inflight' \in SUBSET RunIDs, exec' \in [RunIDs -> ExecRow],
         api' \in SUBSET SeenTarget
  PROVE  TypeOK' /\ ClaimedExists'
<1>1. faults' \in 0 .. MaxFaults
  BY FaultType
<1> QED
  BY <1>1 DEF TypeOK

LEMMA PlanType ==
  ASSUME TypeOK, ClaimedExists,
         \/ PlanList \/ PlanBindings \/ PlanDone \/ PlanFails
         \/ \E x \in loop.todo : PlanTarget(x)
         \/ \E x \in loop.pick : PlanCreate(x)
         \/ \E b \in Bindings : PlanBinding(b)
  PROVE  TypeOK' /\ ClaimedExists' /\ loop'.pc # "register"
<1>0. /\ loop \in LoopRow /\ mode \in Modes /\ inflight \in SUBSET RunIDs
      /\ exec \in [RunIDs -> ExecRow] /\ api \in SUBSET SeenTarget
      /\ RegistryTypeOK
  BY DEF TypeOK
<1>1. CASE PlanList
  <2>1. {Seen(t) : t \in {t \in Targets : targets[t].enabled /\ ~targets[t].retired}}
          \in SUBSET SeenTarget
    BY SeenType
  <2>2. loop' \in LoopRow /\ loop'.pc = "target"
    BY <1>0, <1>1, <2>1 DEF PlanList, LoopRow, LoopPC
  <2> QED
    BY <1>0, <1>1, <2>2, RegistryUnchanged, LoopTypeFromParts DEF PlanList, ClaimedExists
<1>2. CASE PlanBindings
  <2>1. loop' \in LoopRow /\ loop'.pc = "binding"
    BY <1>0, <1>2 DEF PlanBindings, LoopRow, LoopPC
  <2> QED
    BY <1>0, <1>2, <2>1, RegistryUnchanged, LoopTypeFromParts
    DEF PlanBindings, ClaimedExists
<1>3. CASE PlanDone
  <2>1. loop' \in LoopRow /\ loop'.pc = "dispatch"
    BY <1>0, <1>3 DEF PlanDone, LoopRow, LoopPC
  <2> QED
    BY <1>0, <1>3, <2>1, RegistryUnchanged, LoopTypeFromParts DEF PlanDone, ClaimedExists
<1>4. CASE PlanFails
  <2>1. loop' \in LoopRow /\ loop'.pc = "dispatch"
    BY <1>4, IdleLoopType DEF PlanFails, IdleLoop, LoopRow, LoopPC
  <2>2. RegistryTypeOK'
    <3>1. ASSUME NEW r \in RunIDs, NEW x \in loop.pick,
                 CreateRun(r, x.target, x.revision)
          PROVE  RegistryTypeOK'
      <4>1. x \in SeenTarget
        BY <1>0 DEF LoopRow
      <4> QED
        BY <1>0, <3>1, <4>1, CreateRunType DEF SeenTarget
    <3> QED
      BY <1>0, <1>4, <3>1, RegistryUnchanged DEF PlanFails
  <2> QED
    BY <1>0, <1>4, <2>1, <2>2, LoopTypeFromParts DEF PlanFails, ClaimedExists
<1>5. ASSUME NEW x \in loop.todo, PlanTarget(x)
      PROVE  TypeOK' /\ ClaimedExists' /\ loop'.pc # "register"
  <2> DEFINE p    == PolicyInPass(x.policy)
             last == LastClass(x.target)
             cand == [target |-> x.target, revision |-> x.revision,
                      policy |-> x.policy, acme |-> p.acme, last |-> last]
             next == [loop EXCEPT !.todo = @ \ {x}, !.seen = @ \cup {p},
                        !.cands = IF p.enabled /\ BindingWide(p.acme)
                                    THEN @ \cup {cand} ELSE @]
  <2>1. x \in SeenTarget
    BY <1>0 DEF LoopRow
  <2>2. p \in SeenPolicy
    BY <2>1, PolicyInPassType DEF SeenTarget
  <2>3. last \in {"queued", "active", "idle", "tried"}
    BY DEF LastClass
  <2>4. cand \in Candidate
    BY <2>1, <2>2, <2>3 DEF SeenTarget, SeenPolicy, Candidate
  <2>5. \/ loop' = next
        \/ loop' = [next EXCEPT !.pc = "create", !.pick = {x}]
        \/ loop' = [loop EXCEPT !.todo = @ \ {x}]
    BY <1>5 DEF PlanTarget
  <2>6. loop.pc = "target"
    BY <1>5 DEF PlanTarget, LoopAt
  <2> HIDE DEF p, last, cand
  <2>7. next \in LoopRow /\ next.pc = "target"
    BY <1>0, <2>2, <2>4, <2>6 DEF LoopRow, LoopPC
  <2>8. [next EXCEPT !.pc = "create", !.pick = {x}] \in LoopRow
    BY <2>1, <2>7 DEF LoopRow, LoopPC
  <2>9. [next EXCEPT !.pc = "create", !.pick = {x}].pc = "create"
    BY <2>7 DEF LoopRow
  <2>10. [loop EXCEPT !.todo = @ \ {x}] \in LoopRow
    BY <1>0 DEF LoopRow
  <2>11. [loop EXCEPT !.todo = @ \ {x}].pc = "target"
    BY <1>0, <2>6 DEF LoopRow
  <2> HIDE DEF next
  <2>12. loop' \in LoopRow /\ loop'.pc # "register"
    BY <2>5, <2>7, <2>8, <2>9, <2>10, <2>11
  <2>13. (Fault \/ NoFault) /\ UNCHANGED <<registryVars, mode, inflight, exec, runner, api, stops>>
    BY <1>5 DEF PlanTarget
  <2> QED
    BY <1>0, <2>12, <2>13, RegistryUnchanged, LoopTypeFromParts DEF ClaimedExists
<1>6. ASSUME NEW x \in loop.pick, PlanCreate(x)
      PROVE  TypeOK' /\ ClaimedExists' /\ loop'.pc # "register"
  <2>1. x \in SeenTarget
    BY <1>0 DEF LoopRow
  <2>2. MarkQueued(x) \in SUBSET Candidate
    BY <1>0 DEF MarkQueued, LoopRow, Candidate
  <2>3. loop' \in LoopRow /\ loop'.pc # "register"
    BY <1>0, <1>6, <2>2 DEF PlanCreate, LoopRow, LoopPC
  <2>4. RegistryTypeOK'
    <3>1. ASSUME NEW r \in RunIDs, CreateRun(r, x.target, x.revision)
          PROVE  RegistryTypeOK'
      BY <1>0, <2>1, <3>1, CreateRunType DEF SeenTarget
    <3> QED
      BY <1>0, <1>6, <3>1, RegistryUnchanged DEF PlanCreate
  <2> QED
    BY <1>0, <1>6, <2>3, <2>4, LoopTypeFromParts DEF PlanCreate, ClaimedExists
<1>7. ASSUME NEW b \in Bindings, PlanBinding(b)
      PROVE  TypeOK' /\ ClaimedExists' /\ loop'.pc # "register"
  <2> DEFINE mine == {c \in loop.cands : c.acme = b}
  <2>1. loop.cands \subseteq Candidate
    BY <1>0 DEF LoopRow
  <2>2. ASSUME NEW c \in loop.cands
        PROVE  /\ [c EXCEPT !.last = "tried"] \in Candidate
               /\ [target |-> c.target, revision |-> c.revision,
                   policy |-> c.policy] \in SeenTarget
    BY <2>1 DEF Candidate, SeenTarget
  <2>3. CASE loop' = [loop EXCEPT !.cands = loop.cands \ mine]
    BY <1>0, <1>7, <2>3, RegistryUnchanged, LoopTypeFromParts
    DEF PlanBinding, LoopRow, ClaimedExists, LoopAt
  <2>4. ASSUME NEW c \in mine,
               loop' = [loop EXCEPT !.pc = "create",
                 !.cands = (@ \ {c}) \cup {[c EXCEPT !.last = "tried"]},
                 !.pick = {[target |-> c.target, revision |-> c.revision,
                            policy |-> c.policy]}]
        PROVE  TypeOK' /\ ClaimedExists' /\ loop'.pc # "register"
    <3>1. loop' \in LoopRow /\ loop'.pc = "create"
      BY <1>0, <2>2, <2>4 DEF LoopRow, LoopPC
    <3> QED
      BY <1>0, <1>7, <3>1, RegistryUnchanged, LoopTypeFromParts
      DEF PlanBinding, ClaimedExists
  <2> QED
    BY <1>7, <2>3, <2>4 DEF PlanBinding
<1> QED
  BY <1>1, <1>2, <1>3, <1>4, <1>5, <1>6, <1>7
LEMMA DispatchSweepType ==
  ASSUME TypeOK, ClaimedExists,
         \/ DispatchRegister \/ DispatchDone \/ DispatchFails
         \/ \E r \in RunIDs : DispatchClaim(r)
         \/ SweepList \/ SweepDone \/ SweepFails
         \/ \E r \in RunIDs, s \in {"starting", "running"} : SweepClose(r, s)
  PROVE  TypeOK' /\ ClaimedExists'
<1>0. /\ loop \in LoopRow /\ mode \in Modes /\ inflight \in SUBSET RunIDs
      /\ exec \in [RunIDs -> ExecRow] /\ api \in SUBSET SeenTarget
      /\ RegistryTypeOK
  BY DEF TypeOK
<1>a. "failed" \in RunStatus
  BY DEF RunStatus, TerminalStatus
<1>1. CASE DispatchRegister
  <2>1. loop.run \in RunIDs
    BY <1>1 DEF DispatchRegister, ClaimedExists
  <2>2. loop' \in LoopRow /\ loop'.pc = "dispatch"
    BY <1>0, <1>1 DEF DispatchRegister, LoopRow, LoopPC
  <2>3. [IdleExec EXCEPT !.pc = "target"] \in ExecRow
    BY IdleExecType DEF ExecRow, ExecPC
  <2>4. exec' \in [RunIDs -> ExecRow]
    BY <1>0, <1>1, <2>3 DEF DispatchRegister
  <2> QED
    BY <1>0, <1>1, <2>1, <2>2, <2>4, RegistryUnchanged, LoopTypeFromParts
    DEF DispatchRegister, ClaimedExists
<1>2. CASE DispatchDone
  <2>1. loop' \in LoopRow /\ loop'.pc = "sweep"
    BY <1>0, <1>2 DEF DispatchDone, LoopRow, LoopPC
  <2> QED
    BY <1>0, <1>2, <2>1, RegistryUnchanged, LoopTypeFromParts
    DEF DispatchDone, ClaimedExists
<1>3. CASE DispatchFails
  <2>1. loop' \in LoopRow /\ loop'.pc = "sweep"
    BY <1>0, <1>3 DEF DispatchFails, LoopRow, LoopPC
  <2>2. RegistryTypeOK'
    BY <1>0, <1>3, RegistryUnchanged, ClaimQueuedRunType DEF DispatchFails
  <2> QED
    BY <1>0, <1>3, <2>1, <2>2, LoopTypeFromParts DEF DispatchFails, ClaimedExists
<1>4. ASSUME NEW r \in RunIDs, DispatchClaim(r)
      PROVE  TypeOK' /\ ClaimedExists'
  <2>1. loop' \in LoopRow /\ loop'.run = r
    BY <1>0, <1>4 DEF DispatchClaim, LoopRow, LoopPC
  <2>2. RegistryTypeOK'
    BY <1>0, <1>4, ClaimQueuedRunType DEF DispatchClaim
  <2> QED
    BY <1>0, <1>4, <2>1, <2>2, LoopTypeFromParts DEF DispatchClaim, ClaimedExists
<1>5. CASE SweepList
  <2>1. {<<r, runs[r].status>> : r \in {r \in RunIDs :
            runs[r].status \in {"starting", "running"}}}
          \in SUBSET (RunIDs \X {"starting", "running"})
    OBVIOUS
  <2>2. loop' \in LoopRow /\ loop'.pc = "close"
    BY <1>0, <1>5, <2>1 DEF SweepList, LoopRow, LoopPC
  <2> QED
    BY <1>0, <1>5, <2>2, RegistryUnchanged, LoopTypeFromParts DEF SweepList, ClaimedExists
<1>6. CASE SweepDone
  <2>1. loop' \in LoopRow /\ loop'.pc = "plan"
    BY <1>6, IdleLoopType DEF SweepDone, IdleLoop, LoopRow, LoopPC
  <2> QED
    BY <1>0, <1>6, <2>1, RegistryUnchanged, LoopTypeFromParts
    DEF SweepDone, ClaimedExists, Modes
<1>7. CASE SweepFails
  <2>1. RegistryTypeOK'
    BY <1>0, <1>7, <1>a, RegistryUnchanged, UpdateRunType DEF SweepFails
  <2>2. CASE mode = "recovering"
    BY <1>7, <2>1, <2>2, GoneType, LoopTypeFromParts DEF SweepFails
  <2>3. CASE mode # "recovering"
    <3>1. loop' \in LoopRow /\ loop'.pc = "plan"
      BY <1>7, <2>3, IdleLoopType DEF SweepFails, IdleLoop, LoopRow, LoopPC
    <3> QED
      BY <1>0, <1>7, <2>1, <2>3, <3>1, LoopTypeFromParts DEF SweepFails, ClaimedExists
  <2> QED
    BY <2>2, <2>3
<1>8. ASSUME NEW r \in RunIDs, NEW s \in {"starting", "running"}, SweepClose(r, s)
      PROVE  TypeOK' /\ ClaimedExists'
  <2>1. loop' \in LoopRow /\ loop'.pc = "close"
    BY <1>0, <1>8 DEF SweepClose, LoopAt, LoopRow
  <2>2. RegistryTypeOK'
    BY <1>0, <1>8, <1>a, RegistryUnchanged, UpdateRunType DEF SweepClose
  <2> QED
    BY <1>0, <1>8, <2>1, <2>2, LoopTypeFromParts DEF SweepClose, ClaimedExists
<1> QED
  BY <1>1, <1>2, <1>3, <1>4, <1>5, <1>6, <1>7, <1>8

\* An executor changes its own row, and possibly the registry or its Runner.
LEMMA ExecTypeFromParts ==
  ASSUME TypeOK, ClaimedExists, NEW r \in RunIDs, NEW e \in ExecRow,
         RegistryTypeOK', Fault \/ NoFault, ExecutorKeeps, Set(r, e),
         runner' \in [RunIDs -> RunnerRow]
  PROVE  TypeOK' /\ ClaimedExists'
<1>1. faults' \in 0 .. MaxFaults
  BY FaultType
<1>2. exec' \in [RunIDs -> ExecRow]
  BY DEF TypeOK, Set
<1> QED
  BY <1>1, <1>2 DEF TypeOK, ExecutorKeeps, ClaimedExists

LEMMA ToFinishType ==
  ASSUME TypeOK, NEW r \in RunIDs, NEW s \in TerminalStatus
  PROVE  ToFinish(r, s) \in ExecRow /\ ToRelease(r, s) \in ExecRow
<1>1. exec[r] \in ExecRow
  BY DEF TypeOK
<1>2. ToFinish(r, s) \in ExecRow
  BY <1>1, IdleExecType DEF ToFinish, ExecRow, ExecPC
<1>3. [exec[r] EXCEPT !.pc = "release", !.out = s] \in ExecRow
  BY <1>1 DEF ExecRow, ExecPC
<1> QED
  BY <1>2, <1>3 DEF ToRelease
LEMMA ExecuteType ==
  ASSUME TypeOK, ClaimedExists, NEW r \in RunIDs, Execute(r)
  PROVE  TypeOK' /\ ClaimedExists'
<1>0. /\ exec[r] \in ExecRow /\ RegistryTypeOK /\ runner \in [RunIDs -> RunnerRow]
      /\ runs[r] \in RunRow /\ runner[r] \in RunnerRow
  BY DEF TypeOK, RegistryTypeOK
<1>a. {"failed", "cancelled"} \subseteq TerminalStatus
  BY DEF TerminalStatus
<1>b. targets[runs[r].target] \in TargetRow
  BY <1>0 DEF RegistryTypeOK, RunRow
<1>1. CASE LoadTarget(r)
  <2>1. [exec[r] EXCEPT !.pc = "policy", !.policy = targets[runs[r].target].policy]
          \in ExecRow
    BY <1>0, <1>b DEF ExecRow, ExecPC, TargetRow
  <2> QED
    BY <1>0, <1>1, <1>a, <2>1, RegistryUnchanged, ToFinishType, ExecTypeFromParts
    DEF LoadTarget
<1>2. CASE LoadPolicy(r)
  <2>1. exec[r].policy \in Policies
    BY <1>0 DEF ExecRow
  <2>2. policies[exec[r].policy].acme \in Bindings
    BY <1>0, <2>1 DEF RegistryTypeOK, PolicyRow
  <2>3. AccountOf(policies[exec[r].policy].acme, runs[r].target) \in Accounts
    BY <1>0, <2>2 DEF Accounts, RunRow
  <2> DEFINE e == [exec[r] EXCEPT
             !.pc = IF policies[exec[r].policy].acme \in ProvisioningBindings
                      THEN "claim" ELSE "account",
             !.key = AccountOf(policies[exec[r].policy].acme, runs[r].target)]
  <2>4. e \in ExecRow
    BY <1>0, <2>3 DEF ExecRow, ExecPC
  <2>5. \/ Fault /\ Set(r, ToFinish(r, "failed"))
        \/ NoFault /\ Set(r, ToFinish(r, "cancelled"))
        \/ NoFault /\ Set(r, e)
    BY <1>2 DEF LoadPolicy
  <2>6. ExecutorKeeps /\ UNCHANGED <<registryVars, runner>>
    BY <1>2 DEF LoadPolicy
  <2> HIDE DEF e
  <2> QED
    BY <1>0, <1>a, <2>4, <2>5, <2>6, RegistryUnchanged, ToFinishType, ExecTypeFromParts
<1>3. CASE ClaimProvisioning(r)
  <2>1. ASSUME NEW g \in Gens
        PROVE  /\ [exec[r] EXCEPT !.pc = "launch", !.gen = g] \in ExecRow
               /\ [exec[r] EXCEPT !.pc = "settle", !.gen = g, !.report = "lost",
                                  !.out = "failed"] \in ExecRow
    BY <1>0, <1>a DEF ExecRow, ExecPC, Reports
  <2>2. [exec[r] EXCEPT !.pc = "account"] \in ExecRow
    BY <1>0 DEF ExecRow, ExecPC
  <2>3. RegistryTypeOK' /\ (Fault \/ NoFault) /\ ExecutorKeeps /\ UNCHANGED runner
    BY <1>0, <1>3, RegistryUnchanged, ClaimType DEF ClaimProvisioning
  <2>4. \E e \in ExecRow : Set(r, e)
    BY <1>3, <1>a, <2>1, <2>2, ToFinishType DEF ClaimProvisioning
  <2> QED
    BY <1>0, <2>3, <2>4, ExecTypeFromParts
<1>4. CASE LoadAccount(r)
  <2>1. [exec[r] EXCEPT !.pc = "launch"] \in ExecRow
    BY <1>0 DEF ExecRow, ExecPC
  <2> QED
    BY <1>0, <1>4, <1>a, <2>1, RegistryUnchanged, ToFinishType, ExecTypeFromParts
    DEF LoadAccount
<1>5. CASE Launch(r)
  <2>1. [exec[r] EXCEPT !.pc = "began"] \in ExecRow
    BY <1>0 DEF ExecRow, ExecPC
  <2>2. \A b \in BOOLEAN : Taken(r, b) \in RunnerRow
    BY <1>0, NoRunnerType DEF ExecRow, RunnerRow, Taken
  <2>3. runner' \in [RunIDs -> RunnerRow]
    BY <1>0, <1>5, <2>2 DEF Launch
  <2>4. \E e \in ExecRow : Set(r, e)
    BY <1>5, <1>a, <2>1, ToFinishType DEF Launch
  <2> QED
    BY <1>0, <1>5, <2>3, <2>4, RegistryUnchanged, ExecTypeFromParts DEF Launch
<1>6. CASE ReleaseClaim(r)
  <2>1. exec[r].out \in TerminalStatus
    BY <1>0 DEF ExecRow
  <2>2. RegistryTypeOK'
    BY <1>0, <1>6, RegistryUnchanged, ReleaseType DEF ReleaseClaim
  <2> QED
    BY <1>0, <1>6, <2>1, <2>2, ToFinishType, ExecTypeFromParts DEF ReleaseClaim
<1>c. ASSUME NEW s \in RunStatus, Recording(r) PROVE Recorded(r, s) \in ExecRow
  <2> DEFINE next == CASE exec[r].pc = "began" -> "wait" [] exec[r].pc = "again" -> "settle"
                       [] exec[r].pc = "finish" -> "exit"
  <2>1. next \in ExecPC
    BY <1>c DEF Recording, ExecPC
  <2>2. Recorded(r, s) = [exec[r] EXCEPT !.recorded = s, !.conflict = FALSE,
                                         !.rereads = 0, !.pc = next]
    BY DEF Recorded
  <2> HIDE DEF next
  <2>3. [exec[r] EXCEPT !.recorded = s, !.conflict = FALSE] \in ExecRow
    BY <1>0 DEF ExecRow
  <2>4. [exec[r] EXCEPT !.recorded = s, !.conflict = FALSE, !.rereads = 0] \in ExecRow
    <3>1. 0 \in Rereads
      BY DEF Rereads, MaxConflictRereads
    <3> QED
      BY <2>3, <3>1 DEF ExecRow
  <2> QED
    BY <2>1, <2>2, <2>4 DEF ExecRow
<1>d. exec[r].recorded \in RunStatus /\ Want(r) \in RunStatus
  BY <1>0 DEF Want, ExecRow, RunStatus, ActiveStatus
<1>e. [exec[r] EXCEPT !.conflict = FALSE] \in ExecRow
  BY <1>0 DEF ExecRow
<1>f. Recording(r) /\ AttemptFailed(r) => \E e \in ExecRow : Set(r, e)
  BY <1>c, <1>d, <1>e DEF AttemptFailed
<1>7. CASE RecordWrite(r)
  BY <1>0, <1>7, <1>c, <1>d, UpdateRunType, ExecTypeFromParts DEF RecordWrite
<1>8. CASE RecordConflict(r)
  <2>1. [exec[r] EXCEPT !.conflict = TRUE] \in ExecRow
    BY <1>0 DEF ExecRow
  <2> QED
    BY <1>0, <1>8, <2>1, RegistryUnchanged, ExecTypeFromParts DEF RecordConflict
<1>9. CASE RecordFails(r)
  <2>1. RegistryTypeOK'
    BY <1>0, <1>9, <1>d, RegistryUnchanged, UpdateRunType DEF RecordFails
  <2> QED
    BY <1>0, <1>9, <1>f, <2>1, ExecTypeFromParts DEF RecordFails
<1>10. CASE RecordReread(r)
  <2>1. ASSUME runs[r].status \in RunStatus, exec[r].rereads < MaxConflictRereads
        PROVE  [exec[r] EXCEPT !.recorded = runs[r].status, !.conflict = FALSE,
                               !.rereads = @ + 1] \in ExecRow
    <3>1. exec[r].rereads \in Rereads
      BY <1>0 DEF ExecRow
    <3>2. exec[r].rereads + 1 \in Rereads
      BY <2>1, <3>1 DEF Rereads, MaxConflictRereads
    <3> QED
      BY <1>0, <2>1, <3>2 DEF ExecRow
  <2>2. \/ runs[r].status = Want(r)
        \/ runs[r].status \in TerminalStatus \/ runs[r].status \in ActiveStatus
        => runs[r].status \in RunStatus
    BY <1>d DEF RunStatus
  <2>3. \E e \in ExecRow : Set(r, e)
    BY <1>10, <1>c, <1>f, <2>1, <2>2 DEF RecordReread
  <2>4. (Fault \/ NoFault) /\ ExecutorKeeps /\ UNCHANGED <<registryVars, runner>>
    BY <1>10 DEF RecordReread
  <2> QED
    BY <1>0, <2>3, <2>4, RegistryUnchanged, ExecTypeFromParts
<1>11. CASE WaitReturns(r)
  <2>1. ASSUME NEW out \in TerminalStatus, NEW report \in Reports
        PROVE  [exec[r] EXCEPT !.out = out,
                    !.report = IF exec[r].gen = 0 THEN "none" ELSE report,
                    !.pc = IF exec[r].recorded = "starting"
                             THEN "again" ELSE "settle"] \in ExecRow
    BY <1>0 DEF ExecRow, ExecPC, Reports
  <2>2. [runner EXCEPT ![r].state = "ended"] \in [RunIDs -> RunnerRow]
    BY <1>0 DEF RunnerRow
  <2>3. runner' \in [RunIDs -> RunnerRow]
    BY <1>0, <1>11, <2>2 DEF WaitReturns
  <2>4. \E e \in ExecRow : Set(r, e)
    BY <1>11, <2>1 DEF WaitReturns
  <2> QED
    BY <1>0, <1>11, <2>3, <2>4, RegistryUnchanged, ExecTypeFromParts DEF WaitReturns
<1>12. CASE FinishProvisioning(r)
  <2>1. exec[r].out \in TerminalStatus
    BY <1>0 DEF ExecRow
  <2>2. RegistryTypeOK'
    BY <1>0, <1>12, RegistryUnchanged, ReleaseType, CompleteType DEF FinishProvisioning
  <2> QED
    BY <1>0, <1>12, <2>1, <2>2, ToFinishType, ExecTypeFromParts DEF FinishProvisioning
<1>13. CASE ExecReturns(r)
  BY <1>0, <1>13, IdleExecType, RegistryUnchanged DEF ExecReturns, Set, NoFault, TypeOK,
     ClaimedExists
<1> QED
  BY <1>1, <1>2, <1>3, <1>4, <1>5, <1>6, <1>7, <1>8, <1>9, <1>10, <1>11, <1>12, <1>13
  DEF Execute
LEMMA RunnerType ==
  ASSUME TypeOK, ClaimedExists, NEW r \in RunIDs, Runner(r)
  PROVE  TypeOK' /\ ClaimedExists'
<1>0. runner \in [RunIDs -> RunnerRow] /\ runner[r] \in RunnerRow
  BY DEF TypeOK
<1>1. runner' \in [RunIDs -> RunnerRow]
  <2>1. CASE RunnerTries(r)
    <3>1. PICK ok \in BOOLEAN :
            runner' = [runner EXCEPT ![r].tried = TRUE, ![r].registered = ok]
      BY <2>1 DEF RunnerTries
    <3>2. [runner[r] EXCEPT !.tried = TRUE, !.registered = ok] \in RunnerRow
      BY <1>0 DEF RunnerRow
    <3> QED
      BY <1>0, <3>1, <3>2
  <2>2. CASE RunnerEnds(r)
    BY <1>0, <2>2 DEF RunnerEnds, RunnerRow
  <2> QED
    BY <2>1, <2>2 DEF Runner
<1>2. UNCHANGED <<registryVars, processVars, faults, stops>>
  BY DEF Runner, RunnerTries, RunnerEnds
<1> QED
  BY <1>1, <1>2, RegistryUnchanged DEF TypeOK, ClaimedExists, processVars

\* A handler changes the registry or its own state.
LEMMA ApiTypeFromParts ==
  ASSUME TypeOK, ClaimedExists, RegistryTypeOK', ApiKeeps, api' \in SUBSET SeenTarget
  PROVE  TypeOK' /\ ClaimedExists'
BY DEF TypeOK, ApiKeeps, ClaimedExists

LEMMA ApiType ==
  ASSUME TypeOK, ClaimedExists, API
  PROVE  TypeOK' /\ ClaimedExists'
<1>0. RegistryTypeOK /\ api \in SUBSET SeenTarget
  BY DEF TypeOK
<1>a. "cancelled" \in RunStatus
  BY DEF RunStatus, TerminalStatus
<1>1. ASSUME NEW t \in Targets, ApiRequestRun(t)
      PROVE  TypeOK' /\ ClaimedExists'
  BY <1>0, <1>1, SeenType, RegistryUnchanged, ApiTypeFromParts DEF ApiRequestRun
<1>2. ASSUME NEW t \in Targets, ApiUpdateTarget(t)
      PROVE  TypeOK' /\ ClaimedExists'
  BY <1>0, <1>2, UpdateTargetType, ApiTypeFromParts DEF ApiUpdateTarget
<1>3. ASSUME NEW t \in Targets, ApiRetireTarget(t)
      PROVE  TypeOK' /\ ClaimedExists'
  BY <1>0, <1>3, RetireTargetType, ApiTypeFromParts DEF ApiRetireTarget
<1>4. ASSUME NEW x \in api, ApiCreateRun(x)
      PROVE  TypeOK' /\ ClaimedExists'
  <2>1. x.target \in Targets /\ x.revision \in Revisions
    BY <1>0 DEF SeenTarget
  <2>2. RegistryTypeOK'
    BY <1>0, <1>4, <2>1, CreateRunType, RegistryUnchanged DEF ApiCreateRun
  <2>3. api' \in SUBSET SeenTarget
    BY <1>0, <1>4 DEF ApiCreateRun
  <2> QED
    BY <1>4, <2>2, <2>3, ApiTypeFromParts DEF ApiCreateRun
<1>5. ASSUME NEW r \in RunIDs, ApiCancelQueued(r)
      PROVE  TypeOK' /\ ClaimedExists'
  BY <1>0, <1>5, <1>a, UpdateRunType, ApiTypeFromParts DEF ApiCancelQueued
<1>6. ASSUME NEW r \in RunIDs, ApiCancelInFlight(r)
      PROVE  TypeOK' /\ ClaimedExists'
  <2>1. exec \in [RunIDs -> ExecRow] /\ exec[r] \in ExecRow
    BY DEF TypeOK
  <2>2. [exec[r] EXCEPT !.cancel = TRUE] \in ExecRow
    BY <2>1 DEF ExecRow
  <2>3. exec' \in [RunIDs -> ExecRow]
    BY <1>6, <2>1, <2>2 DEF ApiCancelInFlight
  <2> QED
    BY <1>0, <1>6, <2>3, RegistryUnchanged DEF ApiCancelInFlight, TypeOK, ClaimedExists
<1>7. ASSUME NEW p \in Policies, ApiUpdatePolicy(p)
      PROVE  TypeOK' /\ ClaimedExists'
  BY <1>0, <1>7, UpdatePolicyType, ApiTypeFromParts DEF ApiUpdatePolicy
<1>8. ASSUME NEW k \in Accounts, ApiRequestProvisioning(k)
      PROVE  TypeOK' /\ ClaimedExists'
  <2>1. CandidatesFor(k) \subseteq Targets
    BY DEF CandidatesFor
  <2>2. api' \in SUBSET SeenTarget
    BY <1>8, <2>1, SeenType DEF ApiRequestProvisioning
  <2> QED
    BY <1>0, <1>8, <2>2, RequestType, ApiTypeFromParts DEF ApiRequestProvisioning
<1>9. ASSUME NEW k \in Accounts, ApiCancelProvisioning(k)
      PROVE  TypeOK' /\ ClaimedExists'
  BY <1>0, <1>9, CancelType, ApiTypeFromParts DEF ApiCancelProvisioning
<1> QED
  BY <1>1, <1>2, <1>3, <1>4, <1>5, <1>6, <1>7, <1>8, <1>9 DEF API

LEMMA TypeInit == Init => TypeOK /\ ClaimedExists
<1> SUFFICES ASSUME Init PROVE TypeOK /\ ClaimedExists
  OBVIOUS
<1>1. RegistryTypeOK
  <2>1. (CHOOSE t \in Targets : TRUE) \in Targets /\ 1 \in Revisions
    BY RegistryAssumption DEF Revisions
  <2> QED
    BY <2>1 DEF Init, RegistryInit, RegistryTypeOK, TargetRow, PolicyRow, RunRow,
                AccountRow, AuditRow
<1>2. loop.pc = "stopped"
  BY DEF Init, IdleLoop
<1> QED
  BY <1>1, <1>2, IdleLoopType, IdleExecType, NoRunnerType, SchedulerAssumption
  DEF Init, TypeOK, ClaimedExists, Modes

LEMMA TypeStep ==
  ASSUME TypeOK, ClaimedExists, [Next]_vars
  PROVE  TypeOK' /\ ClaimedExists'
<1>1. CASE Process
  BY <1>1, ProcessType
<1>2. CASE Loop
  BY <1>2, PlanType, DispatchSweepType DEF Loop
<1>3. CASE API
  BY <1>3, ApiType
<1>4. ASSUME NEW r \in RunIDs, Execute(r) \/ Runner(r)
      PROVE  TypeOK' /\ ClaimedExists'
  BY <1>4, ExecuteType, RunnerType
<1>5. CASE UNCHANGED vars
  BY <1>5 DEF vars, registryVars, TypeOK, RegistryTypeOK, ClaimedExists
<1> QED
  BY <1>1, <1>2, <1>3, <1>4, <1>5 DEF Next

\* Every reachable state is well typed: no listing, claim, retry or restart
\* puts the registry, the in-flight map or an executor out of its domain.
THEOREM TypeCorrect == Spec => []TypeOK
<1>1. TypeOK /\ ClaimedExists /\ [Next]_vars => (TypeOK /\ ClaimedExists)'
  BY TypeStep
<1> QED
  BY <1>1, TypeInit, PTL DEF Spec
-----------------------------------------------------------------------------
(* Ownership: the inductive invariant of the run lifecycle *)

\* Before its outcome is known, an executor takes the run for starting.
EarlyPC == {"target", "policy", "claim", "account", "launch", "began", "again"}

\* The row e of an executor against the status its run has in the registry:
\* what e.recorded says is an active status as long as a write may be tried
\* against it, and the run is active, or was closed by the executor itself.
RowOwned(e, status) ==
  /\ e.pc # "exit" => e.recorded \in {"starting", "running"}
  /\ e.pc \in EarlyPC => e.recorded = "starting"
  /\ e.pc # "idle" => \/ status \in {"starting", "running"}
                      \/ e.pc \in {"finish", "exit"} /\ status = e.out

Ownership ==
  /\ \A r \in RunIDs : r \in inflight <=> exec[r].pc # "idle"
  /\ \A r \in RunIDs : RowOwned(exec[r], runs[r].status)
  /\ loop.pc = "register" => /\ runs[loop.run].status = "starting"
                             /\ loop.run \notin inflight

\* The runs nobody but an executor (or Dispatch, on its way to one) may move.
Owned(r) == r \in inflight \/ (loop.pc = "register" /\ loop.run = r)

LEMMA IdleOwned == ASSUME NEW s PROVE RowOwned(IdleExec, s)
BY DEF RowOwned, IdleExec, EarlyPC

LEMMA OwnedActive ==
  ASSUME TypeOK, Ownership, NEW r \in RunIDs, Owned(r)
  PROVE  runs[r].status \in {"starting", "running"} \cup TerminalStatus
<1>1. exec[r] \in ExecRow
  BY DEF TypeOK
<1>2. exec[r].out \in TerminalStatus
  BY <1>1 DEF ExecRow
<1> QED
  BY <1>2 DEF Ownership, RowOwned, Owned

\* A step that leaves the owned runs, the in-flight map and the executors'
\* progress alone.
LEMMA OwnershipFrame ==
  ASSUME TypeOK, ClaimedExists, Ownership, UNCHANGED inflight,
         \A r \in RunIDs : /\ exec'[r].pc = exec[r].pc
                           /\ exec'[r].recorded = exec[r].recorded
                           /\ exec'[r].out = exec[r].out,
         \A r \in RunIDs : Owned(r) => runs'[r].status = runs[r].status,
         loop'.pc = "register" => loop.pc = "register" /\ loop'.run = loop.run
  PROVE  Ownership'
<1>1. ASSUME NEW r \in RunIDs PROVE RowOwned(exec'[r], runs'[r].status)
  <2>1. CASE r \in inflight
    BY <2>1 DEF Ownership, RowOwned, Owned
  <2>2. CASE r \notin inflight
    BY <2>2 DEF Ownership, RowOwned
  <2> QED
    BY <2>1, <2>2
<1>2. loop'.pc = "register" => /\ runs'[loop'.run].status = "starting"
                               /\ loop'.run \notin inflight'
  BY DEF Ownership, ClaimedExists, Owned
<1> QED
  BY <1>1, <1>2 DEF Ownership

\* Transactions that can only touch a run nobody owns.
LEMMA TransactionsSpareOwned ==
  ASSUME TypeOK, Ownership, NEW r \in RunIDs, Owned(r), NEW q \in RunIDs,
         \/ \E t, rev : CreateRun(q, t, rev)
         \/ ClaimQueuedRun(q)
         \/ \E s : UpdateRun(q, "queued", s)
         \/ \E from, s : ~Owned(q) /\ UpdateRun(q, from, s)
  PROVE  runs'[r].status = runs[r].status
<1>1. runs[r].status \notin {"none", "queued"}
  BY OwnedActive DEF TerminalStatus
<1>2. runs \in [RunIDs -> RunRow]
  BY DEF TypeOK, RegistryTypeOK
<1> QED
  BY <1>1, <1>2 DEF CreateRun, ClaimQueuedRun, OldestQueued, UpdateRun

LEMMA GoneOwnership == ASSUME Gone PROVE Ownership'
<1>1. \A r \in RunIDs : exec'[r] = IdleExec
  BY DEF Gone
<1>2. inflight' = {} /\ loop'.pc = "stopped" /\ IdleExec.pc = "idle"
  BY DEF Gone, IdleLoop, IdleExec
<1> QED
  BY <1>1, <1>2, IdleOwned DEF Ownership

\* A step of the executor of r.
LEMMA ExecutorFrame ==
  ASSUME TypeOK, ClaimedExists, Ownership, NEW r \in RunIDs, NEW e,
         exec[r].pc # "idle", e.pc # "idle", Set(r, e),
         RowOwned(e, runs'[r].status), UNCHANGED <<inflight, loop>>,
         \A q \in RunIDs \ {r} : runs'[q].status = runs[q].status
  PROVE  Ownership'
<1>1. exec \in [RunIDs -> ExecRow]
  BY DEF TypeOK
<1>2. ASSUME NEW q \in RunIDs
      PROVE  /\ RowOwned(exec'[q], runs'[q].status)
             /\ exec'[q].pc # "idle" <=> exec[q].pc # "idle"
  BY <1>1, <1>2 DEF Set, Ownership
<1>3. loop.pc = "register" => loop.run # r /\ loop.run \in RunIDs
  BY DEF Ownership, ClaimedExists
<1> QED
  BY <1>2, <1>3 DEF Ownership

LEMMA OwnershipInit == Init => Ownership
<1>1. IdleExec.pc = "idle" /\ IdleLoop.pc = "stopped"
  BY DEF IdleExec, IdleLoop
<1> QED
  BY <1>1, IdleOwned DEF Init, Ownership

LEMMA ProcessOwnership ==
  ASSUME TypeOK, ClaimedExists, Ownership, Process
  PROVE  Ownership'
<1>1. CASE StartProcess
  <2>1. loop'.pc # "register"
    BY <1>1 DEF StartProcess, IdleLoop
  <2> QED
    BY <1>1, <2>1, OwnershipFrame DEF StartProcess, registryVars
<1>2. CASE Crash
  BY <1>2, GoneOwnership DEF Crash
<1>3. CASE Stop
  BY <1>3, OwnershipFrame DEF Stop, registryVars
<1>4. CASE StopLoop
  <2>1. loop'.pc # "register"
    BY <1>4 DEF StopLoop, IdleLoop
  <2> QED
    BY <1>4, <2>1, OwnershipFrame DEF StopLoop, registryVars
<1>5. CASE DrainDeadline
  BY <1>5, OwnershipFrame DEF DrainDeadline, registryVars
<1>6. CASE DrainDone
  BY <1>6, OwnershipFrame DEF DrainDone, registryVars
<1>7. CASE ExitProcess
  BY <1>7, GoneOwnership DEF ExitProcess
<1> QED
  BY <1>1, <1>2, <1>3, <1>4, <1>5, <1>6, <1>7 DEF Process

LEMMA PlanOwnership ==
  ASSUME TypeOK, ClaimedExists, Ownership,
         \/ PlanList \/ PlanBindings \/ PlanDone \/ PlanFails
         \/ \E x \in loop.todo : PlanTarget(x)
         \/ \E x \in loop.pick : PlanCreate(x)
         \/ \E b \in Bindings : PlanBinding(b)
  PROVE  Ownership'
<1>1. loop'.pc # "register"
  BY PlanType
<1>2. UNCHANGED <<inflight, exec>>
  BY DEF PlanList, PlanBindings, PlanDone, PlanFails, PlanTarget, PlanCreate, PlanBinding
<1>3. \/ UNCHANGED registryVars
      \/ \E q \in RunIDs : \E t, rev : CreateRun(q, t, rev)
  BY DEF PlanList, PlanBindings, PlanDone, PlanFails, PlanTarget, PlanCreate, PlanBinding
<1>4. \A r \in RunIDs : Owned(r) => runs'[r].status = runs[r].status
  BY <1>3, TransactionsSpareOwned DEF registryVars
<1> QED
  BY <1>1, <1>2, <1>4, OwnershipFrame

LEMMA DispatchSweepOwnership ==
  ASSUME TypeOK, ClaimedExists, Ownership,
         \/ DispatchRegister \/ DispatchDone \/ DispatchFails
         \/ \E r \in RunIDs : DispatchClaim(r)
         \/ SweepList \/ SweepDone \/ SweepFails
         \/ \E r \in RunIDs, s \in {"starting", "running"} : SweepClose(r, s)
  PROVE  Ownership'
<1>0. loop \in LoopRow /\ exec \in [RunIDs -> ExecRow] /\ runs \in [RunIDs -> RunRow]
  BY DEF TypeOK, RegistryTypeOK
<1>1. CASE DispatchRegister
  <2> DEFINE new == [IdleExec EXCEPT !.pc = "target"]
  <2>1. /\ loop.run \in RunIDs /\ runs[loop.run].status = "starting"
        /\ loop'.pc # "register" /\ UNCHANGED runs
    BY <1>0, <1>1 DEF DispatchRegister, ClaimedExists, Ownership, LoopRow, registryVars
  <2>2. new.pc = "target" /\ new.recorded = "starting"
    BY DEF IdleExec
  <2>3. RowOwned(new, "starting")
    BY <2>2 DEF RowOwned
  <2>4. exec' = [exec EXCEPT ![loop.run] = new] /\ inflight' = inflight \cup {loop.run}
    BY <1>1 DEF DispatchRegister
  <2> HIDE DEF new
  <2>5. ASSUME NEW r \in RunIDs
        PROVE  /\ r \in inflight' <=> exec'[r].pc # "idle"
               /\ RowOwned(exec'[r], runs'[r].status)
    <3>1. CASE r = loop.run
      BY <1>0, <2>1, <2>2, <2>3, <2>4, <3>1
    <3>2. CASE r # loop.run
      BY <1>0, <2>1, <2>4, <3>2 DEF Ownership
    <3> QED
      BY <3>1, <3>2
  <2> QED
    BY <2>1, <2>5 DEF Ownership
<1>2. CASE DispatchDone
  BY <1>0, <1>2, OwnershipFrame DEF DispatchDone, registryVars, LoopRow
<1>3. CASE DispatchFails
  <2>1. \A r \in RunIDs : Owned(r) => runs'[r].status = runs[r].status
    BY <1>3, TransactionsSpareOwned DEF DispatchFails, registryVars
  <2>2. loop'.pc # "register" /\ UNCHANGED <<inflight, exec>>
    BY <1>0, <1>3 DEF DispatchFails, LoopRow
  <2> QED
    BY <2>1, <2>2, OwnershipFrame
<1>4. ASSUME NEW q \in RunIDs, DispatchClaim(q) PROVE Ownership'
  <2>1. \A r \in RunIDs : Owned(r) => runs'[r].status = runs[r].status
    BY <1>4, TransactionsSpareOwned DEF DispatchClaim
  <2>2. q \notin inflight
    <3>1. runs[q].status = "queued"
      BY <1>4 DEF DispatchClaim, ClaimQueuedRun, OldestQueued
    <3> QED
      BY <3>1, OwnedActive DEF Owned, TerminalStatus
  <2>3. runs'[q].status = "starting"
    BY <1>0, <1>4 DEF DispatchClaim, ClaimQueuedRun, RunRow
  <2>4. loop'.run = q /\ UNCHANGED <<inflight, exec>>
    BY <1>0, <1>4 DEF DispatchClaim, LoopRow
  <2>5. ASSUME NEW r \in RunIDs PROVE RowOwned(exec'[r], runs'[r].status)
    <3>1. CASE r \in inflight
      BY <2>1, <2>4, <3>1 DEF Ownership, Owned
    <3>2. CASE r \notin inflight
      BY <2>4, <3>2 DEF Ownership, RowOwned
    <3> QED
      BY <3>1, <3>2
  <2> QED
    BY <2>2, <2>3, <2>4, <2>5 DEF Ownership
<1>5. CASE SweepList
  BY <1>0, <1>5, OwnershipFrame DEF SweepList, registryVars, LoopRow
<1>6. CASE SweepDone
  <2>1. loop'.pc # "register"
    BY <1>6 DEF SweepDone, IdleLoop
  <2> QED
    BY <1>6, <2>1, OwnershipFrame DEF SweepDone, registryVars
<1>7. CASE SweepFails
  <2>1. CASE mode = "recovering"
    BY <1>7, <2>1, GoneOwnership DEF SweepFails
  <2>2. CASE mode # "recovering"
    <3>1. \A q \in RunIDs \ inflight : ~Owned(q)
      BY <1>7 DEF SweepFails, Owned
    <3>2. \A r \in RunIDs : Owned(r) => runs'[r].status = runs[r].status
      BY <1>7, <3>1, TransactionsSpareOwned DEF SweepFails, registryVars
    <3>3. loop'.pc # "register" /\ UNCHANGED <<inflight, exec>>
      BY <1>7, <2>2 DEF SweepFails, IdleLoop
    <3> QED
      BY <3>2, <3>3, OwnershipFrame
  <2> QED
    BY <2>1, <2>2
<1>8. ASSUME NEW q \in RunIDs, NEW s \in {"starting", "running"}, SweepClose(q, s)
      PROVE  Ownership'
  <2>1. q \notin inflight => ~Owned(q)
    BY <1>8 DEF SweepClose, LoopAt, Owned
  <2>2. \A r \in RunIDs : Owned(r) => runs'[r].status = runs[r].status
    BY <1>8, <2>1, TransactionsSpareOwned DEF SweepClose, registryVars
  <2>3. loop'.pc # "register" /\ UNCHANGED <<inflight, exec>>
    BY <1>0, <1>8 DEF SweepClose, LoopAt, LoopRow
  <2> QED
    BY <2>2, <2>3, OwnershipFrame
<1> QED
  BY <1>1, <1>2, <1>3, <1>4, <1>5, <1>6, <1>7, <1>8

LEMMA ApiOwnership ==
  ASSUME TypeOK, ClaimedExists, Ownership, API
  PROVE  Ownership'
<1>0. exec \in [RunIDs -> ExecRow]
  BY DEF TypeOK
<1>1. CASE \E r \in RunIDs : ApiCancelInFlight(r)
  <2>1. PICK r \in RunIDs : ApiCancelInFlight(r)
    BY <1>1
  <2>2. \A q \in RunIDs : /\ exec'[q].pc = exec[q].pc
                          /\ exec'[q].recorded = exec[q].recorded
                          /\ exec'[q].out = exec[q].out
    BY <1>0, <2>1 DEF ApiCancelInFlight, ExecRow
  <2> QED
    BY <2>1, <2>2, OwnershipFrame DEF ApiCancelInFlight, registryVars
<1>2. CASE ~ \E r \in RunIDs : ApiCancelInFlight(r)
  <2>1. ApiKeeps
    BY <1>2 DEF API, ApiRequestRun, ApiUpdateTarget, ApiRetireTarget, ApiCreateRun,
       ApiCancelQueued, ApiUpdatePolicy, ApiRequestProvisioning, ApiCancelProvisioning
  <2>2. \/ UNCHANGED runs
        \/ \E q \in RunIDs : \E t, rev : CreateRun(q, t, rev)
        \/ \E q \in RunIDs : UpdateRun(q, "queued", "cancelled")
    BY <1>2 DEF API, ApiRequestRun, ApiUpdateTarget, ApiRetireTarget, ApiCreateRun,
       ApiCancelQueued, ApiUpdatePolicy, ApiRequestProvisioning, ApiCancelProvisioning,
       registryVars, UpdateTarget, RetireTarget, UpdatePolicy,
       RequestACMEAccountProvisioning, CancelACMEAccountProvisioning
  <2>3. \A r \in RunIDs : Owned(r) => runs'[r].status = runs[r].status
    BY <2>2, TransactionsSpareOwned
  <2> QED
    BY <2>1, <2>3, OwnershipFrame DEF ApiKeeps
<1> QED
  BY <1>1, <1>2

LEMMA ExecuteOwnership ==
  ASSUME TypeOK, ClaimedExists, Ownership, NEW r \in RunIDs, Execute(r)
  PROVE  Ownership'
<1>0. /\ exec \in [RunIDs -> ExecRow] /\ exec[r] \in ExecRow
      /\ runs \in [RunIDs -> RunRow] /\ runs[r] \in RunRow
  BY DEF TypeOK, RegistryTypeOK
<1> DEFINE e == exec[r]  st == runs[r].status
<1>1. RowOwned(e, st)
  BY DEF Ownership
\* Steps that leave the runs table alone.
<1>2. ASSUME NEW f, Set(r, f), UNCHANGED <<inflight, loop, runs>>, e.pc # "idle",
             f.pc # "idle", RowOwned(f, st)
      PROVE  Ownership'
  BY <1>2, ExecutorFrame
<1>3. ASSUME NEW s, e.pc \notin {"idle", "finish", "exit"}
      PROVE  RowOwned(ToFinish(r, s), st) /\ ToFinish(r, s).pc = "finish"
  <2>1. /\ ToFinish(r, s).pc = "finish" /\ ToFinish(r, s).recorded = e.recorded
    BY DEF ToFinish, IdleExec
  <2> QED
    BY <1>1, <1>3, <2>1 DEF RowOwned, EarlyPC
<1>4. ASSUME NEW s, e.pc = "launch"
      PROVE  RowOwned(ToRelease(r, s), st) /\ ToRelease(r, s).pc # "idle"
  <2>1. LET f == [exec[r] EXCEPT !.pc = "release", !.out = s]
        IN  f.pc = "release" /\ f.recorded = e.recorded
    BY <1>0 DEF ExecRow
  <2>2. LET f == [exec[r] EXCEPT !.pc = "release", !.out = s]
        IN  RowOwned(f, st) /\ f.pc # "idle"
    BY <1>1, <1>4, <2>1 DEF RowOwned, EarlyPC
  <2> QED
    BY <1>3, <1>4, <2>2 DEF ToRelease
<1>5. CASE LoadTarget(r)
  <2> DEFINE f == [exec[r] EXCEPT !.pc = "policy",
                                  !.policy = targets[runs[r].target].policy]
  <2>1. e.pc = "target" /\ UNCHANGED <<inflight, loop, runs>>
    BY <1>5 DEF LoadTarget, At, ExecutorKeeps, registryVars
  <2>2. f.pc = "policy" /\ f.recorded = e.recorded
    BY <1>0 DEF ExecRow
  <2>3. RowOwned(f, st)
    BY <1>1, <2>1, <2>2 DEF RowOwned, EarlyPC
  <2>4. Set(r, ToFinish(r, "failed")) \/ Set(r, ToFinish(r, "cancelled")) \/ Set(r, f)
    BY <1>5 DEF LoadTarget
  <2> HIDE DEF f
  <2> QED
    BY <1>2, <1>3, <2>1, <2>2, <2>3, <2>4
<1>6. CASE LoadPolicy(r)
  <2> DEFINE f == [exec[r] EXCEPT
             !.pc = IF policies[exec[r].policy].acme \in ProvisioningBindings
                      THEN "claim" ELSE "account",
             !.key = AccountOf(policies[exec[r].policy].acme, runs[r].target)]
  <2>1. e.pc = "policy" /\ UNCHANGED <<inflight, loop, runs>>
    BY <1>6 DEF LoadPolicy, At, ExecutorKeeps, registryVars
  <2>2. f.pc \in {"claim", "account"} /\ f.recorded = e.recorded
    BY <1>0 DEF ExecRow
  <2>4. Set(r, ToFinish(r, "failed")) \/ Set(r, ToFinish(r, "cancelled")) \/ Set(r, f)
    BY <1>6 DEF LoadPolicy
  <2> HIDE DEF f
  <2>3. RowOwned(f, st)
    BY <1>1, <2>1, <2>2 DEF RowOwned, EarlyPC
  <2> QED
    BY <1>2, <1>3, <2>1, <2>2, <2>3, <2>4
<1>7. CASE ClaimProvisioning(r)
  <2>1. e.pc = "claim" /\ UNCHANGED <<inflight, loop, runs>>
    BY <1>7 DEF ClaimProvisioning, At, ExecutorKeeps, registryVars,
                ClaimACMEAccountProvisioning
  <2>2. ASSUME NEW f, f.pc \in {"launch", "settle", "account"}, f.recorded = e.recorded
        PROVE  RowOwned(f, st) /\ f.pc # "idle"
    BY <1>1, <2>1, <2>2 DEF RowOwned, EarlyPC
  <2>3. ASSUME NEW g \in Gens
        PROVE  LET f1 == [exec[r] EXCEPT !.pc = "launch", !.gen = g]
                   f2 == [exec[r] EXCEPT !.pc = "settle", !.gen = g,
                                         !.report = "lost", !.out = "failed"]
               IN  /\ f1.pc = "launch" /\ f1.recorded = e.recorded
                   /\ f2.pc = "settle" /\ f2.recorded = e.recorded
    BY <1>0 DEF ExecRow
  <2>4. LET f == [exec[r] EXCEPT !.pc = "account"]
        IN  f.pc = "account" /\ f.recorded = e.recorded
    BY <1>0 DEF ExecRow
  <2>5. \/ Set(r, ToFinish(r, "failed"))
        \/ \E f : /\ Set(r, f) /\ f.recorded = e.recorded
                  /\ f.pc \in {"launch", "settle", "account"}
    BY <1>7, <2>3, <2>4 DEF ClaimProvisioning
  <2> QED
    BY <1>2, <1>3, <2>1, <2>2, <2>5
<1>8. CASE LoadAccount(r)
  <2> DEFINE f == [exec[r] EXCEPT !.pc = "launch"]
  <2>1. e.pc = "account" /\ UNCHANGED <<inflight, loop, runs>>
    BY <1>8 DEF LoadAccount, At, ExecutorKeeps, registryVars
  <2>2. f.pc = "launch" /\ f.recorded = e.recorded
    BY <1>0 DEF ExecRow
  <2>3. RowOwned(f, st)
    BY <1>1, <2>1, <2>2 DEF RowOwned, EarlyPC
  <2>4. Set(r, ToFinish(r, "failed")) \/ Set(r, f)
    BY <1>8 DEF LoadAccount
  <2> HIDE DEF f
  <2> QED
    BY <1>2, <1>3, <2>1, <2>2, <2>3, <2>4
<1>9. CASE Launch(r)
  <2> DEFINE f == [exec[r] EXCEPT !.pc = "began"]
  <2>1. e.pc = "launch" /\ UNCHANGED <<inflight, loop, runs>>
    BY <1>9 DEF Launch, At, ExecutorKeeps, registryVars
  <2>2. f.pc = "began" /\ f.recorded = e.recorded
    BY <1>0 DEF ExecRow
  <2>3. RowOwned(f, st)
    BY <1>1, <2>1, <2>2 DEF RowOwned, EarlyPC
  <2>4. Set(r, ToRelease(r, "failed")) \/ Set(r, ToRelease(r, "cancelled")) \/ Set(r, f)
    BY <1>9 DEF Launch
  <2> HIDE DEF f
  <2> QED
    BY <1>2, <1>4, <2>1, <2>2, <2>3, <2>4
<1>10. CASE ReleaseClaim(r)
  <2>1. e.pc = "release" /\ UNCHANGED <<inflight, loop, runs>>
    BY <1>10 DEF ReleaseClaim, At, ExecutorKeeps, registryVars,
                 ReleaseACMEAccountProvisioning
  <2> QED
    BY <1>2, <1>3, <1>10, <2>1 DEF ReleaseClaim
\* The calls of record.
<1>11. ASSUME Recording(r), NEW s
       PROVE  /\ Recorded(r, s).recorded = s /\ Recorded(r, s).out = e.out
              /\ e.pc = "began"  => Recorded(r, s).pc = "wait"
              /\ e.pc = "again"  => Recorded(r, s).pc = "settle"
              /\ e.pc = "finish" => Recorded(r, s).pc = "exit"
              /\ e.pc \in {"began", "again", "finish"}
  BY <1>0, <1>11 DEF Recording, Recorded, ExecRow
<1>12. ASSUME Recording(r), NEW s \in {"starting", "running"},
              NEW t, t \in {"starting", "running"} \/ (e.pc = "finish" /\ t = e.out)
       PROVE  RowOwned(Recorded(r, s), t) /\ Recorded(r, s).pc # "idle"
  BY <1>11, <1>12 DEF RowOwned, EarlyPC
<1>13. ASSUME Recording(r), e.pc = "finish", NEW s,
              NEW t, t \in {"starting", "running"} \/ t = e.out
       PROVE  RowOwned(Recorded(r, s), t) /\ Recorded(r, s).pc # "idle"
  BY <1>11, <1>13 DEF RowOwned, EarlyPC
<1>14. ASSUME Recording(r), AttemptFailed(r),
              NEW t, t \in {"starting", "running"} \/ (e.pc = "finish" /\ t = e.out)
       PROVE  \E f : Set(r, f) /\ RowOwned(f, t) /\ f.pc # "idle"
  <2>1. e.recorded \in {"starting", "running"}
    BY <1>1, <1>11, <1>14 DEF RowOwned
  <2>2. LET f == [exec[r] EXCEPT !.conflict = FALSE]
        IN  f.pc = e.pc /\ f.recorded = e.recorded /\ f.out = e.out
    BY <1>0 DEF ExecRow
  <2>3. CASE Set(r, Recorded(r, exec[r].recorded))
    BY <1>12, <1>14, <2>1, <2>3
  <2>4. CASE e.pc = "finish" /\ Set(r, [exec[r] EXCEPT !.conflict = FALSE])
    BY <1>14, <2>1, <2>2, <2>4 DEF RowOwned, EarlyPC
  <2> QED
    BY <1>14, <2>3, <2>4 DEF AttemptFailed
<1>15. ASSUME Recording(r), UpdateRun(r, e.recorded, Want(r))
       PROVE  /\ runs'[r].status = Want(r)
              /\ \A q \in RunIDs \ {r} : runs'[q].status = runs[q].status
              /\ \/ Want(r) = "running" /\ e.pc # "finish"
                 \/ Want(r) = e.out /\ e.pc = "finish"
  BY <1>0, <1>15 DEF UpdateRun, Want, RunRow
<1>16. CASE RecordWrite(r)
  <2>1. Recording(r) /\ UpdateRun(r, e.recorded, Want(r)) /\ Set(r, Recorded(r, Want(r)))
        /\ UNCHANGED <<inflight, loop>>
    BY <1>16 DEF RecordWrite, ExecutorKeeps
  <2>2. RowOwned(Recorded(r, Want(r)), Want(r)) /\ Recorded(r, Want(r)).pc # "idle"
    BY <1>12, <1>13, <1>15, <2>1
  <2> QED
    BY <1>11, <1>15, <2>1, <2>2, ExecutorFrame
<1>17. CASE RecordConflict(r)
  <2> DEFINE f == [exec[r] EXCEPT !.conflict = TRUE]
  <2>1. Recording(r) /\ UNCHANGED <<inflight, loop, runs>> /\ Set(r, f)
    BY <1>17 DEF RecordConflict, ExecutorKeeps, registryVars
  <2>2. f.pc = e.pc /\ f.recorded = e.recorded /\ f.out = e.out
    BY <1>0 DEF ExecRow
  <2>3. RowOwned(f, st)
    BY <1>1, <2>2 DEF RowOwned
  <2> HIDE DEF f
  <2> QED
    BY <1>2, <1>11, <2>1, <2>2, <2>3
<1>18. st \in {"starting", "running"} \/ (e.pc = "finish" /\ st = e.out)
       \/ e.pc \in {"idle", "exit"}
  BY <1>1 DEF RowOwned
<1>19. CASE RecordFails(r)
  <2>1. Recording(r) /\ AttemptFailed(r) /\ UNCHANGED <<inflight, loop>>
        /\ (UNCHANGED runs \/ UpdateRun(r, e.recorded, Want(r)))
    BY <1>19 DEF RecordFails, ExecutorKeeps, registryVars
  <2>2. runs'[r].status \in {"starting", "running"}
        \/ (e.pc = "finish" /\ runs'[r].status = e.out)
    BY <1>11, <1>15, <1>18, <2>1
  <2>3. \A q \in RunIDs \ {r} : runs'[q].status = runs[q].status
    BY <1>15, <2>1
  <2>4. \E f : Set(r, f) /\ RowOwned(f, runs'[r].status) /\ f.pc # "idle"
    BY <1>14, <2>1, <2>2
  <2> QED
    BY <1>11, <2>1, <2>3, <2>4, ExecutorFrame
<1>20. CASE RecordReread(r)
  <2>1. Recording(r) /\ UNCHANGED <<inflight, loop, runs>>
    BY <1>20 DEF RecordReread, ExecutorKeeps, registryVars
  <2>2. st \in {"starting", "running"} \/ (e.pc = "finish" /\ st = e.out)
    BY <1>11, <1>18, <2>1
  <2>3. CASE Set(r, Recorded(r, st))
    <3>1. RowOwned(Recorded(r, st), st) /\ Recorded(r, st).pc # "idle"
      BY <1>12, <1>13, <2>1, <2>2
    <3> QED
      BY <1>2, <1>11, <2>1, <2>3, <3>1
  <2>4. CASE /\ st # Want(r) /\ st \in ActiveStatus
             /\ Set(r, [exec[r] EXCEPT !.recorded = runs[r].status, !.conflict = FALSE,
                                       !.rereads = @ + 1])
    <3> DEFINE f == [exec[r] EXCEPT !.recorded = runs[r].status, !.conflict = FALSE,
                                    !.rereads = @ + 1]
    <3>1. f.pc = e.pc /\ f.recorded = st /\ f.out = e.out
      BY <1>0 DEF ExecRow
    <3>2. e.out \in TerminalStatus
      BY <1>0 DEF ExecRow
    <3>3. st \in {"starting", "running"}
      BY <2>2, <2>4, <3>2 DEF ActiveStatus, TerminalStatus
    <3>4. e.pc # "finish" => st = "starting"
      BY <2>4, <3>3 DEF Want
    <3>5. RowOwned(f, st)
      BY <1>11, <2>1, <3>1, <3>3, <3>4 DEF RowOwned, EarlyPC
    <3> HIDE DEF f
    <3>6. Set(r, f)
      BY <2>4 DEF f
    <3> QED
      BY <1>2, <1>11, <2>1, <3>1, <3>5, <3>6
  <2>5. CASE AttemptFailed(r)
    <3>1. \E f : Set(r, f) /\ RowOwned(f, st) /\ f.pc # "idle"
      BY <1>14, <2>1, <2>2, <2>5
    <3> QED
      BY <1>2, <1>11, <2>1, <3>1
  <2> QED
    BY <1>20, <2>3, <2>4, <2>5 DEF RecordReread
<1>21. CASE WaitReturns(r)
  <2>1. e.pc = "wait" /\ UNCHANGED <<inflight, loop, runs>>
    BY <1>21 DEF WaitReturns, At, ExecutorKeeps, registryVars
  <2>2. PICK out \in TerminalStatus, report \in Reports :
          Set(r, [exec[r] EXCEPT !.out = out,
                    !.report = IF exec[r].gen = 0 THEN "none" ELSE report,
                    !.pc = IF exec[r].recorded = "starting" THEN "again" ELSE "settle"])
    BY <1>21 DEF WaitReturns
  <2> DEFINE f == [exec[r] EXCEPT !.out = out,
                    !.report = IF exec[r].gen = 0 THEN "none" ELSE report,
                    !.pc = IF exec[r].recorded = "starting" THEN "again" ELSE "settle"]
  <2>3. /\ f.recorded = e.recorded /\ f.pc \in {"again", "settle"}
        /\ f.pc = "again" => e.recorded = "starting"
    BY <1>0 DEF ExecRow
  <2>4. Set(r, f)
    BY <2>2
  <2> HIDE DEF f
  <2>5. RowOwned(f, st)
    BY <1>1, <2>1, <2>3 DEF RowOwned, EarlyPC
  <2> QED
    BY <1>2, <2>1, <2>3, <2>4, <2>5
<1>22. CASE FinishProvisioning(r)
  <2>1. e.pc = "settle" /\ UNCHANGED <<inflight, loop, runs>>
    BY <1>22 DEF FinishProvisioning, At, ExecutorKeeps, registryVars,
                 ReleaseACMEAccountProvisioning, CompleteACMEAccountProvisioning
  <2> QED
    BY <1>2, <1>3, <1>22, <2>1 DEF FinishProvisioning
<1>23. CASE ExecReturns(r)
  <2>1. /\ exec' = [exec EXCEPT ![r] = IdleExec] /\ inflight' = inflight \ {r}
        /\ UNCHANGED <<loop, runs>> /\ IdleExec.pc = "idle"
    BY <1>23 DEF ExecReturns, Set, registryVars, IdleExec
  <2>2. ASSUME NEW q \in RunIDs
        PROVE  /\ q \in inflight' <=> exec'[q].pc # "idle"
               /\ RowOwned(exec'[q], runs'[q].status)
    BY <1>0, <2>1, IdleOwned DEF Ownership
  <2> QED
    BY <2>1, <2>2 DEF Ownership
<1> QED
  BY <1>5, <1>6, <1>7, <1>8, <1>9, <1>10, <1>16, <1>17, <1>19, <1>20, <1>21, <1>22, <1>23
  DEF Execute
LEMMA OwnershipStep ==
  ASSUME TypeOK, ClaimedExists, Ownership, [Next]_vars
  PROVE  Ownership'
<1>1. CASE Process
  BY <1>1, ProcessOwnership
<1>2. CASE Loop
  BY <1>2, PlanOwnership, DispatchSweepOwnership DEF Loop
<1>3. CASE API
  BY <1>3, ApiOwnership
<1>4. ASSUME NEW r \in RunIDs, Execute(r) PROVE Ownership'
  BY <1>4, ExecuteOwnership
<1>5. ASSUME NEW r \in RunIDs, Runner(r) PROVE Ownership'
  BY <1>5, OwnershipFrame DEF Runner, RunnerTries, RunnerEnds, registryVars, processVars
<1>6. CASE UNCHANGED vars
  BY <1>6, OwnershipFrame DEF vars, registryVars
<1> QED
  BY <1>1, <1>2, <1>3, <1>4, <1>5, <1>6 DEF Next

IInv == TypeOK /\ ClaimedExists /\ Ownership

\* The inductive invariant the run-lifecycle theorems rest on: well-typed
\* rows, and executors that know what the registry holds for their runs.
THEOREM Inductive == Spec => []IInv
<1>1. Init => IInv
  BY TypeInit, OwnershipInit DEF IInv
<1>2. IInv /\ [Next]_vars => IInv'
  BY TypeStep, OwnershipStep DEF IInv
<1> QED
  BY <1>1, <1>2, PTL DEF Spec

\* For every number of targets, runs, executors, faults and restarts: a run
\* with an executor is moved by that executor alone, and a run Dispatch has
\* just claimed is neither swept nor executed twice.
THEOREM OwnershipCorrect == Spec => []ExecutorOwnsRun
<1>1. IInv => ExecutorOwnsRun
  BY DEF IInv, TypeOK, Ownership, RowOwned, ExecutorOwnsRun
<1> QED
  BY <1>1, Inductive, PTL

-----------------------------------------------------------------------------
(* Every step of the system is one of the moves of the runs table below.   *)

RunStep ==
  \/ UNCHANGED <<runs, audit>>
  \/ \E r \in RunIDs, t \in Targets, rev \in Revisions : CreateRun(r, t, rev)
  \/ \E r \in RunIDs : ClaimQueuedRun(r)
  \/ \E r \in RunIDs : UpdateRun(r, "queued", "cancelled")
  \/ \E r \in RunIDs : UpdateRun(r, "starting", "running")
  \/ \E r \in RunIDs, from \in {"starting", "running"}, to \in TerminalStatus :
       UpdateRun(r, from, to)

LEMMA LoopMoves == ASSUME IInv, Loop PROVE RunStep
<1>0. loop \in LoopRow /\ "failed" \in TerminalStatus
  BY DEF IInv, TypeOK, TerminalStatus
<1>1. \A x \in loop.pick : x.target \in Targets /\ x.revision \in Revisions
  BY <1>0 DEF LoopRow, SeenTarget
<1>2. CASE \/ PlanList \/ PlanBindings \/ PlanDone \/ PlanFails
           \/ \E x \in loop.todo : PlanTarget(x)
           \/ \E x \in loop.pick : PlanCreate(x)
           \/ \E b \in Bindings : PlanBinding(b)
  <2>1. \/ UNCHANGED registryVars
        \/ \E q \in RunIDs, x \in loop.pick : CreateRun(q, x.target, x.revision)
    BY <1>2 DEF PlanList, PlanBindings, PlanDone, PlanFails, PlanTarget, PlanCreate,
       PlanBinding
  <2> QED
    BY <1>1, <2>1 DEF RunStep, registryVars
<1>3. CASE \/ DispatchRegister \/ DispatchDone \/ DispatchFails
           \/ \E r \in RunIDs : DispatchClaim(r)
  BY <1>3 DEF RunStep, DispatchRegister, DispatchDone, DispatchFails, DispatchClaim,
     registryVars
<1>4. CASE \/ SweepList \/ SweepDone \/ SweepFails
           \/ \E r \in RunIDs, s \in {"starting", "running"} : SweepClose(r, s)
  BY <1>0, <1>4 DEF RunStep, SweepList, SweepDone, SweepFails, SweepClose, registryVars
<1> QED
  BY <1>2, <1>3, <1>4 DEF Loop

LEMMA ApiMoves == ASSUME IInv, API PROVE RunStep
<1>1. \A x \in api : x.target \in Targets /\ x.revision \in Revisions
  BY DEF IInv, TypeOK, SeenTarget
<1>2. \/ UNCHANGED <<runs, audit>>
      \/ \E q \in RunIDs, x \in api : CreateRun(q, x.target, x.revision)
      \/ \E q \in RunIDs : UpdateRun(q, "queued", "cancelled")
  BY DEF API, ApiRequestRun, ApiUpdateTarget, ApiRetireTarget, ApiCreateRun,
     ApiCancelQueued, ApiCancelInFlight, ApiUpdatePolicy, ApiRequestProvisioning,
     ApiCancelProvisioning, registryVars, UpdateTarget, RetireTarget, UpdatePolicy,
     RequestACMEAccountProvisioning, CancelACMEAccountProvisioning
<1> QED
  BY <1>1, <1>2 DEF RunStep

LEMMA ExecuteMoves ==
  ASSUME IInv, NEW r \in RunIDs, Execute(r)
  PROVE  RunStep
<1>1. \/ UNCHANGED <<runs, audit>>
      \/ Recording(r) /\ UpdateRun(r, exec[r].recorded, Want(r))
  BY DEF Execute, LoadTarget, LoadPolicy, ClaimProvisioning, LoadAccount, Launch,
     ReleaseClaim, RecordWrite, RecordConflict, RecordFails, RecordReread, WaitReturns,
     FinishProvisioning, ExecReturns, registryVars, ClaimACMEAccountProvisioning,
     ReleaseACMEAccountProvisioning, CompleteACMEAccountProvisioning
<1>2. /\ exec[r].out \in TerminalStatus
      /\ RowOwned(exec[r], runs[r].status)
  BY DEF IInv, TypeOK, ExecRow, Ownership
<1>3. CASE Recording(r) /\ exec[r].pc = "finish"
  <2>1. exec[r].recorded \in {"starting", "running"} /\ Want(r) \in TerminalStatus
    BY <1>2, <1>3 DEF RowOwned, Want
  <2> QED
    BY <1>1, <2>1 DEF RunStep
<1>4. CASE Recording(r) /\ exec[r].pc # "finish"
  <2>1. exec[r].recorded = "starting" /\ Want(r) = "running"
    BY <1>2, <1>4 DEF RowOwned, Want, Recording, EarlyPC
  <2> QED
    BY <1>1, <2>1 DEF RunStep
<1> QED
  BY <1>1, <1>3, <1>4 DEF RunStep

LEMMA EveryStepMovesRuns == ASSUME IInv, [Next]_vars PROVE RunStep
<1>1. CASE Process
  BY <1>1 DEF Process, StartProcess, Crash, Stop, StopLoop, DrainDeadline, DrainDone,
     ExitProcess, RunStep, registryVars
<1>2. ASSUME NEW r \in RunIDs, Runner(r) PROVE RunStep
  BY <1>2 DEF Runner, RunnerTries, RunnerEnds, RunStep, registryVars
<1>3. CASE UNCHANGED vars
  BY <1>3 DEF vars, RunStep, registryVars
<1> QED
  BY <1>1, <1>2, <1>3, LoopMoves, ApiMoves, ExecuteMoves DEF Next
-----------------------------------------------------------------------------
(* What the moves preserve *)

\* The row a move touches, and what it leaves alone.
LEMMA MoveShape ==
  ASSUME IInv, NEW r \in RunIDs, NEW from \in RunStatus, NEW to \in RunStatus,
         UpdateRun(r, from, to)
  PROVE  /\ runs'[r].status = to /\ runs'[r].target = runs[r].target
         /\ audit'[r] = Audited(audit[r], to)
         /\ \A q \in RunIDs \ {r} : runs'[q] = runs[q] /\ audit'[q] = audit[q]
<1>1. runs \in [RunIDs -> RunRow] /\ runs[r] \in RunRow /\ audit \in [RunIDs -> AuditRow]
  BY DEF IInv, TypeOK, RegistryTypeOK
<1> QED
  BY <1>1 DEF UpdateRun, RunRow

LEMMA ClaimShape ==
  ASSUME IInv, NEW r \in RunIDs, ClaimQueuedRun(r)
  PROVE  /\ runs[r].status = "queued" /\ runs'[r].status = "starting"
         /\ runs'[r].target = runs[r].target /\ UNCHANGED audit
         /\ \A q \in RunIDs \ {r} : runs'[q] = runs[q]
<1>1. runs \in [RunIDs -> RunRow] /\ runs[r] \in RunRow
  BY DEF IInv, TypeOK, RegistryTypeOK
<1> QED
  BY <1>1 DEF ClaimQueuedRun, OldestQueued, RunRow

LEMMA CreateShape ==
  ASSUME IInv, NEW r \in RunIDs, NEW t \in Targets, NEW rev \in Revisions,
         CreateRun(r, t, rev)
  PROVE  /\ runs[r].status = "none" /\ runs'[r].status = "queued"
         /\ runs'[r].target = t /\ UNCHANGED audit
         /\ \A q \in RunIDs : Active(q) => runs[q].target # t
         /\ \A q \in RunIDs \ {r} : runs'[q] = runs[q]
<1>1. runs \in [RunIDs -> RunRow]
  BY DEF IInv, TypeOK, RegistryTypeOK
<1> QED
  BY <1>1 DEF CreateRun, HasActiveRun

\* A move that inserts no run: targets stay and nothing becomes active.
LEMMA MovesKeepTargets ==
  ASSUME IInv, RunStep
  PROVE  \/ \E r \in RunIDs, t \in Targets, rev \in Revisions : CreateRun(r, t, rev)
         \/ \A q \in RunIDs : /\ runs'[q].target = runs[q].target
                              /\ Active(q)' => Active(q)
<1>1. CASE UNCHANGED <<runs, audit>>
  BY <1>1 DEF Active
<1>2. CASE \E r \in RunIDs : ClaimQueuedRun(r)
  BY <1>2, ClaimShape DEF Active, ActiveStatus
<1>3. ASSUME NEW r \in RunIDs, NEW from \in ActiveStatus, NEW to \in RunStatus,
             UpdateRun(r, from, to)
      PROVE  \A q \in RunIDs : /\ runs'[q].target = runs[q].target
                               /\ Active(q)' => Active(q)
  <2>1. runs[r].status = from /\ from \in RunStatus
    BY <1>3 DEF UpdateRun, RunStatus
  <2> QED
    BY <1>3, <2>1, MoveShape DEF Active
<1>4. ActiveStatus = {"queued", "starting", "running"} /\ TerminalStatus \subseteq RunStatus
      /\ "running" \in RunStatus /\ "cancelled" \in RunStatus
  BY DEF ActiveStatus, RunStatus, TerminalStatus
<1> QED
  BY <1>1, <1>2, <1>3, <1>4 DEF RunStep

LEMMA OneActiveRunStep ==
  ASSUME IInv, OneActiveRun, RunStep
  PROVE  OneActiveRun'
<1>1. ASSUME NEW r \in RunIDs, NEW t \in Targets, NEW rev \in Revisions,
             CreateRun(r, t, rev)
      PROVE  OneActiveRun'
  <2>1. \A q \in RunIDs \ {r} : /\ runs'[q].target = runs[q].target
                                /\ Active(q)' => Active(q)
                                /\ Active(q)' => runs'[q].target # t
    BY <1>1, CreateShape DEF Active
  <2> QED
    BY <1>1, <2>1, CreateShape DEF OneActiveRun
<1>2. CASE \A q \in RunIDs : /\ runs'[q].target = runs[q].target
                             /\ Active(q)' => Active(q)
  BY <1>2 DEF OneActiveRun
<1> QED
  BY <1>1, <1>2, MovesKeepTargets

\* At most one active run per target, in every instance: the index the code
\* relies on is enough whatever the loop and the handlers read before.
THEOREM OneActiveRunCorrect == Spec => []OneActiveRun
<1>1. Init => OneActiveRun
  BY DEF Init, RegistryInit, OneActiveRun, Active, ActiveStatus
<1>2. IInv /\ OneActiveRun /\ [Next]_vars => OneActiveRun'
  BY OneActiveRunStep, EveryStepMovesRuns
<1> QED
  BY <1>1, <1>2, Inductive, PTL DEF Spec

LEMMA FinalStep ==
  ASSUME IInv, RunStep, NEW r \in RunIDs, runs[r].status \in TerminalStatus
  PROVE  runs'[r] = runs[r] /\ audit'[r] = audit[r]
<1>0. /\ \A s \in {"none", "queued", "starting", "running"} : s \notin TerminalStatus
      /\ TerminalStatus \subseteq RunStatus
      /\ {"queued", "starting", "running", "cancelled"} \subseteq RunStatus
  BY DEF TerminalStatus, RunStatus, ActiveStatus
<1>1. CASE UNCHANGED <<runs, audit>>
  BY <1>1
<1>2. CASE \E q \in RunIDs, t \in Targets, rev \in Revisions : CreateRun(q, t, rev)
  BY <1>0, <1>2, CreateShape
<1>3. CASE \E q \in RunIDs : ClaimQueuedRun(q)
  BY <1>0, <1>3, ClaimShape
<1>4. ASSUME NEW q \in RunIDs, NEW from \in {"queued", "starting", "running"},
             NEW to \in RunStatus, UpdateRun(q, from, to)
      PROVE  runs'[r] = runs[r] /\ audit'[r] = audit[r]
  <2>1. q # r
    BY <1>0, <1>4 DEF UpdateRun
  <2> QED
    BY <1>0, <1>4, <2>1, MoveShape
<1> QED
  BY <1>0, <1>1, <1>2, <1>3, <1>4 DEF RunStep

\* A recorded outcome and its audit events never change again: no retry, late
\* sweep, restart or cancellation rewrites them.
THEOREM OutcomeFinalCorrect == Spec => OutcomeIsFinal
<1>1. IInv /\ [Next]_vars =>
        [\A r \in RunIDs : runs[r].status \in TerminalStatus =>
           runs'[r] = runs[r] /\ audit'[r] = audit[r]]_vars
  BY FinalStep, EveryStepMovesRuns
<1> QED
  BY <1>1, Inductive, PTL DEF Spec, OutcomeIsFinal
LEMMA AuditExactStep ==
  ASSUME IInv, AuditExact, RunStep
  PROVE  AuditExact'
<1> DEFINE Exact(st, row) ==
      /\ row.closed = IF st \in TerminalStatus THEN 1 ELSE 0
      /\ row.started <= 1
      /\ st = "running" => row.started = 1
      /\ row.started = 1 => st \in {"running"} \cup TerminalStatus
<1>0. /\ audit \in [RunIDs -> AuditRow]
      /\ \A r \in RunIDs : Exact(runs[r].status, audit[r])
  BY DEF AuditExact, IInv, TypeOK, RegistryTypeOK
<1>1. SUFFICES ASSUME NEW q \in RunIDs PROVE Exact(runs'[q].status, audit'[q])
  BY <1>1 DEF AuditExact
<1>2. CASE runs'[q].status = runs[q].status /\ audit'[q] = audit[q]
  BY <1>0, <1>2
<1>3. CASE /\ runs[q].status \in {"none", "queued"} /\ audit'[q] = audit[q]
           /\ runs'[q].status \in {"queued", "starting"}
  BY <1>0, <1>3 DEF TerminalStatus
<1>4. ASSUME NEW to \in {"running"} \cup TerminalStatus, runs'[q].status = to,
             runs[q].status \in {"queued", "starting"} \/
               (runs[q].status = "running" /\ to # "running"),
             audit'[q] = Audited(audit[q], to)
      PROVE  Exact(runs'[q].status, audit'[q])
  <2>1. /\ audit[q].started \in Nat /\ audit[q].closed \in Nat
        /\ Exact(runs[q].status, audit[q])
    BY <1>0 DEF AuditRow
  <2>2. /\ audit'[q].started = audit[q].started + (IF to = "running" THEN 1 ELSE 0)
        /\ audit'[q].closed = audit[q].closed + (IF to = "running" THEN 0 ELSE 1)
    BY <1>4 DEF Audited
  <2> QED
    BY <1>4, <2>1, <2>2 DEF TerminalStatus
<1>5. CASE \E r \in RunIDs, t \in Targets, rev \in Revisions : CreateRun(r, t, rev)
  BY <1>2, <1>3, <1>5, CreateShape
<1>6. CASE \E r \in RunIDs : ClaimQueuedRun(r)
  BY <1>2, <1>3, <1>6, ClaimShape
<1>7. ASSUME NEW r \in RunIDs, NEW from \in ActiveStatus,
             NEW to \in {"running"} \cup TerminalStatus, UpdateRun(r, from, to),
             from = "running" => to # "running"
      PROVE  Exact(runs'[q].status, audit'[q])
  <2>1. from \in RunStatus /\ to \in RunStatus /\ runs[r].status = from
    BY <1>7 DEF RunStatus, ActiveStatus, UpdateRun
  <2>2. runs'[r].status = to /\ audit'[r] = Audited(audit[r], to)
    BY <1>7, <2>1, MoveShape
  <2>3. CASE q = r
    BY <1>4, <1>7, <2>1, <2>2, <2>3 DEF ActiveStatus
  <2>4. CASE q # r
    BY <1>2, <1>7, <2>1, <2>4, MoveShape
  <2> QED
    BY <2>3, <2>4
<1>8. /\ {"queued", "starting", "running"} = ActiveStatus
      /\ "cancelled" \in TerminalStatus /\ "running" \notin TerminalStatus
  BY DEF ActiveStatus, TerminalStatus
<1>9. CASE UNCHANGED <<runs, audit>>
  BY <1>2, <1>9
<1>10. CASE \/ \E r \in RunIDs : UpdateRun(r, "queued", "cancelled")
            \/ \E r \in RunIDs : UpdateRun(r, "starting", "running")
            \/ \E r \in RunIDs, from \in {"starting", "running"}, to \in TerminalStatus :
                 UpdateRun(r, from, to)
  <2> HIDE DEF Exact
  <2> QED
    BY <1>7, <1>8, <1>10
<1> HIDE DEF Exact
<1> QED
  BY <1>5, <1>6, <1>9, <1>10 DEF RunStep

\* The audit trail never repeats or loses a closing event, for any number of
\* failed, late and repeated writes.
THEOREM AuditExactCorrect == Spec => []AuditExact
<1>1. Init => AuditExact
  BY DEF Init, RegistryInit, AuditExact, TerminalStatus
<1>2. IInv /\ AuditExact /\ [Next]_vars => AuditExact'
  BY AuditExactStep, EveryStepMovesRuns
<1> QED
  BY <1>1, <1>2, Inductive, PTL DEF Spec

-----------------------------------------------------------------------------
(* The refinement *)

LEMMA RefinesInit == ASSUME Init PROVE Abstract!Init
<1>1. (CHOOSE t \in Targets : TRUE) \in Targets
  BY RegistryAssumption
<1> QED
  BY <1>1 DEF Init, RegistryInit, Abstract!Init

LEMMA RefinesStep ==
  ASSUME IInv, RunStep
  PROVE  [Abstract!Next]_<<[r \in RunIDs |-> runs[r].status],
                           [r \in RunIDs |-> runs[r].target]>>
<1> DEFINE status == [r \in RunIDs |-> runs[r].status]
           owner  == [r \in RunIDs |-> runs[r].target]
<1>0. /\ status' = [r \in RunIDs |-> runs'[r].status]
      /\ owner' = [r \in RunIDs |-> runs'[r].target]
      /\ \A r \in RunIDs : status[r] = runs[r].status /\ owner[r] = runs[r].target
  OBVIOUS
\* A move of one run, as the abstract specification writes it.
<1>1. ASSUME NEW r \in RunIDs, NEW from, NEW to, runs[r].status \in from,
             runs'[r].status = to, runs'[r].target = runs[r].target,
             \A q \in RunIDs \ {r} : runs'[q] = runs[q]
      PROVE  Abstract!Move(r, from, to)
  BY <1>1 DEF Abstract!Move
<1>2. CASE UNCHANGED <<runs, audit>>
  BY <1>2
<1>3. ASSUME NEW r \in RunIDs, NEW t \in Targets, NEW rev \in Revisions,
             CreateRun(r, t, rev)
      PROVE  Abstract!Next
  <2>1. ~Abstract!Busy(t)
    BY <1>3, CreateShape DEF Abstract!Busy, Active, ActiveStatus, Abstract!InFlight
  <2>2. Abstract!Request(r, t)
    BY <1>3, <2>1, CreateShape DEF Abstract!Request
  <2> QED
    BY <2>2 DEF Abstract!Next
<1>4. ASSUME NEW r \in RunIDs, ClaimQueuedRun(r) PROVE Abstract!Next
  <2>1. Abstract!Move(r, {"queued"}, "starting")
    BY <1>1, <1>4, ClaimShape
  <2>2. \A q \in RunIDs : status[q] = "queued" => r <= q
    BY <1>4 DEF ClaimQueuedRun, OldestQueued
  <2> QED
    BY <2>1, <2>2 DEF Abstract!Claim, Abstract!Next
<1>5. ASSUME NEW r \in RunIDs, NEW from \in ActiveStatus, NEW to \in RunStatus,
             NEW S, from \in S, UpdateRun(r, from, to)
      PROVE  Abstract!Move(r, S, to)
  <2>1. from \in RunStatus /\ runs[r].status = from
    BY <1>5 DEF RunStatus, UpdateRun
  <2> QED
    BY <1>1, <1>5, <2>1, MoveShape
<1>6. /\ {"queued", "starting", "running"} \subseteq ActiveStatus
      /\ TerminalStatus \subseteq RunStatus /\ Abstract!Ended = TerminalStatus
      /\ "running" \in RunStatus /\ "cancelled" \in RunStatus
  BY DEF ActiveStatus, TerminalStatus, RunStatus, Abstract!Ended
<1>7. ASSUME NEW r \in RunIDs, UpdateRun(r, "queued", "cancelled") PROVE Abstract!Next
  <2>1. Abstract!Move(r, {"queued"}, "cancelled")
    BY <1>5, <1>6, <1>7
  <2> QED
    BY <2>1 DEF Abstract!End, Abstract!Next
<1>8. ASSUME NEW r \in RunIDs, UpdateRun(r, "starting", "running") PROVE Abstract!Next
  <2>1. Abstract!Move(r, {"starting"}, "running")
    BY <1>5, <1>6, <1>8
  <2> QED
    BY <2>1 DEF Abstract!Begin, Abstract!Next
<1>9. ASSUME NEW r \in RunIDs, NEW from \in {"starting", "running"},
             NEW to \in TerminalStatus, UpdateRun(r, from, to)
      PROVE  Abstract!Next
  <2>1. Abstract!Move(r, {"starting", "running"}, to)
    BY <1>5, <1>6, <1>9
  <2> QED
    BY <1>6, <2>1 DEF Abstract!End, Abstract!Next
<1> QED
  BY <1>2, <1>3, <1>4, <1>7, <1>8, <1>9 DEF RunStep

\* The whole system, seen through the status and target of its runs,
\* implements the abstract run lifecycle.
THEOREM Refinement == Spec => ImplementsRunLifecycle
<1>1. IInv /\ [Next]_vars =>
        [Abstract!Next]_<<[r \in RunIDs |-> runs[r].status],
                          [r \in RunIDs |-> runs[r].target]>>
  BY RefinesStep, EveryStepMovesRuns
<1>2. Init => Abstract!Init
  BY RefinesInit
<1> QED
  BY <1>1, <1>2, Inductive, PTL DEF Spec, ImplementsRunLifecycle, Abstract!Spec
=============================================================================
