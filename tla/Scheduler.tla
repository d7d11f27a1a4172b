----------------------------- MODULE Scheduler -----------------------------
(***************************************************************************)
(* The Conductor process around its registry: the scheduler's loop (Plan,  *)
(* Dispatch, sweep), one executor goroutine per run in flight, the API     *)
(* handlers that write the same rows, the Runners the launchers started,   *)
(* and the process's own life (Recover, serving, draining, stopped or      *)
(* killed).  Source: internal/conductor/scheduler/scheduler.go,            *)
(* internal/conductor/conductor.go and internal/conductor/api.             *)
(*                                                                         *)
(* Every step is at most one registry transaction, so whatever the code    *)
(* reads in one transaction and uses in a later one can be stale.  A       *)
(* transaction may fail (faults): the error is reported although nothing   *)
(* was written ("lost") or although the write was committed ("late", the   *)
(* case scheduler.record is written for).                                  *)
(*                                                                         *)
(* Abstracted: time.  Whether a target is due, whether a retry window has  *)
(* passed and when a launcher gives up waiting are nondeterministic.       *)
(***************************************************************************)
EXTENDS Registry

CONSTANTS
  MaxConcurrentRuns,  \* executions in flight at once (configuration)
  LauncherReaps,      \* TRUE: no Runner is left when Start fails or Wait returns
  MaxFaults,          \* bound: failed registry calls
  MaxStops            \* bound: times the process stops, killed or not

ASSUME SchedulerAssumption ==
  /\ MaxConcurrentRuns \in Nat \ {0}
  /\ LauncherReaps \in BOOLEAN
  /\ MaxFaults \in Nat
  /\ MaxStops \in Nat

VARIABLES
  mode,      \* the process: "down", "recovering", "up", "draining", ...
  loop,      \* the goroutine of Scheduler.Run
  inflight,  \* Scheduler.inflight: the runs with an executor
  exec,      \* the local state of each run's executor
  runner,    \* what the launcher started for each run
  api,       \* the run-creating API request in progress
  faults,    \* failed registry calls so far
  stops      \* stops of the process so far

processVars == <<mode, loop, inflight, exec, api>>
vars == <<registryVars, mode, loop, inflight, exec, runner, api, faults, stops>>

-----------------------------------------------------------------------------
(* State *)

Modes == {"down", "recovering", "up", "draining", "cancelling", "drained",
          "expired"}

\* A target as Plan or a handler read it.
SeenTarget == [target : Targets, revision : Revisions, policy : Policies]

\* A target whose run could carry a binding-wide provisioning request, with
\* its last run as Plan read it (provisioningCandidate).
Candidate == [target : Targets, revision : Revisions, policy : Policies,
              acme : Bindings, last : {"queued", "active", "idle", "tried"}]

\* A policy as Plan first read it in this pass.
SeenPolicy == [policy : Policies, enabled : BOOLEAN, acme : Bindings]

LoopPC == {"plan", "target", "create", "binding", "dispatch", "register",
           "sweep", "close", "stopped"}

IdleLoop == [pc |-> "stopped", todo |-> {}, seen |-> {}, cands |-> {},
             pick |-> {}, run |-> NoRun, snap |-> {}]

ExecPC == {"idle", "target", "policy", "claim", "account", "launch", "release",
           "began", "wait", "again", "settle", "finish", "exit"}

Reports == {"lost", "none", "registered", "failed", "other"}

IdleExec == [pc |-> "idle", recorded |-> "starting", out |-> "failed",
             conflict |-> FALSE, rereads |-> 0, cancel |-> FALSE,
             policy |-> CHOOSE p \in Policies : TRUE, key |-> NoAccount,
             gen |-> 0, report |-> "none"]

\* disowned: Start returned an error although the Runner has the job.
NoRunner == [state |-> "none", key |-> NoAccount, gen |-> 0,
             tried |-> FALSE, registered |-> FALSE, disowned |-> FALSE]

MaxConflictRereads == 2
Rereads == 0 .. MaxConflictRereads

ExecRow == [pc : ExecPC, recorded : RunStatus, out : TerminalStatus,
            conflict : BOOLEAN, rereads : Rereads, cancel : BOOLEAN,
            policy : Policies, key : Accounts \cup {NoAccount},
            gen : Gens \cup {0}, report : Reports]

RunnerRow == [state : {"none", "live", "ended"},
              key : Accounts \cup {NoAccount}, gen : Gens \cup {0},
              tried : BOOLEAN, registered : BOOLEAN, disowned : BOOLEAN]

LoopRow == [pc : LoopPC, todo : SUBSET SeenTarget, seen : SUBSET SeenPolicy,
            cands : SUBSET Candidate, pick : SUBSET SeenTarget,
            run : RunIDs \cup {NoRun},
            snap : SUBSET (RunIDs \X {"starting", "running"})]

\* Type invariant of the registry, the process and the Runners.
TypeOK ==
  /\ RegistryTypeOK
  /\ mode \in Modes
  /\ loop \in LoopRow
  /\ inflight \in SUBSET RunIDs
  /\ exec \in [RunIDs -> ExecRow]
  /\ runner \in [RunIDs -> RunnerRow]
  /\ api \in SUBSET SeenTarget
  /\ faults \in 0 .. MaxFaults
  /\ stops \in 0 .. MaxStops

Init ==
  /\ RegistryInit
  /\ mode = "down"
  /\ loop = IdleLoop
  /\ inflight = {}
  /\ exec = [r \in RunIDs |-> IdleExec]
  /\ runner = [r \in RunIDs |-> NoRunner]
  /\ api = {}
  /\ faults = 0
  /\ stops = 0

Fault == faults < MaxFaults /\ faults' = faults + 1
NoFault == UNCHANGED faults

-----------------------------------------------------------------------------
(* The process: conductor.Serve *)

\* The ownership lock is taken (one process at a time), the registry is
\* opened and Recover begins; nothing listens yet.
StartProcess ==
  /\ mode = "down"
  /\ mode' = "recovering"
  /\ loop' = [IdleLoop EXCEPT !.pc = "sweep"]
  /\ UNCHANGED <<registryVars, inflight, exec, runner, api, faults, stops>>

\* The process is gone: so are the executors, the in-flight map, the loop
\* and the requests being handled.  Runners and rows stay.
Gone ==
  /\ mode' = "down"
  /\ loop' = IdleLoop
  /\ inflight' = {}
  /\ exec' = [r \in RunIDs |-> IdleExec]
  /\ api' = {}

Crash ==
  /\ mode # "down"
  /\ stops < MaxStops
  /\ stops' = stops + 1
  /\ Gone
  /\ UNCHANGED <<registryVars, runner, faults>>

\* Shutdown requested: stopLoop, then the HTTP server is shut down and Drain
\* waits for the executors.
Stop ==
  /\ mode = "up"
  /\ stops < MaxStops
  /\ stops' = stops + 1
  /\ mode' = "draining"
  /\ UNCHANGED <<registryVars, loop, inflight, exec, runner, api, faults>>

\* The loop sees its context done; a run it has just claimed is still
\* registered and executed first.
StopLoop ==
  /\ mode \in {"draining", "cancelling", "drained", "expired"}
  /\ loop.pc \notin {"register", "stopped"}
  /\ loop' = IdleLoop
  /\ UNCHANGED <<registryVars, mode, inflight, exec, runner, api, faults, stops>>

\* The grace period is over: Drain cancels runsCtx and keeps waiting.
DrainDeadline ==
  /\ mode = "draining" /\ inflight # {}
  /\ mode' = "cancelling"
  /\ UNCHANGED <<registryVars, loop, inflight, exec, runner, api, faults, stops>>

\* Drain returns: no executor was left when it looked.
DrainDone ==
  /\ inflight = {}
  /\ \/ mode = "draining" /\ mode' = "drained"
     \/ mode = "cancelling" /\ mode' = "expired"
  /\ UNCHANGED <<registryVars, loop, inflight, exec, runner, api, faults, stops>>

\* Serve returns once the loop has returned.
ExitProcess ==
  /\ mode \in {"drained", "expired"} /\ loop.pc = "stopped"
  /\ Gone
  /\ UNCHANGED <<registryVars, runner, faults, stops>>

-----------------------------------------------------------------------------
(* The loop: Plan *)

LoopRuns  == mode \in {"up", "recovering"}
LoopAt(p) == LoopRuns /\ loop.pc = p
Seen(t)   == [target |-> t, revision |-> targets[t].revision,
              policy |-> targets[t].policy]

\* ListTargets(enabled): the rows the rest of the pass works from.
PlanList ==
  /\ LoopAt("plan")
  /\ loop' = [loop EXCEPT !.pc = "target", !.seen = {}, !.cands = {},
       !.todo = {Seen(t) : t \in {t \in Targets :
                    targets[t].enabled /\ ~targets[t].retired}}]
  /\ NoFault
  /\ UNCHANGED <<registryVars, mode, inflight, exec, runner, api, stops>>

\* The policy row Plan uses for policy p: read once per pass.
PolicyInPass(p) ==
  IF \E s \in loop.seen : s.policy = p
    THEN CHOOSE s \in loop.seen : s.policy = p
    ELSE [policy |-> p, enabled |-> policies[p].enabled, acme |-> policies[p].acme]

\* The status of the last run of t (RunSummary.LastRun: the highest id).
LastRun(t) ==
  LET mine == {r \in RunIDs : runs[r].status # "none" /\ runs[r].target = t}
  IN  IF mine = {} THEN "none"
      ELSE runs[CHOOSE r \in mine : \A q \in mine : q <= r].status

LastClass(t) ==
  CASE LastRun(t) = "queued" -> "queued"
    [] LastRun(t) \in {"starting", "running"} -> "active"
    [] OTHER -> "idle"

BindingWide(b) == b \in ProvisioningBindings \ TargetScopedBindings

\* One target of the pass: skipped under a disabled policy or while its last
\* run is active; otherwise due or not.  A target of a binding-wide EAB
\* binding also becomes a provisioning candidate.  A policy that cannot be
\* read skips the target.
PlanTarget(x) ==
  /\ LoopAt("target") /\ x \in loop.todo
  /\ LET p    == PolicyInPass(x.policy)
         last == LastClass(x.target)
         cand == [target |-> x.target, revision |-> x.revision,
                  policy |-> x.policy, acme |-> p.acme, last |-> last]
         next == [loop EXCEPT !.todo = @ \ {x}, !.seen = @ \cup {p},
                    !.cands = IF p.enabled /\ BindingWide(p.acme)
                                THEN @ \cup {cand} ELSE @]
     IN  \/ loop' = next /\ NoFault
         \/ /\ p.enabled /\ last = "idle"
            /\ loop' = [next EXCEPT !.pc = "create", !.pick = {x}]
            /\ NoFault
         \/ loop' = [loop EXCEPT !.todo = @ \ {x}] /\ p \notin loop.seen /\ Fault
  /\ UNCHANGED <<registryVars, mode, inflight, exec, runner, api, stops>>

PlanBindings ==
  /\ LoopAt("target") /\ loop.todo = {}
  /\ loop' = [loop EXCEPT !.pc = "binding"]
  /\ NoFault
  /\ UNCHANGED <<registryVars, mode, inflight, exec, runner, api, stops>>

\* planBindingProvisioning for the binding of one candidate: nothing to do
\* unless its account has a pending request no run carries and no candidate
\* has a queued run; then one idle candidate that provisioningDue allows,
\* and after an ErrRunActive the next one, on the strength of the same read.
PlanBinding(b) ==
  /\ LoopAt("binding")
  /\ LET mine == {c \in loop.cands : c.acme = b}
         rest == loop.cands \ mine
     IN  /\ mine # {}
         /\ \/ loop' = [loop EXCEPT !.cands = rest]
            \/ /\ \/ \E g \in Gens : Unattached(<<b, NoScope>>, g)
                  \/ \E c \in mine : c.last = "tried"
               /\ \A c \in mine : c.last # "queued"
               /\ \E c \in mine :
                    /\ c.last = "idle"
                    /\ loop' = [loop EXCEPT !.pc = "create",
                         !.cands = (@ \ {c}) \cup {[c EXCEPT !.last = "tried"]},
                         !.pick = {[target |-> c.target, revision |-> c.revision,
                                    policy |-> c.policy]}]
  /\ NoFault
  /\ UNCHANGED <<registryVars, mode, inflight, exec, runner, api, stops>>

\* The run just created for x is queued: x's binding needs no other.
MarkQueued(x) ==
  {IF c.target = x.target THEN [c EXCEPT !.last = "queued"] ELSE c : c \in loop.cands}

\* The bound MaxRuns is reached: no further run is created.
NoFreeRun == \A r \in RunIDs : runs[r].status # "none"

\* CreateRun for the picked target.  ErrRunActive: the next one; a retired
\* target is an error and ends the pass.
PlanCreate(x) ==
  LET pass == IF loop.todo = {} THEN "binding" ELSE "target" IN
  /\ LoopAt("create") /\ x \in loop.pick
  /\ \/ \E r \in RunIDs : CreateRun(r, x.target, x.revision)
        /\ loop' = [loop EXCEPT !.pc = pass, !.pick = {}, !.cands = MarkQueued(x)]
     \/ /\ ~targets[x.target].retired
        /\ HasActiveRun(x.target) \/ NoFreeRun
        /\ loop' = [loop EXCEPT !.pc = pass, !.pick = {}]
        /\ UNCHANGED registryVars
     \/ /\ targets[x.target].retired
        /\ loop' = [loop EXCEPT !.pc = "dispatch", !.pick = {}]
        /\ UNCHANGED registryVars
  /\ NoFault
  /\ UNCHANGED <<mode, inflight, exec, runner, api, stops>>

PlanDone ==
  /\ LoopAt("binding") /\ loop.cands = {}
  /\ loop' = [loop EXCEPT !.pc = "dispatch", !.seen = {}]
  /\ NoFault
  /\ UNCHANGED <<registryVars, mode, inflight, exec, runner, api, stops>>

\* A registry call of Plan fails: the pass is over, with the run created
\* anyway if the failed call was a CreateRun that had committed.
PlanFails ==
  /\ LoopRuns /\ loop.pc \in {"plan", "target", "create", "binding"}
  /\ Fault
  /\ \/ UNCHANGED registryVars
     \/ /\ loop.pc = "create"
        /\ \E r \in RunIDs, x \in loop.pick : CreateRun(r, x.target, x.revision)
  /\ loop' = [IdleLoop EXCEPT !.pc = "dispatch"]
  /\ UNCHANGED <<mode, inflight, exec, runner, api, stops>>

-----------------------------------------------------------------------------
(* The loop: Dispatch *)

\* ClaimQueuedRun while capacity allows.
DispatchClaim(r) ==
  /\ LoopAt("dispatch")
  /\ Cardinality(inflight) < MaxConcurrentRuns
  /\ ClaimQueuedRun(r)
  /\ loop' = [loop EXCEPT !.pc = "register", !.run = r]
  /\ NoFault
  /\ UNCHANGED <<mode, inflight, exec, runner, api, stops>>

\* The claimed run gets its context, its in-flight entry and its executor.
DispatchRegister ==
  /\ mode # "down" /\ loop.pc = "register"
  /\ inflight' = inflight \cup {loop.run}
  /\ exec' = [exec EXCEPT ![loop.run] = [IdleExec EXCEPT !.pc = "target"]]
  /\ loop' = [loop EXCEPT !.pc = "dispatch", !.run = NoRun]
  /\ NoFault
  /\ UNCHANGED <<registryVars, mode, runner, api, stops>>

\* At capacity, or nothing is queued.
DispatchDone ==
  /\ LoopAt("dispatch")
  /\ \/ Cardinality(inflight) >= MaxConcurrentRuns
     \/ \A r \in RunIDs : runs[r].status # "queued"
  /\ loop' = [loop EXCEPT !.pc = "sweep"]
  /\ NoFault
  /\ UNCHANGED <<registryVars, mode, inflight, exec, runner, api, stops>>

\* The claim fails; if it had committed, the run is starting and nobody
\* executes it.
DispatchFails ==
  /\ LoopAt("dispatch")
  /\ Cardinality(inflight) < MaxConcurrentRuns
  /\ Fault
  /\ \/ UNCHANGED registryVars
     \/ \E r \in RunIDs : ClaimQueuedRun(r)
  /\ loop' = [loop EXCEPT !.pc = "sweep"]
  /\ UNCHANGED <<mode, inflight, exec, runner, api, stops>>

-----------------------------------------------------------------------------
(* The loop: sweep, which Recover also calls, before anything else runs *)

\* Faulty variant of SweepList: queued runs are taken for stranded ones.
SweepListQueued ==
  /\ LoopAt("sweep")
  /\ loop' = [loop EXCEPT !.pc = "close", !.snap =
       {<<r, runs[r].status>> : r \in {r \in RunIDs : Active(r)}}]
  /\ NoFault
  /\ UNCHANGED <<registryVars, mode, inflight, exec, runner, api, stops>>

\* Faulty variant of SweepList: a run that never got to running is left.
SweepListRunning ==
  /\ LoopAt("sweep")
  /\ loop' = [loop EXCEPT !.pc = "close", !.snap =
       {<<r, runs[r].status>> : r \in {r \in RunIDs : runs[r].status = "running"}}]
  /\ NoFault
  /\ UNCHANGED <<registryVars, mode, inflight, exec, runner, api, stops>>

\* ListActiveRuns; queued runs are left for Dispatch.
SweepList ==
  /\ LoopAt("sweep")
  /\ loop' = [loop EXCEPT !.pc = "close", !.snap =
       {<<r, runs[r].status>> : r \in {r \in RunIDs :
                                  runs[r].status \in {"starting", "running"}}}]
  /\ NoFault
  /\ UNCHANGED <<registryVars, mode, inflight, exec, runner, api, stops>>

\* Faulty variant of SweepClose: closes what the listing shows whether or not
\* it is in flight.
SweepCloseAll(r, status) ==
  /\ LoopAt("close") /\ <<r, status>> \in loop.snap
  /\ loop' = [loop EXCEPT !.snap = @ \ {<<r, status>>}]
  /\ \/ UpdateRun(r, status, "failed")
     \/ runs[r].status # status /\ UNCHANGED registryVars
  /\ NoFault
  /\ UNCHANGED <<mode, inflight, exec, runner, api, stops>>

\* One listed run: skipped when this process executes it, else closed as
\* failed against the status the listing showed; a conflict is skipped.
SweepClose(r, status) ==
  /\ LoopAt("close") /\ <<r, status>> \in loop.snap
  /\ loop' = [loop EXCEPT !.snap = @ \ {<<r, status>>}]
  /\ \/ r \in inflight /\ UNCHANGED registryVars
     \/ r \notin inflight /\ UpdateRun(r, status, "failed")
     \/ /\ r \notin inflight /\ runs[r].status # status
        /\ UNCHANGED registryVars
  /\ NoFault
  /\ UNCHANGED <<mode, inflight, exec, runner, api, stops>>

\* The sweep is over: the loop starts its next iteration.  After Recover the
\* listener, the API and the loop are started.
SweepDone ==
  /\ LoopAt("close") /\ loop.snap = {}
  /\ mode' = "up"
  /\ loop' = [IdleLoop EXCEPT !.pc = "plan"]
  /\ NoFault
  /\ UNCHANGED <<registryVars, inflight, exec, runner, api, stops>>

\* A registry call of the sweep fails: the rest of the listing is left to
\* the next iteration; at startup Serve gives up instead.
SweepFails ==
  /\ LoopRuns /\ loop.pc \in {"sweep", "close"}
  /\ Fault
  /\ \/ UNCHANGED registryVars
     \/ \E r \in RunIDs \ inflight, s \in {"starting", "running"} :
          <<r, s>> \in loop.snap /\ UpdateRun(r, s, "failed")
  /\ IF mode = "recovering"
       THEN Gone
       ELSE /\ loop' = [IdleLoop EXCEPT !.pc = "plan"]
            /\ UNCHANGED <<mode, inflight, exec, api>>
  /\ UNCHANGED <<runner, stops>>

-----------------------------------------------------------------------------
(* The executor of run r: scheduler.execute *)

At(r, p) == mode # "down" /\ exec[r].pc = p

\* runCtx is done: the operator cancelled the run or the drain deadline
\* passed.
Expired      == mode \in {"cancelling", "expired"}
Cancelled(r) == exec[r].cancel \/ Expired

Set(r, e) == exec' = [exec EXCEPT ![r] = e]

\* The executor goes on to record the terminal status s; what it knew of the
\* target and the account no longer matters.
ToFinish(r, s) == [IdleExec EXCEPT !.pc = "finish", !.out = s,
                                   !.recorded = exec[r].recorded]

\* The same, after giving back a claimed generation.
ToRelease(r, s) ==
  IF exec[r].gen = 0 THEN ToFinish(r, s)
                     ELSE [exec[r] EXCEPT !.pc = "release", !.out = s]

ExecutorKeeps == UNCHANGED <<mode, loop, inflight, api, stops>>

\* A target that moved on since its run was requested.
Stale(r) ==
  LET t == targets[runs[r].target]
  IN  t.retired \/ ~t.enabled \/ t.revision # runs[r].revision

\* GetTarget: the re-read that keeps a stale request from being actioned.
LoadTarget(r) ==
  /\ At(r, "target")
  /\ \/ Fault /\ Set(r, ToFinish(r, "failed"))
     \/ Stale(r) /\ Set(r, ToFinish(r, "cancelled")) /\ NoFault
     \/ /\ ~Stale(r) /\ NoFault
        /\ Set(r, [exec[r] EXCEPT !.pc = "policy",
                                  !.policy = targets[runs[r].target].policy])
  /\ ExecutorKeeps /\ UNCHANGED <<registryVars, runner>>

\* GetPolicy: which account the run uses.
LoadPolicy(r) ==
  LET p == policies[exec[r].policy] IN
  /\ At(r, "policy")
  /\ \/ Fault /\ Set(r, ToFinish(r, "failed"))
     \/ ~p.enabled /\ Set(r, ToFinish(r, "cancelled")) /\ NoFault
     \/ /\ p.enabled /\ NoFault
        /\ Set(r, [exec[r] EXCEPT
             !.pc = IF p.acme \in ProvisioningBindings THEN "claim" ELSE "account",
             !.key = AccountOf(p.acme, runs[r].target)])
  /\ ExecutorKeeps /\ UNCHANGED <<registryVars, runner>>

\* ClaimACMEAccountProvisioning.  A payload that does not decode is burnt.
\* When the claim fails the run fails, attached or not.
ClaimProvisioning(r) ==
  LET k == exec[r].key IN
  /\ At(r, "claim")
  /\ \/ /\ \E g \in Gens :
             /\ ClaimACMEAccountProvisioning(k, g, r)
             /\ \/ Set(r, [exec[r] EXCEPT !.pc = "launch", !.gen = g])
                \/ Set(r, [exec[r] EXCEPT !.pc = "settle", !.gen = g,
                                          !.report = "lost", !.out = "failed"])
        /\ NoFault
     \/ /\ \A g \in Gens : ~Unattached(k, g)
        /\ Set(r, [exec[r] EXCEPT !.pc = "account"])
        /\ NoFault /\ UNCHANGED registryVars
     \/ /\ Fault /\ Set(r, ToFinish(r, "failed"))
        /\ \/ UNCHANGED registryVars
           \/ \E g \in Gens : ClaimACMEAccountProvisioning(k, g, r)
  /\ ExecutorKeeps /\ UNCHANGED runner

\* ActiveACMEAccountGeneration: a target-scoped account must exist, a
\* binding without one runs with the legacy state.
LoadAccount(r) ==
  LET k == exec[r].key IN
  /\ At(r, "account")
  /\ \/ Fault /\ Set(r, ToFinish(r, "failed"))
     \/ /\ k[2] \in Targets /\ ~HasActiveGen(k)
        /\ Set(r, ToFinish(r, "failed")) /\ NoFault
     \/ /\ k[2] \notin Targets \/ HasActiveGen(k)
        /\ Set(r, [exec[r] EXCEPT !.pc = "launch"]) /\ NoFault
  /\ ExecutorKeeps /\ UNCHANGED <<registryVars, runner>>

\* The Runner that takes the job of run r.
Taken(r, disowned) == [NoRunner EXCEPT
  !.state = "live", !.gen = exec[r].gen, !.disowned = disowned,
  !.key = IF exec[r].gen = 0 THEN NoAccount ELSE exec[r].key]

\* BuildJobSpec and Validate, the launcher of the execution binding, the
\* cancellation check and Start.  The generation is given back after every
\* failure, also a Start error of a launcher that gave up on a Runner that
\* has the job and works on (awaitClaim, confirm).  The cancellation may also
\* come right after the check: Start then succeeds and Wait is what notices.
Launch(r) ==
  /\ At(r, "launch")
  /\ \/ /\ \/ Set(r, ToRelease(r, "failed"))
           \/ Cancelled(r) /\ Set(r, ToRelease(r, "cancelled"))
        /\ \/ UNCHANGED runner
           \/ ~LauncherReaps /\ runner' = [runner EXCEPT ![r] = Taken(r, TRUE)]
     \/ /\ Set(r, [exec[r] EXCEPT !.pc = "began"])
        /\ runner' = [runner EXCEPT ![r] = Taken(r, FALSE)]
  /\ NoFault
  /\ ExecutorKeeps /\ UNCHANGED registryVars

\* release(): one attempt, its error only logged.
ReleaseClaim(r) ==
  /\ At(r, "release")
  /\ \/ /\ ReleaseACMEAccountProvisioning(exec[r].key, exec[r].gen, r)
        /\ NoFault
     \/ Fault /\ UNCHANGED registryVars
  /\ Set(r, ToFinish(r, exec[r].out))
  /\ ExecutorKeeps /\ UNCHANGED runner

-----------------------------------------------------------------------------
(* scheduler.record: write Want(r) against the status known to be recorded *)

Recording(r) == mode # "down" /\ exec[r].pc \in {"began", "again", "finish"}
Want(r)      == IF exec[r].pc = "finish" THEN exec[r].out ELSE "running"

\* What follows the call of record the executor is in.
Recorded(r, status) ==
  [exec[r] EXCEPT
     !.recorded = status, !.conflict = FALSE, !.rereads = 0,
     !.pc = CASE @ = "began" -> "wait" [] @ = "again" -> "settle"
              [] @ = "finish" -> "exit"]

\* The write is done.
RecordWrite(r) ==
  /\ Recording(r) /\ ~exec[r].conflict
  /\ UpdateRun(r, exec[r].recorded, Want(r))
  /\ Set(r, Recorded(r, Want(r)))
  /\ NoFault
  /\ ExecutorKeeps /\ UNCHANGED runner

\* ErrConflict: the row holds another status than recorded.
RecordConflict(r) ==
  /\ Recording(r) /\ ~exec[r].conflict
  /\ runs[r].status # exec[r].recorded
  /\ Set(r, [exec[r] EXCEPT !.conflict = TRUE])
  /\ NoFault
  /\ ExecutorKeeps /\ UNCHANGED <<registryVars, runner>>

\* An attempt failed: the start is not retried (window 0); the outcome is,
\* until its window has passed or the scheduler is being drained.
AttemptFailed(r) ==
  \/ Set(r, Recorded(r, exec[r].recorded))
  \/ /\ exec[r].pc = "finish" /\ ~Expired
     /\ Set(r, [exec[r] EXCEPT !.conflict = FALSE])

\* The write fails, having committed or not.
RecordFails(r) ==
  /\ Recording(r) /\ ~exec[r].conflict
  /\ Fault
  /\ \/ UNCHANGED registryVars
     \/ UpdateRun(r, exec[r].recorded, Want(r))
  /\ AttemptFailed(r)
  /\ ExecutorKeeps /\ UNCHANGED runner

\* Faulty variant of RecordReread: takes the row's status as the new base
\* without looking whether it is the wanted one.
RecordRereadBlind(r) ==
  /\ Recording(r) /\ exec[r].conflict
  /\ Set(r, [exec[r] EXCEPT !.recorded = runs[r].status, !.conflict = FALSE])
  /\ NoFault
  /\ ExecutorKeeps /\ UNCHANGED <<registryVars, runner>>

\* Faulty variant of RecordReread: counts the re-read but keeps its base.
RecordRereadKeepsBase(r) ==
  /\ Recording(r) /\ exec[r].conflict /\ exec[r].rereads < MaxConflictRereads
  /\ Set(r, [exec[r] EXCEPT !.conflict = FALSE, !.rereads = @ + 1])
  /\ NoFault
  /\ ExecutorKeeps /\ UNCHANGED <<registryVars, runner>>

\* The re-read that resolves a conflict: the wanted status is there already
\* (its audit event too); a terminal one is left alone; another active one
\* becomes the base of the next attempt, at most twice.
RecordReread(r) ==
  LET actual == runs[r].status IN
  /\ Recording(r) /\ exec[r].conflict
  /\ \/ /\ actual = Want(r) \/ actual \in TerminalStatus
        /\ Set(r, Recorded(r, actual)) /\ NoFault
     \/ /\ actual # Want(r) /\ actual \in ActiveStatus
        /\ IF actual # exec[r].recorded /\ exec[r].rereads < MaxConflictRereads
             THEN Set(r, [exec[r] EXCEPT !.recorded = actual, !.conflict = FALSE,
                                         !.rereads = @ + 1])
             ELSE AttemptFailed(r)
        /\ NoFault
     \/ Fault /\ AttemptFailed(r)
  /\ ExecutorKeeps /\ UNCHANGED <<registryVars, runner>>

-----------------------------------------------------------------------------
(* The Runner, its outcome, and the end of the execution *)

\* The Runner opens the payload it was sent and asks the CA to register the
\* account; the registration is durably published, or not.
RunnerTries(r) ==
  /\ runner[r].state = "live" /\ runner[r].gen # 0 /\ ~runner[r].tried
  /\ \E ok \in BOOLEAN :
       runner' = [runner EXCEPT ![r].tried = TRUE, ![r].registered = ok]
  /\ UNCHANGED <<registryVars, processVars, faults, stops>>

RunnerEnds(r) ==
  /\ runner[r].state = "live"
  /\ runner' = [runner EXCEPT ![r].state = "ended"]
  /\ UNCHANGED <<registryVars, processVars, faults, stops>>

\* What the Result of a finished Runner says of the payload it was sent:
\* nothing if it ended before the provisioning step, "failed" from there on,
\* "registered" only when the published state holds the account.
MayReport(r) ==
  {"failed", "other"} \cup (IF runner[r].tried THEN {} ELSE {"none"})
                      \cup (IF runner[r].registered THEN {"registered"} ELSE {})

\* exec.Wait returns: with a Result of the ended Runner, or without one (the
\* launcher's timeout, a cancelled context, no or another run's document).
WaitReturns(r) ==
  /\ At(r, "wait")
  /\ \E out \in TerminalStatus, report \in Reports :
       /\ \/ /\ report \in MayReport(r)
             /\ runner[r].state = "ended" /\ UNCHANGED runner
          \/ /\ report = "lost" /\ out # "succeeded"
             /\ IF LauncherReaps
                  THEN runner' = [runner EXCEPT ![r].state = "ended"]
                  ELSE UNCHANGED runner
       /\ Set(r, [exec[r] EXCEPT !.out = out,
                    !.report = IF exec[r].gen = 0 THEN "none" ELSE report,
                    !.pc = IF exec[r].recorded = "starting"
                             THEN "again" ELSE "settle"])
  /\ NoFault
  /\ ExecutorKeeps /\ UNCHANGED registryVars

\* Faulty variant of FinishProvisioning: an unknown outcome is released.
FinishReleasingLost(r) ==
  LET k == exec[r].key  g == exec[r].gen  rep == exec[r].report IN
  /\ At(r, "settle")
  /\ \/ g = 0 /\ NoFault /\ UNCHANGED registryVars
     \/ /\ g # 0 /\ NoFault
        /\ \/ /\ rep \in {"none", "lost"}
              /\ ReleaseACMEAccountProvisioning(k, g, r)
           \/ /\ rep \notin {"none", "lost"}
              /\ CompleteACMEAccountProvisioning(k, g, r, rep = "registered")
  /\ Set(r, ToFinish(r, exec[r].out))
  /\ ExecutorKeeps /\ UNCHANGED runner

\* Faulty variant of FinishProvisioning: any report activates.
FinishTrustingAnyReport(r) ==
  LET k == exec[r].key  g == exec[r].gen  rep == exec[r].report IN
  /\ At(r, "settle")
  /\ \/ g = 0 /\ NoFault /\ UNCHANGED registryVars
     \/ /\ g # 0 /\ NoFault
        /\ \/ rep = "none" /\ ReleaseACMEAccountProvisioning(k, g, r)
           \/ /\ rep # "none"
              /\ CompleteACMEAccountProvisioning(k, g, r, rep # "lost")
  /\ Set(r, ToFinish(r, exec[r].out))
  /\ ExecutorKeeps /\ UNCHANGED runner

\* finishProvisioning, before the outcome is recorded: one attempt, its error
\* only logged.  A matching "registered" report activates the generation, no
\* report releases it, everything else burns it.
FinishProvisioning(r) ==
  LET k == exec[r].key  g == exec[r].gen  rep == exec[r].report IN
  /\ At(r, "settle")
  /\ \/ g = 0 /\ NoFault /\ UNCHANGED registryVars
     \/ /\ g # 0 /\ NoFault
        /\ \/ rep = "none" /\ ReleaseACMEAccountProvisioning(k, g, r)
           \/ /\ rep # "none"
              /\ CompleteACMEAccountProvisioning(k, g, r, rep = "registered")
     \/ g # 0 /\ Fault /\ UNCHANGED registryVars
  /\ Set(r, ToFinish(r, exec[r].out))
  /\ ExecutorKeeps /\ UNCHANGED runner

\* execute returns and the deferred function drops the in-flight entry.
ExecReturns(r) ==
  /\ At(r, "exit")
  /\ inflight' = inflight \ {r}
  /\ Set(r, IdleExec)
  /\ NoFault
  /\ UNCHANGED <<registryVars, mode, loop, runner, api, stops>>

-----------------------------------------------------------------------------
(* API handlers *)

\* A request accepted before the shutdown may still be at work when it times
\* out, until the process exits.
Serving == mode \notin {"down", "recovering"}
ApiKeeps == UNCHANGED <<mode, loop, inflight, exec, runner, faults, stops>>

\* handleRequestRun reads the target; the run is created afterwards.
ApiRequestRun(t) ==
  /\ Serving /\ api = {}
  /\ targets[t].enabled /\ ~targets[t].retired
  /\ api' = {Seen(t)}
  /\ ApiKeeps /\ UNCHANGED registryVars

\* The first CreateRun that is not refused ends the request.
ApiCreateRun(x) ==
  /\ Serving /\ x \in api
  /\ \/ /\ \E r \in RunIDs : CreateRun(r, x.target, x.revision)
        /\ api' = {}
     \/ /\ RunRefused(x.target) \/ NoFreeRun
        /\ api' = api \ {x}
        /\ UNCHANGED registryVars
  /\ ApiKeeps

\* handleCancelRun, for a queued run: closed against "queued".
ApiCancelQueued(r) ==
  /\ Serving
  /\ UpdateRun(r, "queued", "cancelled")
  /\ UNCHANGED api /\ ApiKeeps

\* handleCancelRun, for a run in flight: Scheduler.Cancel.  The status it read
\* before may be stale; the in-flight map decides.  An executor that has an
\* outcome to record no longer looks at its context.
ApiCancelInFlight(r) ==
  /\ Serving
  /\ r \in inflight /\ ~exec[r].cancel /\ exec[r].pc \notin {"finish", "exit"}
  /\ exec' = [exec EXCEPT ![r].cancel = TRUE]
  /\ UNCHANGED <<registryVars, mode, loop, inflight, runner, api, faults, stops>>

ApiUpdateTarget(t) ==
  /\ Serving
  /\ \E on \in BOOLEAN, p \in Policies : UpdateTarget(t, on, p)
  /\ UNCHANGED api /\ ApiKeeps

ApiRetireTarget(t) ==
  /\ Serving
  /\ RetireTarget(t)
  /\ UNCHANGED api /\ ApiKeeps

ApiUpdatePolicy(p) ==
  /\ Serving
  /\ \E on \in BOOLEAN, b \in Bindings : UpdatePolicy(p, on, b)
  /\ UNCHANGED api /\ ApiKeeps

\* provisioningCandidates: the enabled targets that would carry a request
\* for account k.
CandidatesFor(k) ==
  {t \in Targets :
     /\ targets[t].enabled /\ ~targets[t].retired
     /\ policies[targets[t].policy].enabled
     /\ AccountOf(policies[targets[t].policy].acme, t) = k}

\* requestProvisioning: the pending generation, then (ApiCreateRun) a run of
\* one candidate that has none active.  A target-scoped account is
\* requested for a target whose policy uses the binding.
ApiRequestProvisioning(k) ==
  /\ Serving /\ api = {}
  /\ k[1] \in ProvisioningBindings
  /\ k[2] \in Targets => policies[targets[k[2]].policy].acme = k[1]
  /\ \E g \in Gens : RequestACMEAccountProvisioning(k, g)
  /\ api' = {Seen(t) : t \in CandidatesFor(k)}
  /\ ApiKeeps

ApiCancelProvisioning(k) ==
  /\ Serving
  /\ \E g \in Gens : CancelACMEAccountProvisioning(k, g)
  /\ UNCHANGED api /\ ApiKeeps

-----------------------------------------------------------------------------
(* The specification *)

Process == StartProcess \/ Crash \/ Stop \/ StopLoop \/ DrainDeadline
             \/ DrainDone \/ ExitProcess

Loop ==
  \/ PlanList \/ PlanBindings \/ PlanDone \/ PlanFails
  \/ \E x \in loop.todo : PlanTarget(x)
  \/ \E x \in loop.pick : PlanCreate(x)
  \/ \E b \in Bindings : PlanBinding(b)
  \/ DispatchRegister \/ DispatchDone \/ DispatchFails
  \/ \E r \in RunIDs : DispatchClaim(r)
  \/ SweepList \/ SweepDone \/ SweepFails
  \/ \E r \in RunIDs, s \in {"starting", "running"} : SweepClose(r, s)

Execute(r) ==
  \/ LoadTarget(r) \/ LoadPolicy(r) \/ ClaimProvisioning(r) \/ LoadAccount(r)
  \/ Launch(r) \/ ReleaseClaim(r)
  \/ RecordWrite(r) \/ RecordConflict(r) \/ RecordFails(r) \/ RecordReread(r)
  \/ WaitReturns(r) \/ FinishProvisioning(r) \/ ExecReturns(r)

Runner(r) == RunnerTries(r) \/ RunnerEnds(r)

API ==
  \/ \E t \in Targets : ApiRequestRun(t) \/ ApiUpdateTarget(t) \/ ApiRetireTarget(t)
  \/ \E x \in api : ApiCreateRun(x)
  \/ \E r \in RunIDs : ApiCancelQueued(r) \/ ApiCancelInFlight(r)
  \/ \E p \in Policies : ApiUpdatePolicy(p)
  \/ \E k \in Accounts : ApiRequestProvisioning(k) \/ ApiCancelProvisioning(k)

Next == Process \/ Loop \/ API \/ \E r \in RunIDs : Execute(r) \/ Runner(r)

Spec == Init /\ [][Next]_vars

\* Fairness.  The loop never blocks but for its tick; an executor is bounded
\* by the launcher's timeout and the recording window; a stopped process is
\* drained, exits and is started again.  Nothing is promised of API requests,
\* faults, crashes or stops.
Fairness ==
  /\ WF_vars(Loop)
  /\ \A r \in RunIDs : WF_vars(Execute(r)) /\ WF_vars(Runner(r))
  /\ WF_vars(StartProcess)
  /\ WF_vars(StopLoop \/ DrainDone \/ ExitProcess)

FairSpec == Spec /\ Fairness

-----------------------------------------------------------------------------
(* Properties of the run lifecycle *)

\* At most one queued, starting or running run per target, whoever asks for
\* it: the loop, a handler, or both with rows they read earlier
\* (runs_one_active_per_target).
OneActiveRun ==
  \A q, r \in RunIDs :
    Active(q) /\ Active(r) /\ runs[q].target = runs[r].target => q = r

\* A run with an executor is closed by nobody else: not by the sweep, though
\* it works from an earlier listing, nor by a handler.  The only terminal
\* status an executor can meet is the one it has itself committed by a write
\* that reported an error.  A run just claimed is not taken for a stranded one.
ExecutorOwnsRun ==
  /\ \A r \in inflight :
       \/ runs[r].status \in {"starting", "running"}
       \/ exec[r].pc \in {"finish", "exit"} /\ runs[r].status = exec[r].out
  /\ loop.pc = "register" => /\ runs[loop.run].status = "starting"
                             /\ loop.run \notin inflight

\* The audit trail carries exactly one closing event per ended run and at most
\* one run.started, however often a write failed after committing and was
\* tried again (scheduler.record).
AuditExact ==
  \A r \in RunIDs :
    /\ audit[r].closed = IF runs[r].status \in TerminalStatus THEN 1 ELSE 0
    /\ audit[r].started <= 1
    /\ runs[r].status = "running" => audit[r].started = 1
    /\ audit[r].started = 1 => runs[r].status \in {"running"} \cup TerminalStatus

\* "One re-read converges" (scheduler.record): no call of record re-reads
\* twice, so the bound maxConflictRereads never decides anything.
RereadConverges == \A r \in RunIDs : exec[r].rereads <= 1

\* A retired target is out of service for good: it has no active run and no
\* pending request for an account of its own, though a request may be decided
\* while the retirement commits.
RetiredIsQuiet ==
  \A t \in Targets : targets[t].retired =>
    /\ ~HasActiveRun(t)
    /\ \A k \in Accounts, g \in Gens : k[2] = t => ~Pending(k, g)

\* An outcome once committed is never rewritten, by the executor's retries, a
\* late sweep, Recover or a cancellation, and gains no further audit event.
OutcomeIsFinal ==
  [][\A r \in RunIDs : runs[r].status \in TerminalStatus =>
       runs'[r] = runs[r] /\ audit'[r] = audit[r]]_vars

\* No two Runners work for one target at the same time.
OneRunnerPerTarget ==
  \A q, r \in RunIDs :
    /\ runner[q].state = "live" /\ runner[r].state = "live"
    /\ runs[q].target = runs[r].target
    => q = r

\* Every run ends: the exclusion slot of a target is always freed, whatever
\* write failed and whenever the process stopped (sweep, Recover).
EveryRunEnds == \A r \in RunIDs : Active(r) ~> ~Active(r)

\* The rows of runs, seen through their status and target.
Abstract == INSTANCE RunLifecycle WITH
  Runs   <- RunIDs,
  status <- [r \in RunIDs |-> runs[r].status],
  owner  <- [r \in RunIDs |-> runs[r].target]

\* Whatever the loop, the handlers, the executors, the sweep and a restarted
\* process do to the runs table is a step of the abstract lifecycle.
ImplementsRunLifecycle == Abstract!Spec

-----------------------------------------------------------------------------
(* Properties of the account generations *)

\* An account in use stays in use: once it has an active generation it always
\* has exactly one, and a failed provisioning never takes it away
\* (CompleteACMEAccountProvisioning).
ActiveNeverLost ==
  [][\A k \in Accounts : HasActiveGen(k) =>
       \E g \in Gens : /\ accounts'[k][g].status = "active"
                       /\ \A h \in Gens : accounts[k][h].status = "active" => h <= g
                       /\ \A h \in Gens : accounts'[k][h].status = "active" => h = g]_vars

\* The generation an executor carries stays attached to its run until the
\* executor has resolved it: no other run claims it, no operator withdraws it
\* and no retirement cancels it meanwhile.
PayloadHeld ==
  \A r \in inflight : exec[r].gen # 0 => Attached(exec[r].key, exec[r].gen, r)

\* A generation is only ever active because a Runner durably registered that
\* very account generation at the CA.
ActiveIsRegistered ==
  \A k \in Accounts, g \in Gens :
    accounts[k][g].status \in {"active", "retired"} =>
      \E r \in RunIDs : runner[r].key = k /\ runner[r].gen = g /\ runner[r].registered

\* A sealed payload is opened by at most one of the Runners whose start was
\* reported: once one of them may have tried it, the generation is never
\* released for another run, whatever report was lost.  A Runner disowned by a
\* Start error is the exception the code makes (execute calls release()): it
\* may open the payload that a later run carries too.
PayloadSpentOnce ==
  \A q, r \in {r \in RunIDs : runner[r].tried /\ ~runner[r].disowned} :
    runner[q].key = runner[r].key /\ runner[q].gen = runner[r].gen => q = r

\* A generation attached to a run that has ended does not stay so.
AttachmentResolved ==
  \A k \in Accounts, g \in Gens, r \in RunIDs :
    (Attached(k, g, r) /\ ~Active(r)) ~> ~Attached(k, g, r)
=============================================================================
