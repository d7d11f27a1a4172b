---------------------------- MODULE RunnerProofs ----------------------------
(***************************************************************************)
(* Theorems about Runner and LocalProcess, for any number of Runners, runs *)
(* and accounts, for the Runner processes alone (Spec) and under the local *)
(* launcher (LocalSpec).                                                   *)
(***************************************************************************)
EXTENDS LocalProcess, TLAPS

-----------------------------------------------------------------------------
(* Rows *)

\* A Runner's own state: every process but an idle one has a run.
RowsOK ==
  /\ proc \in [Runners -> ProcRow]
  /\ \A r \in Runners : proc[r].pc # "idle" => proc[r].run \in Runs

-----------------------------------------------------------------------------
(* Invariants *)

\* The steps under the ledger's lock.
Locking == {"prune", "mark", "write", "sync"}
LockHeld == \A r \in Runners : proc[r].pc \in Locking => ledgerLock = r

\* A Runner whose work on its run would count, from the marker on.
Admitted(r) == proc[r].pc \in {"sync", "authorize", "current", "prepare",
                               "deadline", "record", "load"} /\ proc[r].prompt
Admitting(r) == Admitted(r) \/ (proc[r].pc = "write" /\ proc[r].prompt)

\* The run's marker is there with the envelope's expiry, or no envelope of the run can
\* pass the ledger within the skew any more.
Barred(run) ==
  \/ marker[run].there /\ marker[run].written /\ marker[run].age = Expiry[run]
  \/ now > Expiry[run] + Skew

\* The envelope was verified before it expired, and before now.
InTime ==
  \A r \in Runners : proc[r].pc \in {"lock", "prune", "mark"} =>
    proc[r].verified <= now /\ proc[r].verified <= Expiry[proc[r].run]

\* Between creating and writing a marker it is there without an expiry.
Marking ==
  \A r \in Runners : proc[r].pc = "write" =>
    marker[proc[r].run].there /\ ~marker[proc[r].run].written

\* Of the Runners of a run at most one is admitted in time, then lego is started once.
Admission ==
  /\ \A r \in Runners : Admitting(r) => worked[proc[r].run] = 0
  /\ \A r \in Runners : Admitted(r) => Barred(proc[r].run)
  /\ \A r, q \in Runners : Admitting(r) /\ Admitting(q) /\ r # q => proc[r].run # proc[q].run
  /\ \A run \in Runs : worked[run] = 0 \/ (worked[run] = 1 /\ Barred(run))

\* From creating its directory on a Runner has one that is not yet past its deadline,
\* unless it was swept before it had the deadline file, or by a Runner that could not
\* read the deadline; and it has none before and after.
InDir == {"deadline", "record"} \cup Working
DirHolds(r) ==
  LET d == dirs[r]
      run == proc[r].run
  IN /\ proc[r].pc = "deadline" => d = NoDir \/ d.is = "new"
     /\ proc[r].pc = "record" => d.is \in {"empty", "gone"}
     /\ proc[r].pc \in Working => d.is \in {"dated", "gone"} /\ d.after = d.made + StaleAfter[run]
     /\ proc[r].pc \in InDir => d = NoDir \/ now <= d.made + MaxRunTime[run]
     /\ proc[r].pc \notin InDir \cup {"finish", "killed"} => d = NoDir
WorkDirs == \A r \in Runners : DirHolds(r)

\* The account lego works with belongs to the account of the run.
EABOf(a) == IF a = Legacy THEN BindingEAB ELSE a
WorkAccount ==
  \A r \in Runners :
    LET p == proc[r]
    IN p.pc \in {"lego", "persist"} =>
         /\ Registered(p.work) => p.work.eab = EABOf(Root(p.run))
         /\ Provisioning(p.run) => Payload[p.run].account = Root(p.run)
         /\ ~Provisioning(p.run) /\ Root(p.run) # Legacy =>
              Registered(p.work) \/ (p.pc = "persist" /\ p.work = NoAccount)

\* What was registered or reported is published.
Reported ==
  \A r \in Runners :
    LET p == proc[r]
    IN /\ p.pc = "confirm" => Provisioning(p.run) /\ Registered(account[Root(p.run)])
       /\ p.ap # "none" => Provisioning(p.run)
       /\ p.ap = "registered" => Registered(account[Root(p.run)])
       /\ p.pc \in {"outcome", "put"} /\ Root(p.run) # Legacy /\ Registered(p.work) /\ faults = 0
            => Registered(account[Root(p.run)])

RunnerInv ==
  /\ TypeOK /\ RowsOK /\ LockHeld /\ InTime /\ Marking /\ Admission /\ WorkDirs
  /\ WorkAccount /\ Reported /\ RegisteredForItself

\* The launcher's executions: one that has not returned holds its run's directory.
Holds(r) == exec[r].is \in {"running", "lost"}
Held ==
  \A r \in Runners : Holds(r) =>
    /\ exec[r].run \in runDirs
    /\ \A q \in Runners \ {r} : Holds(q) => exec[r].run # exec[q].run

\* An execution that has returned has told what its Runner delivered.
ExecHolds(r) ==
  /\ exec[r].is # "none" => proc[r].pc # "idle" /\ exec[r].run = proc[r].run
  /\ exec[r].is = "returned" => Ended(r) /\ (Accepted(proc[r]) => Told(r))
  /\ proc[r].exit0 => proc[r].pc = "done" /\ proc[r].result # "failed"

Executions ==
  /\ exec \in [Runners -> ExecRow] /\ runDirs \subseteq Runs
  /\ Held /\ \A r \in Runners : ExecHolds(r)

-----------------------------------------------------------------------------
(* Steps of the host: the Runner's, whoever counts the signals. *)

HostStep ==
  \/ \E r \in Runners, run \in Runs : Begin(r, run)
  \/ \E r \in Runners : Step(r) \/ Terminate(r) \/ Die(r) \/ Replace(r)
  \/ Tick
  \/ HostStays

StopsStep == UNCHANGED stops \/ Stops

LEMMA HostTakes ==
  ASSUME [Next]_vars
  PROVE  HostStep /\ StopsStep
<1>1. ASSUME NEW r \in Runners, Step(r)
      PROVE  UNCHANGED stops
  BY <1>1 DEF Step, Acquire, LockLedger, PruneLedger, CreateMarker, WriteMarker, SyncLedger,
       Authorize, Current, Prepare, CreateDeadline, WriteDeadline, Load, LegoEnds, Persist,
       Confirm, Outcome, Put, Finish
<1>2. ASSUME NEW r \in Runners, Terminate(r) \/ Kill(r) \/ Replace(r)
      PROVE  StopsStep
  BY <1>2 DEF Terminate, Kill, Replace, StopsStep
<1>3. ASSUME NEW r \in Runners, Kill(r)
      PROVE  Die(r)
  BY <1>3 DEF Kill
<1>4. ASSUME NEW r \in Runners, NEW run \in Runs, Begin(r, run)
      PROVE  UNCHANGED stops
  BY <1>4 DEF Begin
<1>5. CASE Tick
  BY <1>5 DEF Tick, HostStep, StopsStep
<1>6. CASE UNCHANGED vars
  BY <1>6 DEF vars, HostStep, StopsStep, HostStays, LedgerStays, FilesStay
<1> QED
  BY <1>1, <1>2, <1>3, <1>4, <1>5, <1>6 DEF Next, HostStep, StopsStep

LEMMA LauncherTakes ==
  ASSUME [LocalNext]_localVars
  PROVE  HostStep /\ StopsStep
<1>1. ASSUME NEW r \in Runners, NEW run \in Runs, Start(r, run) \/ StartByHand(r, run)
      PROVE  [Next]_vars
  BY <1>1 DEF Start, StartByHand, Next
<1>2. ASSUME NEW r \in Runners, EndContext(r)
      PROVE  [Next]_vars \/ (HostStays /\ Stops)
  BY <1>2 DEF EndContext, Next
<1>3. ASSUME NEW r \in Runners, KillAfterGrace(r)
      PROVE  Die(r) /\ UNCHANGED stops
  BY <1>3 DEF KillAfterGrace
<1>4. ASSUME NEW r \in Runners, Wait(r) \/ Forget(r) \/ OnItsOwn(r)
      PROVE  [Next]_vars
  BY <1>4 DEF Wait, Return, Forget, OnItsOwn, Next
<1>5. CASE ConductorDies
  BY <1>5 DEF ConductorDies, HostStep, StopsStep
<1>6. CASE Tick /\ UNCHANGED <<exec, runDirs>>
  BY <1>6, HostTakes DEF Next
<1>7. CASE UNCHANGED localVars
  BY <1>7, HostTakes DEF localVars
<1> QED
  BY <1>1, <1>2, <1>3, <1>4, <1>5, <1>6, <1>7, HostTakes DEF LocalNext, HostStep, StopsStep

-----------------------------------------------------------------------------
(* Types *)

LEMMA SetType ==
  ASSUME RowsOK, NEW r \in Runners, NEW p \in ProcRow, p.pc # "idle" => p.run \in Runs, Set(r, p)
  PROVE  RowsOK'
BY DEF RowsOK, Set

\* Every kind of step that a Runner's row takes.
LEMMA GoType ==
  ASSUME RowsOK, NEW r \in Runners, proc[r].pc # "idle", NEW a \in PCs, Go(r, a)
  PROVE  RowsOK'
<1>1. proc[r] \in ProcRow /\ proc[r].run \in Runs
  BY DEF RowsOK
<1>2. /\ [proc[r] EXCEPT !.pc = a] \in ProcRow
      /\ [proc[r] EXCEPT !.pc = a].run \in Runs
  BY <1>1 DEF ProcRow
<1> QED
  BY <1>2, SetType DEF Go

LEMMA EndType ==
  ASSUME RowsOK, NEW r \in Runners, NEW p \in ProcRow, p.run \in Runs,
         NEW o \in Outcomes, End(r, p, o)
  PROVE  RowsOK'
<1>1. NoAccount \in AccountRow /\ "finish" \in PCs
  BY RunnerAssumptions DEF NoAccount, AccountRow, PCs
<1>2. /\ [p EXCEPT !.pc = "finish", !.result = o, !.verified = 0, !.prompt = TRUE,
                   !.work = NoAccount, !.found = FALSE, !.lego = FALSE] \in ProcRow
      /\ [p EXCEPT !.pc = "finish", !.result = o, !.verified = 0, !.prompt = TRUE,
                   !.work = NoAccount, !.found = FALSE, !.lego = FALSE].run \in Runs
  BY <1>1 DEF ProcRow
<1> QED
  BY <1>2, SetType DEF End

LEMMA FailType ==
  ASSUME RowsOK, NEW r \in Runners, proc[r].pc # "idle", Fail(r)
  PROVE  RowsOK'
<1>1. proc[r] \in ProcRow /\ proc[r].run \in Runs /\ "failed" \in Outcomes
  BY DEF RowsOK, Outcomes
<1> QED
  BY <1>1, EndType DEF Fail

LEMMA WaitingType ==
  Waiting \in ProcRow
BY RunnerAssumptions DEF Waiting, ProcRow, PCs, NoAccount, AccountRow, Outcomes

LEMMA GoRow ==
  ASSUME NEW p \in ProcRow, p.run \in Runs, NEW a \in PCs
  PROVE  [p EXCEPT !.pc = a] \in ProcRow /\ [p EXCEPT !.pc = a].run \in Runs
BY DEF ProcRow

LEMMA RegistrationType ==
  ASSUME NEW run \in Runs, Provisioning(run) => Payload[run].account = Root(run)
  PROVE  Registration(LegoEAB(run)) \in AccountRow
<1>1. Root(run) \in Generations \cup {Legacy} /\ (Provisioning(run) => Root(run) \in Generations)
  BY RunnerAssumptions DEF Root, Provisioning
<1>2. LegoEAB(run) \in Generations \cup {None, BindingEAB}
  BY <1>1 DEF LegoEAB
<1> QED
  BY <1>2 DEF Registration, AccountRow

\* The rows of Runners keep their type.
LEMMA RowsStep ==
  ASSUME TypeOK, RowsOK, WorkAccount, HostStep
  PROVE  RowsOK'
<1> USE DEF PCs, Working, Outcomes, At
<1>1. ASSUME NEW r \in Runners, NEW run \in Runs, Begin(r, run)
      PROVE  RowsOK'
  <2>1. /\ [Waiting EXCEPT !.pc = "acquire", !.run = run] \in ProcRow
        /\ [Waiting EXCEPT !.pc = "acquire", !.run = run].run \in Runs
    BY WaitingType DEF ProcRow
  <2> QED
    BY <1>1, <2>1, SetType DEF Begin
<1>2. ASSUME NEW r \in Runners, Step(r) \/ Terminate(r) \/ Die(r)
      PROVE  RowsOK'
  <2>0. proc[r].pc # "idle"
    BY <1>2 DEF Step, Acquire, LockLedger, PruneLedger, CreateMarker, WriteMarker, SyncLedger,
         Authorize, Current, Prepare, CreateDeadline, WriteDeadline, Load, LegoEnds, Persist,
       Confirm, Outcome, Put, Finish,
         Terminate, Die, Ended
  <2>1. proc[r] \in ProcRow /\ proc[r].run \in Runs /\ now \in Nat
    BY <2>0, RunnerAssumptions DEF RowsOK, TypeOK
  <2>2. CASE Acquire(r)
    <3>1. CASE LoadConfig(r)
      BY <2>0, <3>1, FailType, GoType DEF LoadConfig
    <3>2. CASE Verify(r)
      <4> DEFINE p == [proc[r] EXCEPT !.signs = TRUE]
      <4>1. p \in ProcRow /\ p.run \in Runs
        BY <2>1 DEF ProcRow
      <4>2. [p EXCEPT !.pc = "lock", !.verified = now] \in ProcRow
            /\ [p EXCEPT !.pc = "lock", !.verified = now].run \in Runs
        BY <2>1, <4>1 DEF ProcRow
      <4> QED
        BY <3>2, <4>1, <4>2, SetType, EndType DEF Verify
    <3> QED
      BY <2>2, <3>1, <3>2 DEF Acquire
  <2>3. CASE LockLedger(r) \/ PruneLedger(r) \/ WriteMarker(r) \/ SyncLedger(r)
    BY <2>0, <2>3, GoType, FailType DEF LockLedger, PruneLedger, WriteMarker, SyncLedger
  <2>4. CASE CreateMarker(r)
    <3> DEFINE p == [proc[r] EXCEPT !.pc = "write", !.verified = 0,
                                    !.prompt = now <= proc[r].verified + Skew]
    <3>1. p \in ProcRow /\ p.run \in Runs
      <4>1. ASSUME NEW b \in BOOLEAN
            PROVE  /\ [proc[r] EXCEPT !.pc = "write", !.verified = 0, !.prompt = b] \in ProcRow
                   /\ [proc[r] EXCEPT !.pc = "write", !.verified = 0, !.prompt = b].run \in Runs
        BY <2>1 DEF ProcRow
      <4>2. (now <= proc[r].verified + Skew) \in BOOLEAN
        OBVIOUS
      <4> QED
        BY <4>1, <4>2, Zenon
    <3>2. Set(r, p) \/ Fail(r)
      BY <2>4 DEF CreateMarker
    <3> QED
      BY <2>0, <3>1, <3>2, SetType, FailType
  <2>5. CASE Authorize(r)
    <3> DEFINE p == [proc[r] EXCEPT !.ap = IF Provisioning(proc[r].run) THEN "failed" ELSE "none"]
    <3>1. p \in ProcRow /\ p.run \in Runs
      BY <2>1 DEF ProcRow
    <3>2. [p EXCEPT !.pc = "current"] \in ProcRow /\ [p EXCEPT !.pc = "current"].run \in Runs
      <4> HIDE DEF p
      <4> QED
        BY <3>1, GoRow
    <3> QED
      BY <2>0, <2>5, <3>1, <3>2, SetType, EndType, FailType DEF Authorize
  <2>6. CASE Current(r)
    <3>1. ASSUME NEW b \in BOOLEAN
          PROVE  /\ [proc[r] EXCEPT !.pc = "prepare", !.found = b] \in ProcRow
                 /\ [proc[r] EXCEPT !.pc = "prepare", !.found = b].run \in Runs
      BY <2>1 DEF ProcRow
    <3> QED
      BY <2>0, <2>1, <2>6, <3>1, SetType, EndType, FailType DEF Current
  <2>7. CASE Prepare(r) \/ CreateDeadline(r) \/ WriteDeadline(r) \/ Outcome(r)
    BY <2>0, <2>7, GoType, FailType DEF Prepare, PrepareWorkDir, CreateDeadline, WriteDeadline, Outcome
  <2>15. CASE Persist(r)
    <3>1. /\ [proc[r] EXCEPT !.pc = "outcome", !.work = NoAccount] \in ProcRow
          /\ [proc[r] EXCEPT !.pc = "outcome", !.work = NoAccount].run \in Runs
      BY <2>1 DEF ProcRow, NoAccount, AccountRow
    <3> QED
      BY <2>0, <2>15, <3>1, GoType, SetType DEF Persist
  <2>8. CASE Load(r)
    <3>1. account[Root(proc[r].run)] \in AccountRow
      BY <2>1, RunnerAssumptions DEF TypeOK, AccountRow, Root
    <3>2. /\ [proc[r] EXCEPT !.pc = "lego", !.work = account[Root(proc[r].run)]] \in ProcRow
          /\ [proc[r] EXCEPT !.pc = "lego", !.work = account[Root(proc[r].run)]].run \in Runs
      BY <2>1, <3>1 DEF ProcRow
    <3> QED
      BY <2>0, <2>8, <3>2, SetType, FailType DEF Load, StartLego
  <2>9. CASE LegoEnds(r)
    <3>1. Registration(LegoEAB(proc[r].run)) \in AccountRow
      BY <2>1, <2>9, RegistrationType DEF LegoEnds, WorkAccount
    <3>2. proc[r].work \in AccountRow /\ AccountKey \in AccountRow /\ NoAccount \in AccountRow
      BY <2>1 DEF ProcRow, AccountKey, NoAccount, AccountRow
    <3>3. ASSUME NEW b \in BOOLEAN, NEW a \in AccountRow
          PROVE  /\ [proc[r] EXCEPT !.pc = "persist", !.lego = b, !.work = a] \in ProcRow
                 /\ [proc[r] EXCEPT !.pc = "persist", !.lego = b, !.work = a].run \in Runs
      BY <2>1 DEF ProcRow
    <3> QED
      BY <2>9, <3>1, <3>2, <3>3, SetType DEF LegoEnds
  <2>10. CASE Confirm(r)
    <3>1. ASSUME NEW a \in {"registered", "failed"}
          PROVE  /\ [proc[r] EXCEPT !.pc = "outcome", !.ap = a] \in ProcRow
                 /\ [proc[r] EXCEPT !.pc = "outcome", !.ap = a].run \in Runs
      BY <2>1 DEF ProcRow
    <3> QED
      BY <2>0, <2>10, <3>1, SetType, GoType DEF Confirm
  <2>11. CASE Put(r)
    BY <2>0, <2>1, <2>11, EndType, FailType DEF Put
  <2>12. CASE Finish(r)
    <3> DEFINE p == [proc[r] EXCEPT !.pc = "done"]
    <3>1. p \in ProcRow /\ p.run \in Runs
      BY <2>1 DEF ProcRow
    <3>2. PICK b \in BOOLEAN :
            Set(r, [p EXCEPT !.exit0 = b]) \/ Set(r, [p EXCEPT !.result = "none", !.exit0 = b])
      BY <2>12 DEF Finish
    <3> HIDE DEF p
    <3>3. /\ [p EXCEPT !.exit0 = b] \in ProcRow /\ [p EXCEPT !.exit0 = b].run \in Runs
          /\ [p EXCEPT !.result = "none", !.exit0 = b] \in ProcRow
          /\ [p EXCEPT !.result = "none", !.exit0 = b].run \in Runs
      BY <3>1 DEF ProcRow
    <3> QED
      BY <3>2, <3>3, SetType
  <2>13. CASE Terminate(r)
    <3>1. /\ [proc[r] EXCEPT !.term = TRUE] \in ProcRow
          /\ [proc[r] EXCEPT !.term = TRUE].run \in Runs
      BY <2>1 DEF ProcRow
    <3> QED
      BY <2>13, <3>1, SetType DEF Terminate
  <2>14. CASE Die(r)
    <3>1. /\ [Waiting EXCEPT !.pc = "killed", !.run = proc[r].run] \in ProcRow
          /\ [Waiting EXCEPT !.pc = "killed", !.run = proc[r].run].run \in Runs
      BY <2>1, WaitingType DEF ProcRow
    <3> QED
      BY <2>14, <3>1, SetType DEF Die
  <2> QED
    BY <1>2, <2>2, <2>3, <2>4, <2>5, <2>6, <2>7, <2>8, <2>9, <2>10, <2>11, <2>12, <2>13, <2>14,
       <2>15 DEF Step
<1>3. ASSUME NEW r \in Runners, Replace(r)
      PROVE  RowsOK'
  BY <1>3, WaitingType, SetType DEF Replace, Waiting
<1>4. CASE Tick \/ HostStays
  BY <1>4 DEF Tick, HostStays, RowsOK
<1> QED
  BY <1>1, <1>2, <1>3, <1>4 DEF HostStep

-----------------------------------------------------------------------------
(* What each action does, field by field: the other rows stay, and its own row keeps *)
(* its run and what it reports, the exit status too, unless the action says otherwise. *)

Others(r) == \A q \in Runners : q # r => proc'[q] = proc[q]
Keeps(r) ==
  /\ Others(r) /\ proc'[r].run = proc[r].run /\ proc'[r].ap = proc[r].ap
  /\ proc'[r].exit0 = proc[r].exit0
Moves(r, a) ==
  /\ Keeps(r) /\ proc'[r].pc = a
  /\ proc'[r].verified = proc[r].verified /\ proc'[r].prompt = proc[r].prompt
  /\ proc'[r].work = proc[r].work
Ends(r) == Keeps(r) /\ proc'[r].pc = "finish"
Host == <<now, marker, ledgerLock, account, stored, dirs, left, worked, begun>>

LEMMA SetEffect ==
  ASSUME RowsOK, NEW r \in Runners, NEW p, Set(r, p)
  PROVE  proc'[r] = p /\ Others(r)
BY DEF RowsOK, Set, Others

LEMMA GoEffect ==
  ASSUME RowsOK, NEW r \in Runners, NEW a, Go(r, a)
  PROVE  Moves(r, a)
<1>1. proc[r] \in ProcRow
  BY DEF RowsOK
<1>2. proc'[r] = [proc[r] EXCEPT !.pc = a] /\ Others(r)
  BY SetEffect DEF Go
<1> QED
  BY <1>1, <1>2 DEF Moves, Keeps, ProcRow

LEMMA EndEffect ==
  ASSUME RowsOK, NEW r \in Runners, NEW p \in ProcRow, NEW o, End(r, p, o)
  PROVE  Others(r) /\ proc'[r].pc = "finish" /\ proc'[r].run = p.run /\ proc'[r].ap = p.ap
         /\ proc'[r].exit0 = p.exit0
<1>1. /\ Others(r)
      /\ proc'[r] = [p EXCEPT !.pc = "finish", !.result = o, !.verified = 0, !.prompt = TRUE,
                              !.work = NoAccount, !.found = FALSE, !.lego = FALSE]
  BY SetEffect DEF End
<1> QED
  BY <1>1 DEF ProcRow

LEMMA FailEffect ==
  ASSUME RowsOK, NEW r \in Runners, Fail(r)
  PROVE  Ends(r)
<1>1. proc[r] \in ProcRow
  BY DEF RowsOK
<1> QED
  BY <1>1, EndEffect DEF Fail, Ends, Keeps

LEMMA BeginEffect ==
  ASSUME RowsOK, NEW r \in Runners, NEW run \in Runs, Begin(r, run)
  PROVE  /\ proc[r].pc = "idle" /\ Others(r)
         /\ proc'[r].pc = "acquire" /\ proc'[r].run = run /\ proc'[r].ap = "none" /\ ~proc'[r].exit0
         /\ begun' = [begun EXCEPT ![run] = @ + 1]
         /\ UNCHANGED <<now, marker, ledgerLock, account, stored, dirs, left, worked, faults>>
<1>1. /\ proc[r].pc = "idle" /\ Set(r, [Waiting EXCEPT !.pc = "acquire", !.run = run])
      /\ begun' = [begun EXCEPT ![run] = @ + 1]
      /\ Works /\ LedgerStays /\ UNCHANGED <<now, account, stored, dirs, left, worked>>
  BY Zenon DEF Begin, At
<1>2. proc'[r] = [Waiting EXCEPT !.pc = "acquire", !.run = run] /\ Others(r)
  BY <1>1, SetEffect
<1>3. proc'[r].pc = "acquire" /\ proc'[r].run = run /\ proc'[r].ap = "none" /\ ~proc'[r].exit0
  BY <1>2 DEF Waiting
<1> QED
  BY <1>1, <1>2, <1>3 DEF Works, LedgerStays

LEMMA AcquireEffect ==
  ASSUME RowsOK, NEW r \in Runners, Acquire(r)
  PROVE  /\ proc[r].pc = "acquire" /\ Keeps(r)
         /\ \/ proc'[r].pc \in {"finish", "done"}
            \/ /\ proc'[r].pc = "lock" /\ proc'[r].verified = now
               /\ now <= Expiry[proc[r].run]
         /\ UNCHANGED Host /\ (Fails \/ Works)
<1>1. proc[r] \in ProcRow
  BY DEF RowsOK
<1>2. proc[r].pc = "acquire" /\ UNCHANGED Host /\ (Fails \/ Works)
  BY DEF Acquire, LoadConfig, Verify, At, LedgerStays, FilesStay, Host
<1>3. CASE LoadConfig(r)
  BY <1>2, <1>3, FailEffect, GoEffect DEF LoadConfig, Ends, Moves, Keeps
<1>4. CASE Verify(r)
  <2> DEFINE p == [proc[r] EXCEPT !.signs = TRUE]
  <2>1. p \in ProcRow /\ p.run = proc[r].run /\ p.ap = proc[r].ap /\ p.exit0 = proc[r].exit0
    BY <1>1 DEF ProcRow
  <2>2. CASE Verifies(p.run, now)
    <3>1. Set(r, [p EXCEPT !.pc = "lock", !.verified = now])
      BY <1>4, <2>2 DEF Verify
    <3>2. proc'[r] = [p EXCEPT !.pc = "lock", !.verified = now] /\ Others(r)
      BY <3>1, SetEffect
    <3>3. proc'[r].pc = "lock" /\ proc'[r].verified = now /\ Keeps(r)
      BY <1>1, <3>2 DEF ProcRow, Keeps
    <3> QED
      BY <1>2, <2>1, <2>2, <3>3 DEF Verifies
  <2>3. CASE ~Verifies(p.run, now)
    <3>1. End(r, p, "failed")
      BY <1>4, <2>3 DEF Verify
    <3> HIDE DEF p
    <3> QED
      BY <1>2, <2>1, <3>1, EndEffect DEF Keeps
  <2> QED
    BY <2>2, <2>3
<1> QED
  BY <1>3, <1>4 DEF Acquire

LEMMA LockLedgerEffect ==
  ASSUME RowsOK, NEW r \in Runners, LockLedger(r)
  PROVE  /\ proc[r].pc = "lock"
         /\ \/ Moves(r, "prune") /\ ledgerLock = None /\ ledgerLock' = r
            \/ Ends(r) /\ UNCHANGED ledgerLock
         /\ UNCHANGED <<now, marker, account, stored, dirs, left, worked, begun>> /\ (Fails \/ Works)
BY GoEffect, FailEffect DEF LockLedger, At, FilesStay

LEMMA PruneLedgerEffect ==
  ASSUME RowsOK, NEW r \in Runners, PruneLedger(r)
  PROVE  /\ proc[r].pc = "prune" /\ Moves(r, "mark")
         /\ marker' = [u \in Runs |->
              IF marker[u].there /\ marker[u].age + Skew < proc[r].verified THEN NoMarker ELSE marker[u]]
         /\ UNCHANGED <<now, ledgerLock, account, stored, dirs, left, worked, begun, faults>>
BY GoEffect DEF PruneLedger, At, Works, FilesStay

LEMMA CreateMarkerEffect ==
  ASSUME RowsOK, NEW r \in Runners, CreateMarker(r)
  PROVE  /\ proc[r].pc = "mark" /\ Keeps(r)
         /\ \/ /\ proc'[r].pc = "write" /\ proc'[r].prompt = (now <= proc[r].verified + Skew)
               /\ ~marker[proc[r].run].there
               /\ marker' = [marker EXCEPT ![proc[r].run] = [there |-> TRUE, written |-> FALSE, age |-> now]]
               /\ UNCHANGED ledgerLock
            \/ proc'[r].pc = "finish" /\ ledgerLock' = None /\ UNCHANGED marker
         /\ UNCHANGED <<now, account, stored, dirs, left, worked, begun>> /\ (Fails \/ Works)
<1>1. proc[r] \in ProcRow
  BY DEF RowsOK
<1> DEFINE p == [proc[r] EXCEPT !.pc = "write", !.verified = 0, !.prompt = now <= proc[r].verified + Skew]
<1>2. /\ proc[r].pc = "mark" /\ (Fails \/ Works)
      /\ UNCHANGED <<now, account, stored, dirs, left, worked, begun>>
  BY DEF CreateMarker, At, FilesStay
<1>3. \/ /\ Set(r, p) /\ ~marker[proc[r].run].there
         /\ marker' = [marker EXCEPT ![proc[r].run] = [there |-> TRUE, written |-> FALSE, age |-> now]]
         /\ UNCHANGED ledgerLock
      \/ Fail(r) /\ ledgerLock' = None /\ UNCHANGED marker
  BY DEF CreateMarker
<1>4. /\ p.pc = "write" /\ p.prompt = (now <= proc[r].verified + Skew)
      /\ p.run = proc[r].run /\ p.ap = proc[r].ap /\ p.exit0 = proc[r].exit0
  BY <1>1 DEF ProcRow
<1> HIDE DEF p
<1>5. Set(r, p) => proc'[r] = p /\ Others(r)
  BY SetEffect
<1> QED
  BY <1>2, <1>3, <1>4, <1>5, FailEffect DEF Keeps, Ends

LEMMA WriteMarkerEffect ==
  ASSUME RowsOK, NEW r \in Runners, WriteMarker(r)
  PROVE  /\ proc[r].pc = "write"
         /\ \/ /\ Moves(r, "sync") /\ UNCHANGED ledgerLock
               /\ marker' = [marker EXCEPT ![proc[r].run] =
                               [there |-> TRUE, written |-> TRUE, age |-> Expiry[proc[r].run]]]
            \/ /\ Ends(r) /\ ledgerLock' = None
               /\ marker' = [marker EXCEPT ![proc[r].run] = NoMarker]
         /\ UNCHANGED <<now, account, stored, dirs, left, worked, begun>> /\ (Fails \/ Works)
BY GoEffect, FailEffect DEF WriteMarker, At, FilesStay

LEMMA SyncLedgerEffect ==
  ASSUME RowsOK, NEW r \in Runners, SyncLedger(r)
  PROVE  /\ proc[r].pc = "sync" /\ (Moves(r, "authorize") \/ Ends(r)) /\ ledgerLock' = None
         /\ UNCHANGED <<now, marker, account, stored, dirs, left, worked, begun>> /\ (Fails \/ Works)
BY GoEffect, FailEffect DEF SyncLedger, At, FilesStay

LEMMA AuthorizeEffect ==
  ASSUME RowsOK, NEW r \in Runners, Authorize(r)
  PROVE  /\ proc[r].pc = "authorize" /\ Others(r) /\ proc'[r].run = proc[r].run
         /\ proc'[r].exit0 = proc[r].exit0
         /\ \/ proc'[r].ap = proc[r].ap
            \/ proc'[r].ap = "failed" /\ Provisioning(proc[r].run)
            \/ proc'[r].ap = "none"
         /\ \/ proc'[r].pc = "current" /\ proc'[r].prompt = proc[r].prompt
            \/ proc'[r].pc = "finish"
         /\ UNCHANGED Host /\ (Fails \/ Works)
<1>1. proc[r] \in ProcRow
  BY DEF RowsOK
<1> DEFINE p == [proc[r] EXCEPT !.ap = IF Provisioning(proc[r].run) THEN "failed" ELSE "none"]
           q == [p EXCEPT !.pc = "current"]
<1>2. proc[r].pc = "authorize" /\ UNCHANGED Host /\ (Fails \/ Works)
  BY DEF Authorize, At, LedgerStays, FilesStay, Host
<1>3. Set(r, q) \/ Fail(r) \/ End(r, p, "failed")
  BY DEF Authorize
<1>4. /\ p \in ProcRow /\ p.run = proc[r].run /\ p.prompt = proc[r].prompt /\ p.exit0 = proc[r].exit0
      /\ p.ap = IF Provisioning(proc[r].run) THEN "failed" ELSE "none"
  BY <1>1 DEF ProcRow
<1> HIDE DEF p
<1>5. q.run = p.run /\ q.ap = p.ap /\ q.prompt = p.prompt /\ q.pc = "current" /\ q.exit0 = p.exit0
  BY <1>4 DEF ProcRow
<1> HIDE DEF q
<1>6. CASE Set(r, q)
  BY <1>2, <1>4, <1>5, <1>6, SetEffect
<1>7. CASE End(r, p, "failed")
  BY <1>2, <1>4, <1>7, EndEffect
<1>8. CASE Fail(r)
  BY <1>2, <1>8, FailEffect DEF Ends, Keeps
<1> QED
  BY <1>3, <1>6, <1>7, <1>8

LEMMA CurrentEffect ==
  ASSUME RowsOK, NEW r \in Runners, Current(r)
  PROVE  /\ proc[r].pc = "current" /\ Keeps(r)
         /\ \/ proc'[r].pc = "prepare" /\ proc'[r].prompt = proc[r].prompt
            \/ proc'[r].pc = "finish"
         /\ UNCHANGED Host /\ (Fails \/ Works)
<1>1. proc[r] \in ProcRow
  BY DEF RowsOK
<1> DEFINE p(b) == [proc[r] EXCEPT !.pc = "prepare", !.found = b]
<1>2. proc[r].pc = "current" /\ UNCHANGED Host /\ (Fails \/ Works)
  BY DEF Current, At, LedgerStays, FilesStay, Host, FailsOrCancelled
<1>3. Set(r, p(stored # "none")) \/ Fail(r) \/ End(r, proc[r], "noop")
  BY DEF Current
<1>4. ASSUME NEW b
      PROVE  /\ p(b).run = proc[r].run /\ p(b).ap = proc[r].ap /\ p(b).pc = "prepare"
             /\ p(b).prompt = proc[r].prompt /\ p(b).exit0 = proc[r].exit0
  BY <1>1 DEF ProcRow
<1> HIDE DEF p
<1>5. CASE Set(r, p(stored # "none"))
  BY <1>2, <1>4, <1>5, SetEffect DEF Keeps
<1>6. CASE Fail(r) \/ End(r, proc[r], "noop")
  BY <1>1, <1>2, <1>6, FailEffect, EndEffect DEF Ends, Keeps
<1> QED
  BY <1>3, <1>5, <1>6

LEMMA PrepareEffect ==
  ASSUME RowsOK, NEW r \in Runners, Prepare(r)
  PROVE  /\ proc[r].pc = "prepare" /\ (Moves(r, "deadline") \/ Ends(r))
         /\ UNCHANGED <<now, marker, ledgerLock, account, stored, worked, begun>> /\ (Fails \/ Works)
<1>1. /\ proc[r].pc = "prepare" /\ (Go(r, "deadline") \/ Fail(r)) /\ (Fails \/ Works)
      /\ UNCHANGED <<now, marker, ledgerLock, account, stored, worked, begun>>
  BY Zenon DEF Prepare, PrepareWorkDir, At, LedgerStays
<1> QED
  BY <1>1, GoEffect, FailEffect

\* What a sweep does to the directory of a Runner.
SweepOf(q) ==
  \/ dirs'[q] = dirs[q]
  \/ dirs[q].is = "new" /\ dirs'[q] = NoDir
  \/ dirs[q].is = "dated" /\ now > dirs[q].after /\ dirs'[q] = NoDir
  \/ dirs[q].is \in {"empty", "dated"} /\ dirs'[q] = [dirs[q] EXCEPT !.is = "gone"]

LEMMA PrepareDirs ==
  ASSUME TypeOK, RowsOK, NEW r \in Runners, Prepare(r)
  PROVE  /\ dirs' \in [Runners -> DirRow] /\ left' \subseteq left
         /\ \A q \in Runners : q # r => SweepOf(q)
         /\ \/ proc'[r].pc = "finish"
            \/ proc'[r].pc = "deadline" /\ dirs'[r] = [is |-> "new", made |-> now, after |-> 0]
<1> USE RunnerAssumptions
<1>1. CASE UNCHANGED <<dirs, left>> /\ Fail(r)
  BY <1>1, FailEffect DEF Ends, SweepOf, TypeOK
<1>2. CASE PrepareWorkDir(r)
  <2> DEFINE fresh == [is |-> "new", made |-> now, after |-> 0]
             after == StaleAfter[proc[r].run]
  <2>1. PICK unread \in SUBSET {d \in Range(dirs) \cup left : d.is \in {"empty", "dated"}} :
          LET swept(d) == Swept(d, after, d \in unread)
              kept == [q \in Runners |->
                         IF ~swept(dirs[q]) THEN dirs[q]
                         ELSE IF dirs[q] \in unread THEN [dirs[q] EXCEPT !.is = "gone"] ELSE NoDir]
          IN /\ left' = {d \in left : ~swept(d)}
             /\ \/ dirs' = [kept EXCEPT ![r] = fresh] /\ Go(r, "deadline")
                \/ dirs' = kept /\ Fail(r)
    BY <1>2, Zenon DEF PrepareWorkDir
  <2> DEFINE swept(d) == Swept(d, after, d \in unread)
             row(q) == IF ~swept(dirs[q]) THEN dirs[q]
                       ELSE IF dirs[q] \in unread THEN [dirs[q] EXCEPT !.is = "gone"] ELSE NoDir
             kept == [q \in Runners |-> row(q)]
  <2>2. /\ left' = {d \in left : ~swept(d)}
        /\ \/ dirs' = [kept EXCEPT ![r] = fresh] /\ Go(r, "deadline")
           \/ dirs' = kept /\ Fail(r)
    BY <2>1
  <2>3. fresh \in DirRow
    BY DEF TypeOK, DirRow
  <2>4. ASSUME NEW q \in Runners
        PROVE  /\ row(q) \in DirRow
               /\ \/ row(q) = dirs[q]
                  \/ dirs[q].is = "new" /\ row(q) = NoDir
                  \/ dirs[q].is = "dated" /\ now > dirs[q].after /\ row(q) = NoDir
                  \/ dirs[q].is \in {"empty", "dated"} /\ row(q) = [dirs[q] EXCEPT !.is = "gone"]
    <3>1. dirs[q] \in DirRow /\ NoDir \in DirRow /\ [dirs[q] EXCEPT !.is = "gone"] \in DirRow
      BY DEF TypeOK, DirRow, NoDir
    <3>2. dirs[q] \in unread => dirs[q].is \in {"empty", "dated"}
      OBVIOUS
    <3>3. swept(dirs[q]) /\ dirs[q] \notin unread =>
            dirs[q].is = "new" \/ (dirs[q].is = "dated" /\ now > dirs[q].after)
      BY DEF Swept
    <3> HIDE DEF swept
    <3> QED
      BY <3>1, <3>2, <3>3
  <2> HIDE DEF row, fresh, swept
  <2>5. kept \in [Runners -> DirRow] /\ \A q \in Runners : kept[q] = row(q)
    BY <2>4
  <2> HIDE DEF kept
  <2>6. /\ dirs' \in [Runners -> DirRow]
        /\ \A q \in Runners : q # r => dirs'[q] = row(q)
        /\ dirs' = [kept EXCEPT ![r] = fresh] => dirs'[r] = fresh
    BY <2>2, <2>3, <2>5
  <2>7. \A q \in Runners : q # r => SweepOf(q)
    BY <2>4, <2>6 DEF SweepOf
  <2>8. left' \subseteq left
    BY <2>2
  <2>9. proc'[r].pc = "finish" \/ (proc'[r].pc = "deadline" /\ dirs'[r] = fresh)
    BY <2>2, <2>6, GoEffect, FailEffect DEF Moves, Ends
  <2> QED
    BY <2>6, <2>7, <2>8, <2>9 DEF fresh
<1> QED
  BY <1>1, <1>2 DEF Prepare

LEMMA DeadlineEffect ==
  ASSUME RowsOK, NEW r \in Runners, CreateDeadline(r) \/ WriteDeadline(r)
  PROVE  /\ \/ proc[r].pc = "deadline" /\ (Moves(r, "record") \/ Ends(r))
            \/ proc[r].pc = "record" /\ (Moves(r, "load") \/ Ends(r))
         /\ UNCHANGED <<now, marker, ledgerLock, account, stored, left, worked, begun>> /\ (Fails \/ Works)
<1>1. /\ \/ proc[r].pc = "deadline" /\ (Go(r, "record") \/ Fail(r))
         \/ proc[r].pc = "record" /\ (Go(r, "load") \/ Fail(r))
      /\ UNCHANGED <<now, marker, ledgerLock, account, stored, left, worked, begun>> /\ (Fails \/ Works)
  BY DEF CreateDeadline, WriteDeadline, At, LedgerStays
<1> QED
  BY <1>1, GoEffect, FailEffect

\* What the deadline file makes of the directory.
LEMMA DeadlineDirs ==
  ASSUME TypeOK, RowsOK, NEW r \in Runners, CreateDeadline(r) \/ WriteDeadline(r)
  PROVE  /\ dirs' \in [Runners -> DirRow] /\ \A q \in Runners : q # r => dirs'[q] = dirs[q]
         /\ \/ proc'[r].pc = "finish"
            \/ /\ proc[r].pc = "deadline" /\ proc'[r].pc = "record"
               /\ Present(dirs[r]) /\ dirs'[r].is = "empty" /\ dirs'[r].made = dirs[r].made
            \/ /\ proc[r].pc = "record" /\ proc'[r].pc = "load"
               /\ dirs'[r].is = (IF Present(dirs[r]) THEN "dated" ELSE dirs[r].is)
               /\ dirs'[r].made = dirs[r].made
               /\ dirs'[r].after = dirs[r].made + StaleAfter[proc[r].run]
<1> USE RunnerAssumptions
<1> DEFINE d == dirs[r]
           empty == [d EXCEPT !.is = "empty"]
           dated == [d EXCEPT !.is = IF Present(d) THEN "dated" ELSE d.is,
                              !.after = d.made + StaleAfter[proc[r].run]]
<1>0. d \in DirRow /\ NoDir \in DirRow /\ proc[r].pc # "idle" /\ proc[r].run \in Runs
  BY DEF TypeOK, RowsOK, DirRow, NoDir, CreateDeadline, WriteDeadline, At
<1>1. empty \in DirRow /\ empty.is = "empty" /\ empty.made = d.made
  BY <1>0 DEF DirRow
<1>2. /\ dated \in DirRow /\ dated.is = (IF Present(d) THEN "dated" ELSE d.is) /\ dated.made = d.made
      /\ dated.after = d.made + StaleAfter[proc[r].run]
  <2>1. StaleAfter[proc[r].run] \in Nat
    BY <1>0
  <2>2. d.made + StaleAfter[proc[r].run] \in Nat /\ (IF Present(d) THEN "dated" ELSE d.is) \in {"none", "new", "empty", "dated", "gone"}
    BY <1>0, <2>1 DEF DirRow
  <2> QED
    BY <1>0, <2>2 DEF DirRow
<1>3. \/ dirs' = [dirs EXCEPT ![r] = NoDir] /\ Fail(r)
      \/ proc[r].pc = "deadline" /\ Present(d) /\ dirs' = [dirs EXCEPT ![r] = empty] /\ Go(r, "record")
      \/ proc[r].pc = "record" /\ dirs' = [dirs EXCEPT ![r] = dated] /\ Go(r, "load")
  <2>1. CASE CreateDeadline(r)
    <3>1. [dirs EXCEPT ![r].is = "empty"] = [dirs EXCEPT ![r] = empty]
      BY DEF TypeOK
    <3> QED
      BY <2>1, <3>1 DEF CreateDeadline, At
  <2>2. CASE WriteDeadline(r)
    BY <2>2 DEF WriteDeadline, At
  <2> QED
    BY <2>1, <2>2
<1> HIDE DEF empty, dated
<1>4. ASSUME NEW e \in DirRow, dirs' = [dirs EXCEPT ![r] = e]
      PROVE  /\ dirs' \in [Runners -> DirRow] /\ dirs'[r] = e
             /\ \A q \in Runners : q # r => dirs'[q] = dirs[q]
  BY <1>4 DEF TypeOK
<1>5. CASE dirs' = [dirs EXCEPT ![r] = NoDir] /\ Fail(r)
  BY <1>0, <1>4, <1>5, FailEffect DEF Ends
<1>6. CASE proc[r].pc = "deadline" /\ Present(d) /\ dirs' = [dirs EXCEPT ![r] = empty] /\ Go(r, "record")
  BY <1>1, <1>4, <1>6, GoEffect DEF Moves
<1>7. CASE proc[r].pc = "record" /\ dirs' = [dirs EXCEPT ![r] = dated] /\ Go(r, "load")
  BY <1>2, <1>4, <1>7, GoEffect DEF Moves
<1> QED
  BY <1>3, <1>5, <1>6, <1>7

LEMMA LoadEffect ==
  ASSUME RowsOK, NEW r \in Runners, Load(r)
  PROVE  /\ proc[r].pc = "load" /\ Keeps(r)
         /\ \/ /\ proc'[r].pc = "lego" /\ proc'[r].work = account[Root(proc[r].run)]
               /\ Provisioning(proc[r].run) =>
                    /\ ~Registered(account[Root(proc[r].run)])
                    /\ Payload[proc[r].run].account = Root(proc[r].run)
               /\ ~Provisioning(proc[r].run) /\ Root(proc[r].run) # Legacy =>
                    Registered(account[Root(proc[r].run)])
               /\ worked' = [worked EXCEPT ![proc[r].run] = @ + (IF proc[r].prompt THEN 1 ELSE 0)]
            \/ proc'[r].pc = "finish" /\ UNCHANGED worked
         /\ UNCHANGED <<now, marker, ledgerLock, account, stored, dirs, left, begun>> /\ (Fails \/ Works)
<1>1. proc[r] \in ProcRow
  BY DEF RowsOK
<1> DEFINE run == proc[r].run
           work == account[Root(run)]
           ready == CASE Provisioning(run) -> ~Registered(work) /\ OpenScoped(Payload[run], Root(run))
                      [] ~Provisioning(run) /\ Root(run) # Legacy -> Registered(work)
                      [] Root(run) = Legacy -> TRUE
           p == [proc[r] EXCEPT !.pc = "lego", !.work = work]
<1>2. /\ proc[r].pc = "load" /\ (Fails \/ Works)
      /\ UNCHANGED <<now, marker, ledgerLock, account, stored, dirs, left, begun>>
  BY DEF Load, At, LedgerStays, FailsOrCancelled
<1>3. \/ ready /\ StartLego(r, work)
      \/ Fail(r) /\ UNCHANGED worked
  BY DEF Load
<1>4. CASE Fail(r) /\ UNCHANGED worked
  BY <1>2, <1>4, FailEffect DEF Ends, Keeps
<1>5. CASE ready /\ StartLego(r, work)
  <2>1. p.pc = "lego" /\ p.work = work /\ p.run = run /\ p.ap = proc[r].ap /\ p.exit0 = proc[r].exit0
    BY <1>1 DEF ProcRow
  <2>2. /\ Provisioning(run) => ~Registered(work) /\ Payload[run].account = Root(run)
        /\ ~Provisioning(run) /\ Root(run) # Legacy => Registered(work)
    <3>1. CASE Provisioning(run)
      <4>1. Root(run) # Legacy
        BY <3>1, RunnerAssumptions DEF Provisioning, Root
      <4> QED
        BY <1>5, <3>1, <4>1 DEF OpenScoped
    <3>2. CASE ~Provisioning(run) /\ Root(run) # Legacy
      BY <1>5, <3>2
    <3> QED
      BY <3>1, <3>2
  <2>3. proc'[r] = p /\ Others(r)
    BY <1>5, SetEffect DEF StartLego
  <2>4. worked' = [worked EXCEPT ![run] = @ + (IF proc[r].prompt THEN 1 ELSE 0)]
    BY <1>5 DEF StartLego
  <2> HIDE DEF p
  <2> QED
    BY <1>2, <2>1, <2>2, <2>3, <2>4 DEF Keeps
<1> QED
  BY <1>3, <1>4, <1>5

LEMMA LegoEndsEffect ==
  ASSUME RowsOK, NEW r \in Runners, LegoEnds(r)
  PROVE  /\ proc[r].pc = "lego" /\ Keeps(r) /\ proc'[r].pc = "persist"
         /\ Registered(proc[r].work) => proc'[r].work = proc[r].work \/ proc'[r].work = NoAccount
         /\ proc'[r].work \in {proc[r].work, NoAccount, AccountKey, Registration(LegoEAB(proc[r].run))}
         /\ UNCHANGED Host /\ UNCHANGED faults
<1>1. proc[r] \in ProcRow
  BY DEF RowsOK
<1>2. PICK lego \in BOOLEAN,
           after \in {proc[r].work, NoAccount, AccountKey, Registration(LegoEAB(proc[r].run))} :
        /\ Registered(proc[r].work) => after = proc[r].work \/ after = NoAccount
        /\ Set(r, [proc[r] EXCEPT !.pc = "persist", !.lego = lego, !.work = after])
  BY DEF LegoEnds
<1>3. proc'[r] = [proc[r] EXCEPT !.pc = "persist", !.lego = lego, !.work = after] /\ Others(r)
  BY <1>2, SetEffect
<1>4. proc'[r].pc = "persist" /\ proc'[r].work = after /\ proc'[r].run = proc[r].run /\ proc'[r].ap = proc[r].ap
      /\ proc'[r].exit0 = proc[r].exit0
  BY <1>1, <1>3 DEF ProcRow
<1>5. proc[r].pc = "lego" /\ UNCHANGED Host /\ UNCHANGED faults
  BY DEF LegoEnds, At, LedgerStays, FilesStay, Host, Works
<1> QED
  BY <1>2, <1>3, <1>4, <1>5 DEF Keeps

LEMMA PersistEffect ==
  ASSUME RowsOK, NEW r \in Runners, Persist(r)
  PROVE  /\ proc[r].pc = "persist" /\ (Fails \/ Works)
         /\ UNCHANGED <<now, marker, ledgerLock, stored, dirs, left, worked, begun>>
         /\ LET published == account' = [account EXCEPT ![Root(proc[r].run)] = proc[r].work]
                registered == Provisioning(proc[r].run) => Registered(proc[r].work)
            IN \/ Moves(r, "confirm") /\ published /\ Provisioning(proc[r].run) /\ Registered(proc[r].work)
               \/ Moves(r, "outcome") /\ published /\ registered /\ proc[r].work # NoAccount
               \/ Moves(r, "outcome") /\ UNCHANGED account /\ (Fails \/ ~Registered(proc[r].work))
               \/ /\ Keeps(r) /\ proc'[r].pc = "outcome" /\ proc'[r].work = NoAccount
                  /\ UNCHANGED account
<1> DEFINE p == proc[r]
           gone == [p EXCEPT !.pc = "outcome", !.work = NoAccount]
<1>1. p \in ProcRow
  BY DEF RowsOK
<1>2. gone.pc = "outcome" /\ gone.work = NoAccount /\ gone.run = p.run /\ gone.ap = p.ap /\ gone.exit0 = p.exit0
  BY <1>1 DEF ProcRow
<1>3. /\ p.pc = "persist" /\ (Fails \/ Works)
      /\ UNCHANGED <<now, marker, ledgerLock, stored, dirs, left, worked, begun>>
      /\ LET published == account' = [account EXCEPT ![Root(p.run)] = p.work]
             registered == Provisioning(p.run) => Registered(p.work)
         IN \/ Go(r, "confirm") /\ published /\ Provisioning(p.run) /\ Registered(p.work)
            \/ Go(r, "outcome") /\ published /\ registered /\ p.work # NoAccount
            \/ Go(r, "outcome") /\ UNCHANGED account /\ (Fails \/ ~Registered(p.work))
            \/ Set(r, gone) /\ UNCHANGED account
  BY DEF Persist, At, LedgerStays, Registered, NoAccount
<1> HIDE DEF gone
<1>4. Set(r, gone) => Keeps(r) /\ proc'[r].pc = "outcome" /\ proc'[r].work = NoAccount
  BY <1>2, SetEffect DEF Keeps
<1> QED
  BY <1>3, <1>4, GoEffect

LEMMA ConfirmEffect ==
  ASSUME RowsOK, NEW r \in Runners, Confirm(r)
  PROVE  /\ proc[r].pc = "confirm" /\ Others(r) /\ proc'[r].pc = "outcome"
         /\ proc'[r].run = proc[r].run /\ proc'[r].work = proc[r].work
         /\ proc'[r].exit0 = proc[r].exit0
         /\ \/ proc'[r].ap = proc[r].ap
            \/ proc'[r].ap = "registered" /\ Registered(account[Root(proc[r].run)])
            \/ proc'[r].ap = "failed" /\ ~Registered(account[Root(proc[r].run)])
         /\ UNCHANGED Host /\ (Fails \/ Works)
<1>1. proc[r] \in ProcRow
  BY DEF RowsOK
<1> DEFINE p == [proc[r] EXCEPT !.pc = "outcome",
                   !.ap = IF Registered(account[Root(proc[r].run)]) THEN "registered" ELSE "failed"]
<1>2. proc[r].pc = "confirm" /\ UNCHANGED Host /\ (Fails \/ Works)
  BY DEF Confirm, At, LedgerStays, FilesStay, Host
<1>3. Set(r, p) \/ Go(r, "outcome")
  BY DEF Confirm
<1>4. /\ p.pc = "outcome" /\ p.run = proc[r].run /\ p.work = proc[r].work /\ p.exit0 = proc[r].exit0
      /\ p.ap = IF Registered(account[Root(proc[r].run)]) THEN "registered" ELSE "failed"
  BY <1>1 DEF ProcRow
<1> HIDE DEF p
<1>5. CASE Set(r, p)
  BY <1>2, <1>4, <1>5, SetEffect
<1>6. CASE Go(r, "outcome")
  BY <1>2, <1>6, GoEffect DEF Moves, Keeps
<1> QED
  BY <1>3, <1>5, <1>6

LEMMA OutcomeEffect ==
  ASSUME RowsOK, NEW r \in Runners, Outcome(r)
  PROVE  /\ proc[r].pc = "outcome" /\ (Moves(r, "put") \/ Ends(r))
         /\ UNCHANGED Host /\ (Fails \/ Works)
BY GoEffect, FailEffect DEF Outcome, At, LedgerStays, FilesStay, Host

LEMMA PutEffect ==
  ASSUME RowsOK, NEW r \in Runners, Put(r)
  PROVE  /\ proc[r].pc = "put" /\ Ends(r) /\ stored' \in AfterFailingPut
         /\ UNCHANGED <<now, marker, ledgerLock, account, dirs, left, worked, begun>> /\ (Fails \/ Works)
<1>1. proc[r] \in ProcRow
  BY DEF RowsOK
<1> QED
  BY <1>1, FailEffect, EndEffect DEF Put, At, LedgerStays, FailsOrCancelled, AfterFailingPut, Ends, Keeps

LEMMA FinishEffect ==
  ASSUME RowsOK, NEW r \in Runners, Finish(r)
  PROVE  /\ proc[r].pc = "finish" /\ Others(r) /\ proc'[r].pc = "done"
         /\ proc'[r].run = proc[r].run /\ proc'[r].ap = proc[r].ap
         /\ proc'[r].exit0 => proc'[r].result # "failed"
         /\ dirs' = [dirs EXCEPT ![r] = NoDir]
         /\ UNCHANGED <<now, marker, ledgerLock, account, stored, left, worked, begun>> /\ (Fails \/ Works)
<1>1. proc[r] \in ProcRow
  BY DEF RowsOK
<1> DEFINE p == [proc[r] EXCEPT !.pc = "done"]
           told(b) == [p EXCEPT !.exit0 = b]
           lost(b) == [p EXCEPT !.result = "none", !.exit0 = b]
<1>2. /\ proc[r].pc = "finish" /\ dirs' = [dirs EXCEPT ![r] = NoDir]
      /\ UNCHANGED <<now, marker, ledgerLock, account, stored, left, worked, begun>> /\ (Fails \/ Works)
  BY DEF Finish, At, LedgerStays
<1>3. PICK b \in BOOLEAN : (b => p.result # "failed") /\ (Set(r, told(b)) \/ Set(r, lost(b)))
  BY DEF Finish
<1>4. p \in ProcRow /\ p.pc = "done" /\ p.run = proc[r].run /\ p.ap = proc[r].ap
  BY <1>1 DEF ProcRow, PCs
<1> HIDE DEF p
<1>5. /\ told(b).pc = p.pc /\ told(b).run = p.run /\ told(b).ap = p.ap /\ told(b).exit0 = b
      /\ told(b).result = p.result
      /\ lost(b).pc = p.pc /\ lost(b).run = p.run /\ lost(b).ap = p.ap /\ lost(b).result = "none"
  BY <1>4 DEF ProcRow
<1> HIDE DEF told, lost
<1> QED
  BY <1>2, <1>3, <1>4, <1>5, SetEffect

LEMMA TerminateEffect ==
  ASSUME RowsOK, NEW r \in Runners, Terminate(r)
  PROVE  Moves(r, proc[r].pc) /\ UNCHANGED Host /\ UNCHANGED faults
<1>1. proc[r] \in ProcRow
  BY DEF RowsOK
<1>2. proc'[r] = [proc[r] EXCEPT !.term = TRUE] /\ Others(r)
  BY SetEffect DEF Terminate
<1>3. UNCHANGED Host /\ UNCHANGED faults
  BY DEF Terminate, Works, LedgerStays, FilesStay, Host
<1> QED
  BY <1>1, <1>2, <1>3 DEF Moves, Keeps, ProcRow

LEMMA DieEffect ==
  ASSUME RowsOK, NEW r \in Runners, Die(r)
  PROVE  /\ ~Ended(r) /\ Others(r)
         /\ proc'[r].pc = "killed" /\ proc'[r].run = proc[r].run /\ proc'[r].ap = "none"
         /\ ~proc'[r].exit0
         /\ ledgerLock' = IF ledgerLock = r THEN None ELSE ledgerLock
         /\ UNCHANGED <<now, marker, account, stored, dirs, left, worked, begun, faults>>
<1>1. proc'[r] = [Waiting EXCEPT !.pc = "killed", !.run = proc[r].run] /\ Others(r)
  BY SetEffect DEF Die
<1>2. /\ proc'[r].pc = "killed" /\ proc'[r].run = proc[r].run /\ proc'[r].ap = "none"
      /\ ~proc'[r].exit0
  BY <1>1 DEF Waiting
<1> QED
  BY <1>1, <1>2 DEF Die, FilesStay

LEMMA ReplaceEffect ==
  ASSUME RowsOK, NEW r \in Runners, Replace(r)
  PROVE  /\ proc[r].pc \in {"done", "killed"} /\ Others(r)
         /\ proc'[r].pc = "idle" /\ proc'[r].ap = "none" /\ ~proc'[r].exit0
         /\ left' = left \cup {d \in {dirs[r]} : Present(d)} /\ dirs' = [dirs EXCEPT ![r] = NoDir]
         /\ UNCHANGED <<now, marker, ledgerLock, account, stored, worked, begun, faults>>
<1>1. proc'[r] = Waiting /\ Others(r)
  BY SetEffect DEF Replace
<1>2. proc'[r].pc = "idle" /\ proc'[r].ap = "none" /\ ~proc'[r].exit0
  BY <1>1 DEF Waiting
<1> QED
  BY <1>1, <1>2 DEF Replace, Ended, At, Works, LedgerStays

\* A failing operation is counted, another is not.
LEMMA FaultsType ==
  ASSUME TypeOK, Fails \/ Works \/ UNCHANGED faults
  PROVE  faults' \in 0 .. MaxFaults
BY RunnerAssumptions DEF TypeOK, Fails, Works

LEMMA TypeStep ==
  ASSUME TypeOK, RowsOK, HostStep, StopsStep, RowsOK'
  PROVE  TypeOK'
<1> USE RunnerAssumptions
<1>1. stops' \in 0 .. MaxStops /\ proc' \in [Runners -> ProcRow]
  BY DEF StopsStep, Stops, TypeOK, RowsOK
<1>2. ASSUME NEW r \in Runners, NEW run \in Runs, Begin(r, run)
      PROVE  TypeOK'
  <2>1. /\ begun' = [begun EXCEPT ![run] = @ + 1]
        /\ UNCHANGED <<now, marker, ledgerLock, account, stored, dirs, left, worked, faults>>
    BY <1>2, BeginEffect
  <2>2. begun' \in [Runs -> Nat]
    BY <2>1 DEF TypeOK
  <2> QED
    BY <1>1, <2>1, <2>2 DEF TypeOK
<1>3. ASSUME NEW r \in Runners, Step(r)
      PROVE  TypeOK'
  <2>0. ASSUME proc[r].pc # "idle"
        PROVE  proc[r] \in ProcRow /\ proc[r].run \in Runs /\ Root(proc[r].run) \in Generations \cup {Legacy}
    BY <2>0 DEF RowsOK, Root
  <2>1. CASE Acquire(r) \/ Authorize(r) \/ Current(r) \/ LegoEnds(r) \/ Confirm(r) \/ Outcome(r)
    <3>1. UNCHANGED <<now, marker, ledgerLock, account, stored, dirs, left, worked, begun>>
      BY <2>1 DEF Acquire, Authorize, Current, LegoEnds, Confirm, Outcome, LedgerStays, FilesStay
    <3>2. faults' \in 0 .. MaxFaults
      BY <2>1, FaultsType DEF Acquire, LoadConfig, Verify, Authorize, Current, LegoEnds, Confirm,
           Outcome, FailsOrCancelled
    <3> QED
      BY <1>1, <3>1, <3>2 DEF TypeOK
  <2>2. CASE LockLedger(r) \/ SyncLedger(r)
    BY <1>1, <2>2, FaultsType DEF LockLedger, SyncLedger, FilesStay, TypeOK
  <2>3. CASE PruneLedger(r)
    BY <1>1, <2>3, FaultsType DEF PruneLedger, FilesStay, TypeOK, NoMarker
  <2>4. CASE CreateMarker(r) \/ WriteMarker(r)
    <3>1. marker' \in [Runs -> [there : BOOLEAN, written : BOOLEAN, age : Nat]]
      <4>1. proc[r].run \in Runs
        BY <2>0, <2>4 DEF CreateMarker, WriteMarker, At
      <4>2. ASSUME NEW m \in [there : BOOLEAN, written : BOOLEAN, age : Nat],
                   marker' = [marker EXCEPT ![proc[r].run] = m]
            PROVE  marker' \in [Runs -> [there : BOOLEAN, written : BOOLEAN, age : Nat]]
        BY <4>1, <4>2 DEF TypeOK
      <4>3. /\ [there |-> TRUE, written |-> FALSE, age |-> now] \in [there : BOOLEAN, written : BOOLEAN, age : Nat]
            /\ [there |-> TRUE, written |-> TRUE, age |-> Expiry[proc[r].run]]
                 \in [there : BOOLEAN, written : BOOLEAN, age : Nat]
            /\ NoMarker \in [there : BOOLEAN, written : BOOLEAN, age : Nat]
        BY <4>1 DEF TypeOK, NoMarker
      <4> QED
        BY <2>4, <4>2, <4>3, CreateMarkerEffect, WriteMarkerEffect DEF TypeOK
    <3>2. faults' \in 0 .. MaxFaults
      BY <2>4, FaultsType DEF CreateMarker, WriteMarker
    <3> QED
      BY <1>1, <2>4, <3>1, <3>2 DEF CreateMarker, WriteMarker, FilesStay, TypeOK
  <2>5. CASE Prepare(r)
    <3>1. faults' \in 0 .. MaxFaults
      BY <2>5, FaultsType DEF Prepare, PrepareWorkDir
    <3>2. dirs' \in [Runners -> DirRow] /\ left' \subseteq DirRow
      BY <2>5, PrepareDirs DEF TypeOK
    <3> QED
      BY <1>1, <2>5, <3>1, <3>2 DEF Prepare, LedgerStays, TypeOK
  <2>10. CASE CreateDeadline(r) \/ WriteDeadline(r)
    <3>1. faults' \in 0 .. MaxFaults
      BY <2>10, FaultsType, DeadlineEffect
    <3>2. dirs' \in [Runners -> DirRow]
      BY <2>10, DeadlineDirs
    <3> QED
      BY <1>1, <2>10, <3>1, <3>2, DeadlineEffect DEF TypeOK
  <2>6. CASE Load(r)
    <3>1. faults' \in 0 .. MaxFaults
      BY <2>6, FaultsType DEF Load, FailsOrCancelled
    <3>2. worked' \in [Runs -> Nat]
      BY <2>0, <2>6, LoadEffect DEF TypeOK
    <3> QED
      BY <1>1, <2>6, <3>1, <3>2 DEF Load, LedgerStays, TypeOK
  <2>7. CASE Persist(r)
    <3>1. faults' \in 0 .. MaxFaults
      BY <2>7, FaultsType DEF Persist
    <3>2. proc[r].work \in AccountRow
      BY <2>0, <2>7 DEF Persist, At, ProcRow
    <3>3. account' \in [Generations \cup {Legacy} -> AccountRow]
      BY <2>0, <2>7, <3>2 DEF Persist, At, TypeOK, AccountRow
    <3> QED
      BY <1>1, <2>7, <3>1, <3>3 DEF Persist, LedgerStays, TypeOK, AccountRow
  <2>8. CASE Put(r)
    BY <1>1, <2>8, FaultsType DEF Put, AfterFailingPut, FailsOrCancelled, LedgerStays, TypeOK
  <2>9. CASE Finish(r)
    BY <1>1, <2>9, FaultsType DEF Finish, LedgerStays, TypeOK, DirRow, NoDir
  <2> QED
    BY <1>3, <2>1, <2>2, <2>3, <2>4, <2>5, <2>6, <2>7, <2>8, <2>9, <2>10 DEF Step
<1>4. ASSUME NEW r \in Runners, Terminate(r) \/ Die(r)
      PROVE  TypeOK'
  BY <1>1, <1>4 DEF Terminate, Die, Works, LedgerStays, FilesStay, TypeOK
<1>5. ASSUME NEW r \in Runners, Replace(r)
      PROVE  TypeOK'
  BY <1>1, <1>5 DEF Replace, Works, LedgerStays, TypeOK, DirRow, NoDir
<1>6. CASE Tick
  BY <1>1, <1>6 DEF Tick, LedgerStays, FilesStay, TypeOK
<1>7. CASE HostStays
  BY <1>1, <1>7 DEF HostStays, LedgerStays, FilesStay, TypeOK
<1> QED
  BY <1>2, <1>3, <1>4, <1>5, <1>6, <1>7 DEF HostStep

-----------------------------------------------------------------------------
(* Every step preserves every part of the invariant. *)

LEMMA LockStep ==
  ASSUME TypeOK, RowsOK, LockHeld, HostStep
  PROVE  LockHeld'
<1> USE RunnerAssumptions DEF Moves, Keeps, Ends, Others, Host, LockHeld, Locking
<1>1. ASSUME NEW r \in Runners, NEW run \in Runs, Begin(r, run)
      PROVE  LockHeld'
  BY <1>1, BeginEffect
<1>2. ASSUME NEW r \in Runners, Acquire(r)
      PROVE  LockHeld'
  BY <1>2, AcquireEffect
<1>3. ASSUME NEW r \in Runners, LockLedger(r)
      PROVE  LockHeld'
  BY <1>3, LockLedgerEffect
<1>4. ASSUME NEW r \in Runners, PruneLedger(r)
      PROVE  LockHeld'
  BY <1>4, PruneLedgerEffect
<1>5. ASSUME NEW r \in Runners, CreateMarker(r)
      PROVE  LockHeld'
  BY <1>5, CreateMarkerEffect
<1>6. ASSUME NEW r \in Runners, WriteMarker(r)
      PROVE  LockHeld'
  BY <1>6, WriteMarkerEffect
<1>7. ASSUME NEW r \in Runners, SyncLedger(r)
      PROVE  LockHeld'
  BY <1>7, SyncLedgerEffect
<1>8. ASSUME NEW r \in Runners, Authorize(r) \/ Current(r)
      PROVE  LockHeld'
  BY <1>8, AuthorizeEffect, CurrentEffect
<1>9. ASSUME NEW r \in Runners, Prepare(r) \/ CreateDeadline(r) \/ WriteDeadline(r)
      PROVE  LockHeld'
  BY <1>9, PrepareEffect, DeadlineEffect
<1>10. ASSUME NEW r \in Runners, Load(r)
      PROVE  LockHeld'
  BY <1>10, LoadEffect
<1>11. ASSUME NEW r \in Runners, LegoEnds(r)
      PROVE  LockHeld'
  BY <1>11, LegoEndsEffect
<1>12. ASSUME NEW r \in Runners, Persist(r)
      PROVE  LockHeld'
  BY <1>12, PersistEffect
<1>13. ASSUME NEW r \in Runners, Confirm(r) \/ Outcome(r)
      PROVE  LockHeld'
  BY <1>13, ConfirmEffect, OutcomeEffect
<1>14. ASSUME NEW r \in Runners, Put(r) \/ Finish(r)
      PROVE  LockHeld'
  BY <1>14, PutEffect, FinishEffect
<1>15. ASSUME NEW r \in Runners, Terminate(r)
      PROVE  LockHeld'
  BY <1>15, TerminateEffect
<1>16. ASSUME NEW r \in Runners, Die(r)
      PROVE  LockHeld'
  BY <1>16, DieEffect
<1>17. ASSUME NEW r \in Runners, Replace(r)
      PROVE  LockHeld'
  BY <1>17, ReplaceEffect
<1>18. CASE Tick
  BY <1>18 DEF Tick, LedgerStays, FilesStay
<1>19. CASE HostStays
  BY <1>19 DEF HostStays, LedgerStays, FilesStay
<1> QED
  BY <1>1, <1>2, <1>3, <1>4, <1>5, <1>6, <1>7, <1>8, <1>9,
     <1>10, <1>11, <1>12, <1>13, <1>14, <1>15, <1>16, <1>17, <1>18, <1>19 DEF HostStep, Step

\* A Runner that goes on in the same directory, or ends.
LEMMA DirKept ==
  ASSUME NEW q \in Runners, DirHolds(q), dirs'[q] = dirs[q], now' = now,
         proc'[q].pc \in {"finish", "killed"} \/ proc'[q].run = proc[q].run,
         \/ proc'[q].pc \in {"finish", "killed"} \/ proc'[q].pc = proc[q].pc
         \/ proc[q].pc \in Working /\ proc'[q].pc \in Working
         \/ proc[q].pc \notin InDir \cup {"finish", "killed"} /\ proc'[q].pc \notin InDir
  PROVE  DirHolds(q)'
BY DEF DirHolds, InDir, Working

LEMMA WorkDirsStep ==
  ASSUME TypeOK, RowsOK, WorkDirs, HostStep
  PROVE  WorkDirs'
<1> USE RunnerAssumptions DEF Moves, Keeps, Ends, Others, Host, TypeOK, WorkDirs, DirHolds, InDir, Working
<1>1. ASSUME NEW r \in Runners, NEW run \in Runs, Begin(r, run)
      PROVE  WorkDirs'
  BY <1>1, BeginEffect
<1>2. ASSUME NEW r \in Runners, Acquire(r)
      PROVE  WorkDirs'
  BY <1>2, AcquireEffect
<1>3. ASSUME NEW r \in Runners, LockLedger(r)
      PROVE  WorkDirs'
  BY <1>3, LockLedgerEffect
<1>4. ASSUME NEW r \in Runners, PruneLedger(r)
      PROVE  WorkDirs'
  BY <1>4, PruneLedgerEffect
<1>5. ASSUME NEW r \in Runners, CreateMarker(r)
      PROVE  WorkDirs'
  BY <1>5, CreateMarkerEffect
<1>6. ASSUME NEW r \in Runners, WriteMarker(r)
      PROVE  WorkDirs'
  <2>1. ASSUME NEW q \in Runners
        PROVE  DirHolds(q)'
    <3>1. /\ DirHolds(q) /\ dirs'[q] = dirs[q] /\ now' = now
          /\ proc'[q].pc \in {"finish", "killed"} \/ proc'[q].run = proc[q].run
          /\ \/ proc'[q].pc \in {"finish", "killed"} \/ proc'[q].pc = proc[q].pc
             \/ proc[q].pc \in Working /\ proc'[q].pc \in Working
             \/ proc[q].pc \notin InDir \cup {"finish", "killed"} /\ proc'[q].pc \notin InDir
      BY <1>6, WriteMarkerEffect DEF WorkDirs, InDir, Working
    <3> QED
      BY <3>1, DirKept
  <2> QED
    BY <2>1 DEF WorkDirs
<1>7. ASSUME NEW r \in Runners, SyncLedger(r)
      PROVE  WorkDirs'
  BY <1>7, SyncLedgerEffect
<1>8. ASSUME NEW r \in Runners, Authorize(r) \/ Current(r)
      PROVE  WorkDirs'
  BY <1>8, AuthorizeEffect, CurrentEffect
<1>9. ASSUME NEW r \in Runners, Prepare(r)
      PROVE  WorkDirs'
  <2>1. now' = now /\ now \in Nat /\ Others(r) /\ proc'[r].run = proc[r].run
    BY <1>9, PrepareEffect
  <2>2. ASSUME NEW q \in Runners, q # r
        PROVE  DirHolds(q)'
    <3>1. SweepOf(q) /\ proc'[q] = proc[q] /\ DirHolds(q)
      BY <1>9, <2>1, <2>2, PrepareDirs
    <3>2. dirs[q] \in DirRow /\ (proc[q].pc # "idle" => proc[q].run \in Runs)
      BY DEF RowsOK
    <3> DEFINE gone == [dirs[q] EXCEPT !.is = "gone"]
    <3>3. gone.is = "gone" /\ gone.made = dirs[q].made /\ gone.after = dirs[q].after /\ gone # NoDir
      BY <3>2 DEF DirRow, NoDir
    <3>4. NoDir.is = "none"
      BY DEF NoDir
    <3> HIDE DEF gone
    <3>5. CASE dirs'[q] = dirs[q]
      BY <2>1, <3>1, <3>5
    <3>6. CASE dirs[q].is = "new" /\ dirs'[q] = NoDir
      BY <2>1, <3>1, <3>4, <3>6
    <3>7. CASE dirs[q].is = "dated" /\ now > dirs[q].after /\ dirs'[q] = NoDir
      <4>1. proc[q].pc \in Working => proc[q].run \in Runs
        BY <3>2
      <4>2. proc[q].pc \in Working => now <= dirs[q].after
        BY <2>1, <3>1, <3>2, <3>4, <3>7, <4>1 DEF DirRow
      <4>3. proc[q].pc \notin Working
        BY <2>1, <3>2, <3>7, <4>2 DEF DirRow
      <4> QED
        BY <2>1, <3>1, <3>4, <3>7, <4>3
    <3>8. CASE dirs[q].is \in {"empty", "dated"} /\ dirs'[q] = gone
      BY <2>1, <3>1, <3>3, <3>4, <3>8
    <3> QED
      BY <3>1, <3>5, <3>6, <3>7, <3>8 DEF SweepOf, gone
  <2>3. DirHolds(r)'
    <3> DEFINE fresh == [is |-> "new", made |-> now, after |-> 0]
    <3>1. fresh.is = "new" /\ fresh.made = now
      OBVIOUS
    <3>2. proc'[r].pc = "finish" \/ (proc'[r].pc = "deadline" /\ dirs'[r] = fresh)
      BY <1>9, PrepareDirs
    <3>3. proc[r].run \in Runs
      BY <1>9, PrepareEffect DEF RowsOK
    <3> HIDE DEF fresh
    <3> QED
      BY <2>1, <3>1, <3>2, <3>3
  <2> QED
    BY <2>2, <2>3
<1>20. ASSUME NEW r \in Runners, CreateDeadline(r) \/ WriteDeadline(r)
      PROVE  WorkDirs'
  <2>1. now' = now /\ Others(r) /\ proc'[r].run = proc[r].run
    BY <1>20, DeadlineEffect
  <2>2. ASSUME NEW q \in Runners, q # r
        PROVE  DirHolds(q)'
    BY <1>20, <2>1, <2>2, DeadlineDirs
  <2>3. DirHolds(r) /\ NoDir.is = "none"
    BY DEF NoDir
  <2>4. ASSUME proc'[r].pc = "finish"
        PROVE  DirHolds(r)'
    BY <2>4
  <2>5. ASSUME proc[r].pc = "deadline", proc'[r].pc = "record",
               Present(dirs[r]), dirs'[r].is = "empty", dirs'[r].made = dirs[r].made
        PROVE  DirHolds(r)'
    <3>1. dirs[r].is = "new" /\ now <= dirs[r].made + MaxRunTime[proc[r].run]
      BY <2>3, <2>5 DEF Present
    <3> QED
      BY <2>1, <2>5, <3>1
  <2>6. ASSUME proc[r].pc = "record", proc'[r].pc = "load",
               dirs'[r].is = (IF Present(dirs[r]) THEN "dated" ELSE dirs[r].is),
               dirs'[r].made = dirs[r].made,
               dirs'[r].after = dirs[r].made + StaleAfter[proc[r].run]
        PROVE  DirHolds(r)'
    <3>1. dirs[r].is \in {"empty", "gone"} /\ now <= dirs[r].made + MaxRunTime[proc[r].run]
      BY <2>3, <2>6
    <3>2. dirs'[r].is \in {"dated", "gone"}
      BY <2>6, <3>1 DEF Present
    <3> QED
      BY <2>1, <2>6, <3>1, <3>2
  <2>7. DirHolds(r)'
    BY <1>20, <2>4, <2>5, <2>6, DeadlineDirs
  <2> QED
    BY <2>2, <2>7
<1>10. ASSUME NEW r \in Runners, Load(r)
      PROVE  WorkDirs'
  BY <1>10, LoadEffect
<1>11. ASSUME NEW r \in Runners, LegoEnds(r)
      PROVE  WorkDirs'
  BY <1>11, LegoEndsEffect
<1>12. ASSUME NEW r \in Runners, Persist(r)
      PROVE  WorkDirs'
  <2>1. ASSUME NEW q \in Runners
        PROVE  DirHolds(q)'
    <3>1. /\ DirHolds(q) /\ dirs'[q] = dirs[q] /\ now' = now
          /\ proc'[q].pc \in {"finish", "killed"} \/ proc'[q].run = proc[q].run
          /\ \/ proc'[q].pc \in {"finish", "killed"} \/ proc'[q].pc = proc[q].pc
             \/ proc[q].pc \in Working /\ proc'[q].pc \in Working
             \/ proc[q].pc \notin InDir \cup {"finish", "killed"} /\ proc'[q].pc \notin InDir
      BY <1>12, PersistEffect DEF WorkDirs, InDir, Working
    <3> QED
      BY <3>1, DirKept
  <2> QED
    BY <2>1 DEF WorkDirs
<1>13. ASSUME NEW r \in Runners, Confirm(r) \/ Outcome(r)
      PROVE  WorkDirs'
  BY <1>13, ConfirmEffect, OutcomeEffect
<1>14. ASSUME NEW r \in Runners, Put(r) \/ Finish(r)
      PROVE  WorkDirs'
  BY <1>14, PutEffect, FinishEffect
<1>15. ASSUME NEW r \in Runners, Terminate(r)
      PROVE  WorkDirs'
  BY <1>15, TerminateEffect
<1>16. ASSUME NEW r \in Runners, Die(r)
      PROVE  WorkDirs'
  BY <1>16, DieEffect
<1>17. ASSUME NEW r \in Runners, Replace(r)
      PROVE  WorkDirs'
  BY <1>17, ReplaceEffect
<1>18. CASE Tick
  <2>1. ASSUME NEW r \in Runners
        PROVE  DirHolds(r)'
    <3>1. /\ UNCHANGED <<dirs, proc>> /\ now' = now + 1 /\ now \in Nat /\ DirHolds(r)
          /\ proc[r].pc \in InDir /\ dirs[r] # NoDir => now < dirs[r].made + MaxRunTime[proc[r].run]
      BY <1>18, <2>1 DEF Tick, LedgerStays, FilesStay
    <3>2. proc[r].pc \in InDir => proc[r].run \in Runs
      BY DEF RowsOK
    <3>3. dirs[r].made \in Nat
      BY DEF DirRow
    <3>4. proc[r].pc \in InDir /\ dirs[r] # NoDir => now + 1 <= dirs[r].made + MaxRunTime[proc[r].run]
      BY <3>1, <3>2, <3>3
    <3> QED
      BY <3>1, <3>4
  <2> QED
    BY <2>1
<1>19. CASE HostStays
  BY <1>19 DEF HostStays, LedgerStays, FilesStay
<1> QED
  BY <1>1, <1>2, <1>3, <1>4, <1>5, <1>6, <1>7, <1>8, <1>9,
     <1>10, <1>11, <1>12, <1>13, <1>14, <1>15, <1>16, <1>17, <1>18, <1>19, <1>20 DEF HostStep, Step

LEMMA WorkAccountStep ==
  ASSUME TypeOK, RowsOK, WorkAccount, RegisteredForItself, HostStep
  PROVE  WorkAccount'
<1> USE RunnerAssumptions DEF Moves, Keeps, Ends, Others, Host, WorkAccount
<1>1. ASSUME NEW r \in Runners, NEW run \in Runs, Begin(r, run)
      PROVE  WorkAccount'
  BY <1>1, BeginEffect
<1>2. ASSUME NEW r \in Runners, Acquire(r)
      PROVE  WorkAccount'
  BY <1>2, AcquireEffect
<1>3. ASSUME NEW r \in Runners, LockLedger(r)
      PROVE  WorkAccount'
  BY <1>3, LockLedgerEffect
<1>4. ASSUME NEW r \in Runners, PruneLedger(r)
      PROVE  WorkAccount'
  BY <1>4, PruneLedgerEffect
<1>5. ASSUME NEW r \in Runners, CreateMarker(r)
      PROVE  WorkAccount'
  BY <1>5, CreateMarkerEffect
<1>6. ASSUME NEW r \in Runners, WriteMarker(r)
      PROVE  WorkAccount'
  <2>1. Others(r) /\ proc'[r].pc \in {"sync", "finish"}
    BY <1>6, WriteMarkerEffect
  <2> QED
    BY <2>1
<1>7. ASSUME NEW r \in Runners, SyncLedger(r)
      PROVE  WorkAccount'
  BY <1>7, SyncLedgerEffect
<1>8. ASSUME NEW r \in Runners, Authorize(r) \/ Current(r)
      PROVE  WorkAccount'
  BY <1>8, AuthorizeEffect, CurrentEffect
<1>9. ASSUME NEW r \in Runners, Prepare(r) \/ CreateDeadline(r) \/ WriteDeadline(r)
      PROVE  WorkAccount'
  BY <1>9, PrepareEffect, DeadlineEffect
<1>10. ASSUME NEW r \in Runners, Load(r)
      PROVE  WorkAccount'
  <2>1. proc[r].run \in Runs
    BY <1>10, LoadEffect DEF RowsOK
  <2>2. /\ Root(proc[r].run) \in Generations \cup {Legacy}
        /\ Registered(account[Root(proc[r].run)]) =>
             account[Root(proc[r].run)].eab = EABOf(Root(proc[r].run))
    BY <2>1 DEF Root, RegisteredForItself, EABOf
  <2> QED
    BY <1>10, <2>2, LoadEffect
<1>11. ASSUME NEW r \in Runners, LegoEnds(r)
      PROVE  WorkAccount'
  <2>1. proc[r].run \in Runs
    BY <1>11, LegoEndsEffect DEF RowsOK
  <2> DEFINE run == proc[r].run
             work == proc[r].work
             after == proc'[r].work
  <2>2. /\ Registered(work) => work.eab = EABOf(Root(run))
        /\ Provisioning(run) => Payload[run].account = Root(run)
        /\ ~Provisioning(run) /\ Root(run) # Legacy => Registered(work)
    BY <1>11, LegoEndsEffect
  <2>3. Provisioning(run) => Root(run) # Legacy
    BY DEF Provisioning, Root
  <2>4. Registered(work) \/ LegoEAB(run) = EABOf(Root(run))
    BY <2>2, <2>3 DEF LegoEAB, EABOf
  <2>5. ~Registered(AccountKey) /\ ~Registered(NoAccount) /\ Registration(LegoEAB(run)).eab = LegoEAB(run)
    BY DEF Registered, AccountKey, NoAccount, Registration
  <2>6. Registered(after) => after.eab = EABOf(Root(run))
    BY <1>11, <2>2, <2>4, <2>5, LegoEndsEffect
  <2>7. Registered(work) => Registered(after) \/ after = NoAccount
    BY <1>11, LegoEndsEffect
  <2> QED
    BY <1>11, <2>2, <2>6, <2>7, LegoEndsEffect
<1>12. ASSUME NEW r \in Runners, Persist(r)
      PROVE  WorkAccount'
  <2>1. Others(r) /\ proc'[r].pc \notin {"lego", "persist"}
    BY <1>12, PersistEffect
  <2> QED
    BY <2>1
<1>13. ASSUME NEW r \in Runners, Confirm(r) \/ Outcome(r)
      PROVE  WorkAccount'
  BY <1>13, ConfirmEffect, OutcomeEffect
<1>14. ASSUME NEW r \in Runners, Put(r) \/ Finish(r)
      PROVE  WorkAccount'
  BY <1>14, PutEffect, FinishEffect
<1>15. ASSUME NEW r \in Runners, Terminate(r)
      PROVE  WorkAccount'
  BY <1>15, TerminateEffect
<1>16. ASSUME NEW r \in Runners, Die(r)
      PROVE  WorkAccount'
  BY <1>16, DieEffect
<1>17. ASSUME NEW r \in Runners, Replace(r)
      PROVE  WorkAccount'
  BY <1>17, ReplaceEffect
<1>18. CASE Tick
  BY <1>18 DEF Tick, LedgerStays, FilesStay
<1>19. CASE HostStays
  BY <1>19 DEF HostStays, LedgerStays, FilesStay
<1> QED
  BY <1>1, <1>2, <1>3, <1>4, <1>5, <1>6, <1>7, <1>8, <1>9,
     <1>10, <1>11, <1>12, <1>13, <1>14, <1>15, <1>16, <1>17, <1>18, <1>19 DEF HostStep, Step

LEMMA RegisteredStep ==
  ASSUME TypeOK, RowsOK, WorkAccount, RegisteredForItself, HostStep
  PROVE  RegisteredForItself'
<1> USE RunnerAssumptions DEF Moves, Keeps, Ends, Others, Host, TypeOK, RegisteredForItself
<1>1. ASSUME NEW r \in Runners, NEW run \in Runs, Begin(r, run)
      PROVE  RegisteredForItself'
  BY <1>1, BeginEffect
<1>2. ASSUME NEW r \in Runners, Acquire(r)
      PROVE  RegisteredForItself'
  BY <1>2, AcquireEffect
<1>3. ASSUME NEW r \in Runners, LockLedger(r)
      PROVE  RegisteredForItself'
  BY <1>3, LockLedgerEffect
<1>4. ASSUME NEW r \in Runners, PruneLedger(r)
      PROVE  RegisteredForItself'
  BY <1>4, PruneLedgerEffect
<1>5. ASSUME NEW r \in Runners, CreateMarker(r)
      PROVE  RegisteredForItself'
  BY <1>5, CreateMarkerEffect
<1>6. ASSUME NEW r \in Runners, WriteMarker(r)
      PROVE  RegisteredForItself'
  BY <1>6, WriteMarkerEffect
<1>7. ASSUME NEW r \in Runners, SyncLedger(r)
      PROVE  RegisteredForItself'
  BY <1>7, SyncLedgerEffect
<1>8. ASSUME NEW r \in Runners, Authorize(r) \/ Current(r)
      PROVE  RegisteredForItself'
  BY <1>8, AuthorizeEffect, CurrentEffect
<1>9. ASSUME NEW r \in Runners, Prepare(r) \/ CreateDeadline(r) \/ WriteDeadline(r)
      PROVE  RegisteredForItself'
  BY <1>9, PrepareEffect, DeadlineEffect
<1>10. ASSUME NEW r \in Runners, Load(r)
      PROVE  RegisteredForItself'
  BY <1>10, LoadEffect
<1>11. ASSUME NEW r \in Runners, LegoEnds(r)
      PROVE  RegisteredForItself'
  BY <1>11, LegoEndsEffect
<1>12. ASSUME NEW r \in Runners, Persist(r)
      PROVE  RegisteredForItself'
  <2>1. proc[r].run \in Runs
    BY <1>12, PersistEffect DEF RowsOK
  <2> DEFINE root == Root(proc[r].run)
  <2>2. root \in Generations \cup {Legacy}
    BY <2>1 DEF Root
  <2>3. \/ UNCHANGED account
        \/ account' = [account EXCEPT ![root] = proc[r].work]
    BY <1>12, PersistEffect
  <2>4. Registered(proc[r].work) => proc[r].work.eab = EABOf(root)
    BY <1>12, PersistEffect DEF WorkAccount
  <2> HIDE DEF root
  <2> QED
    BY <2>2, <2>3, <2>4 DEF EABOf
<1>13. ASSUME NEW r \in Runners, Confirm(r) \/ Outcome(r)
      PROVE  RegisteredForItself'
  BY <1>13, ConfirmEffect, OutcomeEffect
<1>14. ASSUME NEW r \in Runners, Put(r) \/ Finish(r)
      PROVE  RegisteredForItself'
  BY <1>14, PutEffect, FinishEffect
<1>15. ASSUME NEW r \in Runners, Terminate(r)
      PROVE  RegisteredForItself'
  BY <1>15, TerminateEffect
<1>16. ASSUME NEW r \in Runners, Die(r)
      PROVE  RegisteredForItself'
  BY <1>16, DieEffect
<1>17. ASSUME NEW r \in Runners, Replace(r)
      PROVE  RegisteredForItself'
  BY <1>17, ReplaceEffect
<1>18. CASE Tick
  BY <1>18 DEF Tick, LedgerStays, FilesStay
<1>19. CASE HostStays
  BY <1>19 DEF HostStays, LedgerStays, FilesStay
<1> QED
  BY <1>1, <1>2, <1>3, <1>4, <1>5, <1>6, <1>7, <1>8, <1>9,
     <1>10, <1>11, <1>12, <1>13, <1>14, <1>15, <1>16, <1>17, <1>18, <1>19 DEF HostStep, Step

\* A registered generation stays registered.
LEMMA GenerationStays ==
  ASSUME TypeOK, RowsOK, WorkAccount, HostStep
  PROVE  \A g \in Generations : Registered(account[g]) => Registered(account'[g])
<1> USE RunnerAssumptions DEF Moves, Keeps, Ends, Others, Host, TypeOK
<1>1. ASSUME NEW r \in Runners, NEW run \in Runs, Begin(r, run)
      PROVE  \A g \in Generations : Registered(account[g]) => Registered(account'[g])
  BY <1>1, BeginEffect
<1>2. ASSUME NEW r \in Runners, Acquire(r)
      PROVE  \A g \in Generations : Registered(account[g]) => Registered(account'[g])
  BY <1>2, AcquireEffect
<1>3. ASSUME NEW r \in Runners, LockLedger(r)
      PROVE  \A g \in Generations : Registered(account[g]) => Registered(account'[g])
  BY <1>3, LockLedgerEffect
<1>4. ASSUME NEW r \in Runners, PruneLedger(r)
      PROVE  \A g \in Generations : Registered(account[g]) => Registered(account'[g])
  BY <1>4, PruneLedgerEffect
<1>5. ASSUME NEW r \in Runners, CreateMarker(r)
      PROVE  \A g \in Generations : Registered(account[g]) => Registered(account'[g])
  BY <1>5, CreateMarkerEffect
<1>6. ASSUME NEW r \in Runners, WriteMarker(r)
      PROVE  \A g \in Generations : Registered(account[g]) => Registered(account'[g])
  BY <1>6, WriteMarkerEffect
<1>7. ASSUME NEW r \in Runners, SyncLedger(r)
      PROVE  \A g \in Generations : Registered(account[g]) => Registered(account'[g])
  BY <1>7, SyncLedgerEffect
<1>8. ASSUME NEW r \in Runners, Authorize(r) \/ Current(r)
      PROVE  \A g \in Generations : Registered(account[g]) => Registered(account'[g])
  BY <1>8, AuthorizeEffect, CurrentEffect
<1>9. ASSUME NEW r \in Runners, Prepare(r) \/ CreateDeadline(r) \/ WriteDeadline(r)
      PROVE  \A g \in Generations : Registered(account[g]) => Registered(account'[g])
  BY <1>9, PrepareEffect, DeadlineEffect
<1>10. ASSUME NEW r \in Runners, Load(r)
      PROVE  \A g \in Generations : Registered(account[g]) => Registered(account'[g])
  BY <1>10, LoadEffect
<1>11. ASSUME NEW r \in Runners, LegoEnds(r)
      PROVE  \A g \in Generations : Registered(account[g]) => Registered(account'[g])
  BY <1>11, LegoEndsEffect
<1>12. ASSUME NEW r \in Runners, Persist(r)
      PROVE  \A g \in Generations : Registered(account[g]) => Registered(account'[g])
  <2>1. proc[r].run \in Runs
    BY <1>12, PersistEffect DEF RowsOK
  <2> DEFINE root == Root(proc[r].run)
  <2>2. root \in Generations \cup {Legacy}
    BY <2>1 DEF Root
  <2>3. \/ UNCHANGED account
        \/ /\ account' = [account EXCEPT ![root] = proc[r].work]
           /\ Provisioning(proc[r].run) => Registered(proc[r].work)
           /\ proc[r].work # NoAccount
    BY <1>12, PersistEffect DEF Registered, NoAccount
  <2>4. root # Legacy /\ ~Provisioning(proc[r].run) => Registered(proc[r].work) \/ proc[r].work = NoAccount
    BY <1>12, PersistEffect DEF WorkAccount
  <2> HIDE DEF root
  <2> QED
    BY <2>2, <2>3, <2>4
<1>13. ASSUME NEW r \in Runners, Confirm(r) \/ Outcome(r)
      PROVE  \A g \in Generations : Registered(account[g]) => Registered(account'[g])
  BY <1>13, ConfirmEffect, OutcomeEffect
<1>14. ASSUME NEW r \in Runners, Put(r) \/ Finish(r)
      PROVE  \A g \in Generations : Registered(account[g]) => Registered(account'[g])
  BY <1>14, PutEffect, FinishEffect
<1>15. ASSUME NEW r \in Runners, Terminate(r)
      PROVE  \A g \in Generations : Registered(account[g]) => Registered(account'[g])
  BY <1>15, TerminateEffect
<1>16. ASSUME NEW r \in Runners, Die(r)
      PROVE  \A g \in Generations : Registered(account[g]) => Registered(account'[g])
  BY <1>16, DieEffect
<1>17. ASSUME NEW r \in Runners, Replace(r)
      PROVE  \A g \in Generations : Registered(account[g]) => Registered(account'[g])
  BY <1>17, ReplaceEffect
<1>18. CASE Tick
  BY <1>18 DEF Tick, LedgerStays, FilesStay
<1>19. CASE HostStays
  BY <1>19 DEF HostStays, LedgerStays, FilesStay
<1> QED
  BY <1>1, <1>2, <1>3, <1>4, <1>5, <1>6, <1>7, <1>8, <1>9,
     <1>10, <1>11, <1>12, <1>13, <1>14, <1>15, <1>16, <1>17, <1>18, <1>19 DEF HostStep, Step

LEMMA FaultsGrow ==
  ASSUME TypeOK, RowsOK, HostStep
  PROVE  faults' = 0 => faults = 0
<1>1. Fails \/ UNCHANGED faults
  <2>1. ASSUME NEW r \in Runners, NEW run \in Runs, Begin(r, run)
        PROVE  UNCHANGED faults
    BY <2>1, BeginEffect
  <2>2. ASSUME NEW r \in Runners, Step(r)
        PROVE  Fails \/ UNCHANGED faults
    BY <2>2, AcquireEffect, LockLedgerEffect, PruneLedgerEffect, CreateMarkerEffect,
       WriteMarkerEffect, SyncLedgerEffect, AuthorizeEffect, CurrentEffect, PrepareEffect,
       DeadlineEffect, LoadEffect,
       LegoEndsEffect, PersistEffect, ConfirmEffect, OutcomeEffect, PutEffect, FinishEffect DEF Step, Works
  <2>3. ASSUME NEW r \in Runners, Terminate(r) \/ Die(r) \/ Replace(r)
        PROVE  UNCHANGED faults
    BY <2>3, TerminateEffect, DieEffect, ReplaceEffect
  <2> QED
    BY <2>1, <2>2, <2>3 DEF HostStep, Tick, HostStays
<1> QED
  BY <1>1, RunnerAssumptions DEF Fails, TypeOK

\* Of the rows only the acting Runner's changes, and what is published stays.
LEMMA ReportedRow ==
  ASSUME TypeOK, RowsOK, WorkAccount, Reported, HostStep, NEW q \in Runners,
         proc'[q].run = proc[q].run, proc'[q].ap = proc[q].ap,
         proc'[q].pc = "confirm" => proc[q].pc = "confirm",
         proc'[q].pc \in {"outcome", "put"} =>
           proc[q].pc \in {"outcome", "put"} /\ proc'[q].work = proc[q].work
  PROVE  /\ proc'[q].pc = "confirm" => Provisioning(proc'[q].run) /\ Registered(account'[Root(proc'[q].run)])
         /\ proc'[q].ap # "none" => Provisioning(proc'[q].run)
         /\ proc'[q].ap = "registered" => Registered(account'[Root(proc'[q].run)])
         /\ /\ proc'[q].pc \in {"outcome", "put"} /\ Root(proc'[q].run) # Legacy
            /\ Registered(proc'[q].work) /\ faults' = 0
            => Registered(account'[Root(proc'[q].run)])
<1>1. Provisioning(proc[q].run) => Root(proc[q].run) \in Generations
  BY RunnerAssumptions DEF Provisioning, Root
<1>2. proc[q].run \in Runs => Root(proc[q].run) \in Generations \cup {Legacy}
  BY RunnerAssumptions DEF Root
<1>3. proc[q].pc # "idle" => proc[q].run \in Runs
  BY DEF RowsOK
<1>4. \A g \in Generations : Registered(account[g]) => Registered(account'[g])
  BY GenerationStays
<1>5. faults' = 0 => faults = 0
  BY FaultsGrow
<1> QED
  BY <1>1, <1>2, <1>3, <1>4, <1>5 DEF Reported

LEMMA ReportedStep ==
  ASSUME TypeOK, RowsOK, WorkAccount, Reported, HostStep
  PROVE  Reported'
<1> USE RunnerAssumptions DEF Moves, Keeps, Ends, Others, Host
<1>1. ASSUME NEW r \in Runners, NEW run \in Runs, Begin(r, run)
      PROVE  Reported'
  <2>1. ASSUME NEW q \in Runners, q # r
        PROVE  proc'[q] = proc[q]
    BY <1>1, <2>1, BeginEffect
  <2>2. proc'[r].pc = "acquire" /\ proc'[r].ap = "none"
    BY <1>1, BeginEffect
  <2> QED
    BY <2>1, <2>2, ReportedRow DEF Reported
<1>2. ASSUME NEW r \in Runners, Acquire(r) \/ LockLedger(r) \/ PruneLedger(r) \/ CreateMarker(r) \/ WriteMarker(r)
      PROVE  Reported'
  <2>1. ASSUME NEW q \in Runners
        PROVE  /\ proc'[q].run = proc[q].run /\ proc'[q].ap = proc[q].ap
               /\ proc'[q].pc = "confirm" => proc[q].pc = "confirm"
               /\ proc'[q].pc \in {"outcome", "put"} =>
                    proc[q].pc \in {"outcome", "put"} /\ proc'[q].work = proc[q].work
    BY <1>2, AcquireEffect, LockLedgerEffect, PruneLedgerEffect, CreateMarkerEffect, WriteMarkerEffect
  <2> QED
    BY <2>1, ReportedRow DEF Reported
<1>3. ASSUME NEW r \in Runners, SyncLedger(r) \/ Current(r) \/ Prepare(r) \/ CreateDeadline(r) \/ WriteDeadline(r) \/ Load(r)
      PROVE  Reported'
  <2>1. ASSUME NEW q \in Runners
        PROVE  /\ proc'[q].run = proc[q].run /\ proc'[q].ap = proc[q].ap
               /\ proc'[q].pc = "confirm" => proc[q].pc = "confirm"
               /\ proc'[q].pc \in {"outcome", "put"} =>
                    proc[q].pc \in {"outcome", "put"} /\ proc'[q].work = proc[q].work
    BY <1>3, SyncLedgerEffect, CurrentEffect, PrepareEffect, DeadlineEffect, LoadEffect
  <2> QED
    BY <2>1, ReportedRow DEF Reported
<1>4. ASSUME NEW r \in Runners, Authorize(r)
      PROVE  Reported'
  <2>1. ASSUME NEW q \in Runners, q # r
        PROVE  proc'[q] = proc[q]
    BY <1>4, <2>1, AuthorizeEffect
  <2>2. /\ proc'[r].run = proc[r].run /\ proc'[r].pc \in {"current", "finish"}
        /\ \/ proc'[r].ap = proc[r].ap
           \/ proc'[r].ap = "failed" /\ Provisioning(proc[r].run)
           \/ proc'[r].ap = "none"
    BY <1>4, AuthorizeEffect
  <2>3. UNCHANGED account
    BY <1>4, AuthorizeEffect
  <2> QED
    BY <2>1, <2>2, <2>3, ReportedRow DEF Reported
<1>5. ASSUME NEW r \in Runners, LegoEnds(r)
      PROVE  Reported'
  <2>1. ASSUME NEW q \in Runners
        PROVE  /\ proc'[q].run = proc[q].run /\ proc'[q].ap = proc[q].ap
               /\ proc'[q].pc = "confirm" => proc[q].pc = "confirm"
               /\ proc'[q].pc \in {"outcome", "put"} =>
                    proc[q].pc \in {"outcome", "put"} /\ proc'[q].work = proc[q].work
    BY <1>5, LegoEndsEffect
  <2> QED
    BY <2>1, ReportedRow DEF Reported
<1>6. ASSUME NEW r \in Runners, Persist(r)
      PROVE  Reported'
  <2>1. ASSUME NEW q \in Runners, q # r
        PROVE  proc'[q] = proc[q]
    BY <1>6, <2>1, PersistEffect
  <2> DEFINE run == proc[r].run
             published == account' = [account EXCEPT ![Root(run)] = proc[r].work]
  <2>2. run \in Runs
    BY <1>6, PersistEffect DEF RowsOK
  <2>3. Root(run) \in Generations \cup {Legacy}
    BY <2>2 DEF Root
  <2>4. published => account'[Root(run)] = proc[r].work
    BY <2>3 DEF TypeOK
  <2>5. Fails => faults' # 0
    BY DEF Fails, TypeOK
  <2>6. /\ proc'[r].run = run /\ proc'[r].ap = proc[r].ap
        /\ \/ proc'[r].pc = "confirm" /\ published /\ Provisioning(run) /\ Registered(proc[r].work)
           \/ proc'[r].pc = "outcome" /\ published /\ proc'[r].work = proc[r].work
           \/ proc'[r].pc = "outcome" /\ (Fails \/ ~Registered(proc'[r].work))
    BY <1>6, PersistEffect DEF Registered, NoAccount
  <2>7. Provisioning(run) => Root(run) \in Generations
    BY DEF Provisioning, Root
  <2>8. proc[r].ap = "registered" => Registered(account'[Root(run)])
    BY <2>7, GenerationStays DEF Reported
  <2>9. proc[r].ap # "none" => Provisioning(run)
    BY DEF Reported
  <2> HIDE DEF run, published
  <2>10. ASSUME NEW q \in Runners, q # r
         PROVE  /\ proc'[q].pc = "confirm" =>
                     Provisioning(proc'[q].run) /\ Registered(account'[Root(proc'[q].run)])
                /\ proc'[q].ap # "none" => Provisioning(proc'[q].run)
                /\ proc'[q].ap = "registered" => Registered(account'[Root(proc'[q].run)])
                /\ /\ proc'[q].pc \in {"outcome", "put"} /\ Root(proc'[q].run) # Legacy
                   /\ Registered(proc'[q].work) /\ faults' = 0
                   => Registered(account'[Root(proc'[q].run)])
    BY <2>1, <2>10, ReportedRow
  <2> QED
    BY <2>4, <2>5, <2>6, <2>8, <2>9, <2>10 DEF Reported
<1>7. ASSUME NEW r \in Runners, Confirm(r)
      PROVE  Reported'
  <2>1. ASSUME NEW q \in Runners, q # r
        PROVE  proc'[q] = proc[q]
    BY <1>7, <2>1, ConfirmEffect
  <2>2. /\ proc'[r].run = proc[r].run /\ proc'[r].pc = "outcome" /\ UNCHANGED account
        /\ \/ proc'[r].ap = proc[r].ap
           \/ proc'[r].ap \in {"failed", "registered"}
    BY <1>7, ConfirmEffect
  <2>3. Provisioning(proc[r].run) /\ Registered(account[Root(proc[r].run)])
    BY <1>7, ConfirmEffect DEF Reported
  <2> QED
    BY <2>1, <2>2, <2>3, ReportedRow DEF Reported
<1>8. ASSUME NEW r \in Runners, Outcome(r) \/ Put(r) \/ Finish(r)
      PROVE  Reported'
  <2>1. ASSUME NEW q \in Runners
        PROVE  /\ proc'[q].run = proc[q].run /\ proc'[q].ap = proc[q].ap
               /\ proc'[q].pc = "confirm" => proc[q].pc = "confirm"
               /\ proc'[q].pc \in {"outcome", "put"} =>
                    proc[q].pc \in {"outcome", "put"} /\ proc'[q].work = proc[q].work
    BY <1>8, OutcomeEffect, PutEffect, FinishEffect
  <2> QED
    BY <2>1, ReportedRow DEF Reported
<1>9. ASSUME NEW r \in Runners, Terminate(r)
      PROVE  Reported'
  <2>1. ASSUME NEW q \in Runners
        PROVE  /\ proc'[q].run = proc[q].run /\ proc'[q].ap = proc[q].ap
               /\ proc'[q].pc = "confirm" => proc[q].pc = "confirm"
               /\ proc'[q].pc \in {"outcome", "put"} =>
                    proc[q].pc \in {"outcome", "put"} /\ proc'[q].work = proc[q].work
    BY <1>9, TerminateEffect
  <2> QED
    BY <2>1, ReportedRow DEF Reported
<1>10. ASSUME NEW r \in Runners, Die(r)
      PROVE  Reported'
  <2>1. ASSUME NEW q \in Runners, q # r
        PROVE  proc'[q] = proc[q]
    BY <1>10, <2>1, DieEffect
  <2>2. proc'[r].pc \in {"killed", "idle"} /\ proc'[r].ap = "none"
    BY <1>10, DieEffect
  <2> QED
    BY <2>1, <2>2, ReportedRow DEF Reported
<1>11. ASSUME NEW r \in Runners, Replace(r)
      PROVE  Reported'
  <2>1. ASSUME NEW q \in Runners, q # r
        PROVE  proc'[q] = proc[q]
    BY <1>11, <2>1, ReplaceEffect
  <2>2. proc'[r].pc \in {"killed", "idle"} /\ proc'[r].ap = "none"
    BY <1>11, ReplaceEffect
  <2> QED
    BY <2>1, <2>2, ReportedRow DEF Reported
<1>12. CASE Tick
  BY <1>12 DEF Tick, LedgerStays, FilesStay, Reported
<1>13. CASE HostStays
  BY <1>13 DEF HostStays, LedgerStays, FilesStay, Reported
<1> QED
  BY <1>1, <1>2, <1>3, <1>4, <1>5, <1>6, <1>7, <1>8, <1>9,
     <1>10, <1>11, <1>12, <1>13 DEF HostStep, Step

LEMMA InTimeStep ==
  ASSUME TypeOK, RowsOK, InTime, HostStep
  PROVE  InTime'
<1> USE RunnerAssumptions DEF Moves, Keeps, Ends, Others, Host, TypeOK, InTime
<1>1. ASSUME NEW r \in Runners, NEW run \in Runs, Begin(r, run)
      PROVE  InTime'
  BY <1>1, BeginEffect
<1>2. ASSUME NEW r \in Runners, Acquire(r)
      PROVE  InTime'
  BY <1>2, AcquireEffect
<1>3. ASSUME NEW r \in Runners, LockLedger(r)
      PROVE  InTime'
  BY <1>3, LockLedgerEffect
<1>4. ASSUME NEW r \in Runners, PruneLedger(r)
      PROVE  InTime'
  BY <1>4, PruneLedgerEffect
<1>5. ASSUME NEW r \in Runners, CreateMarker(r)
      PROVE  InTime'
  BY <1>5, CreateMarkerEffect
<1>6. ASSUME NEW r \in Runners, WriteMarker(r)
      PROVE  InTime'
  <2>1. now' = now /\ Others(r) /\ proc'[r].pc \notin {"lock", "prune", "mark"}
    BY <1>6, WriteMarkerEffect
  <2> QED
    BY <2>1
<1>7. ASSUME NEW r \in Runners, SyncLedger(r)
      PROVE  InTime'
  BY <1>7, SyncLedgerEffect
<1>8. ASSUME NEW r \in Runners, Authorize(r) \/ Current(r)
      PROVE  InTime'
  BY <1>8, AuthorizeEffect, CurrentEffect
<1>9. ASSUME NEW r \in Runners, Prepare(r) \/ CreateDeadline(r) \/ WriteDeadline(r)
      PROVE  InTime'
  BY <1>9, PrepareEffect, DeadlineEffect
<1>10. ASSUME NEW r \in Runners, Load(r)
      PROVE  InTime'
  BY <1>10, LoadEffect
<1>11. ASSUME NEW r \in Runners, LegoEnds(r)
      PROVE  InTime'
  BY <1>11, LegoEndsEffect
<1>12. ASSUME NEW r \in Runners, Persist(r)
      PROVE  InTime'
  <2>1. Others(r) /\ proc'[r].pc \in {"confirm", "outcome"} /\ now' = now
    BY <1>12, PersistEffect
  <2> QED
    BY <2>1
<1>13. ASSUME NEW r \in Runners, Confirm(r) \/ Outcome(r)
      PROVE  InTime'
  <2>1. now' = now /\ Others(r) /\ proc'[r].pc \notin {"lock", "prune", "mark"}
    BY <1>13, ConfirmEffect, OutcomeEffect
  <2> QED
    BY <2>1
<1>14. ASSUME NEW r \in Runners, Put(r) \/ Finish(r)
      PROVE  InTime'
  BY <1>14, PutEffect, FinishEffect
<1>15. ASSUME NEW r \in Runners, Terminate(r)
      PROVE  InTime'
  BY <1>15, TerminateEffect
<1>16. ASSUME NEW r \in Runners, Die(r)
      PROVE  InTime'
  BY <1>16, DieEffect
<1>17. ASSUME NEW r \in Runners, Replace(r)
      PROVE  InTime'
  BY <1>17, ReplaceEffect
<1>18. CASE Tick
  <2>1. now' = now + 1 /\ UNCHANGED proc
    BY <1>18 DEF Tick
  <2>2. \A r \in Runners : proc[r].verified \in Nat
    BY DEF RowsOK, ProcRow
  <2> QED
    BY <2>1, <2>2
<1>19. CASE HostStays
  BY <1>19 DEF HostStays, LedgerStays, FilesStay
<1> QED
  BY <1>1, <1>2, <1>3, <1>4, <1>5, <1>6, <1>7, <1>8, <1>9,
     <1>10, <1>11, <1>12, <1>13, <1>14, <1>15, <1>16, <1>17, <1>18, <1>19 DEF HostStep, Step

LEMMA MarkingStep ==
  ASSUME TypeOK, RowsOK, LockHeld, Marking, HostStep
  PROVE  Marking'
<1> USE RunnerAssumptions DEF Moves, Keeps, Ends, Others, Host, TypeOK, LockHeld, Locking, Marking
<1>1. ASSUME NEW r \in Runners, NEW run \in Runs, Begin(r, run)
      PROVE  Marking'
  BY <1>1, BeginEffect
<1>2. ASSUME NEW r \in Runners, Acquire(r)
      PROVE  Marking'
  BY <1>2, AcquireEffect
<1>3. ASSUME NEW r \in Runners, LockLedger(r)
      PROVE  Marking'
  BY <1>3, LockLedgerEffect
<1>4. ASSUME NEW r \in Runners, PruneLedger(r)
      PROVE  Marking'
  <2>1. ASSUME NEW q \in Runners
        PROVE  proc'[q].pc # "write"
    BY <1>4, <2>1, PruneLedgerEffect
  <2> QED
    BY <2>1
<1>5. ASSUME NEW r \in Runners, CreateMarker(r)
      PROVE  Marking'
  <2>1. proc[r].run \in Runs
    BY <1>5, CreateMarkerEffect DEF RowsOK
  <2>2. ASSUME NEW q \in Runners, q # r
        PROVE  proc'[q] = proc[q] /\ proc[q].pc # "write"
    BY <1>5, <2>2, CreateMarkerEffect
  <2> QED
    BY <1>5, <2>1, <2>2, CreateMarkerEffect
<1>6. ASSUME NEW r \in Runners, WriteMarker(r)
      PROVE  Marking'
  <2>1. ASSUME NEW q \in Runners
        PROVE  proc'[q].pc # "write"
    BY <1>6, <2>1, WriteMarkerEffect
  <2> QED
    BY <2>1
<1>7. ASSUME NEW r \in Runners, SyncLedger(r)
      PROVE  Marking'
  BY <1>7, SyncLedgerEffect
<1>8. ASSUME NEW r \in Runners, Authorize(r) \/ Current(r)
      PROVE  Marking'
  BY <1>8, AuthorizeEffect, CurrentEffect
<1>9. ASSUME NEW r \in Runners, Prepare(r) \/ CreateDeadline(r) \/ WriteDeadline(r)
      PROVE  Marking'
  <2>1. Others(r) /\ proc'[r].pc \in {"deadline", "record", "load", "finish"} /\ UNCHANGED marker
    BY <1>9, PrepareEffect, DeadlineEffect
  <2> QED
    BY <2>1
<1>10. ASSUME NEW r \in Runners, Load(r)
      PROVE  Marking'
  BY <1>10, LoadEffect
<1>11. ASSUME NEW r \in Runners, LegoEnds(r)
      PROVE  Marking'
  BY <1>11, LegoEndsEffect
<1>12. ASSUME NEW r \in Runners, Persist(r)
      PROVE  Marking'
  BY <1>12, PersistEffect
<1>13. ASSUME NEW r \in Runners, Confirm(r) \/ Outcome(r)
      PROVE  Marking'
  BY <1>13, ConfirmEffect, OutcomeEffect
<1>14. ASSUME NEW r \in Runners, Put(r) \/ Finish(r)
      PROVE  Marking'
  BY <1>14, PutEffect, FinishEffect
<1>15. ASSUME NEW r \in Runners, Terminate(r)
      PROVE  Marking'
  BY <1>15, TerminateEffect
<1>16. ASSUME NEW r \in Runners, Die(r)
      PROVE  Marking'
  BY <1>16, DieEffect
<1>17. ASSUME NEW r \in Runners, Replace(r)
      PROVE  Marking'
  BY <1>17, ReplaceEffect
<1>18. CASE Tick
  BY <1>18 DEF Tick, LedgerStays, FilesStay
<1>19. CASE HostStays
  BY <1>19 DEF HostStays, LedgerStays, FilesStay
<1> QED
  BY <1>1, <1>2, <1>3, <1>4, <1>5, <1>6, <1>7, <1>8, <1>9,
     <1>10, <1>11, <1>12, <1>13, <1>14, <1>15, <1>16, <1>17, <1>18, <1>19 DEF HostStep, Step

\* A run that is barred stays so: a written marker goes only when its time is over.
LEMMA BarredStep ==
  ASSUME TypeOK, RowsOK, InTime, Marking, NEW u \in Runs, Barred(u), HostStep
  PROVE  Barred(u)'
<1> USE RunnerAssumptions DEF Moves, Keeps, Ends, Others, Host, Barred
<1>1. ASSUME NEW r \in Runners, NEW run \in Runs, Begin(r, run)
      PROVE  Barred(u)'
  BY <1>1, BeginEffect
<1>2. ASSUME NEW r \in Runners, Acquire(r)
      PROVE  Barred(u)'
  BY <1>2, AcquireEffect
<1>3. ASSUME NEW r \in Runners, LockLedger(r)
      PROVE  Barred(u)'
  BY <1>3, LockLedgerEffect
<1>4. ASSUME NEW r \in Runners, PruneLedger(r)
      PROVE  Barred(u)'
  <2>1. /\ now \in Nat /\ proc[r].verified \in Nat /\ proc[r].verified <= now
        /\ Expiry[u] \in Nat /\ now' = now
    BY <1>4, PruneLedgerEffect DEF TypeOK, RowsOK, ProcRow, InTime
  <2>2. marker'[u] = marker[u] \/ (marker[u].there /\ marker[u].age + Skew < proc[r].verified)
    BY <1>4, PruneLedgerEffect
  <2> QED
    BY <2>1, <2>2
<1>5. ASSUME NEW r \in Runners, CreateMarker(r)
      PROVE  Barred(u)'
  <2>1. marker'[u] = marker[u] \/ ~marker[u].there
    BY <1>5, CreateMarkerEffect DEF TypeOK
  <2>2. now' = now
    BY <1>5, CreateMarkerEffect
  <2> QED
    BY <2>1, <2>2
<1>6. ASSUME NEW r \in Runners, WriteMarker(r)
      PROVE  Barred(u)'
  <2>1. marker'[u] = marker[u] \/ ~marker[u].written
    BY <1>6, WriteMarkerEffect DEF TypeOK, Marking
  <2>2. now' = now
    BY <1>6, WriteMarkerEffect
  <2> QED
    BY <2>1, <2>2
<1>7. ASSUME NEW r \in Runners, SyncLedger(r)
      PROVE  Barred(u)'
  BY <1>7, SyncLedgerEffect
<1>8. ASSUME NEW r \in Runners, Authorize(r) \/ Current(r)
      PROVE  Barred(u)'
  BY <1>8, AuthorizeEffect, CurrentEffect
<1>9. ASSUME NEW r \in Runners, Prepare(r) \/ CreateDeadline(r) \/ WriteDeadline(r)
      PROVE  Barred(u)'
  BY <1>9, PrepareEffect, DeadlineEffect
<1>10. ASSUME NEW r \in Runners, Load(r)
      PROVE  Barred(u)'
  BY <1>10, LoadEffect
<1>11. ASSUME NEW r \in Runners, LegoEnds(r)
      PROVE  Barred(u)'
  BY <1>11, LegoEndsEffect
<1>12. ASSUME NEW r \in Runners, Persist(r)
      PROVE  Barred(u)'
  BY <1>12, PersistEffect
<1>13. ASSUME NEW r \in Runners, Confirm(r) \/ Outcome(r)
      PROVE  Barred(u)'
  BY <1>13, ConfirmEffect, OutcomeEffect
<1>14. ASSUME NEW r \in Runners, Put(r) \/ Finish(r)
      PROVE  Barred(u)'
  BY <1>14, PutEffect, FinishEffect
<1>15. ASSUME NEW r \in Runners, Terminate(r)
      PROVE  Barred(u)'
  BY <1>15, TerminateEffect
<1>16. ASSUME NEW r \in Runners, Die(r)
      PROVE  Barred(u)'
  BY <1>16, DieEffect
<1>17. ASSUME NEW r \in Runners, Replace(r)
      PROVE  Barred(u)'
  BY <1>17, ReplaceEffect
<1>18. CASE Tick
  <2>1. now' = now + 1 /\ UNCHANGED marker /\ now \in Nat /\ Expiry[u] \in Nat
    BY <1>18 DEF Tick, LedgerStays, TypeOK
  <2> QED
    BY <2>1
<1>19. CASE HostStays
  BY <1>19 DEF HostStays, LedgerStays, FilesStay
<1> QED
  BY <1>1, <1>2, <1>3, <1>4, <1>5, <1>6, <1>7, <1>8, <1>9,
     <1>10, <1>11, <1>12, <1>13, <1>14, <1>15, <1>16, <1>17, <1>18, <1>19 DEF HostStep, Step

\* Steps that admit nobody and start no lego.
LEMMA AdmissionKept ==
  ASSUME TypeOK, RowsOK, InTime, Marking, Admission, HostStep, UNCHANGED worked,
         \A q \in Runners : Admitting(q)' =>
           /\ Admitting(q) /\ proc'[q].run = proc[q].run
           /\ Admitted(q)' => Admitted(q) \/ Barred(proc[q].run)'
  PROVE  Admission'
<1>1. \A u \in Runs : Barred(u) => Barred(u)'
  BY BarredStep
<1>2. ASSUME NEW q \in Runners, Admitting(q)
      PROVE  proc[q].run \in Runs
  BY <1>2 DEF Admitting, Admitted, RowsOK
<1>3. \A q \in Runners : Admitted(q)' => Admitting(q)'
  BY DEF Admitting
<1> QED
  BY <1>1, <1>2, <1>3 DEF Admission

LEMMA AdmissionStep ==
  ASSUME TypeOK, RowsOK, LockHeld, InTime, Marking, Admission, HostStep
  PROVE  Admission'
<1> USE RunnerAssumptions DEF Moves, Keeps, Ends, Others, Host
<1>1. ASSUME NEW r \in Runners, NEW run \in Runs, Begin(r, run)
      PROVE  Admission'
  <2>1. UNCHANGED worked
    BY <1>1, BeginEffect
  <2>2. ASSUME NEW q \in Runners, Admitting(q)'
        PROVE  Admitting(q) /\ proc'[q].run = proc[q].run /\ (Admitted(q)' => Admitted(q))
    BY <1>1, <2>2, BeginEffect DEF Admitting, Admitted
  <2> QED
    BY <2>1, <2>2, AdmissionKept
<1>2. ASSUME NEW r \in Runners, Acquire(r) \/ LockLedger(r)
      PROVE  Admission'
  <2>1. UNCHANGED worked
    BY <1>2, AcquireEffect, LockLedgerEffect
  <2>2. ASSUME NEW q \in Runners, Admitting(q)'
        PROVE  Admitting(q) /\ proc'[q].run = proc[q].run /\ (Admitted(q)' => Admitted(q))
    BY <1>2, <2>2, AcquireEffect, LockLedgerEffect DEF Admitting, Admitted
  <2> QED
    BY <2>1, <2>2, AdmissionKept
<1>3. ASSUME NEW r \in Runners, PruneLedger(r)
      PROVE  Admission'
  <2>1. UNCHANGED worked
    BY <1>3, PruneLedgerEffect
  <2>2. ASSUME NEW q \in Runners, Admitting(q)'
        PROVE  Admitting(q) /\ proc'[q].run = proc[q].run /\ (Admitted(q)' => Admitted(q))
    BY <1>3, <2>2, PruneLedgerEffect DEF Admitting, Admitted
  <2> QED
    BY <2>1, <2>2, AdmissionKept
<1>4. ASSUME NEW r \in Runners, CreateMarker(r)
      PROVE  Admission'
  <2> DEFINE run == proc[r].run
  <2>1. UNCHANGED worked /\ Others(r) /\ proc'[r].run = run /\ proc'[r].pc \in {"write", "finish"}
    BY <1>4, CreateMarkerEffect
  <2>2. ASSUME NEW q \in Runners, q # r, Admitting(q)'
        PROVE  Admitting(q) /\ proc'[q].run = proc[q].run /\ (Admitted(q)' => Admitted(q))
    BY <2>1, <2>2 DEF Admitting, Admitted
  <2>3. CASE ~Admitting(r)'
    <3>1. \A q \in Runners : Admitting(q)' =>
            Admitting(q) /\ proc'[q].run = proc[q].run /\ (Admitted(q)' => Admitted(q))
      BY <2>2, <2>3
    <3> QED
      BY <2>1, <3>1, AdmissionKept
  <2>4. CASE Admitting(r)'
    <3>1. proc'[r].pc = "write" /\ proc'[r].prompt
      BY <2>1, <2>4 DEF Admitting, Admitted
    <3>2. /\ now <= proc[r].verified + Skew /\ ~marker[run].there /\ proc[r].pc = "mark"
          /\ ~Admitted(r)'
      BY <1>4, <3>1, CreateMarkerEffect DEF Admitted
    <3>3. run \in Runs /\ proc[r].verified \in Nat /\ Expiry[run] \in Nat /\ now \in Nat
      BY <3>2 DEF RowsOK, ProcRow, TypeOK
    <3>4. ~Barred(run)
      BY <3>2, <3>3 DEF Barred, InTime
    <3>5. worked[run] = 0
      BY <3>3, <3>4 DEF Admission
    <3>6. ASSUME NEW q \in Runners, q # r, Admitting(q)
          PROVE  proc[q].run # run
      <4>1. proc[q].pc # "write"
        BY <3>2, <3>6 DEF LockHeld, Locking
      <4> QED
        BY <3>4, <3>6, <4>1 DEF Admission, Admitting
    <3>7. \A u \in Runs : Barred(u) => Barred(u)'
      BY BarredStep
    <3>8. ASSUME NEW q \in Runners, Admitting(q)
          PROVE  proc[q].run \in Runs
      BY <3>8 DEF Admitting, Admitted, RowsOK
    <3>9. \A q \in Runners : Admitted(q)' => Admitting(q)'
      BY DEF Admitting
    <3> HIDE DEF run
    <3> QED
      BY <2>1, <2>2, <3>2, <3>5, <3>6, <3>7, <3>8, <3>9 DEF Admission
  <2> QED
    BY <2>3, <2>4
<1>5. ASSUME NEW r \in Runners, WriteMarker(r)
      PROVE  Admission'
  <2>1. UNCHANGED worked
    BY <1>5, WriteMarkerEffect
  <2>2. proc[r].run \in Runs
    BY <1>5, WriteMarkerEffect DEF RowsOK
  <2>3. proc'[r].pc = "sync" => Barred(proc[r].run)'
    <3>1. proc'[r].run = proc[r].run
      BY <1>5, WriteMarkerEffect
    <3>2. proc'[r].pc = "sync" => marker' = [marker EXCEPT ![proc[r].run] =
            [there |-> TRUE, written |-> TRUE, age |-> Expiry[proc[r].run]]]
      BY <1>5, WriteMarkerEffect
    <3>3. proc'[r].pc = "sync" => marker'[proc[r].run] =
            [there |-> TRUE, written |-> TRUE, age |-> Expiry[proc[r].run]]
      BY <2>2, <3>2 DEF TypeOK
    <3> QED
      BY <3>1, <3>3 DEF Barred
  <2>4. ASSUME NEW q \in Runners, Admitting(q)'
        PROVE  /\ Admitting(q) /\ proc'[q].run = proc[q].run
               /\ Admitted(q)' => Admitted(q) \/ Barred(proc[q].run)'
    <3>1. CASE q = r
      BY <1>5, <2>3, <2>4, <3>1, WriteMarkerEffect DEF Admitting, Admitted
    <3>2. CASE q # r
      BY <1>5, <2>4, <3>2, WriteMarkerEffect DEF Admitting, Admitted
    <3> QED
      BY <3>1, <3>2
  <2> QED
    BY <2>1, <2>4, AdmissionKept
<1>6. ASSUME NEW r \in Runners, SyncLedger(r)
      PROVE  Admission'
  <2>1. UNCHANGED worked
    BY <1>6, SyncLedgerEffect
  <2>2. ASSUME NEW q \in Runners, Admitting(q)'
        PROVE  Admitting(q) /\ proc'[q].run = proc[q].run /\ (Admitted(q)' => Admitted(q))
    BY <1>6, <2>2, SyncLedgerEffect DEF Admitting, Admitted
  <2> QED
    BY <2>1, <2>2, AdmissionKept
<1>7. ASSUME NEW r \in Runners, Authorize(r) \/ Current(r) \/ Prepare(r) \/ CreateDeadline(r) \/ WriteDeadline(r)
      PROVE  Admission'
  <2>1. UNCHANGED worked
    BY <1>7, AuthorizeEffect, CurrentEffect, PrepareEffect, DeadlineEffect
  <2>2. ASSUME NEW q \in Runners, Admitting(q)'
        PROVE  Admitting(q) /\ proc'[q].run = proc[q].run /\ (Admitted(q)' => Admitted(q))
    BY <1>7, <2>2, AuthorizeEffect, CurrentEffect, PrepareEffect, DeadlineEffect DEF Admitting, Admitted
  <2> QED
    BY <2>1, <2>2, AdmissionKept
<1>8. ASSUME NEW r \in Runners, Load(r)
      PROVE  Admission'
  <2> DEFINE run == proc[r].run
  <2>1. Others(r) /\ proc'[r].pc \in {"lego", "finish"} /\ proc[r].pc = "load" /\ run \in Runs
    BY <1>8, LoadEffect DEF RowsOK
  <2>2. ~Admitting(r)'
    BY <2>1 DEF Admitting, Admitted
  <2>3. ASSUME NEW q \in Runners, Admitting(q)'
        PROVE  Admitting(q) /\ q # r /\ proc'[q].run = proc[q].run /\ (Admitted(q)' => Admitted(q))
    BY <2>1, <2>2, <2>3 DEF Admitting, Admitted
  <2>4. CASE UNCHANGED worked
    BY <2>3, <2>4, AdmissionKept
  <2>5. CASE worked' = [worked EXCEPT ![run] = @ + (IF proc[r].prompt THEN 1 ELSE 0)]
    <3>1. CASE ~proc[r].prompt
      <4>1. UNCHANGED worked
        BY <2>1, <2>5, <3>1 DEF TypeOK
      <4> QED
        BY <2>3, <4>1, AdmissionKept
    <3>2. CASE proc[r].prompt
      <4>1. Admitted(r) /\ Admitting(r)
        BY <2>1, <3>2 DEF Admitting, Admitted
      <4>2. worked[run] = 0 /\ Barred(run)
        BY <4>1 DEF Admission
      <4>3. worked'[run] = 1 /\ \A u \in Runs : u # run => worked'[u] = worked[u]
        BY <2>1, <2>5, <3>2, <4>2 DEF TypeOK
      <4>4. \A u \in Runs : Barred(u) => Barred(u)'
        BY BarredStep
      <4>5. ASSUME NEW q \in Runners, Admitting(q), q # r
            PROVE  proc[q].run \in Runs /\ proc[q].run # run
        BY <4>1, <4>5 DEF Admission, Admitting, Admitted, RowsOK
      <4>6. \A q \in Runners : Admitted(q)' => Admitting(q)'
        BY DEF Admitting
      <4> HIDE DEF run
      <4> QED
        BY <2>1, <2>3, <4>2, <4>3, <4>4, <4>5, <4>6 DEF Admission
    <3> QED
      BY <3>1, <3>2
  <2> QED
    BY <1>8, <2>4, <2>5, LoadEffect
<1>9. ASSUME NEW r \in Runners, LegoEnds(r) \/ Persist(r) \/ Confirm(r)
      PROVE  Admission'
  <2>1. UNCHANGED worked
    BY <1>9, LegoEndsEffect, PersistEffect, ConfirmEffect
  <2>2. ASSUME NEW q \in Runners, Admitting(q)'
        PROVE  Admitting(q) /\ proc'[q].run = proc[q].run /\ (Admitted(q)' => Admitted(q))
    BY <1>9, <2>2, LegoEndsEffect, PersistEffect, ConfirmEffect DEF Admitting, Admitted
  <2> QED
    BY <2>1, <2>2, AdmissionKept
<1>10. ASSUME NEW r \in Runners, Outcome(r) \/ Put(r) \/ Finish(r)
      PROVE  Admission'
  <2>1. UNCHANGED worked
    BY <1>10, OutcomeEffect, PutEffect, FinishEffect
  <2>2. ASSUME NEW q \in Runners, Admitting(q)'
        PROVE  Admitting(q) /\ proc'[q].run = proc[q].run /\ (Admitted(q)' => Admitted(q))
    BY <1>10, <2>2, OutcomeEffect, PutEffect, FinishEffect DEF Admitting, Admitted
  <2> QED
    BY <2>1, <2>2, AdmissionKept
<1>11. ASSUME NEW r \in Runners, Terminate(r)
      PROVE  Admission'
  <2>1. UNCHANGED worked
    BY <1>11, TerminateEffect
  <2>2. ASSUME NEW q \in Runners, Admitting(q)'
        PROVE  Admitting(q) /\ proc'[q].run = proc[q].run /\ (Admitted(q)' => Admitted(q))
    BY <1>11, <2>2, TerminateEffect DEF Admitting, Admitted
  <2> QED
    BY <2>1, <2>2, AdmissionKept
<1>12. ASSUME NEW r \in Runners, Die(r)
      PROVE  Admission'
  <2>1. UNCHANGED worked
    BY <1>12, DieEffect
  <2>2. ASSUME NEW q \in Runners, Admitting(q)'
        PROVE  Admitting(q) /\ proc'[q].run = proc[q].run /\ (Admitted(q)' => Admitted(q))
    BY <1>12, <2>2, DieEffect DEF Admitting, Admitted
  <2> QED
    BY <2>1, <2>2, AdmissionKept
<1>13. ASSUME NEW r \in Runners, Replace(r)
      PROVE  Admission'
  <2>1. UNCHANGED worked
    BY <1>13, ReplaceEffect
  <2>2. ASSUME NEW q \in Runners, Admitting(q)'
        PROVE  Admitting(q) /\ proc'[q].run = proc[q].run /\ (Admitted(q)' => Admitted(q))
    BY <1>13, <2>2, ReplaceEffect DEF Admitting, Admitted
  <2> QED
    BY <2>1, <2>2, AdmissionKept
<1>14. CASE Tick
  <2>1. UNCHANGED <<worked, proc>>
    BY <1>14 DEF Tick, FilesStay
  <2>2. ASSUME NEW q \in Runners
        PROVE  (Admitting(q)' <=> Admitting(q)) /\ (Admitted(q)' <=> Admitted(q)) /\ proc'[q] = proc[q]
    BY <2>1 DEF Admitting, Admitted
  <2> QED
    BY <2>1, <2>2, AdmissionKept
<1>15. CASE HostStays
  <2>1. UNCHANGED <<worked, proc>>
    BY <1>15 DEF HostStays, FilesStay
  <2>2. ASSUME NEW q \in Runners
        PROVE  (Admitting(q)' <=> Admitting(q)) /\ (Admitted(q)' <=> Admitted(q)) /\ proc'[q] = proc[q]
    BY <2>1 DEF Admitting, Admitted
  <2> QED
    BY <2>1, <2>2, AdmissionKept
<1> QED
  BY <1>1, <1>2, <1>3, <1>4, <1>5, <1>6, <1>7, <1>8, <1>9,
     <1>10, <1>11, <1>12, <1>13, <1>14, <1>15 DEF HostStep, Step

-----------------------------------------------------------------------------
(* Theorems *)

LEMMA InvStep ==
  ASSUME RunnerInv, HostStep, StopsStep
  PROVE  RunnerInv'
BY RowsStep, TypeStep, LockStep, InTimeStep, MarkingStep, AdmissionStep, WorkDirsStep,
   WorkAccountStep, RegisteredStep, ReportedStep DEF RunnerInv

LEMMA InvInit == Init => RunnerInv
<1> SUFFICES ASSUME Init PROVE RunnerInv
  OBVIOUS
<1> USE RunnerAssumptions
<1>1. \A r \in Runners : /\ proc[r] \in ProcRow /\ proc[r].pc = "idle" /\ proc[r].ap = "none"
                         /\ dirs[r] = NoDir
  BY WaitingType DEF Init, Waiting
<1>2. RowsOK
  BY <1>1 DEF Init, RowsOK
<1>3. TypeOK
  BY WaitingType DEF Init, TypeOK, NoMarker, NoAccount, NoDir, AccountRow, DirRow
<1>4. LockHeld /\ InTime /\ Marking /\ WorkDirs /\ WorkAccount /\ Reported
  BY <1>1 DEF LockHeld, InTime, Marking, WorkDirs, DirHolds, InDir, WorkAccount, Reported, Locking, Working
<1>5. \A r \in Runners : ~Admitting(r) /\ ~Admitted(r)
  BY <1>1 DEF Admitting, Admitted
<1>6. Admission
  BY <1>5 DEF Init, Admission
<1>7. RegisteredForItself
  BY DEF Init, RegisteredForItself, Registered, NoAccount
<1> QED
  BY <1>2, <1>3, <1>4, <1>6, <1>7 DEF RunnerInv

LEMMA InvAlways == (Spec => []RunnerInv) /\ (LocalSpec => []RunnerInv)
<1>1. RunnerInv /\ [Next]_vars => RunnerInv'
  BY InvStep, HostTakes
<1>2. RunnerInv /\ [LocalNext]_localVars => RunnerInv'
  BY InvStep, LauncherTakes
<1>3. LocalInit => RunnerInv
  BY InvInit DEF LocalInit
<1> QED
  BY InvInit, <1>1, <1>2, <1>3, PTL DEF Spec, LocalSpec

\* A run is worked on once, however many Runners are given its envelope at whatever
\* time and whichever of them fail or are killed at whatever step, as long as a Runner
\* reaches the ledger within the tolerated skew after it verified the envelope
\* (replay.go): a written marker is pruned only after every such Runner is too late.
THEOREM WorkedOnceCorrect == (Spec => []WorkedOnce) /\ (LocalSpec => []WorkedOnce)
<1>1. RunnerInv => WorkedOnce
  BY DEF RunnerInv, Admission, WorkedOnce
<1> QED
  BY <1>1, InvAlways, PTL

\* The work directory of a Runner is kept while it works in it, whatever timeouts the
\* Runners that sweep meanwhile have, and is removed when it ends on its own: for every
\* choice of timeouts per Runner whose deadline is not shorter than the run time they
\* allow, and but for sweeps that cannot read that deadline (workdir.go
\* sweepStaleWorkDirs, staleAfter).
THEOREM WorkDirCorrect == (Spec => []WorkDirOwned) /\ (LocalSpec => []WorkDirOwned)
<1>1. RunnerInv => WorkDirOwned
  BY DEF RunnerInv, WorkDirs, DirHolds, InDir, WorkDirOwned, Working
<1> QED
  BY <1>1, InvAlways, PTL

\* An account generation is registered with the EAB sealed for it and no other, the
\* legacy account with the binding's (account.go, lego.Build).
THEOREM RegisteredForItselfCorrect ==
  (Spec => []RegisteredForItself) /\ (LocalSpec => []RegisteredForItself)
BY InvAlways, PTL DEF RunnerInv

\* A Runner that reports an account as registered leaves it published, and what lego
\* registered is published before the Runner goes on unless publishing fails.
THEOREM RegisteredIsPublishedCorrect ==
  (Spec => []RegisteredIsPublished) /\ (LocalSpec => []RegisteredIsPublished)
<1>1. RunnerInv => RegisteredIsPublished
  BY DEF RunnerInv, Reported, RegisteredIsPublished
<1> QED
  BY <1>1, InvAlways, PTL

\* No step replaces a registered generation by an unregistered one (account.go,
\* reconcile's persistAccounts): a renewal is only given a registered account, and a
\* provisioning run publishes a registered one only.
THEOREM GenerationCorrect == (Spec => GenerationNeverLost) /\ (LocalSpec => GenerationNeverLost)
<1> DEFINE Kept == \A g \in Generations : Registered(account[g]) => Registered(account'[g])
<1>1. RunnerInv /\ [Next]_vars => [Kept]_vars
  BY HostTakes, GenerationStays DEF RunnerInv
<1>2. RunnerInv /\ [LocalNext]_localVars => [Kept]_vars
  BY LauncherTakes, GenerationStays DEF RunnerInv
<1> QED
  BY <1>1, <1>2, InvAlways, PTL DEF Spec, LocalSpec, GenerationNeverLost

-----------------------------------------------------------------------------
(* The launcher. *)

Apart(r) == \A q \in Runners : q # r => exec'[q] = exec[q]

LEMMA ReportType ==
  ASSUME RowsOK, Executions, NEW r \in Runners
  PROVE  Report(r) \in Reports
<1>1. proc[r] \in ProcRow /\ exec[r].ctx \in {"live", "timeout", "cancelled"}
  BY DEF RowsOK, Executions, ExecRow
<1> QED
  BY <1>1 DEF Report, Reports, ProcRow

\* What the launcher's actions do to the executions.
LEMMA StartEffect ==
  ASSUME RowsOK, Executions, NEW r \in Runners, NEW run \in Runs, Start(r, run)
  PROVE  /\ exec' \in [Runners -> ExecRow] /\ Apart(r)
         /\ exec'[r].is = "running" /\ exec'[r].run = run /\ proc'[r].run = run /\ ~proc'[r].exit0
         /\ run \notin runDirs /\ runDirs' = runDirs \cup {run}
         /\ proc[r].pc = "idle" /\ proc'[r].pc = "acquire" /\ Others(r)
<1> DEFINE e == [NoExec EXCEPT !.is = "running", !.run = run]
<1>1. e \in ExecRow /\ e.is = "running" /\ e.run = run
  BY DEF NoExec, ExecRow, Reports, Outcomes
<1>2. exec' = [exec EXCEPT ![r] = e] /\ run \notin runDirs /\ runDirs' = runDirs \cup {run} /\ Begin(r, run)
  BY DEF Start
<1> HIDE DEF e
<1>3. exec' \in [Runners -> ExecRow] /\ exec'[r] = e /\ Apart(r)
  BY <1>1, <1>2 DEF Executions, Apart
<1> QED
  BY <1>1, <1>2, <1>3, BeginEffect

LEMMA ContextEffect ==
  ASSUME Executions, NEW r \in Runners, EndContext(r)
  PROVE  /\ exec' \in [Runners -> ExecRow] /\ Apart(r)
         /\ exec[r].is = "running" /\ exec'[r].is = exec[r].is /\ exec'[r].run = exec[r].run
         /\ UNCHANGED runDirs
<1>1. PICK ctx \in {"timeout", "cancelled"}, cut \in BOOLEAN :
        exec' = [exec EXCEPT ![r].ctx = ctx, ![r].cut = cut]
  BY DEF EndContext
<1>2. exec[r] \in ExecRow /\ exec[r].is = "running" /\ UNCHANGED runDirs
  BY DEF EndContext, Executions
<1> DEFINE e == [exec[r] EXCEPT !.ctx = ctx, !.cut = cut]
<1>3. e \in ExecRow /\ e.is = exec[r].is /\ e.run = exec[r].run
  BY <1>2 DEF ExecRow
<1>4. exec' = [exec EXCEPT ![r] = e]
  BY <1>1 DEF Executions
<1> HIDE DEF e
<1> QED
  BY <1>2, <1>3, <1>4 DEF Executions, Apart

LEMMA WaitEffect ==
  ASSUME RowsOK, Executions, NEW r \in Runners, Wait(r)
  PROVE  /\ exec' \in [Runners -> ExecRow] /\ Apart(r)
         /\ exec[r].is = "running" /\ Ended(r) /\ UNCHANGED proc
         /\ exec'[r].is = "returned" /\ exec'[r].run = exec[r].run /\ exec'[r].cut = exec[r].cut
         /\ exec'[r].report = Report(r)
         /\ runDirs' = runDirs \ {exec[r].run}
<1>1. Report(r) \in Reports
  BY ReportType
<1>2. /\ exec' = [exec EXCEPT ![r].is = "returned", ![r].report = Report(r)]
      /\ exec[r].is = "running" /\ Ended(r) /\ UNCHANGED proc /\ runDirs' = runDirs \ {exec[r].run}
  BY DEF Wait, Return, vars
<1> QED
  BY <1>1, <1>2 DEF Executions, ExecRow, Apart

LEMMA ForgetEffect ==
  ASSUME RowsOK, Executions, NEW r \in Runners, Forget(r)
  PROVE  /\ exec' \in [Runners -> ExecRow] /\ Apart(r)
         /\ exec'[r].is = "none" /\ UNCHANGED runDirs
         /\ proc'[r].pc = "idle" /\ ~proc'[r].exit0 /\ Others(r)
<1>1. NoExec \in ExecRow /\ NoExec.is = "none"
  BY DEF NoExec, ExecRow, Reports, Outcomes
<1>2. exec' = [exec EXCEPT ![r] = NoExec] /\ UNCHANGED runDirs /\ Replace(r)
  BY DEF Forget
<1> QED
  BY <1>1, <1>2, ReplaceEffect DEF Executions, Apart

LEMMA DeathEffect ==
  ASSUME Executions, ConductorDies
  PROVE  /\ exec' \in [Runners -> ExecRow] /\ UNCHANGED <<runDirs, proc>>
         /\ \A r \in Runners : /\ Holds(r)' <=> Holds(r)
                               /\ Holds(r) => exec'[r].run = exec[r].run
                               /\ ~Holds(r) => exec'[r] = exec[r]
<1>1. ASSUME NEW r \in Runners
      PROVE  /\ [NoExec EXCEPT !.is = "lost", !.run = exec[r].run] \in ExecRow
             /\ [NoExec EXCEPT !.is = "lost", !.run = exec[r].run].is = "lost"
             /\ [NoExec EXCEPT !.is = "lost", !.run = exec[r].run].run = exec[r].run
  BY DEF NoExec, ExecRow, Reports, Outcomes, Executions
<1>2. /\ exec' = [r \in Runners |-> IF exec[r].is = "running"
                    THEN [NoExec EXCEPT !.is = "lost", !.run = exec[r].run] ELSE exec[r]]
      /\ UNCHANGED <<runDirs, proc>>
  BY DEF ConductorDies, HostStays
<1> QED
  BY <1>1, <1>2 DEF Executions, Holds

\* A process that goes on by itself does not become idle or come back, and exits with
\* 0 only without a failure.
LEMMA ProcessEffect ==
  ASSUME RowsOK, NEW r \in Runners, Step(r) \/ Terminate(r) \/ Die(r)
  PROVE  /\ ~Ended(r) /\ Others(r) /\ proc'[r].pc # "idle" /\ proc'[r].run = proc[r].run
         /\ \/ proc'[r].exit0 = proc[r].exit0 \/ ~proc'[r].exit0
            \/ proc'[r].pc = "done" /\ proc'[r].result # "failed"
<1> USE DEF Ended, Moves, Keeps, Ends
<1>1. CASE Acquire(r) \/ LockLedger(r) \/ PruneLedger(r) \/ CreateMarker(r) \/ WriteMarker(r) \/ SyncLedger(r)
  BY <1>1, AcquireEffect, LockLedgerEffect, PruneLedgerEffect, CreateMarkerEffect, WriteMarkerEffect,
     SyncLedgerEffect
<1>2. CASE Authorize(r) \/ Current(r) \/ Prepare(r) \/ CreateDeadline(r) \/ WriteDeadline(r) \/ Load(r)
  BY <1>2, AuthorizeEffect, CurrentEffect, PrepareEffect, DeadlineEffect, LoadEffect
<1>3. CASE LegoEnds(r) \/ Persist(r) \/ Confirm(r) \/ Outcome(r) \/ Put(r) \/ Finish(r)
  BY <1>3, LegoEndsEffect, PersistEffect, ConfirmEffect, OutcomeEffect, PutEffect, FinishEffect
<1>4. CASE Terminate(r)
  BY <1>4, TerminateEffect DEF Terminate
<1>5. CASE Die(r)
  BY <1>5, DieEffect
<1> QED
  BY <1>1, <1>2, <1>3, <1>4, <1>5 DEF Step

\* The row of a process that nothing happens to.
LEMMA RowStays ==
  ASSUME NEW q \in Runners, ExecHolds(q), proc'[q] = proc[q], exec'[q] = exec[q]
  PROVE  ExecHolds(q)'
BY DEF ExecHolds, Ended, Told

LEMMA ReportTold ==
  ASSUME NEW r \in Runners, ExecHolds(r), exec[r].is # "none", Accepted(proc[r])
  PROVE  \/ Report(r) = proc[r].result
         \/ exec[r].cut /\ proc[r].result # "failed" /\ Report(r) = "noResult"
<1>1. BuildResult(proc[r]).run = exec[r].run
  BY DEF ExecHolds, BuildResult
<1>2. CASE exec[r].cut /\ proc[r].exit0
  BY <1>2 DEF Report, ExecHolds
<1>3. CASE ~(exec[r].cut /\ proc[r].exit0)
  BY <1>1, <1>3 DEF Report
<1> QED
  BY <1>2, <1>3

\* Each execution and its process stay in step.
LEMMA ExecRowsStep ==
  ASSUME RowsOK, Executions, [LocalNext]_localVars
  PROVE  \A q \in Runners : ExecHolds(q)'
<1> USE DEF Apart, Others
<1>0. \A q \in Runners : ExecHolds(q)
  BY DEF Executions
<1>1. ASSUME NEW r \in Runners, NEW run \in Runs, Start(r, run)
      PROVE  \A q \in Runners : ExecHolds(q)'
  <2>1. ExecHolds(r)'
    BY <1>1, StartEffect DEF ExecHolds
  <2> QED
    BY <1>0, <1>1, <2>1, StartEffect, RowStays
<1>2. ASSUME NEW r \in Runners, NEW run \in Runs, StartByHand(r, run)
      PROVE  \A q \in Runners : ExecHolds(q)'
  <2>1. UNCHANGED exec /\ proc[r].pc = "idle" /\ ~proc'[r].exit0 /\ Others(r)
    BY <1>2, BeginEffect DEF StartByHand
  <2>2. ExecHolds(r)'
    BY <1>0, <2>1 DEF ExecHolds
  <2> QED
    BY <1>0, <2>1, <2>2, RowStays
<1>3. ASSUME NEW r \in Runners, EndContext(r)
      PROVE  \A q \in Runners : ExecHolds(q)'
  <2>1. exec[r].is = "running" /\ exec'[r].is = exec[r].is /\ exec'[r].run = exec[r].run /\ Apart(r)
    BY <1>3, ContextEffect
  <2>2. CASE Terminate(r)
    <3>1. Others(r) /\ proc'[r].pc = proc[r].pc /\ proc'[r].run = proc[r].run /\ proc'[r].exit0 = proc[r].exit0
      BY <2>2, TerminateEffect DEF Moves, Keeps
    <3>2. ~Ended(r)
      BY <2>2 DEF Terminate
    <3>3. ExecHolds(r)'
      BY <1>0, <2>1, <3>1, <3>2 DEF ExecHolds, Ended
    <3> QED
      BY <1>0, <2>1, <3>1, <3>3, RowStays
  <2>3. CASE UNCHANGED proc
    <3>1. ExecHolds(r)'
      BY <1>0, <2>1, <2>3 DEF ExecHolds
    <3> QED
      BY <1>0, <2>1, <2>3, <3>1, RowStays
  <2> QED
    BY <1>3, <2>2, <2>3 DEF EndContext, HostStays
<1>4. ASSUME NEW r \in Runners, KillAfterGrace(r) \/ OnItsOwn(r)
      PROVE  \A q \in Runners : ExecHolds(q)'
  <2>1. /\ UNCHANGED exec /\ ~Ended(r) /\ Others(r) /\ proc'[r].pc # "idle" /\ proc'[r].run = proc[r].run
        /\ \/ proc'[r].exit0 = proc[r].exit0 \/ ~proc'[r].exit0
           \/ proc'[r].pc = "done" /\ proc'[r].result # "failed"
    BY <1>4, ProcessEffect DEF KillAfterGrace, OnItsOwn, Kill
  <2>2. ExecHolds(r)'
    BY <1>0, <2>1 DEF ExecHolds, Ended
  <2> QED
    BY <1>0, <2>1, <2>2, RowStays
<1>5. ASSUME NEW r \in Runners, Wait(r)
      PROVE  \A q \in Runners : ExecHolds(q)'
  <2>1. /\ Apart(r) /\ exec[r].is = "running" /\ Ended(r) /\ UNCHANGED proc
        /\ exec'[r].is = "returned" /\ exec'[r].run = exec[r].run /\ exec'[r].cut = exec[r].cut
        /\ exec'[r].report = Report(r)
    BY <1>5, WaitEffect
  <2>2. Accepted(proc[r]) => Told(r)'
    BY <1>0, <2>1, ReportTold DEF Told
  <2>3. ExecHolds(r)'
    BY <1>0, <2>1, <2>2 DEF ExecHolds, Ended
  <2> QED
    BY <1>0, <2>1, <2>3, RowStays
<1>6. ASSUME NEW r \in Runners, Forget(r)
      PROVE  \A q \in Runners : ExecHolds(q)'
  <2>1. ExecHolds(r)'
    BY <1>6, ForgetEffect DEF ExecHolds
  <2> QED
    BY <1>0, <1>6, <2>1, ForgetEffect, RowStays
<1>7. CASE ConductorDies
  <2>1. UNCHANGED proc
    BY <1>7, DeathEffect
  <2>2. ASSUME NEW q \in Runners
        PROVE  exec'[q] = exec[q] \/ (Holds(q) /\ Holds(q)' /\ exec'[q].run = exec[q].run)
    BY <1>7, <2>2, DeathEffect
  <2>3. ASSUME NEW q \in Runners, Holds(q), Holds(q)', exec'[q].run = exec[q].run
        PROVE  ExecHolds(q)'
    BY <1>0, <2>1, <2>3 DEF ExecHolds, Holds
  <2> QED
    BY <1>0, <2>1, <2>2, <2>3, RowStays
<1>8. CASE UNCHANGED <<proc, exec>>
  BY <1>0, <1>8, RowStays
<1> QED
  BY <1>1, <1>2, <1>3, <1>4, <1>5, <1>6, <1>7, <1>8 DEF LocalNext, localVars, vars, Tick

LEMMA ExecutionsStep ==
  ASSUME RowsOK, Executions, [LocalNext]_localVars
  PROVE  Executions'
<1>0. \A q \in Runners : ExecHolds(q)'
  BY ExecRowsStep
<1> USE DEF Holds, Apart
<1>a. exec \in [Runners -> ExecRow] /\ runDirs \subseteq Runs /\ Held
  BY DEF Executions
<1>b. SUFFICES exec' \in [Runners -> ExecRow] /\ runDirs' \subseteq Runs /\ Held'
  BY <1>0 DEF Executions
<1>1. ASSUME NEW r \in Runners, NEW run \in Runs, Start(r, run)
      PROVE  exec' \in [Runners -> ExecRow] /\ runDirs' \subseteq Runs /\ Held'
  BY <1>a, <1>1, StartEffect DEF Held
<1>3. ASSUME NEW r \in Runners, EndContext(r)
      PROVE  exec' \in [Runners -> ExecRow] /\ runDirs' \subseteq Runs /\ Held'
  BY <1>a, <1>3, ContextEffect DEF Held
<1>5. ASSUME NEW r \in Runners, Wait(r)
      PROVE  exec' \in [Runners -> ExecRow] /\ runDirs' \subseteq Runs /\ Held'
  BY <1>a, <1>5, WaitEffect DEF Held
<1>6. ASSUME NEW r \in Runners, Forget(r)
      PROVE  exec' \in [Runners -> ExecRow] /\ runDirs' \subseteq Runs /\ Held'
  BY <1>a, <1>6, ForgetEffect DEF Held
<1>7. CASE ConductorDies
  <2>1. /\ exec' \in [Runners -> ExecRow] /\ UNCHANGED <<runDirs, proc>>
        /\ \A r \in Runners : /\ Holds(r)' <=> Holds(r)
                              /\ Holds(r) => exec'[r].run = exec[r].run
    BY <1>7, DeathEffect
  <2> QED
    BY <1>a, <2>1 DEF Held
<1>8. CASE UNCHANGED <<exec, runDirs>>
  BY <1>a, <1>8 DEF Held
<1> QED
  BY <1>1, <1>3, <1>5, <1>6, <1>7, <1>8
     DEF LocalNext, StartByHand, KillAfterGrace, OnItsOwn, localVars

LEMMA ExecutionsAlways == LocalSpec => []Executions
<1>1. LocalInit => Executions
  <2> SUFFICES ASSUME LocalInit PROVE Executions
    OBVIOUS
  <2>1. NoExec \in ExecRow /\ NoExec.is = "none" /\ ~Waiting.exit0
    BY DEF NoExec, ExecRow, Reports, Outcomes, Waiting
  <2>2. exec \in [Runners -> ExecRow] /\ runDirs = {} /\ \A r \in Runners : exec[r] = NoExec /\ proc[r] = Waiting
    BY <2>1 DEF LocalInit, Init
  <2> QED
    BY <2>1, <2>2 DEF Executions, ExecHolds, Held, Holds
<1>2. RunnerInv /\ Executions /\ [LocalNext]_localVars => Executions'
  BY ExecutionsStep DEF RunnerInv
<1> QED
  BY <1>1, <1>2, InvAlways, PTL DEF LocalSpec

\* Every variable keeps its type: those of the Runner processes, what each has in
\* hand and its step included, and under the local launcher also its executions and
\* run directories.
THEOREM RunnerTypeCorrect == (Spec => []TypeOK) /\ (LocalSpec => []LocalTypeOK)
<1>1. RunnerInv => TypeOK
  BY DEF RunnerInv
<1>2. RunnerInv /\ Executions => LocalTypeOK
  BY DEF RunnerInv, Executions, LocalTypeOK
<1> QED
  BY <1>1, <1>2, InvAlways, ExecutionsAlways, PTL

\* The run directory of a Runner that the launcher started is that Runner's alone until
\* it has ended (localprocess Start, Wait), also when the Conductor dies and another
\* one starts while the Runner goes on: a directory that exists refuses the run.  And
\* Wait returns the Result of a Runner that delivered one, whatever ended its context
\* meanwhile, unless that Runner succeeded after its context had ended.
THEOREM RunDirCorrect == LocalSpec => []RunDirOwned
<1>1. Executions => RunDirOwned
  <2> SUFFICES ASSUME Executions PROVE RunDirOwned
    OBVIOUS
  <2>1. ASSUME NEW r \in Runners, Launched(r)
        PROVE  Holds(r)
    BY <2>1 DEF Launched, Executions, ExecRow, ExecHolds, Holds
  <2>2. \A r \in Runners : exec[r].is = "returned" /\ Accepted(proc[r]) => Told(r)
    BY DEF Executions, ExecHolds
  <2>3. ASSUME NEW r \in Runners, Launched(r)
        PROVE  exec[r].is # "returned" /\ exec[r].run \in runDirs
    BY <2>1, <2>3 DEF Executions, Held, Holds
  <2>4. ASSUME NEW r \in Runners, NEW q \in Runners \ {r}, Launched(r), Launched(q)
        PROVE  exec[q].run # exec[r].run
    BY <2>1, <2>4 DEF Executions, Held
  <2> QED
    BY <2>2, <2>3, <2>4 DEF RunDirOwned
<1> QED
  BY <1>1, ExecutionsAlways, PTL

=============================================================================
