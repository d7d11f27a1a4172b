------------------------------- MODULE Runner -------------------------------
(***************************************************************************)
(* Runner processes on one host (internal/runner, cmd/acme-runner): each   *)
(* takes one signed job, records it in the replay ledger, and reconciles   *)
(* one certificate with the store through lego.  They share the ledger     *)
(* (replay.go), the published account state, the store and the parent of   *)
(* the work directories.  Runners is the set of processes alive at a time: *)
(* one that has ended makes room for the next.                             *)
(*                                                                         *)
(* The account state and the store are the registers of module Published,  *)
(* which module Publication implements.  Time passes in ticks; a signed    *)
(* job expires, a work directory records a deadline after which any other  *)
(* Runner sweeps it, and lego is killed at its timeout.  The Runners of    *)
(* one host may be configured with different timeouts.                     *)
(***************************************************************************)
EXTENDS Integers, FiniteSets, Functions

CONSTANTS
  Runners,           \* Runner processes alive at a time
  Runs,              \* runs, each offered as one signed job
  Generations,       \* ACME accounts that have a generation of their own
  Legacy,            \* the account without one
  AccountOf,         \* the account of each run
  Payload,           \* runs with a sealed provisioning payload, and what it is sealed to
  ScopedAccounts,    \* generations that belong to one target
  Keys,              \* the account-provisioning keys of this host
  BindingEAB,        \* the EAB of the ACME binding itself
  Expiry,            \* expiry of each run's envelope
  Validity, Skew,    \* validity of an envelope, tolerated clock skew
  MaxRunTime,        \* how long the Runner of a run can live with a work directory
  StaleAfter,        \* staleAfter, by the timeouts of the Runner of a run
  None,
  MaxBegins, MaxTime, MaxFaults, MaxStops   \* bounds: processes, ticks, failing operations, signals

ASSUME RunnerAssumptions ==
  /\ Legacy \notin Generations /\ ScopedAccounts \subseteq Generations
  /\ {None, BindingEAB} \cap Generations = {} /\ None # BindingEAB
  /\ AccountOf \in [Runs -> Generations \cup {Legacy}]
  /\ \A run \in DOMAIN Payload : run \in Runs /\ AccountOf[run] # Legacy
  /\ Expiry \in [Runs -> Nat] /\ Validity \in Nat /\ Skew \in Nat
  /\ MaxRunTime \in [Runs -> Nat] /\ StaleAfter \in [Runs -> Nat]
  /\ \A run \in Runs : MaxRunTime[run] <= StaleAfter[run]
  /\ None \notin Runners \cup Runs \cup Nat
  /\ MaxBegins \in Nat /\ MaxTime \in Nat /\ MaxFaults \in Nat /\ MaxStops \in Nat

VARIABLES
  now,
  marker,      \* jobs.d: per run, whether its marker is there, written, and its age
  ledgerLock,  \* holder of .jobs.lock
  account,     \* published account state per root: none, a key or a registration
  stored,      \* the certificate in the store: "none", "fit" or "stale" in its form
  dirs,        \* per Runner: its work directory
  left,        \* the work directories that killed Runners left
  proc,        \* per Runner
  worked,      \* how often lego was started for a run by a Runner in time
  begun,       \* how often a process was started for a run
  faults, stops

vars == <<now, marker, ledgerLock, account, stored, dirs, left, proc, worked, begun, faults, stops>>

NoMarker == [there |-> FALSE, written |-> FALSE, age |-> 0]

\* A work directory: "new" before its deadline file is created, "empty" before that is
\* written, then "dated"; "gone" once removed by a sweep that could not read the file.
NoDir == [is |-> "none", made |-> 0, after |-> 0]
Present(d) == d.is \in {"new", "empty", "dated"}

\* accountsRoot: every account has its own state.
Root(run) == AccountOf[run]
Provisioning(run) == run \in DOMAIN Payload

NoAccount == [is |-> "none", eab |-> None]
AccountKey == [is |-> "key", eab |-> None]
Registration(eab) == [is |-> "registered", eab |-> eab]
\* accountRegistered: some account.json has a registration.
Registered(a) == a.is = "registered"

\* term: SIGTERM arrived; verified: when the envelope was verified; prompt: the ledger
\* was reached within the skew; signs: the key for its Result is loaded; work: the
\* account in the work directory; found: the store had a certificate; lego: whether
\* lego succeeded; ap: what the Result says of the account; exit0: the exit status.
Waiting == [pc |-> "idle", run |-> None, term |-> FALSE, verified |-> 0, prompt |-> TRUE,
            signs |-> FALSE, work |-> NoAccount, found |-> FALSE, lego |-> FALSE,
            ap |-> "none", result |-> "none", exit0 |-> FALSE]

Init ==
  /\ now = 0
  /\ marker = [u \in Runs |-> NoMarker] /\ ledgerLock = None
  /\ account = [a \in Generations \cup {Legacy} |-> NoAccount]
  /\ stored = "none"
  /\ dirs = [r \in Runners |-> NoDir] /\ left = {}
  /\ proc = [r \in Runners |-> Waiting]
  /\ worked = [u \in Runs |-> 0]
  /\ begun = [u \in Runs |-> 0] /\ faults = 0 /\ stops = 0

At(r, a) == proc[r].pc = a
Set(r, p) == proc' = [proc EXCEPT ![r] = p]
Go(r, a) == Set(r, [proc[r] EXCEPT !.pc = a])
\* reconcile or its caller returns, with an outcome or a failure of some code.
End(r, p, result) ==
  Set(r, [p EXCEPT !.pc = "finish", !.result = result, !.verified = 0, !.prompt = TRUE,
                   !.work = NoAccount, !.found = FALSE, !.lego = FALSE])
Fail(r) == End(r, proc[r], "failed")

Fails == faults < MaxFaults /\ faults' = faults + 1
Works == UNCHANGED faults
\* A step that waits or asks under the run's context also fails once that is cancelled.
FailsOrCancelled(r) == Fails \/ (proc[r].term /\ Works)
LedgerStays == UNCHANGED <<marker, ledgerLock>>
FilesStay == UNCHANGED <<account, stored, dirs, left, worked, begun>>

---------------------------------------------------------------------------
(* The job and the replay ledger. *)

\* A process starts for a job.
Begin(r, run) ==
  /\ At(r, "idle") /\ Set(r, [Waiting EXCEPT !.pc = "acquire", !.run = run])
  /\ FoldFunction(+, 0, begun) < MaxBegins /\ begun' = [begun EXCEPT ![run] = @ + 1]
  /\ Works /\ LedgerStays /\ UNCHANGED <<now, account, stored, dirs, left, worked, stops>>

Verifies(run, time) == time <= Expiry[run] /\ time + Skew >= Expiry[run] - Validity

\* The job is taken, its identity peeked at, the configuration and the key for the
\* Result loaded; without an identity nothing can be reported.
LoadConfig(r) ==
  \/ Fail(r) /\ Fails
  \/ Go(r, "done") /\ Fails

\* SignedJob.Verify; the time is read once, before the ledger's lock is asked for.
Verify(r) ==
  LET p == [proc[r] EXCEPT !.signs = TRUE]
  IN Works /\ IF Verifies(p.run, now)
                THEN Set(r, [p EXCEPT !.pc = "lock", !.verified = now])
                ELSE End(r, p, "failed")

Acquire(r) ==
  /\ At(r, "acquire") /\ (LoadConfig(r) \/ Verify(r))
  /\ LedgerStays /\ FilesStay /\ UNCHANGED <<now, stops>>

LockLedger(r) ==
  /\ At(r, "lock")
  /\ \/ ledgerLock = None /\ ledgerLock' = r /\ Go(r, "prune") /\ Works
     \/ Fail(r) /\ (Fails \/ (proc[r].term /\ ledgerLock # None /\ Works)) /\ UNCHANGED ledgerLock
  /\ UNCHANGED <<now, marker, stops>> /\ FilesStay

\* Faulty variant of PruneLedger: the tolerated skew is forgotten.
PruneLedgerEarly(r) ==
  /\ At(r, "prune") /\ Go(r, "mark")
  /\ marker' = [u \in Runs |->
       IF marker[u].there /\ marker[u].age <= proc[r].verified THEN NoMarker ELSE marker[u]]
  /\ Works /\ FilesStay /\ UNCHANGED <<now, ledgerLock, stops>>

\* Markers of envelopes that can no longer verify go; one without an expiry goes
\* by the time of its creation.
PruneLedger(r) ==
  /\ At(r, "prune") /\ Go(r, "mark")
  /\ marker' = [u \in Runs |->
       IF marker[u].there /\ marker[u].age + Skew < proc[r].verified THEN NoMarker ELSE marker[u]]
  /\ Works /\ FilesStay /\ UNCHANGED <<now, ledgerLock, stops>>

\* The marker is created, exclusively: one that exists means a replay.
CreateMarker(r) ==
  LET run == proc[r].run
  IN /\ At(r, "mark")
     /\ \/ /\ ~marker[run].there
           /\ marker' = [marker EXCEPT ![run] = [there |-> TRUE, written |-> FALSE, age |-> now]]
           /\ Set(r, [proc[r] EXCEPT !.pc = "write", !.verified = 0,
                             !.prompt = now <= proc[r].verified + Skew])
           /\ Works /\ UNCHANGED ledgerLock
        \/ marker[run].there /\ Fail(r) /\ ledgerLock' = None /\ Works /\ UNCHANGED marker
        \/ Fails /\ Fail(r) /\ ledgerLock' = None /\ UNCHANGED marker
     /\ FilesStay /\ UNCHANGED <<now, stops>>

\* The expiry is written and synced; a failure takes the marker back.
WriteMarker(r) ==
  LET run == proc[r].run
  IN /\ At(r, "write")
     /\ \/ /\ marker' = [marker EXCEPT ![run] = [there |-> TRUE, written |-> TRUE, age |-> Expiry[run]]]
           /\ Go(r, "sync") /\ Works /\ UNCHANGED ledgerLock
        \/ /\ marker' = [marker EXCEPT ![run] = NoMarker]
           /\ Fail(r) /\ ledgerLock' = None /\ Fails
     /\ FilesStay /\ UNCHANGED <<now, stops>>

\* The directory is synced; a failure leaves the marker, and the run unworked.
SyncLedger(r) ==
  /\ At(r, "sync") /\ ledgerLock' = None
  /\ \/ Go(r, "authorize") /\ Works
     \/ Fail(r) /\ Fails
  /\ UNCHANGED <<now, marker, stops>> /\ FilesStay

---------------------------------------------------------------------------
(* reconcile *)

\* Trusted policy and bindings first: a refusal says nothing of the account.
\* Then the account root and the store are opened.
Authorize(r) ==
  LET p == [proc[r] EXCEPT !.ap = IF Provisioning(proc[r].run) THEN "failed" ELSE "none"]
  IN /\ At(r, "authorize")
     /\ \/ Set(r, [p EXCEPT !.pc = "current"]) /\ Works
        \/ Fail(r) /\ Fails
        \/ End(r, p, "failed") /\ Fails
     /\ LedgerStays /\ FilesStay /\ UNCHANGED <<now, stops>>

\* A vault's certificate with another content type than the binding's.
Stale == stored = "stale"

\* What a failing Put leaves: the import may have taken effect, also one that the vault
\* gave another content type.
AfterFailingPut == {stored, "fit", "stale"}

\* The certificate in the store is fit to stay (time, names and key type decide;
\* here either), or is not, or in a form the store no longer writes; a provisioning
\* run always goes on.
Current(r) ==
  /\ At(r, "current")
  /\ \/ stored # "none" /\ ~Stale /\ ~Provisioning(proc[r].run) /\ End(r, proc[r], "noop") /\ Works
     \/ Set(r, [proc[r] EXCEPT !.pc = "prepare", !.found = (stored # "none")]) /\ Works
     \/ Fail(r) /\ FailsOrCancelled(r)
  /\ LedgerStays /\ FilesStay /\ UNCHANGED <<now, stops>>

\* Faulty variant of Swept: the deadline another Runner recorded is not looked at.
SweptByAge(d, staleAfter, unread) == Present(d) /\ now > d.made + staleAfter

\* sweepStaleWorkDirs: the directory's own deadline has passed or, when there is no
\* deadline file or it cannot be read, its age is beyond the sweeping Runner's own
\* staleAfter.  A file without a number in it keeps the directory.
Swept(d, staleAfter, unread) ==
  IF d.is = "new" \/ (Present(d) /\ unread)
    THEN now > d.made + staleAfter
    ELSE d.is = "dated" /\ now > d.after

\* The sweep, some deadlines unread, then a directory of its own.
PrepareWorkDir(r) ==
  \E unread \in SUBSET {d \in Range(dirs) \cup left : d.is \in {"empty", "dated"}} :
    LET swept(d) == Swept(d, StaleAfter[proc[r].run], d \in unread)
        kept == [q \in Runners |->
                   IF ~swept(dirs[q]) THEN dirs[q]
                   ELSE IF dirs[q] \in unread THEN [dirs[q] EXCEPT !.is = "gone"] ELSE NoDir]
    IN /\ left' = {d \in left : ~swept(d)}
       /\ \/ dirs' = [kept EXCEPT ![r] = [is |-> "new", made |-> now, after |-> 0]]
             /\ Go(r, "deadline") /\ (Fails \/ (unread = {} /\ Works))
          \/ unread = {} /\ dirs' = kept /\ Fail(r) /\ Fails

\* A cancelled run ends here.
Prepare(r) ==
  /\ At(r, "prepare")
  /\ \/ proc[r].term /\ Fail(r) /\ Works /\ UNCHANGED <<dirs, left>>
     \/ ~proc[r].term /\ PrepareWorkDir(r)
  /\ LedgerStays /\ UNCHANGED <<now, account, stored, worked, begun, stops>>

\* os.WriteFile creates the deadline file; a directory swept meanwhile has no room for it.
CreateDeadline(r) ==
  /\ At(r, "deadline")
  /\ \/ Present(dirs[r]) /\ dirs' = [dirs EXCEPT ![r].is = "empty"] /\ Go(r, "record") /\ Works
     \/ dirs' = [dirs EXCEPT ![r] = NoDir] /\ Fail(r) /\ (Fails \/ (~Present(dirs[r]) /\ Works))
  /\ LedgerStays /\ UNCHANGED <<now, account, stored, left, worked, begun, stops>>

\* Then it writes the deadline; a failure takes the directory back.
WriteDeadline(r) ==
  LET d == dirs[r]
      dated == [d EXCEPT !.is = IF Present(d) THEN "dated" ELSE d.is,
                         !.after = d.made + StaleAfter[proc[r].run]]
  IN /\ At(r, "record")
     /\ \/ dirs' = [dirs EXCEPT ![r] = dated] /\ Go(r, "load") /\ Works
        \/ dirs' = [dirs EXCEPT ![r] = NoDir] /\ Fail(r) /\ Fails
     /\ LedgerStays /\ UNCHANGED <<now, account, stored, left, worked, begun, stops>>

\* The files lego works with were removed under the Runner.
DirGone(r) == dirs[r].is = "gone"

\* Faulty variant of OpenScoped: whoever holds the key opens the payload.
OpenWithKey(p, a) == p.key \in Keys

\* The payload's version fits the account's scope, it is sealed to a key of this
\* host, and it authenticates against binding, scope and generation of the account.
OpenScoped(p, a) ==
  /\ p.scoped = (a \in ScopedAccounts)
  /\ p.key \in Keys
  /\ p.account = a

\* lego.Build: the EAB from the payload, none for a registered generation, or the
\* binding's own.  An EAB is named by the account it was sealed for.
LegoEAB(run) ==
  CASE Provisioning(run) -> Payload[run].account
    [] ~Provisioning(run) /\ Root(run) # Legacy -> None
    [] Root(run) = Legacy -> BindingEAB

StartLego(r, work) ==
  /\ Set(r, [proc[r] EXCEPT !.pc = "lego", !.work = work])
  /\ worked' = [worked EXCEPT ![proc[r].run] = @ + (IF proc[r].prompt THEN 1 ELSE 0)]

\* Faulty variant of Load: a renewal takes the generation as it finds it.
LoadUnregistered(r) ==
  LET run == proc[r].run
  IN /\ At(r, "load")
     /\ Provisioning(run) => ~Registered(account[Root(run)])
     /\ StartLego(r, account[Root(run)]) /\ Works
     /\ LedgerStays /\ UNCHANGED <<now, account, stored, dirs, left, begun, stops>>

\* loadAccounts, then the conditions under which lego may be given the account.
Load(r) ==
  LET run == proc[r].run
      work == account[Root(run)]
      ready == CASE Provisioning(run) -> ~Registered(work) /\ OpenScoped(Payload[run], Root(run))
                 [] ~Provisioning(run) /\ Root(run) # Legacy -> Registered(work)
                 [] Root(run) = Legacy -> TRUE
  IN /\ At(r, "load")
     /\ \/ ready /\ StartLego(r, work) /\ Works
        \/ ~ready /\ Fail(r) /\ Works /\ UNCHANGED worked
        \/ Fail(r) /\ (FailsOrCancelled(r) \/ (DirGone(r) /\ Works)) /\ UNCHANGED worked
     /\ LedgerStays /\ UNCHANGED <<now, account, stored, dirs, left, begun, stops>>

\* Executor.Run: lego issues, fails, is cancelled, is killed at its timeout or could
\* not be started; it may have written an account key or registered an account.
LegoEnds(r) ==
  LET work == proc[r].work
  IN /\ At(r, "lego")
     /\ \E lego \in BOOLEAN, after \in {work, NoAccount, AccountKey, Registration(LegoEAB(proc[r].run))} :
          /\ Registered(work) => after = work \/ (DirGone(r) /\ after = NoAccount)
          /\ after = NoAccount => work = NoAccount \/ DirGone(r)
          /\ lego => Registered(after)
          /\ Set(r, [proc[r] EXCEPT !.pc = "persist", !.lego = lego, !.work = after])
     /\ Works /\ LedgerStays /\ FilesStay /\ UNCHANGED <<now, stops>>

\* Faulty variant of Persist: what lego registered is reported before it is published.
PersistReporting(r) ==
  LET p == proc[r]
      registered == Provisioning(p.run) /\ Registered(p.work)
  IN /\ At(r, "persist")
     /\ Set(r, [p EXCEPT !.pc = "outcome", !.ap = IF registered THEN "registered" ELSE @])
     /\ \/ account' = [account EXCEPT ![Root(p.run)] = IF p.work = NoAccount THEN @ ELSE p.work] /\ Works
        \/ UNCHANGED account /\ Fails
     /\ LedgerStays /\ UNCHANGED <<now, stored, dirs, left, worked, begun, stops>>

\* persistAccounts, cancelled or not: a failing call may have published all the same.
Persist(r) ==
  LET p == proc[r]
      publishes == p.work # NoAccount /\ (Provisioning(p.run) => Registered(p.work))
      Publish == account' = [account EXCEPT ![Root(p.run)] = p.work]
  IN /\ At(r, "persist")
     /\ \/ publishes /\ Publish /\ Works /\ Go(r, IF Provisioning(p.run) THEN "confirm" ELSE "outcome")
        \/ publishes /\ Fails /\ (Publish \/ UNCHANGED account) /\ Go(r, "outcome")
        \/ ~publishes /\ UNCHANGED account /\ Works /\ Go(r, "outcome")
        \/ DirGone(r) /\ UNCHANGED account /\ Works /\ Set(r, [p EXCEPT !.pc = "outcome", !.work = NoAccount])
     /\ LedgerStays /\ UNCHANGED <<now, stored, dirs, left, worked, begun, stops>>

\* publishedAccountRegistered: only what is published counts as registered.
Confirm(r) ==
  /\ At(r, "confirm")
  /\ \/ /\ Set(r, [proc[r] EXCEPT !.pc = "outcome",
                     !.ap = IF Registered(account[Root(proc[r].run)]) THEN "registered" ELSE "failed"])
        /\ Works
     \/ Go(r, "outcome") /\ Fails
  /\ LedgerStays /\ FilesStay /\ UNCHANGED <<now, stops>>

\* What lego reported, and the checks of what it produced.
Outcome(r) ==
  /\ At(r, "outcome")
  /\ \/ ~proc[r].lego /\ Fail(r) /\ Works
     \/ proc[r].lego /\ Go(r, "put") /\ Works
     \/ proc[r].lego /\ Fail(r) /\ (Fails \/ (DirGone(r) /\ Works))
  /\ LedgerStays /\ FilesStay /\ UNCHANGED <<now, stops>>

\* Store.Put; what it replaced decides what is reported.
Put(r) ==
  /\ At(r, "put")
  /\ \/ /\ stored' = "fit" /\ Works
        /\ \E action \in IF proc[r].found THEN {"renewed", "noop"} ELSE {"issued"} : End(r, proc[r], action)
     \/ stored' \in AfterFailingPut /\ Fail(r) /\ FailsOrCancelled(r)
  /\ LedgerStays /\ UNCHANGED <<now, account, dirs, left, worked, begun, stops>>

BuildResult(p) ==
  [run |-> p.run, status |-> IF p.result = "failed" THEN "failed" ELSE "succeeded",
   action |-> p.result, error |-> p.result = "failed", certificate |-> p.result # "failed",
   accountProvisioning |-> p.ap]

\* Result.Validate: a success has a certificate and no error, a failure has an error.
ResultValid(res) ==
  /\ res.status = "succeeded" => res.action \in {"issued", "renewed", "noop"} /\ ~res.error /\ res.certificate
  /\ res.status = "failed" => res.action = "failed" /\ res.error
  /\ res.accountProvisioning \in {"none", "registered", "failed"}

\* The deferred cleanup, then the Result, in the file or on standard output; when
\* neither takes it the exit status says that there is none, otherwise whether the run
\* succeeded.
Finish(r) ==
  LET p == [proc[r] EXCEPT !.pc = "done"]
      succeeded == p.result # "failed"
  IN /\ At(r, "finish")
     /\ dirs' = [dirs EXCEPT ![r] = NoDir]
     /\ \/ ResultValid(BuildResult(p)) /\ Set(r, [p EXCEPT !.exit0 = succeeded]) /\ Works
        \/ \E stdout \in BOOLEAN :
             Set(r, [p EXCEPT !.result = "none", !.exit0 = stdout /\ succeeded]) /\ Fails
     /\ LedgerStays /\ UNCHANGED <<now, account, stored, left, worked, begun, stops>>

---------------------------------------------------------------------------

Ended(r) == proc[r].pc \in {"idle", "done", "killed"}
Stops == stops < MaxStops /\ stops' = stops + 1

\* SIGTERM: the run's context is cancelled.
Terminate(r) ==
  /\ ~Ended(r) /\ ~proc[r].term /\ Set(r, [proc[r] EXCEPT !.term = TRUE])
  /\ Stops /\ Works /\ LedgerStays /\ FilesStay /\ UNCHANGED now

\* The process is killed: its lock is released, its directory stays.
Die(r) ==
  /\ ~Ended(r) /\ Set(r, [Waiting EXCEPT !.pc = "killed", !.run = proc[r].run])
  /\ ledgerLock' = IF ledgerLock = r THEN None ELSE ledgerLock
  /\ UNCHANGED <<now, marker, faults>> /\ FilesStay

Kill(r) == Stops /\ Die(r)

\* A process that has ended makes room for the next; the directory of a killed one
\* is left to the sweep.
Replace(r) ==
  /\ Ended(r) /\ ~At(r, "idle") /\ Set(r, Waiting)
  /\ left' = left \cup {d \in {dirs[r]} : Present(d)} /\ dirs' = [dirs EXCEPT ![r] = NoDir]
  /\ Works /\ LedgerStays /\ UNCHANGED <<now, account, stored, worked, begun, stops>>

Working == {"load", "lego", "persist", "confirm", "outcome", "put"}

\* Time passes; lego is killed in time for the Runner to end within MaxRunTime.
Tick ==
  /\ now < MaxTime /\ now' = now + 1
  /\ \A r \in Runners : proc[r].pc \in {"deadline", "record"} \cup Working /\ dirs[r] # NoDir =>
       now < dirs[r].made + MaxRunTime[proc[r].run]
  /\ LedgerStays /\ FilesStay /\ UNCHANGED <<proc, faults, stops>>

Step(r) ==
  \/ Acquire(r) \/ LockLedger(r) \/ PruneLedger(r) \/ CreateMarker(r)
  \/ WriteMarker(r) \/ SyncLedger(r) \/ Authorize(r) \/ Current(r) \/ Prepare(r)
  \/ CreateDeadline(r) \/ WriteDeadline(r) \/ Load(r)
  \/ LegoEnds(r) \/ Persist(r) \/ Confirm(r) \/ Outcome(r) \/ Put(r) \/ Finish(r)

Next ==
  \/ \E r \in Runners, run \in Runs : Begin(r, run)
  \/ \E r \in Runners : Step(r) \/ Terminate(r) \/ Kill(r) \/ Replace(r)
  \/ Tick

Spec == Init /\ [][Next]_vars

---------------------------------------------------------------------------
(* Properties. *)

AccountRow == [is : {"none", "key", "registered"}, eab : Generations \cup {None, BindingEAB}]

DirRow == [is : {"none", "new", "empty", "dated", "gone"}, made : Nat, after : Nat]

PCs == {"idle", "acquire", "lock", "prune", "mark", "write", "sync", "authorize", "current", "prepare",
        "deadline", "record", "finish", "done", "killed"} \cup Working

Outcomes == {"none", "failed", "noop", "issued", "renewed"}

ProcRow ==
  [pc : PCs, run : Runs \cup {None}, term : BOOLEAN, verified : Nat, prompt : BOOLEAN,
   signs : BOOLEAN, work : AccountRow, found : BOOLEAN, lego : BOOLEAN,
   ap : {"none", "registered", "failed"}, result : Outcomes, exit0 : BOOLEAN]

TypeOK ==
  /\ now \in 0..MaxTime /\ ledgerLock \in Runners \cup {None}
  /\ marker \in [Runs -> [there : BOOLEAN, written : BOOLEAN, age : Nat]]
  /\ account \in [Generations \cup {Legacy} -> AccountRow]
  /\ stored \in {"none", "fit", "stale"}
  /\ dirs \in [Runners -> DirRow] /\ left \subseteq DirRow
  /\ proc \in [Runners -> ProcRow] /\ worked \in [Runs -> Nat]
  /\ begun \in [Runs -> Nat] /\ faults \in 0..MaxFaults /\ stops \in 0..MaxStops

\* No run is worked on twice, however often its envelope is presented, also by a
\* Runner killed between creating its marker and writing it - as long as a Runner
\* reaches the ledger within the tolerated skew after it verified the envelope.
WorkedOnce == \A run \in Runs : worked[run] <= 1

\* The account lego registered for a generation is published before the Runner goes
\* on, cancelled or not, unless publishing fails; and a Runner that reports an
\* account as registered leaves it published, whatever failed meanwhile and whoever
\* published beside it.
RegisteredIsPublished ==
  \A r \in Runners :
    LET p == proc[r]
    IN \/ p.pc \in {"outcome", "put"} /\ Root(p.run) # Legacy /\ Registered(p.work) /\ faults = 0
       \/ p.pc = "done" /\ p.ap = "registered"
       => Registered(account[Root(p.run)])

\* A registered generation is never replaced by an unregistered one.
GenerationNeverLost ==
  [][\A g \in Generations : Registered(account[g]) => Registered(account'[g])]_vars

\* A generation is only ever registered with an EAB sealed for it, the legacy
\* account never with a sealed one, whichever payloads the jobs carry.
RegisteredForItself ==
  /\ \A g \in Generations : Registered(account[g]) => account[g].eab = g
  /\ Registered(account[Legacy]) => account[Legacy].eab = BindingEAB

\* A Runner working in its directory keeps it whatever timeouts the Runners that sweep
\* meanwhile have, also while its deadline file is still empty; only one that cannot
\* read the deadline may remove it.  A Runner that ends on its own leaves no key
\* material behind.
WorkDirOwned ==
  \A r \in Runners :
    /\ proc[r].pc \in Working => dirs[r].is \in {"dated", "gone"}
    /\ proc[r].pc = "done" => dirs[r] = NoDir
=============================================================================
