# TLA+ verification of acme-conductor

acme-conductor renews TLS certificates centrally.  The *Conductor* keeps a
registry of targets, policies, runs and ACME account generations, decides when
a target needs a run, and starts a short-lived *Runner* through a *launcher*.
The Runner receives one signed job document, talks to the CA and to a
certificate store, and answers with one signed result.

The project models the path of a certificate through the system wherever
concurrency, failing writes and restarts meet: the administrative API that edits
targets and policies, and the tokens that admit its callers; the run scheduler
with the registry transactions under it; the two launchers; and the Runner with
its replay ledger, its account state and its store.  TLC checks the modules on
small instances; TLAPS proves the safety results of every component, for every
value of the constants.

## Inventory

| Component | State | Operations | Hard behaviour | What makes it correct |
|---|---|---|---|---|
| Run scheduler (`internal/conductor/scheduler`) | loop position, in-flight map, run contexts, per-run locals of `execute` | Plan, Dispatch, sweep, Recover, Drain, Cancel, execute, record, finishProvisioning | decisions on rows read earlier; writes that fail after committing; restart between any two steps | one active run per target; only the executor closes a run in flight; outcomes final; every run ends |
| Registry (`internal/conductor/sqlite`, `registry`) | tables runs, acme_accounts, targets, policies, names, consumers, audit | one transaction per operation, partial unique indexes | callers racing for one row | each transaction is all or nothing and its guard is checked inside it |
| Conductor process (`internal/conductor/conductor.go`) | running, draining, down | Serve: Recover, listen, shutdown with drain | shutdown racing Dispatch; kill | slots freed at restart |
| API: runs, provisioning (`internal/conductor/api`) | none of its own | request, cancel run; request, cancel provisioning | read, then write in another transaction | same invariants, whoever writes |
| API: targets, policies, ledger | none of its own | create, update, enable, disable, retire, put consumers | checks on rows read before the write; policies have no revision | names belong to one target; an edit applies to the row it was made from; retirement is final; a job stays within a policy |
| OIDC (`internal/conductor/oidc`) | key cache, throttle | authenticate, refresh | concurrent refresh at its limit; keys rotated meanwhile | only genuine tokens are served; keys come and go in bounded time; everybody is answered |
| Launcher contract (`pkg/launcher`) and launchers (`localprocess`, `acajob`) | per execution: process or offer | Start, Wait, cancel | timeout against a late Runner; the Conductor dies meanwhile | by its contract an error of Start means no Runner; Wait outlasts its Runner and tells its Result |
| File exchange (`internal/exchange`, `transport/claim`) | staging, pending, claimed, withdrawn directories | Publish, Take, Withdraw, MarkExecution, result, Remove | two parties renaming the same directory | one taker per offer; withdrawn or taken, never both |
| Runner (`internal/runner`) | work directory, account state, replay ledger | recordJob, reconcile, persistAccounts, Result | killed or cancelled anywhere; several Runners on one host | a job is worked on once; a registration is published before it is reported and never lost |
| Account state and stores (`internal/runner/workdir.go`, `internal/store`) | versions and a link; the vault's certificate | read, publish | kill or power loss between writes; readers beside writers | a reader sees one complete version; what was reported stays |
| File locks (`internal/fslock`) | flock | acquire, release | polled until a context ends | mutual exclusion (the kernel's) |
| Policy and names (`internal/policy`) | none | authorize, match, normalise | label boundaries, wildcards | agrees with a reference definition |
| DNS delegation check | answer cache | check | concurrency limit | advisory only |
| Wire contract, configuration, lego's command line, command line, GUI, key generation | none | decoding, validation, presentation | | data rather than control |

The loop, the executors and the handlers are goroutines of one process that
share the registry (one SQLite connection, so transactions are serial) and, under
a mutex, the in-flight map.  Handlers reach an executor only through
`Scheduler.Cancel`.  Runners share nothing with that process but the documents a
launcher carries, and may outlive it; Runners on one host share the ledger, the
account state, the store and the parent of their work directories.

## Modules

| Module | Models | Role |
|---|---|---|
| `Registry` | `sqlite.go`, `registry.go` | runs, accounts, targets, policies as variables, one action per transaction; its guard is the row selection and the unique indexes |
| `Scheduler` | `scheduler.go`, `conductor.go`, `api/runs.go`, `api/provisioning_run.go`, `api/acme_accounts.go`, parts of `api/targets.go` and `api/policies.go` | extends `Registry` with the process, the loop, the executors, the Runners and the handlers |
| `RunLifecycle` | what the runs table promises | abstract specification, implemented by `Scheduler` |
| `SchedulerProofs`, `AccountProofs`, `MCScheduler` | | theorems about runs; about accounts, retirement and Runners, on top of the first; instance for TLC |
| `Exchange` | `exchange.go`, `launcher/acajob/acajob.go`, `transport/claim/claim.go`, and where `reconcile.go` and `result.go` meet them | the share, the launcher's `Start` and `Wait`, the executions |
| `JobOffer` | what the exchange promises | abstract specification, implemented by `Exchange` |
| `ExchangeProofs`, `DeliveryProofs`, `MCExchange` | | theorems about who has a job; about what is found in its directory; instance for TLC |
| `Names` | `internal/policy` | normal form of names, suffix matching, wildcards, counts, as operators on sequences of characters |
| `Admin` | `api/targets.go`, `api/policies.go`, `api/consumers.go`, the tables they write, building a job, the Runner's authorization | extends `Names`: handlers as sessions between their registry calls |
| `AdminProofs` | | theorems |
| `MCAdmin` | | request bodies, symmetries and a bound for TLC |
| `Runner` | `reconcile.go`, `replay.go`, `account.go`, `workdir.go`, `result.go`, `lego.Build` and `Run`, `Result.Validate`, opening a payload | Runner processes on one host |
| `LocalProcess` | `launcher/localprocess` | extends `Runner` with the launcher and the Conductor that starts Runners |
| `RunnerProofs`, `MCRunner` | | theorems; instance for TLC of both |
| `Publication` | `workdir.go` (`persistAccounts`, `loadAccounts`), `store/filesystem`, `fslock` | writers and readers of one published directory, kills and power loss |
| `Published` | what such a directory promises | abstract specification: a register; implemented by `Publication`, used by `Runner` |
| `PublicationProofs`, `MCPublication` | | theorems; instance for TLC |
| `Authentication` | `oidc.go`, `discovery.go`, `jwk.go`, the middleware in `api.go` | requests, the key cache and the provider |
| `AuthenticationProofs` | | theorems |
| `MCAuthentication` | | key sets and tokens for TLC |

Each module states the types of its variables in `TypeOK`.  Definitions keep the names of the functions they model where there is one;
`PROJECT.json` maps each to its lines.  Definitions introduced as *faulty
variant of* are not used by the specification: each is a plausible bug, put in
the place of the definition it varies to see that a property notices it.

### The scheduler: state and actions

* `runs`, `accounts`, `targets`, `policies` are tables; status `"none"` is a row
  not inserted yet.  `audit` counts the run.started and the closing events of a
  run, written in the transaction that moves it.
* `mode` follows `Serve`: `recovering` until `Recover` returned, `up`, `draining`
  after a shutdown request, `cancelling` after the grace period, `drained` or
  `expired` once `Drain` returned (`expired` when runsCtx was cancelled), `down`.
* `loop` is the goroutine of `Scheduler.Run`: its position, the targets left in
  the pass, the policies read in it, the provisioning candidates, the picked
  target, the claimed run, and the sweep's listing.
* `exec[r]` is the local state of `execute` for run `r`: its position, the status
  it knows to be recorded, the outcome, the claimed generation and what the
  Runner reported of it.  `inflight` is the in-flight map.
* `runner[r]` is what a launcher started.  `tried` says the Runner opened its
  payload, `registered` that the account was published, `disowned` that `Start` had
  reported an error although the Runner has the job.
* `api` is a run-creating request between reading the target and creating the
  run.

A step is at most one registry transaction.  A transaction may fail, up to
`MaxFaults` times, either before it committed or after: `record` is written for
the second case, and so are `DispatchFails`, `PlanFails`, `SweepFails` and the
fault branch of `ClaimProvisioning`.  The process may stop, up to `MaxStops`
times: killed in any step, or gracefully.

### The scheduler: abstractions

* Time.  Whether a target is due (`Due`, `Backoff`, `provisioningDue`), whether a
  retry window has passed and when a launcher gives up are nondeterministic, which
  includes every schedule the clock allows.
* The reads of one target in Plan (its policy, its run summary) are one step; so
  are a handler's read and the compare-and-set write that refuses when the row
  changed, and the reads of `requestProvisioning` with its insert.
* One run-creating request at a time; any number of other requests.
* A release or completion that reports an error after committing has the effect
  of a success: its error is only logged.  The same holds of the API calls, whose
  caller sees an error instead of a success.
* The set of targets and of policies is fixed; names, owners and bindings other
  than the ACME binding do not appear.
* `LauncherReaps` chooses between a launcher that gives up on no Runner (a local
  process: an error of `Start` means that there is none, `Wait` returns after it
  ended) and one that may give up on a Runner still at work (a remote job).  The
  second kind breaks the contract of `Start` as `acajob` does (`LateName`): it may
  report an error while a Runner has the job, and `execute` then releases the
  generation that Runner carries.
* A Runner reports `registered` only for an account it has published; "no report"
  means it ended before the provisioning step (`reconcile.go`).

### The exchange: state and actions

* `place[r]` is the directory run `r`'s job is in, and `files[r]` what is in it: the
  job, the name of the execution that took it, the result.  The directory moves
  by atomic renames: `PublishOffer`, `Take`, `Withdraw`.
* `start[r]` is the launcher's call for run `r`: its position in `Start` (publish,
  `awaitClaim`, `confirm`) and then in `Wait` (poll, stop, result, deferred
  clean-up), with their locals.  `back` records that the offer was withdrawn, `out`
  the answer.
* `exe[e]` is an execution the platform started: its position, the listing it
  works through (stale by the time it is used), the run it took, and what the
  platform says of it.

A step is one operation on the share or one answer of the platform.  `StateOf` is
therefore two looks, and the removal of a directory is two steps: its files, then
the directory if it is still empty.

### The exchange: abstractions

* A failing operation on the share (up to `MaxShareFaults`) has no effect.  A
  change is visible to the other side at once; caching of the file share is left
  out.
* `MaxLag` is the number of attempts of `confirm` during which the platform may
  answer "not found" for an execution that exists.  Up to four is the lag `confirm`
  is written for; five means the platform never comes to know it.
* Time: a deadline passes at some point (`Deadline`); the poll interval is a step.
* One `Start` per run, as the scheduler executes a run once.  The Conductor's
  process may be killed, up to `MaxStops` times; nothing reads the directories
  it leaves.
* Contents and signatures of documents, and what the Runner does with its job, do
  not appear.  The marker an execution writes is its own name.

### Administration: state, actions, abstractions

* `policies`, `targets`, `owner` (`target_names`) and `consumers` are tables.
  `session[h]` is a handler between its registry calls: what it has read, what its
  request gave.  A write is one transaction with the checks the transaction makes.
* `run`, `job` and `issued` follow one execution: the target read, the job built
  from it and the policy read after it (`BuildJobSpec`, `JobSpec.Validate`), and
  the Runner's own decision about it (`policy.Authorize`), which may come after
  any further edit.
* `raced` is a history variable: a target whose check was overtaken by another
  write.  The code lets such a target leave its policy (policies have no revision,
  `api/policies.go`); `CoveredUnlessRaced` says that nothing else does,
  `JobWithinPolicy` that it never matters to a certificate.
* Names are sequences of characters over a small alphabet, so that normal form and
  label boundaries are what they are in the code; the reference `Allowed` compares
  label by label.
* Owners, contacts and free text do not appear; bindings appear by name only.

### Runner and local launcher: state, actions, abstractions

* `proc[r]` is one process: its position, its run, whether SIGTERM arrived (`term`),
  the account in its work directory, and what its Result will say.  A process
  that has ended makes room for the next (`Replace`), so `Runners` bounds how
  many are alive at once, `MaxBegins` how many there are in all.
* A step is one change the other processes can see: the ledger's lock, the
  marker, its contents, the sweep and the new work directory, the deadline file
  and what is written into it, the read of the account, the end of lego, its publication, the write to the store, the Result.
* `marker` is `jobs.d`.  A marker that was created and not written goes by its
  modification time, as in `pruneLedger`.
* `account[root]` is what is published: nothing, a key, or a registration with the
  EAB it was made with.  `Payload` gives each provisioning run the account its
  payload was sealed for, which need not be the run's.
* The account state and the store are registers that change and are read in one
  step; this is what `Publication` shows of the code.  `stored` tells apart only what
  decides whether the store's certificate may stay; whether a certificate in the
  right form is due is nondeterministic.  Of the Key Vault store the model has
  what a failing import can leave behind.
* `dirs[r]` is the work directory of a Runner: `new` without a deadline file, `empty`
  with one that has no number in it yet, `dated` with it, `gone` when it was removed
  under a Runner at work; `left` are those of killed Runners.  A sweep goes by the
  recorded deadline; where there is no file, or reading it fails (a fault), by the
  directory's age and the sweeping Runner's own `staleAfter`; an empty file keeps the
  directory.  A Runner whose directory is gone fails at the next step that needs it,
  or ends as lego left it.  The decision about a directory and its removal are one
  step, a removal is complete, and the modification time is that of creation.
* Time passes in ticks.  `MaxRunTime` is lego's timeout with its grace period and the
  store's work, `StaleAfter` the deadline of the work directory, which `reconcile`
  computes to exceed it; both are a Runner's own, so Runners that share a host may have
  different ones.  Envelopes have an expiry and a skew.
* `worked` counts the lego invocations of Runners that reached the ledger within
  the skew of verifying their envelope (see *Observations*).
* `LocalProcess` adds the run directory, the execution's context, SIGTERM and
  SIGKILL after the grace period, `Wait` and its reading of the Result.  `exit0` is a
  process that exited with 0, `cut` an execution whose context ended before its process:
  of the two together `cmd.Wait` returns the context's error, and `Wait` reports that
  there is no Result without looking for it (`localprocess.go` 188-190).
  `StartByHand` presents the job of a started run to another Runner; a Conductor
  that comes back starts what it likes.  The model starts a run again only with the
  same envelope.
* The path of unsigned jobs, log relaying, and the process tree below the Runner are
  left out.

### Publication: state, actions, abstractions

* One directory, either the account state or a store object (`kind`; the two
  differ in the order of filling and naming a version and in what a reader checks).
  `version[w]` is the version writer `w` fills, `link` what the link names,
  `unsettled` the links a power loss may leave, `synced` the versions that survive it.
* Steps: lock, layout check, fill, sync, rename, sync of the versions, swap, sync of
  the link's directory, prune; a reader resolves the link and reads under the
  shared lock, in two steps.
* A file that was synced is assumed to survive with its path up to the version
  (nested directories inside a version are not synced by `copyTree`); an operation
  that fails has no effect or has its effect, as the system call allows.

### Authentication: state, actions, abstractions

* `keys`, `sinceFetch`, `sinceAttempt` are the cache; `fetchMu` the mutex held over a
  refresh.  Ages stop growing where the code no longer tells them apart, so time is
  unbounded and the state space finite.
* `call[c]` is a request: its look at the cache, the wait for the mutex, the fetch,
  and the second look.
* A key set is a sequence of JWKs, a token a record of what the code reads of it;
  signatures hold when the token was signed with the key's material under an
  algorithm of its type.  `present` and `absent` are history: how long a key has or has
  not been published.

## Runs

### Scheduler

Bounds are the constants of each cfg: one or two targets, one policy, one
binding, one or two runs, up to two generations, three failing registry calls and
one stop.  Interaction between runs goes through a shared target (two runs in
turn), a shared executor slot (two targets) or a shared account (two targets, one
binding), so two of a kind reach every pairwise race.  One stop suffices to put a
restart between any two steps; the state that survives a restart is the tables
and the Runners, and every property quantifies over those.  Three faults exceed
the two re-reads `record` allows itself.  Deadlock is checked in each: the loop's
iterations never end, also where the run bound is exhausted.

| Run | Question | Result |
|---|---|---|
| `Lifecycle` | Two targets, two runs, one executor; a registry call fails and the process stops anywhere: types, `OneActiveRun`, `ExecutorOwnsRun`, `AuditExact`, `OutcomeIsFinal`, `ImplementsRunLifecycle` | holds |
| `Recording` | One run, three failing calls and a stop: does `record` ever re-read twice (`RereadConverges`)?  Does the run end (`EveryRunEnds`, under `FairSpec`)? | never; yes |
| `Retirement` | A target with its own account is disabled, retired, provisioned, executed, with a stop: `RetiredIsQuiet` | holds |
| `Contention` | Two targets, two executors and one pending generation, with cancellation, no stop and a launcher that reaps: `PayloadHeld`, `OneRunnerPerTarget` | holds |
| `Rollover` | A second generation replaces the first; a stop, also while a Runner holds a payload; a launcher that may give up on a Runner in `Start` and in `Wait`: `ActiveNeverLost`, `ActiveIsRegistered`, `PayloadSpentOnce` | holds |
| `StuckGeneration` | Does an attachment outlive its run (`AttachmentResolved`, under `FairSpec`)? | violated |

`Lifecycle`, `Contention` and `Rollover` keep policies as they are (`PoliciesStay`); the
other runs edit them.  `Rollover` also leaves out what other runs are about: retiring the
target (`TargetsStay`), cancelling a run in flight but by a stop (`NotCancelled`) and
Runners without a payload (`RunnersCarry`).  `Lifecycle` and `Contention` take targets as
interchangeable.  The
symmetry is sound: the one target `RegistryInit` singles out belongs to run rows
that do not exist yet, and nothing reads it.

### Exchange

Each of these behaviours ends, with every `Start` over and every execution ended,
so deadlock is not checked.  Two executions before one offer give the claim and
the withdrawal somebody to race, and the second one's listing an entry to go
stale on.  One kill of the process can fall between any two steps, and so can one
failing operation on the share.

| Run | Question | Result |
|---|---|---|
| `Exchange` | One offer, two executions, a failing operation, a kill, a platform that may never know the execution: types, `TakenIsReadable`, `NeverDisappears`, `NoOrphanedOffer`, `ResultDelivered`, `ImplementsJobOffer`, and `EveryStartReturns` under `FairSpec` | holds |
| `LateName` | Does an error of `Start` mean that no Runner works (`StartErrorMeansNoRunner`)? | violated |

`NoOrphanedOffer` is stated for a share that works.

### Administration, Runner, publication, authentication

| Run | Question | Result |
|---|---|---|
| `Admin` | Two handlers on two policies and two targets, beside one execution: `CoveredUnlessRaced`, `JobWithinPolicy`, `NamesExclusive`, `EditOnRowRead`, `RetiredIsFinal` | holds |
| `Reconcile` | Four envelopes, two processes at a time with different timeouts, cancelled, timed out, killed, a failing operation, a Conductor that dies: `WorkedOnce`, `RegisteredIsPublished`, `RegisteredForItself`, `WorkDirOwned`, `RunDirOwned`, `GenerationNeverLost` | holds |
| `Publication` | Three writers and two readers, two failing operations, two kills or power losses: `LinkNeverDangles`, `ReportedStays`, `ImplementsPublished` | holds |
| `KeyCache` | Two requests at a time, a provider that rotates, withdraws, serves a bad set or does not answer: `ServedGenuine`, `WithdrawnKeyGoes`, `PublishedKeyKnown`, `RefreshesApart`, and `Answered` under `FairSpec` | holds |

*Admin.*  The bodies nest two suffixes and include the suffix itself, a name that
ends in its characters without lying under it, a wildcard, upper case, a final dot
and omitted fields.  `MaxRevision` 2 lets a target be written twice after it was
created, so that an edit may overtake an edit.  `OneThingMore` keeps to one of a second
policy, a second target, a ledger entry and an execution in a behaviour, each beside
two handlers; and, beside one handler, to a second policy and an execution, which
may read the target before it moves from the one policy to the other.  No property
relates the others to each other.

*Reconcile.*  Run 1 provisions a generation, run 2 renews with it, run 3 has no
generation, run 4 provisions with a payload sealed for another one.
`WithProvisioning` starts run 1 in every behaviour, so that the second process is a
replay of it, a user of its account, or a competitor for it.  Two processes in
all, one fault and one signal, kill or death of the Conductor reach each pair of a
failure and a competitor; beside runs 3 and 4, which share the ledger, the store and the
sweep with run 1 but not what is published, it is one of the two
(`OneFailureBeside`).  Three ticks carry the clock past an envelope's expiry
plus skew and past a work directory's deadline.  The Runner of run 1 has a timeout of
two ticks and the others of one, so that a sweep by age alone would take its
directory while it works.

*Publication.*  The third writer is there for the version that a writer swapped in
between two others' steps; two readers read across two swaps.

*KeyCache.*  Two callers suffice: one refreshes while the other waits for the mutex
or is decided meanwhile.  The cache time is longer than the throttle and than a
fetch, as in the code; time itself has no bound.

### Fairness

`FairSpec` of `Exchange` assumes weak fairness of the launcher's goroutine, which
blocks on nothing without a timeout, and of its deadlines.  Nothing is assumed of
executions: `EveryStartReturns` holds even if none is ever started.

`FairSpec` of `Scheduler` assumes weak fairness of the loop (it waits for nothing
but its tick), of each executor (bounded by the launcher's timeout and the recording
window), of each Runner (bounded by its own deadline), of starting the process
again, and of the steps that end a graceful stop.  Nothing is assumed of
requests, failing calls, crashes or stops; they are finitely many only through
the bounds.

`FairSpec` of `Authentication` assumes weak fairness of each request's own steps
(a fetch ends at its timeout) and strong fairness of acquiring `fetchMu`: a
`sync.Mutex` in starvation mode hands itself to the waiter that waited longest.
Nothing is assumed of the provider or of new requests.

### Findings

* **`StuckGeneration`.**  `docs/conductor.md` (682-684) says the row of a run that
  ended without a result becomes `failed`.  Only `finishProvisioning`, in the
  process that claimed the generation, writes that.  When that process stops,
  `Recover` closes the run and the row stays `provisioning`, attached to a run
  that has ended: no run may claim it, it cannot be cancelled, and
  `acme_accounts_one_pending` refuses a new request.  (Retiring the target does
  withdraw the request of a target-scoped account.)
* **`LateName`.**  The launcher contract says that an error of `Start` means no
  Runner is running.  When the grace for the execution name passes, `awaitClaim`
  removes the claimed directory and returns an error, while an execution that
  was only slow may already have read the job; it works on, unwatched.  `confirm` does the
  same after its last 404 (`acajob.go` 285).

### Observations

Met while modelling; each is a known limit or a narrow window, and no run is
devoted to it.

* The package comment of the scheduler (`scheduler.go` 4-8) says that not even a
  restart can start a second Runner for a target.  `Recover` closes the run of a
  killed process while its Runner works on, which frees the target (threat model,
  T7).  `OneRunnerPerTarget` is therefore checked without a stop.
* `Drain` waits for the runs it finds in flight; one that Dispatch has claimed and not
  yet registered is not among them (`scheduler.go` 202-204, 564).  The next start
  ends it; `EveryRunEnds` includes that behaviour.
* When `StateOf` fails, `awaitClaim` returns without having withdrawn the offer
  (`acajob.go` 329), although the comment above it (313-314) says that every exit without a
  name leaves nothing.
* After such a `Start` error `execute` releases the generation of the run
  (`scheduler.go` 744-745).  A Runner that works on may open the payload that a later run
  carries as well; `PayloadSpentOnce` excepts it.
* A Result of a Runner that succeeds after its context has ended is not read
  (`localprocess.go` 188-190: `os/exec` then returns the context's error, which is no
  `ExitError`); the run fails although a certificate was issued.  `lego.go` 279-281
  says that a process which finished successfully right at the deadline is a success,
  and the default branch before it (270-275) returns an error in that case.
* A work directory whose deadline is missing or cannot be read is swept by the
  sweeping Runner's own timeout (`workdir.go` 89-90), also when that is shorter than the one of
  the Runner at work in it.
* The comment at `workdir.go` 283-284 says that every changed directory is synced;
  `copyTree` (126-127) creates nested directories without syncing them.
* The time an envelope is verified at is read before the wait for the ledger's
  lock (`reconcile.go` 374).  A Runner that waits there longer than the skew may find the
  marker of its own run pruned; `WorkedOnce` is stated for the others.
* A target written while a policy is edited may leave that policy (`raced`), although
  `policies.go` 188-190 claims that none does.
* Two Runners of the account without a generation may overwrite each other's
  state, also a registration with a key; the next run registers again.
* lego has a process group of its own (`lego.go` 235), and its grace period equals the
  launcher's: a Runner killed by the launcher may leave lego running.
* A caller that arrives while another one refreshes the keys is decided on the old
  set and is throttled by the attempt that is still under way (`discovery.go` 159); hence
  the escape in `WithdrawnKeyGoes` and `PublishedKeyKnown`.

## Proofs

Each module of theorems names one inductive invariant, or a stack of them, and proves
that every step preserves it.  Every invariant was an invariant of a TLC run of the
component before it was proved.  The assumptions are the `ASSUME`s of the modules:
special values are none of the ordinary ones, bounds are naturals, and where the code
relies on an order of two durations, that order.  TLC evaluates them in the runs.

### Scheduler: runs

`SchedulerProofs` proves, from `RegistryAssumption` and `SchedulerAssumption` only
(non-empty sets, bounds that are naturals; no bound is fixed):

| Theorem | States |
|---|---|
| `TypeCorrect` | `Spec => []TypeOK` |
| `OwnershipCorrect` | `Spec => []ExecutorOwnsRun` |
| `OneActiveRunCorrect` | `Spec => []OneActiveRun` |
| `OutcomeFinalCorrect` | `Spec => OutcomeIsFinal` |
| `AuditExactCorrect` | `Spec => []AuditExact` |
| `Refinement` | `Spec => ImplementsRunLifecycle` |

The argument has two layers.

1. *Who may touch a run.*  `ExecutorOwnsRun` is not inductive: a write of an
   executor is right only if what it takes for recorded is an active status, and
   a run that is not in flight must have no executor left.  `IInv` is `TypeOK`,
   `ClaimedExists` (what the loop claimed is a run) and `Ownership`: `inflight` is
   exactly the set of runs with a busy executor; an executor takes its run for
   starting until the start is recorded, and for starting or running as long as a
   write may be tried; its row is active, or closed with the very outcome it is
   recording; and a run between claim and registration is starting and not yet
   in flight.  The sweep needs no clause of its own: it runs in the goroutine that
   claims, so it never meets a run in that gap.  `Inductive` proves
   `IInv /\ [Next]_vars => IInv'`, with a lemma per group of actions.
2. *How runs move.*  `RunStep` says what any step may do to the runs table and the
   audit counters: leave both alone, insert a queued row for a target without an
   active run, claim the oldest queued one, or move one row by a guarded update
   with its audit event.  `LoopMoves`, `ApiMoves`, `ExecuteMoves` and
   `EveryStepMovesRuns` show under `IInv` that every step of `Next` is such a step.
   Exclusion, finality, exactness of the audit trail and the refinement each then
   need only the cases of `RunStep`.

### Scheduler: accounts, retirement, Runners

`AccountProofs` extends `SchedulerProofs`, with the same assumptions:

| Theorem | States |
|---|---|
| `PayloadHeldCorrect` | `Spec => []PayloadHeld` |
| `ActiveNeverLostCorrect` | `Spec => ActiveNeverLost` |
| `RetiredIsQuietCorrect` | `Spec => []RetiredIsQuiet` |
| `PayloadSpentOnceCorrect` | `Spec => []PayloadSpentOnce` |
| `PayloadSpentOnceReaped` | with a launcher that reaps, the same of all Runners, disowned ones included |
| `ActiveIsRegisteredCorrect` | `Spec => []ActiveIsRegistered` |
| `RereadConvergesCorrect` | `Spec => []RereadConverges` |
| `OneRunnerCorrect` | `Spec => [](LauncherReaps /\ stops = 0 => OneRunnerPerTarget)` |

One lemma per transaction says what it does to the rows of `acme_accounts`
(`RequestEffect` and those after it).  From them `EveryStepMovesAccounts` shows that
every step leaves the rows calm, requests a generation, or registers one, and
`ExecuteSteps` that an executor's step is one of twelve kinds (`ExecutorStep`).
The invariants come in layers, each proved with the ones below it:

1. `Holding`: an executor that carries a generation is at a step that may carry one, the
   account is the one its run's target uses, and the generation is pending and
   attached to its run.  `PayloadHeld` follows.
2. `PendingIsHighest`, `OneActiveGen`: the pending generation of an account is its
   last, so the one that becomes active is newer than the one it supersedes.
3. `RetiredIsQuiet` itself is inductive with `IInv` and `Holding`.
4. `Runners`: before the launch there is no Runner; after it the Runner has the account
   and generation its executor carries, and a report of a registration is that of
   this Runner.  `ActiveIsRegistered` rests on it.
5. `Spending`: the generation a Runner has spent, or may still spend, is attached to its
   run as long as it is pending, and no two runs have spent the same one.  Hence
   one Runner per payload, though a generation may be carried by several runs in turn.
   Runners that a failed `Start` disowned are outside of it; `Runners` says that a
   launcher that reaps has none.
6. `Rereading`: after a re-read the row has the status the executor took from it, or a
   final one, because nobody but the executor moves it; so the next write matches.
7. `Reaped`: before the first stop, a live Runner has an executor that waits for it.

`OneRunnerPerTarget` is not true of every launcher: with one whose `Wait` returns
while its Runner lives, or after a restart, two Runners may work for one target.  The
theorem has the condition in its formula; the run that checks the invariant has it in
its cfg.

### Exchange

`ExchangeProofs` proves, from `ExchangeAssumption` only (runs are numbers,
`NoExecution` is no execution, bounds are naturals):

| Theorem | States |
|---|---|
| `ExchangeTypeCorrect` | `Spec => []TypeOK` |
| `OfferRefinement` | `Spec => ImplementsJobOffer` |

The refinement mapping forgets where a directory is and keeps who has it: a job is
offered once it has left staging, its holders are the executions that renamed it,
and it is back when the launcher renamed it.  That a rename maps to a step of
`JobOffer` needs `OfferInv`: a directory in staging or pending has no holder and was
not withdrawn; a claimed one has a holder, so removing it does not undo the
offer; a launcher that publishes finds the directory where it left it; one that
purges has withdrawn; an execution that is still looking for a job holds none.
`PublishStep` to `CrashStep` reduce every action to what it does to one run
(`Step`) or one execution (`Works`, `Takes`); `OfferStep` and the refinement need
only those cases.

`DeliveryProofs` extends it:

| Theorem | States |
|---|---|
| `NeverDisappearsCorrect` | `Spec => []NeverDisappears` |
| `NoOrphanCorrect` | `Spec => []NoOrphanedOffer` |
| `TakenIsReadableCorrect` | `Spec => []TakenIsReadable` |
| `ResultDeliveredCorrect` | `Spec => []ResultDelivered` |

`DeliveryInv` relates, run by run, the launcher's step to the directory.
`Whereabouts`: while the launcher awaits a claim the directory is pending or
claimed, and claimed once a look in pending was in vain; with a share that has not
failed, removal and return find it claimed or gone.  `Contents` and `Held`: the job is
in an offered directory until the launcher removes it, and the name and the result
in it are those of the one execution that holds the run (`Sole`); a result is there
once the execution has exited, if no write failed.  `Watches`: the launcher
watches that holder, the status it has seen stays true, and it removes the
directory of a named execution only after its end or after the last 404.  `Answers`: a
success to be returned is one the holder reported.  Without `Sole` a second Runner
could overwrite the result, and without the clause on removal a delivered status
would not imply a delivered result.  `Glides` covers the many steps that change
only the launcher's own step; an execution's step is one of four kinds
(`ExecutionKinds`).

### Publication

`PublicationProofs`, from `PublicationAssumptions` (writers, readers and the special
values are distinct):

| Theorem | States |
|---|---|
| `PublicationTypeCorrect` | `Spec => []TypeOK` |
| `LinkCorrect` | `Spec => []LinkNeverDangles` |
| `ReportedCorrect` | `Spec => []ReportedStays` |
| `PublishedRefinement` | `Spec => ImplementsPublished` |

`Inv` says who may be past the lock (`Locking`), what each step of the writer under it
has behind it (`Progress`: the version whole, then durable, then named by the link,
then settled), and that a reader under the lock reads what the link names (`Current`).
The two-step read of the code maps to one read of the register because of `Current`.

### Runner and local launcher

`RunnerProofs`, from `RunnerAssumptions` (among them `MaxRunTime[run] <= StaleAfter[run]`: the
deadline of a work directory is no sooner than the longest its own Runner may take;
nothing relates the timeouts of two Runners), for `Spec` and for
`LocalSpec`:

| Theorem | States |
|---|---|
| `RunnerTypeCorrect` | `Spec => []TypeOK`, `LocalSpec => []LocalTypeOK` |
| `WorkedOnceCorrect` | `Spec => []WorkedOnce`, `LocalSpec => []WorkedOnce` |
| `WorkDirCorrect` | the same of `WorkDirOwned` |
| `RegisteredForItselfCorrect` | the same of `RegisteredForItself` |
| `RegisteredIsPublishedCorrect` | the same of `RegisteredIsPublished` |
| `GenerationCorrect` | the same of `GenerationNeverLost` |
| `RunDirCorrect` | `LocalSpec => []RunDirOwned` |

The hard one is `WorkedOnce`.  A marker may be pruned, so having no marker does not
mean that a job was not worked on.  `Admission` and `Barred` state the reason it
is sound: a run that was admitted has a marker with its expiry, or it is so late that
no envelope of it passes the ledger within the skew.  `WorkDirs` says what
is in the directory at each step of its Runner, and bounds the time a Runner works by the
deadline written there, so that no sweep that reads it removes it; `WorkAccount` and
`Reported` follow the account from the copy lego works on to the published one.
`Executions` holds the launcher's run directories and what a returned `Wait` told: a
process that exited with 0 did not fail, so only a success can be dropped (`ReportTold`).

### Administration

`AdminProofs`, from `AdminAssumptions` and `NameAssumptions`: names are strings, and a
Runner starts only with suffixes in normal form and a `maxNames` of at most 100
(`Authorization.validate`, `internal/runner/config/config.go` 575-592).  The alphabet
is that of `Names`, a few characters of each kind the code tells apart; no length is fixed:

| Theorem | States |
|---|---|
| `NamesCorrect` | `Spec => []NamesExclusive` |
| `CheckedCorrect` | `Spec => []CheckedUnlessRaced` |
| `EditCorrect` | `Spec => EditOnRowRead` |
| `RetirementCorrect` | `Spec => RetiredIsFinal` |
| `MatchesSuffixExact` | a name matches a suffix exactly if it lies at or under it, label by label |
| `NamesAllowedExact` | for names and suffixes in normal form, the code's check is the reference |
| `CheckIsExactCorrect` | `Spec => []CheckIsExact`: that check on any stored target and any stored policy |
| `CoveredCorrect` | `Spec => []CoveredUnlessRaced` |
| `JobCorrect` | `Spec => []JobWithinPolicy` |
| `AdminTypeCorrect` | `Spec => []TypeOK` |

`AdminInv` says what every session in progress has read and checked (`Sessions`), that
two sessions never create one target (`Fresh`), and that `target_names` is
exactly the names of the targets in service (`Ownership`).  `CheckedUnlessRaced` is
`CoveredUnlessRaced` in the terms of the code: a target that no write overtook passes
the handlers' own check.  Two invariants stand on `AdminInv`: `Executions` (what
`execute` read is a row whose policy still exists, and what it launched was checked)
and `WellStored` (every stored or carried row has names and suffixes that were not refused,
and a revision within its bound).

From the code's check to the reference the proof goes through the positions of dots.

1. *Labels.*  A label lies between two adjacent cuts (`BoundsAre`).  Bounds are
   finitely many with different first positions, so their ranks are the numbers below their
   count, each taken once (`Ranks`, a bijection between finite sets); the `k`-th label is
   the one of rank `k - 1` (`LabelsAre`).  No induction over a name is needed.
2. *Under is ending in.*  If `a` is `t` after a dot at position `f`, the labels of `t`
   moved by `f` are the last labels of `a`, and their ranks move by the number of
   labels before the dot (`ShiftedBounds`, `ShiftedRank`, `EndingIsUnder`).  Conversely, if the
   last labels are those of `t`, each starts two past the end of the one before it
   (`NextLabel`), so from the last one back they are all `f` further on than in `t`, and
   so is every character (`UnderIsEnding`).
3. *Normal form.*  Trimming, lower-casing and dropping the final dot leave a
   well-formed name as it is (`NormalForm`), so what is stored is what is compared; the first label of a
   well-formed name is the wildcard exactly if the name begins with `*.` (`WildcardLabel`).
4. *Counting.*  A list has no duplicates exactly if it has as many members as
   positions (`DistinctAreCounted`, `CountedAreDistinct`).

### Authentication

`AuthenticationProofs`, from `AuthenticationAssumptions` (the minimum interval is
positive and not longer than the cache time, as `Config.validate` demands):

| Theorem | States |
|---|---|
| `AuthenticationTypeCorrect` | `Spec => []TypeOK` |
| `GenuineCorrect` | `Spec => []ServedGenuine` |
| `ApartCorrect` | `Spec => RefreshesApart` |
| `WithdrawnCorrect` | `Spec => WithdrawnKeyGoes` |
| `KnownCorrect` | `Spec => PublishedKeyKnown` |

`AuthInv` dates the cached set: a set that was received, and then the one installed, was
published no longer ago than its fetch (`Calls`, `Installed`, with `Presence` for
what is published now); the last attempt that ended and did not fail brought the
cached set (`Attempted`); every cached key was offered for signing (`Sources`).

### Only model-checked

* Liveness (`EveryRunEnds`, `EveryStartReturns`, `Answered`, `AttachmentResolved`):
  fairness and ENABLED are outside the prover's reach.
* The two runs that show a finding.

## Not modelled

Listed in `PROJECT.json` with the reason.  In short:

* decoding, strict validation of documents, signatures, sealing and TLS: data and
  cryptography.  What validation demands of a job and of a Result, the validity
  of an envelope and the account a payload opens for are modelled;
* the Key Vault client (HTTP, retries inside its SDK) and the conversion of
  certificates; only the effect of an import is modelled;
* jobs without a signature, which a Runner without `jobSigning` accepts: they pass
  the steps of `Runner` from `Authorize` on, without a ledger;
* configuration, read once at start: its values are the CONSTANTS;
* the DNS delegation check: its answer is shown and decides nothing;
* display names of principals (labels, written under one mutex), listings, routing, error wording, log relaying, command line, GUI, key generation;
* when a target is due: `Due`, `Backoff` and `provisioningDue` are nondeterministic.

## Plan

Left to do: **Schedule** (`Due`, `Backoff`, `provisioningDue`) as operators against a
reference.
