------------------------------ MODULE Exchange ------------------------------
(***************************************************************************)
(* The Container Apps Job launcher and the exchange directory it shares    *)
(* with Runners that start on their own.  The Conductor offers a job as a  *)
(* run directory and waits until an execution has taken it (Start), then   *)
(* watches that execution and collects its result (Wait).  Source:         *)
(* internal/exchange/exchange.go, internal/conductor/launcher/acajob,      *)
(* internal/runner/transport/claim and the frame of runner.Reconcile.      *)
(*                                                                         *)
(* A step is one operation on the share or one answer of the platform.  An *)
(* operation on the share may fail without effect (shareFaults).           *)
(*                                                                         *)
(* Abstracted: time (a deadline passes at some point: Deadline), document  *)
(* contents and signatures, and what the Runner does with the job.  The    *)
(* marker a Runner leaves is taken to be its own execution's name.         *)
(***************************************************************************)
EXTENDS Integers, FiniteSets

CONSTANTS
  Runs,            \* run ids, in order of creation
  Executions,      \* executions the platform starts
  NoExecution,     \* no execution
  MaxLag,          \* attempts during which the platform may not yet know an
                   \* execution it has started
  MaxShareFaults,  \* bound: failed operations on the share
  MaxStops         \* bound: times the Conductor's process is killed

ASSUME ExchangeAssumption ==
  /\ Runs \subseteq Nat
  /\ NoExecution \notin Executions
  /\ MaxLag \in Nat /\ MaxShareFaults \in Nat /\ MaxStops \in Nat

VARIABLES
  place,        \* where the directory of each run is
  files,        \* what is in it
  start,        \* the launcher's Start and Wait for each run
  exe,          \* the executions
  shareFaults,  \* failed operations on the share so far
  stops         \* kills of the process so far

vars == <<place, files, start, exe, shareFaults, stops>>

-----------------------------------------------------------------------------
(* State *)

NoRun  == -1
Places == {"none", "staging", "pending", "claimed", "withdrawn"}

NoFiles == [job |-> FALSE, execution |-> NoExecution, result |-> "none"]
FilesRow == [job : BOOLEAN, execution : Executions \cup {NoExecution},
             result : {"none", "succeeded", "failed"}]

\* "gone": the process was killed.  "done": Start returned an error, or Wait
\* returned.
StartPC == {"idle", "publish", "write", "offer", "unstage", "read", "look",
            "look2", "nap", "withdraw", "purge", "remove", "rmdir", "confirm",
            "poll", "stop", "poll2", "result", "done", "gone"}

ConfirmAttempts == 5
Ended   == {"succeeded", "failed", "stopped"}
Reasons == {"start", "absent", "cancelled", "timeout", "noresult", "mismatch"}

StartRow == [pc : StartPC, name : Executions \cup {NoExecution},
             cancelled : BOOLEAN, due : BOOLEAN, grace : BOOLEAN, back : BOOLEAN,
             attempt : 1 .. ConfirmAttempts, notFound : 0 .. ConfirmAttempts - 1,
             status : Ended \cup {"unknown"},
             out : Reasons \cup {"none", "succeeded", "failed"}]

IdleStart == [pc |-> "idle", name |-> NoExecution, cancelled |-> FALSE,
              due |-> FALSE, grace |-> FALSE, back |-> FALSE, attempt |-> 1,
              notFound |-> 0, status |-> "unknown", out |-> "none"]

ExePC == {"idle", "take", "mark", "job", "work", "exit", "ended"}

ExeRow == [pc : ExePC, todo : SUBSET Runs, run : Runs \cup {NoRun},
           stopping : BOOLEAN, outcome : {"succeeded", "failed"},
           status : Ended \cup {"unknown"}]

IdleExe == [pc |-> "idle", todo |-> {}, run |-> NoRun, stopping |-> FALSE,
            outcome |-> "failed", status |-> "unknown"]

\* Type invariant of the share, the launcher and the executions.
TypeOK ==
  /\ place \in [Runs -> Places]
  /\ files \in [Runs -> FilesRow]
  /\ start \in [Runs -> StartRow]
  /\ exe \in [Executions -> ExeRow]
  /\ shareFaults \in 0 .. MaxShareFaults
  /\ stops \in 0 .. MaxStops

Init ==
  /\ place = [r \in Runs |-> "none"]
  /\ files = [r \in Runs |-> NoFiles]
  /\ start = [r \in Runs |-> IdleStart]
  /\ exe = [e \in Executions |-> IdleExe]
  /\ shareFaults = 0
  /\ stops = 0

ShareFails == shareFaults < MaxShareFaults /\ shareFaults' = shareFaults + 1
ShareWorks == UNCHANGED shareFaults
ShareKeeps == UNCHANGED <<place, files>>

At(r, p)  == start[r].pc = p
Set(r, s) == start' = [start EXCEPT ![r] = s]
Go(r, p)  == Set(r, [start[r] EXCEPT !.pc = p])
Return(r, out) == Set(r, [start[r] EXCEPT !.pc = "done", !.out = out])
LauncherKeeps  == UNCHANGED <<exe, stops>>

-----------------------------------------------------------------------------
(* Start: Publish *)

\* One Start per run (the scheduler executes a run once).
StartRun(r) ==
  /\ At(r, "idle")
  /\ Go(r, "publish")
  /\ ShareWorks /\ ShareKeeps /\ LauncherKeeps

\* No directory of the run exists: mkdir under staging.
PublishStage(r) ==
  /\ At(r, "publish")
  /\ \/ /\ place[r] = "none"
        /\ place' = [place EXCEPT ![r] = "staging"] /\ UNCHANGED files
        /\ Go(r, "write") /\ ShareWorks
     \/ place[r] # "none" /\ Return(r, "start") /\ ShareWorks /\ ShareKeeps
     \/ ShareFails /\ Return(r, "start") /\ ShareKeeps
  /\ LauncherKeeps

PublishWrite(r) ==
  /\ At(r, "write")
  /\ \/ /\ files' = [files EXCEPT ![r].job = TRUE] /\ UNCHANGED place
        /\ Go(r, "offer") /\ ShareWorks
     \/ ShareFails /\ Go(r, "unstage") /\ ShareKeeps
  /\ LauncherKeeps

\* The rename that offers the job.
PublishOffer(r) ==
  /\ At(r, "offer")
  /\ \/ /\ place' = [place EXCEPT ![r] = "pending"] /\ UNCHANGED files
        /\ Go(r, "read") /\ ShareWorks
     \/ ShareFails /\ Go(r, "unstage") /\ ShareKeeps
  /\ LauncherKeeps

\* A failed Publish removes what it staged; an error of that is ignored.
PublishUndo(r) ==
  /\ At(r, "unstage")
  /\ \/ /\ place' = [place EXCEPT ![r] = "none"]
        /\ files' = [files EXCEPT ![r] = NoFiles]
        /\ ShareWorks
     \/ ShareFails /\ ShareKeeps
  /\ Return(r, "start")
  /\ LauncherKeeps

-----------------------------------------------------------------------------
(* Start: awaitClaim *)

\* The claimed directory is to be removed before Start or Wait returns out.
RemoveThen(r, out) == Set(r, [start[r] EXCEPT !.pc = "remove", !.out = out])

\* A deadline passes: the claim timeout, the grace for the execution name, or
\* the timeout of Wait, whichever is being waited for.
Deadline(r) ==
  /\ start[r].pc \in {"read", "look", "look2", "nap", "poll"} /\ ~start[r].due
  /\ Set(r, [start[r] EXCEPT !.due = TRUE])
  /\ ShareWorks /\ ShareKeeps /\ LauncherKeeps

\* The run's context is cancelled.
Cancel(r) ==
  /\ start[r].pc \notin {"idle", "done", "gone"} /\ ~start[r].cancelled
  /\ Set(r, [start[r] EXCEPT !.cancelled = TRUE])
  /\ ShareWorks /\ ShareKeeps /\ LauncherKeeps

ReadExecution(r) ==
  /\ At(r, "read")
  /\ \/ /\ place[r] = "claimed" /\ files[r].execution # NoExecution
        /\ Set(r, [start[r] EXCEPT !.pc = "confirm", !.due = FALSE,
                                   !.name = files[r].execution])
        /\ ShareWorks
     \/ /\ place[r] # "claimed" \/ files[r].execution = NoExecution
        /\ Go(r, "look") /\ ShareWorks
     \/ ShareFails /\ RemoveThen(r, "start")
  /\ ShareKeeps /\ LauncherKeeps

\* Faulty variant of SeenIn: gives up on a pending offer without withdrawing it.
SeenInLeaving(r, d) ==
  IF d = "pending" /\ (start[r].cancelled \/ start[r].due)
    THEN Return(r, IF start[r].cancelled THEN "cancelled" ELSE "start")
    ELSE Go(r, "nap")

\* Faulty variant of SeenIn: a pending offer waits for ever.
SeenInWaiting(r, d) ==
  IF d = "pending" THEN Go(r, "read")
                   ELSE IF start[r].due THEN RemoveThen(r, "start") ELSE Go(r, "nap")

\* The directory was found in d.  A pending offer is withdrawn once the claim
\* timeout has passed or the run is cancelled.  In claimed, the grace for the
\* execution name begins, goes on, or is over.
SeenIn(r, d) ==
  CASE d = "pending" ->
         Go(r, IF start[r].cancelled \/ start[r].due THEN "withdraw" ELSE "read")
    [] d = "claimed" /\ ~start[r].grace ->
         Set(r, [start[r] EXCEPT !.pc = "nap", !.grace = TRUE, !.due = FALSE])
    [] d = "claimed" /\ start[r].grace ->
         IF start[r].due THEN RemoveThen(r, "start") ELSE Go(r, "nap")

\* Faulty variant of LookOrder.
LookOrderSwapped == <<"claimed", "pending">>

\* StateOf looks for the directory in this order.
LookOrder == <<"pending", "claimed">>

LookFirst(r) ==
  /\ At(r, "look")
  /\ \/ place[r] = LookOrder[1] /\ SeenIn(r, LookOrder[1]) /\ ShareWorks
     \/ place[r] # LookOrder[1] /\ Go(r, "look2") /\ ShareWorks
     \/ ShareFails /\ Return(r, "start")
  /\ ShareKeeps /\ LauncherKeeps

LookSecond(r) ==
  /\ At(r, "look2")
  /\ \/ place[r] = LookOrder[2] /\ SeenIn(r, LookOrder[2]) /\ ShareWorks
     \/ place[r] # LookOrder[2] /\ Return(r, "absent") /\ ShareWorks
     \/ ShareFails /\ Return(r, "start")
  /\ ShareKeeps /\ LauncherKeeps

\* The poll interval, with the directory claimed: a cancelled run gives up.
Nap(r) ==
  /\ At(r, "nap")
  /\ IF start[r].cancelled THEN RemoveThen(r, "cancelled") ELSE Go(r, "read")
  /\ ShareWorks /\ ShareKeeps /\ LauncherKeeps

\* Faulty variant of Withdraw: takes a claimed directory back too.
WithdrawAnyway(r) ==
  /\ At(r, "withdraw")
  /\ place' = [place EXCEPT ![r] = "withdrawn"] /\ UNCHANGED files
  /\ Set(r, [start[r] EXCEPT !.pc = "purge", !.back = TRUE])
  /\ ShareWorks /\ LauncherKeeps

\* The rename that takes the offer back; it fails with ErrNotExist when an
\* execution was faster.
Withdraw(r) ==
  /\ At(r, "withdraw")
  /\ \/ /\ place[r] = "pending"
        /\ place' = [place EXCEPT ![r] = "withdrawn"] /\ UNCHANGED files
        /\ Set(r, [start[r] EXCEPT !.pc = "purge", !.back = TRUE])
        /\ ShareWorks
     \/ place[r] # "pending" /\ Go(r, "read") /\ ShareWorks /\ ShareKeeps
     \/ ShareFails /\ Return(r, "start") /\ ShareKeeps
  /\ LauncherKeeps

Purge(r) ==
  /\ At(r, "purge")
  /\ \/ /\ place' = [place EXCEPT ![r] = "none"]
        /\ files' = [files EXCEPT ![r] = NoFiles]
        /\ Return(r, IF start[r].cancelled THEN "cancelled" ELSE "start")
        /\ ShareWorks
     \/ ShareFails /\ Return(r, "start") /\ ShareKeeps
  /\ LauncherKeeps

\* Remove of the claimed directory: the files, then the directory unless a file
\* has appeared in it meanwhile.  An error is ignored.
RemoveFiles(r) ==
  /\ At(r, "remove")
  /\ \/ /\ files' = [files EXCEPT ![r] = IF place[r] = "claimed" THEN NoFiles ELSE @]
        /\ Go(r, "rmdir") /\ ShareWorks
     \/ ShareFails /\ Go(r, "done") /\ UNCHANGED files
  /\ UNCHANGED place /\ LauncherKeeps

RemoveDir(r) ==
  /\ At(r, "rmdir")
  /\ \/ /\ place' = [place EXCEPT ![r] =
             IF @ = "claimed" /\ files[r] = NoFiles THEN "none" ELSE @]
        /\ ShareWorks
     \/ ShareFails /\ UNCHANGED place
  /\ Go(r, "done")
  /\ UNCHANGED files /\ LauncherKeeps

-----------------------------------------------------------------------------
(* Start: confirm *)

\* Faulty variant of Unconfirmed: one attempt too many.
UnconfirmedOnceMore(r, notFound) ==
  IF start[r].cancelled \/ start[r].attempt > ConfirmAttempts
    THEN Go(r, "poll")
    ELSE Set(r, [start[r] EXCEPT !.attempt = @ + 1, !.notFound = notFound])

\* After an attempt that did not confirm the execution: another one, unless the
\* attempts are used up or the run is cancelled.  Wait then watches it anyway.
Unconfirmed(r, notFound) ==
  IF start[r].cancelled \/ start[r].attempt = ConfirmAttempts
    THEN Go(r, "poll")
    ELSE Set(r, [start[r] EXCEPT !.attempt = @ + 1, !.notFound = notFound])

\* Faulty variant of Confirm: the first 404 is believed.
ConfirmHasty(r) ==
  /\ At(r, "confirm")
  /\ \/ Go(r, "poll")
     \/ start[r].attempt <= MaxLag /\ RemoveThen(r, "start")
     \/ Unconfirmed(r, 0)
  /\ ShareWorks /\ ShareKeeps /\ LauncherKeeps

\* One answer: the execution is known, not found, or nothing could be learnt.
\* Only a name no attempt finds ends the run.
Confirm(r) ==
  LET notFound == start[r].notFound + 1 IN
  /\ At(r, "confirm")
  /\ \/ Go(r, "poll")
     \/ /\ start[r].attempt <= MaxLag
        /\ IF notFound = ConfirmAttempts THEN RemoveThen(r, "start")
                                         ELSE Unconfirmed(r, notFound)
     \/ Unconfirmed(r, 0)
  /\ ShareWorks /\ ShareKeeps /\ LauncherKeeps

-----------------------------------------------------------------------------
(* Wait *)

Watched(r) == exe[start[r].name]

\* Faulty variant of Poll: the directory is cleaned up as soon as the execution
\* has ended.
PollCleaning(r) ==
  /\ At(r, "poll")
  /\ \/ /\ Watched(r).status \in Ended
        /\ files' = [files EXCEPT ![r] = NoFiles]
        /\ Set(r, [start[r] EXCEPT !.pc = "result", !.due = FALSE,
                                   !.status = Watched(r).status])
     \/ Go(r, "stop") /\ UNCHANGED files
  /\ UNCHANGED place /\ ShareWorks /\ LauncherKeeps

\* poll sees the execution ended, or ends without: cancelled, timed out, or the
\* platform did not answer.
Poll(r) ==
  /\ At(r, "poll")
  /\ \/ /\ Watched(r).status \in Ended
        /\ Set(r, [start[r] EXCEPT !.pc = "result", !.due = FALSE,
                                   !.status = Watched(r).status])
     \/ Go(r, "stop")
  /\ ShareWorks /\ ShareKeeps /\ LauncherKeeps

\* The platform is asked to stop the execution; the request may be lost.
StopExecution(r) ==
  /\ At(r, "stop")
  /\ \/ exe' = [exe EXCEPT ![start[r].name].stopping = TRUE]
     \/ UNCHANGED exe
  /\ Go(r, "poll2")
  /\ ShareWorks /\ ShareKeeps /\ UNCHANGED stops

PollStopped(r) ==
  /\ At(r, "poll2")
  /\ \/ /\ Watched(r).status \in Ended
        /\ Set(r, [start[r] EXCEPT !.pc = "result", !.status = Watched(r).status])
     \/ Go(r, "result")
  /\ ShareWorks /\ ShareKeeps /\ LauncherKeeps

\* Wait's answer, then its deferred cleanup: the directory goes only if the
\* execution was seen to end.
WaitAnswers(r, out) ==
  IF start[r].status \in Ended THEN RemoveThen(r, out) ELSE Return(r, out)

Disagree(status, result) == status \in {"succeeded", "failed"} /\ result # status

ReadResult(r) ==
  LET found == place[r] = "claimed" /\ files[r].result # "none"
      none  == CASE start[r].cancelled -> "cancelled"
                 [] ~start[r].cancelled /\ start[r].due -> "timeout"
                 [] OTHER -> "noresult"
  IN
  /\ At(r, "result")
  /\ \/ /\ found /\ ShareWorks
        /\ WaitAnswers(r, IF Disagree(start[r].status, files[r].result)
                            THEN "mismatch" ELSE files[r].result)
     \/ ~found /\ WaitAnswers(r, none) /\ ShareWorks
     \/ WaitAnswers(r, none) /\ ShareFails
  /\ ShareKeeps /\ LauncherKeeps

-----------------------------------------------------------------------------
(* An execution: Take, MarkExecution, the job, the result *)

ExeSet(e, x) == exe' = [exe EXCEPT ![e] = x]
End(e, status) == ExeSet(e, [exe[e] EXCEPT !.pc = "ended", !.status = status])
RunnerKeeps == UNCHANGED <<start, stops>>

\* Take lists the pending directories.
ListPending(e) ==
  /\ exe[e].pc = "idle"
  /\ \/ /\ ExeSet(e, [exe[e] EXCEPT !.pc = "take",
                        !.todo = {r \in Runs : place[r] = "pending"}])
        /\ ShareWorks
     \/ End(e, "failed") /\ ShareFails
  /\ ShareKeeps /\ RunnerKeeps

\* The oldest listed directory is renamed to claimed; one that is gone is
\* passed over; with none left there is nothing to do.
Take(e) ==
  /\ exe[e].pc = "take"
  /\ \/ \E r \in exe[e].todo :
          /\ \A q \in exe[e].todo : r <= q
          /\ \/ /\ place[r] = "pending"
                /\ place' = [place EXCEPT ![r] = "claimed"]
                /\ ExeSet(e, [exe[e] EXCEPT !.pc = "mark", !.todo = {}, !.run = r])
                /\ ShareWorks
             \/ /\ place[r] # "pending"
                /\ ExeSet(e, [exe[e] EXCEPT !.todo = @ \ {r}])
                /\ ShareWorks /\ UNCHANGED place
             \/ End(e, "failed") /\ ShareFails /\ UNCHANGED place
     \/ /\ exe[e].todo = {} /\ End(e, "succeeded")
        /\ ShareWorks /\ UNCHANGED place
  /\ UNCHANGED files /\ RunnerKeeps

\* The execution name is written next to the job; a Runner that cannot gives up.
MarkExecution(e) ==
  LET r == exe[e].run IN
  /\ exe[e].pc = "mark"
  /\ \/ /\ place[r] = "claimed"
        /\ files' = [files EXCEPT ![r].execution = e]
        /\ ExeSet(e, [exe[e] EXCEPT !.pc = "job"]) /\ ShareWorks
     \/ place[r] # "claimed" /\ End(e, "failed") /\ UNCHANGED files /\ ShareWorks
     \/ End(e, "failed") /\ UNCHANGED files /\ ShareFails
  /\ UNCHANGED place /\ RunnerKeeps

ReadJob(e) ==
  LET r == exe[e].run IN
  /\ exe[e].pc = "job"
  /\ \/ /\ place[r] = "claimed" /\ files[r].job
        /\ ExeSet(e, [exe[e] EXCEPT !.pc = "work"]) /\ ShareWorks
     \/ ~(place[r] = "claimed" /\ files[r].job) /\ End(e, "failed") /\ ShareWorks
     \/ End(e, "failed") /\ ShareFails
  /\ ShareKeeps /\ RunnerKeeps

\* The result goes to standard output and, if the directory is there, to its
\* file.
WriteResult(e) ==
  LET r == exe[e].run IN
  /\ exe[e].pc = "work"
  /\ \E s \in {"succeeded", "failed"} :
       /\ ExeSet(e, [exe[e] EXCEPT !.pc = "exit", !.outcome = s])
       /\ \/ /\ place[r] = "claimed" /\ ShareWorks
             /\ files' = [files EXCEPT ![r].result = s]
          \/ place[r] # "claimed" /\ UNCHANGED files /\ ShareWorks
          \/ UNCHANGED files /\ ShareFails
  /\ UNCHANGED place /\ RunnerKeeps

\* The exit code says what the result said.
Exit(e) ==
  /\ exe[e].pc = "exit"
  /\ End(e, exe[e].outcome)
  /\ ShareWorks /\ ShareKeeps /\ RunnerKeeps

\* The platform ends the execution: on request, or for reasons of its own.
Die(e) ==
  /\ exe[e].pc \notin {"idle", "ended"}
  /\ \/ End(e, "failed")
     \/ exe[e].stopping /\ End(e, "stopped")
  /\ ShareWorks /\ ShareKeeps /\ RunnerKeeps

-----------------------------------------------------------------------------
(* The specification *)

\* The Conductor's process is killed: nobody waits any more, the directories
\* stay as they are.
Crash ==
  /\ stops < MaxStops /\ stops' = stops + 1
  /\ start' = [r \in Runs |-> IF start[r].pc \in {"idle", "done"} THEN start[r]
                              ELSE [start[r] EXCEPT !.pc = "gone"]]
  /\ UNCHANGED <<place, files, exe, shareFaults>>

Await(r) ==
  \/ ReadExecution(r) \/ LookFirst(r) \/ LookSecond(r) \/ Nap(r)
  \/ Withdraw(r) \/ Purge(r) \/ RemoveFiles(r) \/ RemoveDir(r)

Launcher(r) ==
  \/ PublishStage(r) \/ PublishWrite(r) \/ PublishOffer(r) \/ PublishUndo(r)
  \/ Await(r) \/ Confirm(r)
  \/ Poll(r) \/ StopExecution(r) \/ PollStopped(r) \/ ReadResult(r)

Execution(e) ==
  \/ ListPending(e) \/ Take(e) \/ MarkExecution(e) \/ ReadJob(e)
  \/ WriteResult(e) \/ Exit(e) \/ Die(e)

Next ==
  \/ \E r \in Runs : StartRun(r) \/ Launcher(r) \/ Deadline(r) \/ Cancel(r)
  \/ \E e \in Executions : Execution(e)
  \/ Crash

Spec == Init /\ [][Next]_vars

\* The launcher's goroutine keeps going and its deadlines pass.  Nothing is
\* promised of executions.
FairSpec ==
  /\ Spec
  /\ \A r \in Runs : WF_vars(Launcher(r)) /\ WF_vars(Deadline(r))

-----------------------------------------------------------------------------
(* Properties *)

\* "A job is either taken by a Runner or withdrawn by the Conductor, never
\* both", and by one Runner only, though listings are stale when they are used
\* (exchange.go: Take, Withdraw).
Abstract == INSTANCE JobOffer WITH
  offered <- {r \in Runs : \/ place[r] \in {"pending", "claimed", "withdrawn"}
                           \/ start[r].back
                           \/ \E e \in Executions : exe[e].run = r},
  holders <- [r \in Runs |-> {e \in Executions : exe[e].run = r}],
  back    <- {r \in Runs : start[r].back}

\* The exchange directory implements the abstract offer.
ImplementsJobOffer == Abstract!Spec

\* A Runner that has taken a job can read it, unless the launcher has given up on
\* that Runner: a job is offered only once it is completely written.  And one that
\* works under the name the launcher has read keeps its run directory until it has
\* ended, unless the platform has denied the name in all attempts of confirm, or in all
\* but the last (notFound >= ConfirmAttempts - 1).
TakenIsReadable ==
  \A e \in Executions :
    LET r == exe[e].run
    IN /\ exe[e].pc \in {"mark", "job"} /\ start[r].pc \notin {"rmdir", "done", "gone"} => files[r].job
       /\ exe[e].pc = "work" /\ start[r].name = e /\ start[r].notFound < ConfirmAttempts - 1 =>
            place[r] = "claimed" /\ files[r].job

\* An offer on its way from pending to claimed is never taken for vanished: the
\* two looks of StateOf are made in the order the directory moves.
NeverDisappears == \A r \in Runs : start[r].out # "absent"

\* When Start or Wait has returned, no Runner can take the job any more: the
\* offer was taken or withdrawn, also when both were tried at once - unless an
\* operation on the share failed.
NoOrphanedOffer ==
  \A r \in Runs : start[r].pc = "done" /\ shareFaults = 0 => place[r] \in {"none", "claimed"}

\* A Runner that was seen to succeed has its result delivered before the run
\* directory goes, unless the share failed, and a delivered success is one the
\* Runner reported.
ResultDelivered ==
  \A r \in Runs : start[r].pc = "done" =>
    /\ start[r].status = "succeeded" /\ shareFaults = 0 => start[r].out = "succeeded"
    /\ start[r].out = "succeeded" => Watched(r).outcome = "succeeded"

\* Every Start returns, and so does the Wait that follows it, whether or not an
\* execution ever takes the job.
EveryStartReturns ==
  \A r \in Runs : start[r].pc = "publish" ~> start[r].pc \in {"done", "gone"}

\* When Start returns an error of reason "start", no Runner works on the job.
StartErrorMeansNoRunner ==
  \A r \in Runs : start[r].pc = "done" /\ start[r].out = "start" =>
    \A e \in Executions : exe[e].run = r => exe[e].pc # "work"
=============================================================================
