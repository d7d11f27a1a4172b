---------------------------- MODULE LocalProcess ----------------------------
(***************************************************************************)
(* The local-process launcher (internal/conductor/launcher/localprocess),  *)
(* composed with the Runner processes it starts on the Conductor's host.   *)
(* An execution has a run directory with the job and the Result, a context *)
(* that a timeout or the Conductor ends, and a process that gets SIGTERM   *)
(* then and SIGKILL after a grace period.  Other Runner processes, started *)
(* by hand with a copy of such a job, share the host.                      *)
(***************************************************************************)
EXTENDS Runner

VARIABLES
  exec,     \* the execution of each process, if the launcher started it
  runDirs   \* runs whose directory exists

localVars == <<vars, exec, runDirs>>

\* cut: the context ended before the process was found to have ended.
NoExec == [is |-> "none", run |-> None, ctx |-> "live", cut |-> FALSE, report |-> "none"]

HostStays ==
  LedgerStays /\ FilesStay /\ UNCHANGED <<now, proc, faults>>

LocalInit == Init /\ exec = [r \in Runners |-> NoExec] /\ runDirs = {}

\* A run directory that exists is refused, and a Start that fails leaves nothing behind.
\* The Conductor starts a run once; what a second Start would do is left to the directory.
Start(r, run) ==
  /\ run \notin runDirs /\ runDirs' = runDirs \cup {run}
  /\ exec' = [exec EXCEPT ![r] = [NoExec EXCEPT !.is = "running", !.run = run]]
  /\ Begin(r, run)

\* The job file of a run that was started is presented to a Runner once more.
StartByHand(r, run) == begun[run] > 0 /\ Begin(r, run) /\ UNCHANGED <<exec, runDirs>>

\* The timeout passes or the Conductor cancels: SIGTERM to the process group.
EndContext(r) ==
  /\ exec[r].is = "running"
  /\ \E ctx \in {"timeout", "cancelled"} :
       /\ exec[r].ctx = "live" \/ (exec[r].ctx = "timeout" /\ ctx = "cancelled")
       /\ \E cut \in BOOLEAN :
            /\ ~Ended(r) \/ exec[r].cut => cut
            /\ exec' = [exec EXCEPT ![r].ctx = ctx, ![r].cut = cut]
  /\ Terminate(r) \/ ((Ended(r) \/ proc[r].term) /\ Stops /\ HostStays)
  /\ UNCHANGED runDirs

\* WaitDelay: the grace period is over.
KillAfterGrace(r) ==
  /\ exec[r].is = "running" /\ exec[r].ctx # "live"
  /\ Die(r) /\ UNCHANGED <<stops, exec, runDirs>>

\* ReadResultFile and ResultDocument accept a signed, valid Result only.
Accepted(p) == p.pc = "done" /\ p.result # "none" /\ p.signs /\ ResultValid(BuildResult(p))

\* A Result counts, also of a process that was told to end, unless that exited with 0:
\* then cmd.Wait returns the context's error and nothing is read.  Without a Result the
\* context tells why.
Report(r) ==
  CASE exec[r].cut /\ proc[r].exit0 -> "noResult"
    [] ~(exec[r].cut /\ proc[r].exit0) /\ Accepted(proc[r]) ->
         IF BuildResult(proc[r]).run = exec[r].run THEN proc[r].result ELSE "mismatch"
    [] OTHER -> IF exec[r].ctx = "live" THEN "noResult" ELSE exec[r].ctx

Return(r) ==
  /\ exec' = [exec EXCEPT ![r].is = "returned", ![r].report = Report(r)]
  /\ runDirs' = runDirs \ {exec[r].run}
  /\ UNCHANGED vars

\* Faulty variant of Wait: it returns when the context has ended, not the process.
WaitContext(r) == exec[r].is = "running" /\ (Ended(r) \/ exec[r].ctx # "live") /\ Return(r)

Wait(r) == exec[r].is = "running" /\ Ended(r) /\ Return(r)

\* The Conductor's process dies; its Runners go on and their directories stay.
ConductorDies ==
  /\ \E r \in Runners : exec[r].is = "running"
  /\ exec' = [r \in Runners |-> IF exec[r].is = "running" THEN [NoExec EXCEPT !.is = "lost", !.run = exec[r].run]
                                                          ELSE exec[r]]
  /\ Stops /\ HostStays /\ UNCHANGED runDirs

Forget(r) ==
  /\ exec[r].is # "running" /\ Replace(r)
  /\ exec' = [exec EXCEPT ![r] = NoExec] /\ UNCHANGED runDirs

OnItsOwn(r) == (Step(r) \/ Terminate(r) \/ Kill(r)) /\ UNCHANGED <<exec, runDirs>>

LocalNext ==
  \/ \E r \in Runners, run \in Runs : Start(r, run) \/ StartByHand(r, run)
  \/ \E r \in Runners : EndContext(r) \/ KillAfterGrace(r) \/ Wait(r) \/ Forget(r) \/ OnItsOwn(r)
  \/ ConductorDies
  \/ Tick /\ UNCHANGED <<exec, runDirs>>

LocalSpec == LocalInit /\ [][LocalNext]_localVars

---------------------------------------------------------------------------
(* Properties. *)

Launched(r) == exec[r].is # "none" /\ ~Ended(r)

Reports == Outcomes \cup {"mismatch", "noResult", "timeout", "cancelled"}

ExecRow ==
  [is : {"none", "running", "returned", "lost"}, run : Runs \cup {None},
   ctx : {"live", "timeout", "cancelled"}, cut : BOOLEAN, report : Reports]

LocalTypeOK == TypeOK /\ exec \in [Runners -> ExecRow] /\ runDirs \subseteq Runs

\* What Wait makes of a Runner that delivered a Result: the Result, but for one that
\* succeeded after its context had ended, which counts as none.
Told(r) ==
  \/ exec[r].report = proc[r].result
  \/ exec[r].cut /\ proc[r].result # "failed" /\ exec[r].report = "noResult"

\* Wait returns only after its Runner has ended, and then with the Result it delivered,
\* also when a timeout or a cancel came first, unless the Runner succeeded after that.
\* Until then the run directory is that Runner's alone: no second one is started for
\* the run, not even by a Conductor that has died and come back while the first goes on.
RunDirOwned ==
  \A r \in Runners :
    /\ Launched(r) =>
         /\ exec[r].is # "returned" /\ exec[r].run \in runDirs
         /\ \A q \in Runners \ {r} : Launched(q) => exec[q].run # exec[r].run
    /\ exec[r].is = "returned" /\ Accepted(proc[r]) => Told(r)
=============================================================================
