--------------------------- MODULE ExchangeProofs ---------------------------
(***************************************************************************)
(* Theorems about Exchange, for any number of runs, executions, failing    *)
(* operations and kills: type correctness, and that the exchange directory *)
(* implements JobOffer, so a job is taken once or withdrawn, never both.   *)
(***************************************************************************)
EXTENDS Exchange, TLAPS

-----------------------------------------------------------------------------
(* Rows *)

LEMMA SetType ==
  ASSUME TypeOK, NEW r \in Runs, NEW s \in StartRow, Set(r, s)
  PROVE  start' \in [Runs -> StartRow]
BY DEF TypeOK, Set

LEMMA GoType ==
  ASSUME TypeOK, NEW r \in Runs, NEW p \in StartPC, Go(r, p)
  PROVE  start' \in [Runs -> StartRow]
<1>1. start[r] \in StartRow
  BY DEF TypeOK
<1>2. [start[r] EXCEPT !.pc = p] \in StartRow
  BY <1>1 DEF StartRow
<1> QED
  BY <1>2, SetType DEF Go

LEMMA OutType ==
  ASSUME TypeOK, NEW r \in Runs, NEW p \in StartPC,
         NEW out \in Reasons \cup {"succeeded", "failed"},
         Set(r, [start[r] EXCEPT !.pc = p, !.out = out])
  PROVE  start' \in [Runs -> StartRow]
<1>1. start[r] \in StartRow
  BY DEF TypeOK
<1>2. [start[r] EXCEPT !.pc = p, !.out = out] \in StartRow
  BY <1>1 DEF StartRow
<1> QED
  BY <1>2, SetType

LEMMA ReturnType ==
  ASSUME TypeOK, NEW r \in Runs, NEW out \in Reasons \cup {"succeeded", "failed"},
         Return(r, out) \/ RemoveThen(r, out)
  PROVE  start' \in [Runs -> StartRow]
<1>1. "done" \in StartPC /\ "remove" \in StartPC
  BY DEF StartPC
<1> QED
  BY <1>1, OutType DEF Return, RemoveThen

LEMMA AttemptType ==
  ASSUME NEW s \in StartRow, NEW a \in 1 .. ConfirmAttempts,
         NEW n \in 0 .. ConfirmAttempts - 1
  PROVE  [s EXCEPT !.attempt = a, !.notFound = n] \in StartRow
BY DEF StartRow

LEMMA ShareType ==
  ASSUME TypeOK, ShareFails \/ ShareWorks
  PROVE  shareFaults' \in 0 .. MaxShareFaults
BY ExchangeAssumption DEF TypeOK, ShareFails, ShareWorks

LEMMA PlaceType ==
  ASSUME TypeOK, NEW r \in Runs, NEW p \in Places, place' = [place EXCEPT ![r] = p]
  PROVE  place' \in [Runs -> Places]
BY DEF TypeOK

LEMMA ClearType ==
  ASSUME TypeOK, NEW r \in Runs, files' = [files EXCEPT ![r] = NoFiles]
  PROVE  files' \in [Runs -> FilesRow]
<1>1. NoFiles \in FilesRow
  BY DEF NoFiles, FilesRow
<1> QED
  BY <1>1 DEF TypeOK

-----------------------------------------------------------------------------
(* Type correctness *)

LEMMA TypeInit == Init => TypeOK
<1> SUFFICES ASSUME Init PROVE TypeOK
  OBVIOUS
<1>1. NoFiles \in FilesRow
  BY DEF NoFiles, FilesRow
<1>2. IdleStart \in StartRow
  <2>1. 1 \in 1 .. ConfirmAttempts /\ 0 \in 0 .. ConfirmAttempts - 1
    BY DEF ConfirmAttempts
  <2> QED
    BY <2>1 DEF IdleStart, StartRow, StartPC
<1>3. IdleExe \in ExeRow
  BY DEF IdleExe, ExeRow, ExePC
<1> QED
  BY <1>1, <1>2, <1>3, ExchangeAssumption DEF Init, TypeOK, Places

LEMMA PublishType ==
  ASSUME TypeOK, NEW r \in Runs,
         \/ StartRun(r) \/ PublishStage(r) \/ PublishWrite(r) \/ PublishOffer(r)
         \/ PublishUndo(r)
  PROVE  TypeOK'
<1>1. shareFaults' \in 0 .. MaxShareFaults
  BY ShareType DEF StartRun, PublishStage, PublishWrite, PublishOffer, PublishUndo
<1>2. UNCHANGED <<exe, stops>>
  BY DEF StartRun, PublishStage, PublishWrite, PublishOffer, PublishUndo, LauncherKeeps
<1>3. place' \in [Runs -> Places]
  <2>1. \/ UNCHANGED place
        \/ \E p \in {"staging", "pending", "none"} : place' = [place EXCEPT ![r] = p]
    BY DEF StartRun, PublishStage, PublishWrite, PublishOffer, PublishUndo, ShareKeeps
  <2> QED
    BY <2>1, PlaceType DEF TypeOK, Places
<1>4. files' \in [Runs -> FilesRow]
  <2>1. \/ UNCHANGED files \/ files' = [files EXCEPT ![r].job = TRUE]
        \/ files' = [files EXCEPT ![r] = NoFiles]
    BY DEF StartRun, PublishStage, PublishWrite, PublishOffer, PublishUndo, ShareKeeps
  <2>2. CASE files' = [files EXCEPT ![r].job = TRUE]
    BY <2>2 DEF TypeOK, FilesRow
  <2> QED
    BY <2>1, <2>2, ClearType DEF TypeOK
<1>5. start' \in [Runs -> StartRow]
  <2>1. \/ \E p \in {"publish", "write", "offer", "read", "unstage"} : Go(r, p)
        \/ Return(r, "start")
    BY DEF StartRun, PublishStage, PublishWrite, PublishOffer, PublishUndo
  <2>2. {"publish", "write", "offer", "read", "unstage"} \subseteq StartPC
    BY DEF StartPC
  <2>3. "start" \in Reasons
    BY DEF Reasons
  <2> QED
    BY <2>1, <2>2, <2>3, GoType, ReturnType
<1> QED
  BY <1>1, <1>2, <1>3, <1>4, <1>5 DEF TypeOK

LEMMA AwaitType ==
  ASSUME TypeOK, NEW r \in Runs,
         \/ Deadline(r) \/ Cancel(r) \/ ReadExecution(r) \/ LookFirst(r)
         \/ LookSecond(r) \/ Nap(r)
  PROVE  TypeOK'
<1>1. shareFaults' \in 0 .. MaxShareFaults
  BY ShareType DEF Deadline, Cancel, ReadExecution, LookFirst, LookSecond, Nap
<1>2. UNCHANGED <<place, files, exe, stops>>
  BY DEF Deadline, Cancel, ReadExecution, LookFirst, LookSecond, Nap, LauncherKeeps,
     ShareKeeps
<1>3. start[r] \in StartRow /\ files[r] \in FilesRow
  BY DEF TypeOK
<1>4. {"read", "look", "look2", "nap", "withdraw", "confirm"} \subseteq StartPC
  BY DEF StartPC
<1>5. {"start", "absent", "cancelled"} \subseteq Reasons
  BY DEF Reasons
<1>6. start' \in [Runs -> StartRow]
  <2>1. CASE Deadline(r)
    <3>1. [start[r] EXCEPT !.due = TRUE] \in StartRow
      BY <1>3 DEF StartRow
    <3> QED
      BY <2>1, <3>1, SetType DEF Deadline
  <2>2. CASE Cancel(r)
    <3>1. [start[r] EXCEPT !.cancelled = TRUE] \in StartRow
      BY <1>3 DEF StartRow
    <3> QED
      BY <2>2, <3>1, SetType DEF Cancel
  <2>3. CASE ReadExecution(r)
    <3>1. [start[r] EXCEPT !.pc = "confirm", !.due = FALSE,
                           !.name = files[r].execution] \in StartRow
      BY <1>3, <1>4 DEF StartRow, FilesRow
    <3>2. \/ Set(r, [start[r] EXCEPT !.pc = "confirm", !.due = FALSE,
                                     !.name = files[r].execution])
          \/ Go(r, "look") \/ RemoveThen(r, "start")
      BY <2>3 DEF ReadExecution
    <3> QED
      BY <3>1, <3>2, <1>4, <1>5, SetType, GoType, ReturnType
  <2>4. ASSUME NEW d, SeenIn(r, d), d \in {"pending", "claimed"}
        PROVE  start' \in [Runs -> StartRow]
    <3>1. [start[r] EXCEPT !.pc = "nap", !.grace = TRUE, !.due = FALSE] \in StartRow
      BY <1>3, <1>4 DEF StartRow
    <3>2. \/ Go(r, "withdraw") \/ Go(r, "read") \/ Go(r, "nap")
          \/ Set(r, [start[r] EXCEPT !.pc = "nap", !.grace = TRUE, !.due = FALSE])
          \/ RemoveThen(r, "start")
      BY <2>4 DEF SeenIn
    <3> QED
      BY <3>1, <3>2, <1>4, <1>5, SetType, GoType, ReturnType
  <2>5. CASE LookFirst(r) \/ LookSecond(r)
    <3>1. \/ \E d \in {"pending", "claimed"} : SeenIn(r, d)
          \/ Go(r, "look2") \/ Return(r, "start") \/ Return(r, "absent")
      BY <2>5 DEF LookFirst, LookSecond, LookOrder
    <3> QED
      BY <3>1, <2>4, <1>4, <1>5, GoType, ReturnType
  <2>6. CASE Nap(r)
    <3>1. Go(r, "read") \/ RemoveThen(r, "cancelled")
      BY <2>6 DEF Nap
    <3> QED
      BY <3>1, <1>4, <1>5, GoType, ReturnType
  <2> QED
    BY <2>1, <2>2, <2>3, <2>5, <2>6
<1> QED
  BY <1>1, <1>2, <1>6 DEF TypeOK

LEMMA GiveUpType ==
  ASSUME TypeOK, NEW r \in Runs,
         Withdraw(r) \/ Purge(r) \/ RemoveFiles(r) \/ RemoveDir(r)
  PROVE  TypeOK'
<1>1. shareFaults' \in 0 .. MaxShareFaults
  BY ShareType DEF Withdraw, Purge, RemoveFiles, RemoveDir
<1>2. UNCHANGED <<exe, stops>>
  BY DEF Withdraw, Purge, RemoveFiles, RemoveDir, LauncherKeeps
<1>3. start[r] \in StartRow
  BY DEF TypeOK
<1>4. place' \in [Runs -> Places]
  <2>1. \/ UNCHANGED place
        \/ \E p \in {"withdrawn", "none", place[r]} : place' = [place EXCEPT ![r] = p]
    BY DEF Withdraw, Purge, RemoveFiles, RemoveDir, ShareKeeps
  <2>2. {"withdrawn", "none", place[r]} \subseteq Places
    BY DEF TypeOK, Places
  <2> QED
    BY <2>1, <2>2, PlaceType DEF TypeOK
<1>5. files' \in [Runs -> FilesRow]
  <2>1. \/ UNCHANGED files \/ files' = [files EXCEPT ![r] = NoFiles]
        \/ files' = [files EXCEPT ![r] = files[r]]
    BY DEF Withdraw, Purge, RemoveFiles, RemoveDir, ShareKeeps
  <2> QED
    BY <2>1, ClearType DEF TypeOK
<1>6. start' \in [Runs -> StartRow]
  <2>1. [start[r] EXCEPT !.pc = "purge", !.back = TRUE] \in StartRow
    BY <1>3 DEF StartRow, StartPC
  <2>2. \/ Set(r, [start[r] EXCEPT !.pc = "purge", !.back = TRUE])
        \/ \E p \in {"read", "rmdir", "done"} : Go(r, p)
        \/ Return(r, "start") \/ Return(r, "cancelled")
    BY DEF Withdraw, Purge, RemoveFiles, RemoveDir
  <2>3. {"read", "rmdir", "done"} \subseteq StartPC /\ {"start", "cancelled"} \subseteq Reasons
    BY DEF StartPC, Reasons
  <2> QED
    BY <2>1, <2>2, <2>3, SetType, GoType, ReturnType
<1> QED
  BY <1>1, <1>2, <1>4, <1>5, <1>6 DEF TypeOK

LEMMA WatchType ==
  ASSUME TypeOK, NEW r \in Runs,
         Confirm(r) \/ Poll(r) \/ StopExecution(r) \/ PollStopped(r) \/ ReadResult(r)
  PROVE  TypeOK'
<1>1. shareFaults' \in 0 .. MaxShareFaults
  BY ShareType DEF Confirm, Poll, StopExecution, PollStopped, ReadResult
<1>2. UNCHANGED <<place, files, stops>>
  BY DEF Confirm, Poll, StopExecution, PollStopped, ReadResult, LauncherKeeps, ShareKeeps
<1>3. exe' \in [Executions -> ExeRow]
  <2>1. UNCHANGED exe \/ exe' = [exe EXCEPT ![start[r].name].stopping = TRUE]
    BY DEF Confirm, Poll, StopExecution, PollStopped, ReadResult, LauncherKeeps
  <2>2. \A e \in Executions : /\ exe[e] \in ExeRow
                              /\ [exe[e] EXCEPT !.stopping = TRUE] \in ExeRow
    BY DEF TypeOK, ExeRow
  <2>3. exe' = exe \/ exe' = [e \in Executions |->
               IF e = start[r].name THEN [exe[e] EXCEPT !.stopping = TRUE] ELSE exe[e]]
    BY <2>1 DEF TypeOK
  <2> QED
    BY <2>2, <2>3 DEF TypeOK
<1>4. start[r] \in StartRow /\ files[r] \in FilesRow
  BY DEF TypeOK
<1>5. {"poll", "stop", "poll2", "result"} \subseteq StartPC
  BY DEF StartPC
<1>6. start' \in [Runs -> StartRow]
  <2>1. CASE Confirm(r)
    <3> DEFINE n == start[r].notFound
               next(m) == [start[r] EXCEPT !.attempt = @ + 1, !.notFound = m]
    <3>1. n \in 0 .. 4 /\ start[r].attempt \in 1 .. 5
      BY <1>4 DEF StartRow, ConfirmAttempts
    <3>2. \/ Go(r, "poll") \/ RemoveThen(r, "start")
          \/ start[r].attempt # 5 /\ Set(r, next(0))
          \/ start[r].attempt # 5 /\ n + 1 # 5 /\ Set(r, next(n + 1))
      BY <2>1 DEF Confirm, Unconfirmed, ConfirmAttempts
    <3>3. ASSUME start[r].attempt # 5, NEW m \in 0 .. 4
          PROVE  next(m) \in StartRow
      <4>1. start[r].attempt + 1 \in 1 .. 5
        BY <3>1, <3>3
      <4>2. m \in 0 .. ConfirmAttempts - 1 /\ start[r].attempt + 1 \in 1 .. ConfirmAttempts
        BY <4>1 DEF ConfirmAttempts
      <4> QED
        BY <4>2, <1>4, AttemptType
    <3>4. CASE Go(r, "poll") \/ RemoveThen(r, "start")
      BY <3>4, <1>5, GoType, ReturnType DEF Reasons
    <3>5. CASE start[r].attempt # 5 /\ Set(r, next(0))
      <4>1. next(0) \in StartRow
        BY <3>3, <3>5
      <4> HIDE DEF next
      <4> QED
        BY <4>1, <3>5, SetType
    <3>6. CASE start[r].attempt # 5 /\ n + 1 # 5 /\ Set(r, next(n + 1))
      <4>1. n + 1 \in 0 .. 4
        BY <3>1, <3>6
      <4>2. next(n + 1) \in StartRow
        BY <4>1, <3>3, <3>6
      <4> HIDE DEF next
      <4> QED
        BY <4>2, <3>6, SetType
    <3> QED
      BY <3>2, <3>4, <3>5, <3>6
  <2>2. CASE Poll(r)
    <3>1. Watched(r).status \in Ended =>
            [start[r] EXCEPT !.pc = "result", !.due = FALSE,
                             !.status = Watched(r).status] \in StartRow
      BY <1>4, <1>5 DEF StartRow
    <3> QED
      BY <2>2, <3>1, <1>5, SetType, GoType DEF Poll
  <2>3. CASE StopExecution(r)
    BY <2>3, <1>5, GoType DEF StopExecution
  <2>4. CASE PollStopped(r)
    <3>1. Watched(r).status \in Ended =>
            [start[r] EXCEPT !.pc = "result", !.status = Watched(r).status] \in StartRow
      BY <1>4, <1>5 DEF StartRow
    <3> QED
      BY <2>4, <3>1, <1>5, SetType, GoType DEF PollStopped
  <2>5. CASE ReadResult(r)
    <3>1. files[r].result # "none" => files[r].result \in {"succeeded", "failed"}
      BY <1>4 DEF FilesRow
    <3>2. \E out \in Reasons \cup {"succeeded", "failed"} : WaitAnswers(r, out)
      BY <2>5, <3>1 DEF ReadResult, Reasons
    <3> QED
      BY <3>2, ReturnType DEF WaitAnswers
  <2> QED
    BY <2>1, <2>2, <2>3, <2>4, <2>5
<1> QED
  BY <1>1, <1>2, <1>3, <1>6 DEF TypeOK

LEMMA EndType ==
  ASSUME TypeOK, NEW e \in Executions, NEW st \in Ended, End(e, st)
  PROVE  exe' \in [Executions -> ExeRow]
<1>1. exe[e] \in ExeRow
  BY DEF TypeOK
<1>2. [exe[e] EXCEPT !.pc = "ended", !.status = st] \in ExeRow
  BY <1>1 DEF ExeRow, ExePC
<1> QED
  BY <1>2 DEF TypeOK, End, ExeSet

LEMMA ExecutionType ==
  ASSUME TypeOK, NEW e \in Executions, Execution(e)
  PROVE  TypeOK'
<1> USE DEF ExeSet
<1>1. shareFaults' \in 0 .. MaxShareFaults
  BY ShareType DEF Execution, ListPending, Take, MarkExecution, ReadJob, WriteResult,
     Exit, Die
<1>2. UNCHANGED <<start, stops>>
  BY DEF Execution, ListPending, Take, MarkExecution, ReadJob, WriteResult, Exit, Die,
     RunnerKeeps
<1>3. exe[e] \in ExeRow
  BY DEF TypeOK
<1>4. exe[e].outcome \in Ended /\ {"succeeded", "failed", "stopped"} \subseteq Ended
  BY <1>3 DEF ExeRow, Ended
<1>5. ASSUME NEW x \in ExeRow, ExeSet(e, x)
      PROVE  exe' \in [Executions -> ExeRow]
  BY <1>5 DEF TypeOK
<1>6. CASE ListPending(e)
  <2>1. [exe[e] EXCEPT !.pc = "take", !.todo = {r \in Runs : place[r] = "pending"}]
          \in ExeRow
    BY <1>3 DEF ExeRow, ExePC
  <2>2. exe' \in [Executions -> ExeRow]
    BY <1>4, <1>5, <1>6, <2>1, EndType DEF ListPending
  <2> QED
    BY <1>1, <1>2, <1>6, <2>2 DEF ListPending, ShareKeeps, TypeOK
<1>7. CASE Take(e)
  <2>1. exe[e].todo \subseteq Runs
    BY <1>3 DEF ExeRow
  <2>2. ASSUME NEW r \in exe[e].todo
        PROVE  /\ [exe[e] EXCEPT !.pc = "mark", !.todo = {}, !.run = r] \in ExeRow
               /\ [exe[e] EXCEPT !.todo = @ \ {r}] \in ExeRow
    BY <1>3, <2>1 DEF ExeRow, ExePC
  <2>3. \/ \E st \in Ended : End(e, st)
        \/ \E r \in exe[e].todo :
             \/ ExeSet(e, [exe[e] EXCEPT !.pc = "mark", !.todo = {}, !.run = r])
             \/ ExeSet(e, [exe[e] EXCEPT !.todo = @ \ {r}])
    BY <1>4, <1>7 DEF Take
  <2>4. exe' \in [Executions -> ExeRow]
    BY <2>2, <2>3, <1>5, EndType
  <2>5. place' \in [Runs -> Places]
    <3>1. \/ UNCHANGED place
          \/ \E r \in exe[e].todo : place' = [place EXCEPT ![r] = "claimed"]
      BY <1>7 DEF Take
    <3> QED
      BY <2>1, <3>1, PlaceType DEF TypeOK, Places
  <2> QED
    BY <1>1, <1>2, <1>7, <2>4, <2>5 DEF Take, TypeOK
<1>8. CASE MarkExecution(e)
  <2>1. [exe[e] EXCEPT !.pc = "job"] \in ExeRow
    BY <1>3 DEF ExeRow, ExePC
  <2>2. exe' \in [Executions -> ExeRow]
    BY <1>4, <1>5, <1>8, <2>1, EndType DEF MarkExecution
  <2>3. files' \in [Runs -> FilesRow]
    <3>1. \/ UNCHANGED files
          \/ files' = [files EXCEPT ![exe[e].run].execution = e]
      BY <1>8 DEF MarkExecution
    <3>2. \A r \in Runs : [files[r] EXCEPT !.execution = e] \in FilesRow
      BY DEF TypeOK, FilesRow
    <3> QED
      BY <3>1, <3>2 DEF TypeOK
  <2> QED
    BY <1>1, <1>2, <1>8, <2>2, <2>3 DEF MarkExecution, TypeOK
<1>9. CASE ReadJob(e)
  <2>1. [exe[e] EXCEPT !.pc = "work"] \in ExeRow
    BY <1>3 DEF ExeRow, ExePC
  <2>2. exe' \in [Executions -> ExeRow]
    BY <1>4, <1>5, <1>9, <2>1, EndType DEF ReadJob
  <2> QED
    BY <1>1, <1>2, <1>9, <2>2 DEF ReadJob, ShareKeeps, TypeOK
<1>10. CASE WriteResult(e)
  <2>1. PICK s \in {"succeeded", "failed"} :
          /\ ExeSet(e, [exe[e] EXCEPT !.pc = "exit", !.outcome = s])
          /\ \/ UNCHANGED files
             \/ files' = [files EXCEPT ![exe[e].run].result = s]
    BY <1>10 DEF WriteResult
  <2>2. [exe[e] EXCEPT !.pc = "exit", !.outcome = s] \in ExeRow
    BY <1>3 DEF ExeRow, ExePC
  <2>3. \A r \in Runs : [files[r] EXCEPT !.result = s] \in FilesRow
    BY DEF TypeOK, FilesRow
  <2>4. files' \in [Runs -> FilesRow]
    BY <2>1, <2>3 DEF TypeOK
  <2>5. exe' \in [Executions -> ExeRow]
    BY <2>1, <2>2, <1>5
  <2> QED
    BY <1>1, <1>2, <1>10, <2>4, <2>5 DEF WriteResult, TypeOK
<1>11. CASE Exit(e) \/ Die(e)
  <2>1. exe' \in [Executions -> ExeRow]
    BY <1>4, <1>11, EndType DEF Exit, Die
  <2> QED
    BY <1>1, <1>2, <1>11, <2>1 DEF Exit, Die, ShareKeeps, TypeOK
<1> QED
  BY <1>6, <1>7, <1>8, <1>9, <1>10, <1>11 DEF Execution

LEMMA CrashType ==
  ASSUME TypeOK, Crash
  PROVE  TypeOK'
<1>1. \A r \in Runs : /\ start[r] \in StartRow
                      /\ [start[r] EXCEPT !.pc = "gone"] \in StartRow
  BY DEF TypeOK, StartRow, StartPC
<1>2. start' \in [Runs -> StartRow]
  BY <1>1 DEF Crash
<1>3. stops' \in 0 .. MaxStops
  BY ExchangeAssumption DEF TypeOK, Crash
<1> QED
  BY <1>2, <1>3 DEF TypeOK, Crash

LEMMA TypeStep == ASSUME TypeOK, [Next]_vars PROVE TypeOK'
<1>1. ASSUME NEW r \in Runs, StartRun(r) \/ Launcher(r) \/ Deadline(r) \/ Cancel(r)
      PROVE  TypeOK'
  BY <1>1, PublishType, AwaitType, GiveUpType, WatchType DEF Launcher, Await
<1>2. CASE UNCHANGED vars
  BY <1>2 DEF vars, TypeOK
<1> QED
  BY <1>1, <1>2, ExecutionType, CrashType DEF Next

\* Every reachable state of the share, the launcher and the executions is well
\* typed; in particular confirm never makes a sixth attempt.
THEOREM ExchangeTypeCorrect == Spec => []TypeOK
BY TypeInit, TypeStep, PTL DEF Spec

-----------------------------------------------------------------------------
(* The offer *)

\* Before it is offered, and while it is pending, a job has no holder and was
\* not taken back; a claimed directory has a holder; a directory is where the
\* launcher that publishes it left it.
Located(r) ==
  /\ start[r].pc \in {"idle", "publish"} => place[r] = "none"
  /\ start[r].pc \in {"write", "offer", "unstage"} => place[r] = "staging"
  /\ start[r].pc = "purge" => start[r].back

Free(r) == ~start[r].back /\ \A e \in Executions : exe[e].run # r

OfferInv ==
  /\ \A r \in Runs : Located(r)
  /\ \A r \in Runs :
       \/ place[r] \in {"staging", "pending"}
       \/ start[r].pc \in {"idle", "publish"}
       => Free(r)
  /\ \A r \in Runs : place[r] = "claimed" => \E e \in Executions : exe[e].run = r
  /\ \A e \in Executions : exe[e].pc \in {"idle", "take"} => exe[e].run = NoRun

LEMMA OfferInit == Init => OfferInv
<1> SUFFICES ASSUME Init PROVE OfferInv
  OBVIOUS
<1>1. \A r \in Runs : /\ start[r].pc = "idle" /\ ~start[r].back
                      /\ place[r] = "none"
  BY DEF Init, IdleStart
<1>2. \A e \in Executions : exe[e].run = NoRun
  BY DEF Init, IdleExe
<1>3. NoRun \notin Runs
  BY ExchangeAssumption DEF NoRun
<1> QED
  BY <1>1, <1>2, <1>3 DEF OfferInv, Located, Free

\* What a step of the launcher for run r leaves alone.
Frame(r) ==
  /\ \A q \in Runs \ {r} : place'[q] = place[q] /\ start'[q] = start[q]
  /\ \A e \in Executions : exe'[e].run = exe[e].run /\ exe'[e].pc = exe[e].pc

\* The directory of run r moves from one place to another, the launcher from
\* one step to another.
Moves(r, p, from, to) ==
  /\ start[r].pc = p /\ place[r] = from /\ place'[r] = to

SameBack(r) == start'[r].back = start[r].back

\* Steps for r that leave the directory where it is.
Stays(r) ==
  /\ place'[r] = place[r] /\ SameBack(r)
  /\ \/ start'[r].pc = start[r].pc
     \/ start[r].pc = "idle" /\ start'[r].pc = "publish"
     \/ start[r].pc \in {"write", "offer"} /\ start'[r].pc \in {"offer", "unstage"}
     \/ start'[r].pc \notin {"idle", "publish", "write", "offer", "unstage", "purge"}

Renames(r) ==
  \/ Moves(r, "publish", "none", "staging") /\ start'[r].pc = "write" /\ SameBack(r)
  \/ Moves(r, "unstage", "staging", "none") /\ start'[r].pc = "done" /\ SameBack(r)
  \/ Moves(r, "purge", place[r], "none") /\ start'[r].pc = "done" /\ SameBack(r)
  \/ Moves(r, "rmdir", "claimed", "none") /\ start'[r].pc = "done" /\ SameBack(r)

Offers(r) ==
  Moves(r, "offer", "staging", "pending") /\ start'[r].pc = "read" /\ SameBack(r)

Withdraws(r) ==
  /\ Moves(r, "withdraw", "pending", "withdrawn")
  /\ start'[r].pc = "purge" /\ start'[r].back

Step(r) == Stays(r) \/ Renames(r) \/ Offers(r) \/ Withdraws(r)

LEMMA SetEffect ==
  ASSUME TypeOK, NEW r \in Runs, NEW s, Set(r, s)
  PROVE  start'[r] = s /\ \A q \in Runs \ {r} : start'[q] = start[q]
BY DEF TypeOK, Set

LEMMA GoEffect ==
  ASSUME TypeOK, NEW r \in Runs, NEW p, Go(r, p)
  PROVE  start'[r].pc = p /\ SameBack(r) /\ \A q \in Runs \ {r} : start'[q] = start[q]
<1>1. start[r] \in StartRow
  BY DEF TypeOK
<1>2. start'[r] = [start[r] EXCEPT !.pc = p] /\ \A q \in Runs \ {r} : start'[q] = start[q]
  BY SetEffect DEF Go
<1> QED
  BY <1>1, <1>2 DEF SameBack, StartRow

LEMMA OutEffect ==
  ASSUME TypeOK, NEW r \in Runs, NEW p, NEW out,
         Set(r, [start[r] EXCEPT !.pc = p, !.out = out])
  PROVE  start'[r].pc = p /\ SameBack(r) /\ \A q \in Runs \ {r} : start'[q] = start[q]
<1>1. start[r] \in StartRow
  BY DEF TypeOK
<1>2. /\ start'[r] = [start[r] EXCEPT !.pc = p, !.out = out]
      /\ \A q \in Runs \ {r} : start'[q] = start[q]
  BY SetEffect
<1> QED
  BY <1>1, <1>2 DEF SameBack, StartRow

LEMMA PlaceEffect ==
  ASSUME TypeOK, NEW r \in Runs, NEW p, place' = [place EXCEPT ![r] = p]
  PROVE  place'[r] = p /\ \A q \in Runs \ {r} : place'[q] = place[q]
BY DEF TypeOK

LEMMA PublishStep ==
  ASSUME TypeOK, OfferInv, NEW r \in Runs,
         \/ StartRun(r) \/ PublishStage(r) \/ PublishWrite(r) \/ PublishOffer(r)
         \/ PublishUndo(r)
  PROVE  Frame(r) /\ Step(r)
<1>1. UNCHANGED exe
  BY DEF StartRun, PublishStage, PublishWrite, PublishOffer, PublishUndo, LauncherKeeps
<1>2. Located(r)
  BY DEF OfferInv
<1>3. CASE StartRun(r)
  BY <1>1, <1>3, GoEffect DEF StartRun, At, ShareKeeps, Frame, Step, Stays
<1>4. CASE PublishStage(r)
  <2>1. CASE Return(r, "start") /\ ShareKeeps
    <3>1. /\ start'[r].pc = "done" /\ SameBack(r)
          /\ \A q \in Runs \ {r} : start'[q] = start[q]
      BY <2>1, OutEffect DEF Return
    <3> QED
      BY <1>1, <2>1, <3>1 DEF ShareKeeps, Frame, Step, Stays
  <2>2. CASE /\ place[r] = "none" /\ place' = [place EXCEPT ![r] = "staging"]
             /\ Go(r, "write")
    BY <1>1, <1>4, <2>2, GoEffect, PlaceEffect DEF PublishStage, At, Frame, Step, Renames,
       Moves
  <2> QED
    BY <1>4, <2>1, <2>2 DEF PublishStage
<1>5. CASE PublishWrite(r)
  BY <1>1, <1>5, GoEffect DEF PublishWrite, At, ShareKeeps, Frame, Step, Stays
<1>6. CASE PublishOffer(r)
  <2>1. CASE Go(r, "unstage") /\ ShareKeeps
    BY <1>1, <1>6, <2>1, GoEffect DEF PublishOffer, At, ShareKeeps, Frame, Step, Stays
  <2>2. CASE place' = [place EXCEPT ![r] = "pending"] /\ Go(r, "read")
    BY <1>1, <1>2, <1>6, <2>2, GoEffect, PlaceEffect DEF PublishOffer, At, Located, Frame,
       Step, Offers, Moves
  <2> QED
    BY <1>6, <2>1, <2>2 DEF PublishOffer
<1>7. CASE PublishUndo(r)
  <2>1. /\ start'[r].pc = "done" /\ SameBack(r)
        /\ \A q \in Runs \ {r} : start'[q] = start[q]
    BY <1>7, OutEffect DEF PublishUndo, Return
  <2>2. CASE ShareKeeps
    BY <1>1, <2>1, <2>2 DEF ShareKeeps, Frame, Step, Stays
  <2>3. CASE place' = [place EXCEPT ![r] = "none"]
    BY <1>1, <1>2, <1>7, <2>1, <2>3, PlaceEffect DEF PublishUndo, At, Located, Frame,
       Step, Renames, Moves
  <2> QED
    BY <1>7, <2>2, <2>3 DEF PublishUndo
<1> QED
  BY <1>3, <1>4, <1>5, <1>6, <1>7

LEMMA RowEffect ==
  ASSUME TypeOK, NEW r \in Runs, NEW s \in StartRow, Set(r, s),
         s.back = start[r].back, UNCHANGED <<place, exe>>,
         \/ s.pc = start[r].pc
         \/ s.pc \notin {"idle", "publish", "write", "offer", "unstage", "purge"}
  PROVE  Frame(r) /\ Step(r)
BY SetEffect DEF Frame, Step, Stays, SameBack

LEMMA QuietGo ==
  ASSUME TypeOK, NEW r \in Runs, UNCHANGED place,
         \A e \in Executions : exe'[e].run = exe[e].run /\ exe'[e].pc = exe[e].pc,
         \/ \E p \in StartPC \ {"idle", "publish", "write", "offer", "unstage", "purge"} :
              Go(r, p)
         \/ \E out : Return(r, out) \/ RemoveThen(r, out)
  PROVE  Frame(r) /\ Step(r)
<1> DEFINE Before == {"idle", "publish", "write", "offer", "unstage", "purge"}
<1>1. CASE \E p \in StartPC \ Before : Go(r, p)
  BY <1>1, GoEffect DEF Frame, Step, Stays
<1>2. CASE \E out : Return(r, out) \/ RemoveThen(r, out)
  <2>1. PICK out : Return(r, out) \/ RemoveThen(r, out)
    BY <1>2
  <2>2. /\ start'[r].pc \in {"done", "remove"} /\ SameBack(r)
        /\ \A q \in Runs \ {r} : start'[q] = start[q]
    BY <2>1, OutEffect DEF Return, RemoveThen
  <2> QED
    BY <2>2 DEF Frame, Step, Stays
<1> QED
  BY <1>1, <1>2

LEMMA AwaitStep ==
  ASSUME TypeOK, NEW r \in Runs,
         \/ Deadline(r) \/ Cancel(r) \/ ReadExecution(r) \/ LookFirst(r)
         \/ LookSecond(r) \/ Nap(r)
  PROVE  Frame(r) /\ Step(r)
<1>1. UNCHANGED <<place, exe>>
  BY DEF Deadline, Cancel, ReadExecution, LookFirst, LookSecond, Nap, LauncherKeeps,
     ShareKeeps
<1>2. start[r] \in StartRow /\ files[r] \in FilesRow
  BY DEF TypeOK
<1>3. {"read", "look", "look2", "nap", "withdraw"} \subseteq
        StartPC \ {"idle", "publish", "write", "offer", "unstage", "purge"}
  BY DEF StartPC
<1>4. CASE Deadline(r)
  <2> DEFINE s == [start[r] EXCEPT !.due = TRUE]
  <2>1. s \in StartRow /\ s.pc = start[r].pc /\ s.back = start[r].back
    BY <1>2 DEF StartRow
  <2>2. Set(r, s)
    BY <1>4 DEF Deadline
  <2> HIDE DEF s
  <2> QED
    BY <1>1, <2>1, <2>2, RowEffect
<1>5. CASE Cancel(r)
  <2> DEFINE s == [start[r] EXCEPT !.cancelled = TRUE]
  <2>1. s \in StartRow /\ s.pc = start[r].pc /\ s.back = start[r].back
    BY <1>2 DEF StartRow
  <2>2. Set(r, s)
    BY <1>5 DEF Cancel
  <2> HIDE DEF s
  <2> QED
    BY <1>1, <2>1, <2>2, RowEffect
<1>6. CASE ReadExecution(r)
  <2> DEFINE s == [start[r] EXCEPT !.pc = "confirm", !.due = FALSE,
                                   !.name = files[r].execution]
  <2>1. s \in StartRow /\ s.pc = "confirm" /\ s.back = start[r].back
    BY <1>2 DEF StartRow, StartPC, FilesRow
  <2>2. Set(r, s) \/ Go(r, "look") \/ RemoveThen(r, "start")
    BY <1>6 DEF ReadExecution
  <2> HIDE DEF s
  <2> QED
    BY <1>1, <1>3, <2>1, <2>2, RowEffect, QuietGo
<1>7. ASSUME NEW d \in {"pending", "claimed"}, SeenIn(r, d)
      PROVE  Frame(r) /\ Step(r)
  <2> DEFINE s == [start[r] EXCEPT !.pc = "nap", !.grace = TRUE, !.due = FALSE]
  <2>1. s \in StartRow /\ s.pc = "nap" /\ s.back = start[r].back
    BY <1>2 DEF StartRow, StartPC
  <2>2. \/ Go(r, "withdraw") \/ Go(r, "read") \/ Go(r, "nap")
        \/ Set(r, s) \/ RemoveThen(r, "start")
    BY <1>7 DEF SeenIn
  <2> HIDE DEF s
  <2> QED
    BY <1>1, <1>3, <2>1, <2>2, RowEffect, QuietGo
<1>8. CASE LookFirst(r) \/ LookSecond(r)
  <2>1. \/ \E d \in {"pending", "claimed"} : SeenIn(r, d)
        \/ Go(r, "look2") \/ Return(r, "start") \/ Return(r, "absent")
    BY <1>8 DEF LookFirst, LookSecond, LookOrder
  <2> QED
    BY <1>1, <1>3, <1>7, <2>1, QuietGo
<1>9. CASE Nap(r)
  <2>1. Go(r, "read") \/ RemoveThen(r, "cancelled")
    BY <1>9 DEF Nap
  <2> QED
    BY <1>1, <1>3, <2>1, QuietGo
<1> QED
  BY <1>4, <1>5, <1>6, <1>8, <1>9

LEMMA GiveUpStep ==
  ASSUME TypeOK, NEW r \in Runs,
         Withdraw(r) \/ Purge(r) \/ RemoveFiles(r) \/ RemoveDir(r)
  PROVE  Frame(r) /\ Step(r)
<1>1. UNCHANGED exe
  BY DEF Withdraw, Purge, RemoveFiles, RemoveDir, LauncherKeeps
<1>2. {"read", "rmdir", "done"} \subseteq
        StartPC \ {"idle", "publish", "write", "offer", "unstage", "purge"}
  BY DEF StartPC
<1>3. CASE Withdraw(r)
  <2> DEFINE s == [start[r] EXCEPT !.pc = "purge", !.back = TRUE]
  <2>1. CASE UNCHANGED place /\ (Go(r, "read") \/ Return(r, "start"))
    BY <1>1, <1>2, <2>1, QuietGo
  <2>2. CASE /\ place[r] = "pending" /\ place' = [place EXCEPT ![r] = "withdrawn"]
             /\ Set(r, s)
    <3>1. start[r] \in StartRow
      BY DEF TypeOK
    <3>2. s.pc = "purge" /\ s.back
      BY <3>1 DEF StartRow
    <3>3. start'[r] = s /\ \A q \in Runs \ {r} : start'[q] = start[q]
      BY <2>2, SetEffect
    <3> HIDE DEF s
    <3> QED
      BY <1>1, <1>3, <2>2, <3>2, <3>3, PlaceEffect DEF Withdraw, At, Frame, Step, Withdraws,
         Moves
  <2> QED
    BY <1>3, <2>1, <2>2 DEF Withdraw, ShareKeeps
<1>4. CASE Purge(r)
  <2>1. CASE UNCHANGED place /\ Return(r, "start")
    BY <1>1, <2>1, QuietGo
  <2>2. CASE /\ place' = [place EXCEPT ![r] = "none"]
             /\ \E out : Return(r, out)
    <3>1. /\ start'[r].pc = "done" /\ SameBack(r)
          /\ \A q \in Runs \ {r} : start'[q] = start[q]
      BY <2>2, OutEffect DEF Return
    <3> QED
      BY <1>1, <1>4, <2>2, <3>1, PlaceEffect DEF Purge, At, Frame, Step, Renames, Moves
  <2> QED
    BY <1>4, <2>1, <2>2 DEF Purge, ShareKeeps
<1>5. CASE RemoveFiles(r)
  <2>1. UNCHANGED place /\ (Go(r, "rmdir") \/ Go(r, "done"))
    BY <1>5 DEF RemoveFiles
  <2> QED
    BY <1>1, <1>2, <2>1, QuietGo
<1>6. CASE RemoveDir(r)
  <2>1. /\ start'[r].pc = "done" /\ SameBack(r)
        /\ \A q \in Runs \ {r} : start'[q] = start[q]
    BY <1>6, GoEffect DEF RemoveDir
  <2>2. CASE place'[r] = place[r] /\ \A q \in Runs \ {r} : place'[q] = place[q]
    BY <1>1, <2>1, <2>2 DEF Frame, Step, Stays
  <2>3. CASE place[r] = "claimed" /\ place' = [place EXCEPT ![r] = "none"]
    BY <1>1, <1>6, <2>1, <2>3, PlaceEffect DEF RemoveDir, At, Frame, Step, Renames, Moves
  <2>4. \/ UNCHANGED place \/ place' = [place EXCEPT ![r] = place[r]]
        \/ place[r] = "claimed" /\ place' = [place EXCEPT ![r] = "none"]
    BY <1>6 DEF RemoveDir
  <2> QED
    BY <2>2, <2>3, <2>4, PlaceEffect
<1> QED
  BY <1>3, <1>4, <1>5, <1>6

LEMMA WatchStep ==
  ASSUME TypeOK, NEW r \in Runs,
         Confirm(r) \/ Poll(r) \/ StopExecution(r) \/ PollStopped(r) \/ ReadResult(r)
  PROVE  Frame(r) /\ Step(r)
<1>1. UNCHANGED place
  BY DEF Confirm, Poll, StopExecution, PollStopped, ReadResult, ShareKeeps
<1>2. \A e \in Executions : exe'[e].run = exe[e].run /\ exe'[e].pc = exe[e].pc
  <2>1. UNCHANGED exe \/ exe' = [exe EXCEPT ![start[r].name].stopping = TRUE]
    BY DEF Confirm, Poll, StopExecution, PollStopped, ReadResult, LauncherKeeps
  <2> QED
    BY <2>1 DEF TypeOK, ExeRow
<1>3. start[r] \in StartRow
  BY DEF TypeOK
<1>4. {"poll", "stop", "poll2", "result"} \subseteq
        StartPC \ {"idle", "publish", "write", "offer", "unstage", "purge"}
  BY DEF StartPC
<1>5. ASSUME NEW s, Set(r, s), s.back = start[r].back,
             s.pc \in {"result", start[r].pc}
      PROVE  Frame(r) /\ Step(r)
  BY <1>1, <1>2, <1>5, SetEffect DEF Frame, Step, Stays, SameBack
<1>6. CASE Confirm(r)
  <2> DEFINE s(n) == [start[r] EXCEPT !.attempt = @ + 1, !.notFound = n]
  <2>1. Go(r, "poll") \/ RemoveThen(r, "start") \/ \E n : Set(r, s(n))
    BY <1>6 DEF Confirm, Unconfirmed
  <2>2. ASSUME NEW n PROVE s(n).back = start[r].back /\ s(n).pc = start[r].pc
    BY <1>3 DEF StartRow
  <2> HIDE DEF s
  <2> QED
    BY <1>1, <1>2, <1>4, <1>5, <2>1, <2>2, QuietGo
<1>7. CASE Poll(r)
  <2> DEFINE s == [start[r] EXCEPT !.pc = "result", !.due = FALSE,
                                   !.status = Watched(r).status]
  <2>1. s.back = start[r].back /\ s.pc = "result"
    BY <1>3 DEF StartRow
  <2>2. Go(r, "stop") \/ Set(r, s)
    BY <1>7 DEF Poll
  <2> HIDE DEF s
  <2> QED
    BY <1>1, <1>2, <1>4, <1>5, <2>1, <2>2, QuietGo
<1>8. CASE StopExecution(r)
  BY <1>1, <1>2, <1>4, <1>8, QuietGo DEF StopExecution
<1>9. CASE PollStopped(r)
  <2> DEFINE s == [start[r] EXCEPT !.pc = "result", !.status = Watched(r).status]
  <2>1. s.back = start[r].back /\ s.pc = "result"
    BY <1>3 DEF StartRow
  <2>2. Go(r, "result") \/ Set(r, s)
    BY <1>9 DEF PollStopped
  <2> HIDE DEF s
  <2> QED
    BY <1>1, <1>2, <1>4, <1>5, <2>1, <2>2, QuietGo
<1>10. CASE ReadResult(r)
  <2>1. \E out : Return(r, out) \/ RemoveThen(r, out)
    BY <1>10 DEF ReadResult, WaitAnswers
  <2> QED
    BY <1>1, <1>2, <2>1, QuietGo
<1> QED
  BY <1>6, <1>7, <1>8, <1>9, <1>10

LEMMA LauncherStep ==
  ASSUME TypeOK, OfferInv, NEW r \in Runs,
         StartRun(r) \/ Launcher(r) \/ Deadline(r) \/ Cancel(r)
  PROVE  Frame(r) /\ Step(r)
BY PublishStep, AwaitStep, GiveUpStep, WatchStep DEF Launcher, Await

\* A step of execution e that takes no job, and one that takes the job of r.
Works(e) ==
  /\ UNCHANGED place
  /\ exe'[e].run = exe[e].run
  /\ exe'[e].pc \in {"idle", "take"} => exe[e].pc \in {"idle", "take"}

Takes(e, r) ==
  /\ exe[e].pc = "take" /\ place[r] = "pending"
  /\ place'[r] = "claimed" /\ \A q \in Runs \ {r} : place'[q] = place[q]
  /\ exe'[e].run = r /\ exe'[e].pc = "mark"

LEMMA ExecutionStep ==
  ASSUME TypeOK, NEW e \in Executions, Execution(e)
  PROVE  /\ UNCHANGED start
         /\ \A d \in Executions \ {e} : exe'[d] = exe[d]
         /\ Works(e) \/ \E r \in Runs : Takes(e, r)
<1>1. UNCHANGED start
  BY DEF Execution, ListPending, Take, MarkExecution, ReadJob, WriteResult, Exit, Die,
     RunnerKeeps
<1>2. \E x : ExeSet(e, x)
  BY DEF Execution, ListPending, Take, MarkExecution, ReadJob, WriteResult, Exit, Die, End
<1>3. \A d \in Executions \ {e} : exe'[d] = exe[d]
  BY <1>2 DEF ExeSet, TypeOK
<1>4. exe[e] \in ExeRow
  BY DEF TypeOK
<1>5. ASSUME NEW x, ExeSet(e, x) PROVE exe'[e] = x
  BY <1>5 DEF ExeSet, TypeOK
<1>6. ASSUME NEW st, End(e, st) PROVE exe'[e].run = exe[e].run /\ exe'[e].pc = "ended"
  <2>1. exe'[e] = [exe[e] EXCEPT !.pc = "ended", !.status = st]
    BY <1>5, <1>6 DEF End
  <2> QED
    BY <1>4, <2>1 DEF ExeRow
<1>7. ASSUME UNCHANGED place, \E st : End(e, st) PROVE Works(e)
  BY <1>6, <1>7 DEF Works
<1>8. CASE ListPending(e)
  <2> DEFINE x == [exe[e] EXCEPT !.pc = "take",
                                 !.todo = {r \in Runs : place[r] = "pending"}]
  <2>1. x.run = exe[e].run
    BY <1>4 DEF ExeRow
  <2>2. UNCHANGED place /\ exe[e].pc = "idle" /\ (ExeSet(e, x) \/ End(e, "failed"))
    BY <1>8 DEF ListPending, ShareKeeps
  <2> HIDE DEF x
  <2> QED
    BY <1>1, <1>3, <1>5, <1>7, <2>1, <2>2 DEF Works
<1>9. CASE Take(e)
  <2>1. exe[e].todo \subseteq Runs /\ exe[e].pc = "take"
    BY <1>4, <1>9 DEF ExeRow, Take
  <2>2. CASE UNCHANGED place /\ \E st : End(e, st)
    BY <1>1, <1>3, <1>7, <2>2
  <2>3. ASSUME NEW r \in exe[e].todo, UNCHANGED place,
               ExeSet(e, [exe[e] EXCEPT !.todo = @ \ {r}])
        PROVE  Works(e)
    <3>1. exe'[e] = [exe[e] EXCEPT !.todo = @ \ {r}]
      BY <1>5, <2>3
    <3> QED
      BY <1>4, <2>1, <2>3, <3>1 DEF ExeRow, Works
  <2>4. ASSUME NEW r \in exe[e].todo, place[r] = "pending",
               place' = [place EXCEPT ![r] = "claimed"],
               ExeSet(e, [exe[e] EXCEPT !.pc = "mark", !.todo = {}, !.run = r])
        PROVE  Takes(e, r)
    <3>1. exe'[e] = [exe[e] EXCEPT !.pc = "mark", !.todo = {}, !.run = r]
      BY <1>5, <2>4
    <3>2. exe'[e].run = r /\ exe'[e].pc = "mark"
      BY <1>4, <3>1 DEF ExeRow
    <3> QED
      BY <2>1, <2>4, <3>2, PlaceEffect DEF Takes
  <2>5. \/ UNCHANGED place /\ \E st : End(e, st)
        \/ \E r \in exe[e].todo :
             \/ UNCHANGED place /\ ExeSet(e, [exe[e] EXCEPT !.todo = @ \ {r}])
             \/ /\ place[r] = "pending" /\ place' = [place EXCEPT ![r] = "claimed"]
                /\ ExeSet(e, [exe[e] EXCEPT !.pc = "mark", !.todo = {}, !.run = r])
    BY <1>9 DEF Take
  <2> QED
    BY <1>1, <1>3, <2>1, <2>2, <2>3, <2>4, <2>5
<1>10. CASE MarkExecution(e) \/ ReadJob(e)
  <2>1. ASSUME NEW p \in {"job", "work"}, ExeSet(e, [exe[e] EXCEPT !.pc = p]),
               UNCHANGED place
        PROVE  Works(e)
    <3>1. exe'[e] = [exe[e] EXCEPT !.pc = p]
      BY <1>5, <2>1
    <3> QED
      BY <1>4, <2>1, <3>1 DEF ExeRow, Works
  <2>2. /\ UNCHANGED place
        /\ \/ \E st : End(e, st)
           \/ \E p \in {"job", "work"} : ExeSet(e, [exe[e] EXCEPT !.pc = p])
    BY <1>10 DEF MarkExecution, ReadJob, ShareKeeps
  <2> QED
    BY <1>1, <1>3, <1>7, <2>1, <2>2
<1>11. CASE WriteResult(e)
  <2>1. PICK s : ExeSet(e, [exe[e] EXCEPT !.pc = "exit", !.outcome = s])
    BY <1>11 DEF WriteResult
  <2>2. exe'[e] = [exe[e] EXCEPT !.pc = "exit", !.outcome = s]
    BY <1>5, <2>1
  <2>3. exe'[e].run = exe[e].run /\ exe'[e].pc = "exit"
    BY <1>4, <2>2 DEF ExeRow
  <2> QED
    BY <1>1, <1>3, <1>11, <2>3 DEF WriteResult, Works
<1>12. CASE Exit(e) \/ Die(e)
  <2>1. UNCHANGED place /\ \E st : End(e, st)
    BY <1>12 DEF Exit, Die, ShareKeeps
  <2> QED
    BY <1>1, <1>3, <1>7, <2>1
<1> QED
  BY <1>8, <1>9, <1>10, <1>11, <1>12 DEF Execution

\* A kill of the process moves no directory and forgets no withdrawal.
LEMMA CrashStep ==
  ASSUME TypeOK, Crash
  PROVE  /\ UNCHANGED <<place, exe>>
         /\ \A r \in Runs : /\ SameBack(r)
                            /\ start'[r].pc \in {start[r].pc, "gone"}
<1>1. ASSUME NEW r \in Runs
      PROVE  SameBack(r) /\ start'[r].pc \in {start[r].pc, "gone"}
  <2>1. start[r] \in StartRow
    BY DEF TypeOK
  <2>2. start'[r] = start[r] \/ start'[r] = [start[r] EXCEPT !.pc = "gone"]
    BY DEF Crash
  <2> QED
    BY <2>1, <2>2 DEF StartRow, SameBack
<1> QED
  BY <1>1 DEF Crash

LEMMA OfferStep ==
  ASSUME TypeOK, OfferInv, [Next]_vars
  PROVE  OfferInv'
<1>1. NoRun \notin Runs
  BY ExchangeAssumption DEF NoRun
<1>2. ASSUME NEW r \in Runs, Frame(r), Step(r)
      PROVE  OfferInv'
  <2>1. \A q \in Runs \ {r} :
          /\ Located(q)' <=> Located(q)
          /\ Free(q)' <=> Free(q)
    BY <1>2 DEF Frame, Located, Free
  <2>2. Located(r)'
    BY <1>2 DEF OfferInv, Located, Step, Stays, Renames, Offers, Withdraws, Moves, SameBack
  <2>3. (place[r] \in {"staging", "pending"} \/ start[r].pc \in {"idle", "publish"})'
          => Free(r)'
    BY <1>2 DEF OfferInv, Located, Free, Frame, Step, Stays, Renames, Offers, Withdraws,
       Moves, SameBack
  <2>4. place'[r] = "claimed" => \E e \in Executions : exe'[e].run = r
    BY <1>2 DEF OfferInv, Frame, Step, Stays, Renames, Offers, Withdraws, Moves
  <2>5. \A q \in Runs \ {r} :
          /\ (place[q] \in {"staging", "pending"} \/ start[q].pc \in {"idle", "publish"})'
               => Free(q)'
          /\ place'[q] = "claimed" => \E e \in Executions : exe'[e].run = q
    BY <1>2, <2>1 DEF OfferInv, Frame
  <2>6. \A e \in Executions : exe'[e].pc \in {"idle", "take"} => exe'[e].run = NoRun
    BY <1>2 DEF OfferInv, Frame
  <2>7. \A q \in Runs : Located(q)'
    BY <2>1, <2>2 DEF OfferInv
  <2> QED
    BY <2>3, <2>4, <2>5, <2>6, <2>7 DEF OfferInv
<1>3. ASSUME NEW e \in Executions, Execution(e)
      PROVE  OfferInv'
  <2>1. UNCHANGED start /\ \A d \in Executions \ {e} : exe'[d] = exe[d]
    BY <1>3, ExecutionStep
  <2>2. CASE Works(e)
    BY <2>1, <2>2 DEF Works, OfferInv, Located, Free
  <2>3. ASSUME NEW r \in Runs, Takes(e, r) PROVE OfferInv'
    <3>1. \A q \in Runs : Located(q)'
      BY <2>1, <2>3 DEF OfferInv, Located, Takes
    <3>2. start[r].pc \notin {"idle", "publish"}
      BY <2>3 DEF OfferInv, Located, Takes
    <3>3. exe[e].run = NoRun
      BY <2>3 DEF OfferInv, Takes
    <3>4. \A q \in Runs \ {r} : Free(q)' <=> Free(q)
      BY <1>1, <2>1, <2>3, <3>3 DEF Free, Takes
    <3>5. \A q \in Runs : place'[q] = "claimed" => \E d \in Executions : exe'[d].run = q
      <4>1. ASSUME NEW q \in Runs \ {r}, place'[q] = "claimed"
            PROVE  \E d \in Executions : exe'[d].run = q
        <5>1. PICK d \in Executions : exe[d].run = q
          BY <2>3, <4>1 DEF OfferInv, Takes
        <5>2. d # e
          BY <1>1, <3>3, <5>1
        <5> QED
          BY <2>1, <5>1, <5>2
      <4> QED
        BY <2>3, <4>1 DEF Takes
    <3>6. \A q \in Runs :
            (place[q] \in {"staging", "pending"} \/ start[q].pc \in {"idle", "publish"})'
              => Free(q)'
      BY <2>1, <2>3, <3>2, <3>4 DEF OfferInv, Takes
    <3>7. \A d \in Executions : exe'[d].pc \in {"idle", "take"} => exe'[d].run = NoRun
      BY <2>1, <2>3 DEF OfferInv, Takes
    <3> QED
      BY <3>1, <3>5, <3>6, <3>7 DEF OfferInv
  <2> QED
    BY <1>3, <2>2, <2>3, ExecutionStep
<1>4. CASE Crash
  BY <1>4, CrashStep DEF OfferInv, Located, Free, SameBack
<1>5. CASE UNCHANGED vars
  BY <1>5 DEF vars, OfferInv, Located, Free
<1> QED
  BY <1>2, <1>3, <1>4, <1>5, LauncherStep DEF Next

-----------------------------------------------------------------------------
(* Refinement *)

\* The refinement mapping, run by run.
Offered(r) ==
  \/ place[r] \in {"pending", "claimed", "withdrawn"}
  \/ start[r].back
  \/ \E e \in Executions : exe[e].run = r

offered == {r \in Runs : Offered(r)}
holders == [r \in Runs |-> {e \in Executions : exe[e].run = r}]
back    == {r \in Runs : start[r].back}

LEMMA QuietStep ==
  ASSUME \A r \in Runs : (Offered(r)' <=> Offered(r)) /\ (start'[r].back <=> start[r].back),
         \A e \in Executions : exe'[e].run = exe[e].run
  PROVE  UNCHANGED <<offered, holders, back>>
<1>1. offered' = offered
  BY DEF offered
<1>2. holders' = holders
  BY DEF holders
<1>3. back' = back
  BY DEF back
<1> QED
  BY <1>1, <1>2, <1>3

LEMMA LauncherRefines ==
  ASSUME TypeOK, OfferInv, NEW r \in Runs, Frame(r), Step(r)
  PROVE  \/ UNCHANGED <<offered, holders, back>>
         \/ /\ r \notin offered /\ offered' = offered \cup {r}
            /\ UNCHANGED <<holders, back>>
         \/ /\ r \in offered /\ holders[r] = {} /\ r \notin back
            /\ back' = back \cup {r} /\ UNCHANGED <<offered, holders>>
<1>1. \A e \in Executions : exe'[e].run = exe[e].run
  BY DEF Frame
<1>2. \A q \in Runs \ {r} : /\ Offered(q)' <=> Offered(q)
                            /\ start'[q].back <=> start[q].back
  BY DEF Frame, Offered
<1>3. holders' = holders
  BY <1>1 DEF holders
<1>4. Located(r)
  BY DEF OfferInv
<1>5. place[r] \in {"staging", "pending"} \/ start[r].pc = "publish" => Free(r)
  BY DEF OfferInv
<1>6. place[r] = "claimed" => \E e \in Executions : exe[e].run = r
  BY DEF OfferInv
<1>7. CASE Stays(r) \/ Renames(r)
  <2>1. start'[r].back <=> start[r].back
    BY <1>7 DEF Stays, Renames, SameBack
  <2>2. Offered(r)' <=> Offered(r)
    <3>1. CASE place'[r] = place[r]
      BY <1>1, <2>1, <3>1 DEF Offered
    <3>2. CASE Renames(r)
      BY <1>1, <1>4, <1>5, <1>6, <2>1, <3>2 DEF Offered, Renames, Moves, Located, Free
    <3> QED
      BY <1>7, <3>1, <3>2 DEF Stays
  <2> QED
    BY <1>1, <1>2, <2>1, <2>2, QuietStep
<1>8. CASE Offers(r)
  <2>1. ~Offered(r) /\ Offered(r)'
    BY <1>5, <1>8 DEF Offers, Moves, Offered, Free
  <2>2. start'[r].back <=> start[r].back
    BY <1>8 DEF Offers, SameBack
  <2>3. r \notin offered /\ offered' = offered \cup {r}
    BY <1>2, <2>1 DEF offered
  <2>4. back' = back
    BY <1>2, <2>2 DEF back
  <2> QED
    BY <1>3, <2>3, <2>4
<1>9. CASE Withdraws(r)
  <2>1. Offered(r) /\ Offered(r)' /\ Free(r)
    BY <1>5, <1>9 DEF Withdraws, Moves, Offered
  <2>2. r \in offered /\ offered' = offered
    BY <1>2, <2>1 DEF offered
  <2>3. holders[r] = {} /\ r \notin back
    BY <2>1 DEF holders, back, Free
  <2>4. back' = back \cup {r}
    BY <1>2, <1>9 DEF back, Withdraws
  <2> QED
    BY <1>3, <2>2, <2>3, <2>4
<1> QED
  BY <1>7, <1>8, <1>9 DEF Step

LEMMA TakeRefines ==
  ASSUME TypeOK, OfferInv, NEW e \in Executions, NEW r \in Runs, Takes(e, r),
         UNCHANGED start, \A d \in Executions \ {e} : exe'[d] = exe[d]
  PROVE  /\ r \in offered /\ holders[r] = {} /\ r \notin back
         /\ holders' = [holders EXCEPT ![r] = {e}]
         /\ UNCHANGED <<offered, back>>
<1>1. NoRun \notin Runs
  BY ExchangeAssumption DEF NoRun
<1>2. exe[e].run = NoRun /\ Free(r)
  BY DEF OfferInv, Takes
<1>3. r \in offered /\ holders[r] = {} /\ r \notin back
  BY <1>2 DEF Takes, Free, Offered, offered, holders, back
<1>4. back' = back
  BY DEF back
<1>5. \A q \in Runs \ {r} : \A d \in Executions : exe'[d].run = q <=> exe[d].run = q
  BY <1>1, <1>2 DEF Takes
<1>6. \A d \in Executions : exe'[d].run = r <=> d = e
  BY <1>2 DEF Takes, Free
<1>7. offered' = offered
  <2>1. \A q \in Runs \ {r} : Offered(q)' <=> Offered(q)
    BY <1>5 DEF Offered, Takes
  <2>2. Offered(r) /\ Offered(r)'
    BY DEF Offered, Takes
  <2> QED
    BY <2>1, <2>2 DEF offered
<1>8. holders' = [holders EXCEPT ![r] = {e}]
  <2>1. \A q \in Runs \ {r} : {d \in Executions : exe'[d].run = q}
                                = {d \in Executions : exe[d].run = q}
    BY <1>5
  <2>2. {d \in Executions : exe'[d].run = r} = {e}
    BY <1>6
  <2> QED
    BY <2>1, <2>2 DEF holders
<1> QED
  BY <1>3, <1>4, <1>7, <1>8

\* The exchange directory implements the abstract offer: whatever the order in
\* which the launcher's renames, a Runner's listing and claim, failing share
\* operations and kills of the process interleave, a job is taken by one
\* execution or withdrawn, never both (exchange.go: Publish, Take, Withdraw).
THEOREM OfferRefinement == Spec => ImplementsJobOffer
<1>1. Init => Abstract!Init
  <2> SUFFICES ASSUME Init PROVE Abstract!Init
    OBVIOUS
  <2>1. NoRun \notin Runs
    BY ExchangeAssumption DEF NoRun
  <2>2. \A r \in Runs : ~start[r].back /\ place[r] = "none"
    BY DEF Init, IdleStart
  <2>3. \A e \in Executions : exe[e].run = NoRun
    BY DEF Init, IdleExe
  <2> QED
    BY <2>1, <2>2, <2>3 DEF Abstract!Init
<1>2. TypeOK /\ OfferInv /\ [Next]_vars
        => [Abstract!Next]_<<offered, holders, back>>
  <2> SUFFICES ASSUME TypeOK, OfferInv, [Next]_vars
               PROVE  Abstract!Next \/ UNCHANGED <<offered, holders, back>>
    OBVIOUS
  <2> USE DEF Offered
  <2>1. ASSUME NEW r \in Runs, Frame(r), Step(r)
        PROVE  Abstract!Next \/ UNCHANGED <<offered, holders, back>>
    BY <2>1, LauncherRefines DEF Abstract!Next, Abstract!Offer, Abstract!Withdraw,
       Abstract!Open, offered, holders, back
  <2>2. ASSUME NEW e \in Executions, Execution(e)
        PROVE  Abstract!Next \/ UNCHANGED <<offered, holders, back>>
    <3>1. UNCHANGED start /\ \A d \in Executions \ {e} : exe'[d] = exe[d]
      BY <2>2, ExecutionStep
    <3>2. CASE Works(e)
      <4>1. \A d \in Executions : exe'[d].run = exe[d].run
        BY <3>1, <3>2 DEF Works
      <4>2. \A r \in Runs : /\ Offered(r)' <=> Offered(r)
                            /\ start'[r].back <=> start[r].back
        BY <3>1, <3>2, <4>1 DEF Works
      <4> QED
        BY <4>1, <4>2, QuietStep
    <3>3. ASSUME NEW r \in Runs, Takes(e, r)
          PROVE  Abstract!Next
      <4>1. /\ r \in offered /\ holders[r] = {} /\ r \notin back
            /\ holders' = [holders EXCEPT ![r] = {e}]
            /\ UNCHANGED <<offered, back>>
        BY <3>1, <3>3, TakeRefines
      <4>2. Abstract!Take(e, r)
        BY <4>1 DEF Abstract!Take, Abstract!Open, offered, holders, back
      <4> QED
        BY <4>2 DEF Abstract!Next
    <3> QED
      BY <2>2, <3>2, <3>3, ExecutionStep
  <2>3. CASE Crash
    <3>1. \A r \in Runs : /\ Offered(r)' <=> Offered(r)
                          /\ start'[r].back <=> start[r].back
      BY <2>3, CrashStep DEF SameBack
    <3> QED
      BY <2>3, <3>1, CrashStep, QuietStep
  <2>4. CASE UNCHANGED vars
    BY <2>4 DEF vars, offered, holders, back
  <2> QED
    BY <2>1, <2>2, <2>3, <2>4, LauncherStep DEF Next
<1>3. Spec => []OfferInv
  BY OfferInit, OfferStep, ExchangeTypeCorrect, PTL DEF Spec
<1> QED
  BY <1>1, <1>2, <1>3, ExchangeTypeCorrect, PTL DEF Spec, ImplementsJobOffer, Abstract!Spec,
     offered, holders, back, Offered
=============================================================================
