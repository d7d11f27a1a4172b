--------------------------- MODULE DeliveryProofs ---------------------------
(***************************************************************************)
(* Theorems about what the launcher and the Runner find in the exchange    *)
(* directory: an offer never seems to vanish, none is left behind for a    *)
(* Runner to take, a Runner that has a job can read it, and a result is    *)
(* delivered before its directory goes.                                    *)
(***************************************************************************)
EXTENDS ExchangeProofs

-----------------------------------------------------------------------------
(* The invariant, run by run *)

Publishing == {"idle", "publish", "write", "offer", "unstage"}
Awaiting   == {"read", "look", "look2", "nap", "withdraw", "purge"}
Watching   == {"confirm", "poll", "stop", "poll2", "result"}
Removing   == {"remove", "rmdir"}

\* The launcher has removed the files, or is over.
Over == {"rmdir", "done", "gone"}

Clean == shareFaults = 0

\* Where the directory is at each step of the launcher.  While it waits for a
\* claim the directory can only go from pending to claimed, so a second look that
\* follows a first in vain finds it.  After a failed operation on the share the
\* launcher may remove or return with the offer still pending.
Whereabouts(r) ==
  /\ start[r].pc \in {"read", "look", "withdraw"} => place[r] \in {"pending", "claimed"}
  /\ start[r].pc \in {"look2", "nap"} \cup Watching => place[r] = "claimed"
  /\ Clean /\ start[r].pc \in Removing => place[r] = "claimed"
  /\ Clean /\ start[r].pc = "done" => place[r] \in {"none", "claimed"}
  /\ start[r].out # "absent"

\* The one execution that holds a run wrote what is in its directory, and the
\* directory stays until the launcher is over.
Contents(r) ==
  /\ start[r].pc = "offer" => files[r].job
  /\ place[r] \in {"pending", "claimed"} /\ start[r].pc \notin Over => files[r].job
  /\ files[r].execution # NoExecution => exe[files[r].execution].run = r
  /\ files[r].result # "none" =>
       \E e \in Executions : /\ exe[e].run = r /\ exe[e].pc \in {"exit", "ended"}
                             /\ exe[e].outcome = files[r].result

Held(r, e) ==
  exe[e].run = r =>
    /\ place[r] = "claimed" \/ start[r].pc \in {"done", "gone"}
    /\ Clean /\ start[r].pc \notin Over /\ (exe[e].pc = "exit" \/ exe[e].status = "succeeded")
         => files[r].result = exe[e].outcome

\* The launcher watches the execution that holds the run, and what it has seen of
\* it stays true.
Watches(r) ==
  /\ start[r].pc \in Publishing \cup Awaiting => start[r].name = NoExecution
  /\ start[r].pc \in Watching => start[r].name # NoExecution
  /\ start[r].name # NoExecution => exe[start[r].name].run = r
  /\ start[r].status \in Ended =>
       /\ start[r].pc \in {"result", "remove", "rmdir", "done", "gone"}
       /\ start[r].name # NoExecution
       /\ exe[start[r].name].status = start[r].status
  /\ start[r].name # NoExecution /\ start[r].pc \in Removing =>
       \/ start[r].notFound = ConfirmAttempts - 1
       \/ exe[start[r].name].pc = "ended"
  /\ start[r].name # NoExecution /\ start[r].notFound < ConfirmAttempts - 1 =>
       exe[start[r].name].pc = "ended" \/ (place[r] = "claimed" /\ files[r].job)

\* What is to be returned agrees with what the execution reported.
Answers(r) ==
  /\ start[r].out = "succeeded" =>
       /\ start[r].name # NoExecution
       /\ exe[start[r].name].pc \in {"exit", "ended"}
       /\ exe[start[r].name].outcome = "succeeded"
  /\ Clean /\ start[r].status = "succeeded" /\ start[r].pc \in Removing \cup {"done"}
       => start[r].out = "succeeded"

\* An execution that does something holds a run, its status is final, and one that
\* succeeded with a run reported success.
Sound(e) ==
  /\ exe[e].pc \in {"mark", "job", "work", "exit"} => exe[e].run \in Runs
  /\ exe[e].status \in Ended => exe[e].pc = "ended"
  /\ exe[e].status = "succeeded" /\ exe[e].run # NoRun => exe[e].outcome = "succeeded"

Sole == \A d, e \in Executions : exe[d].run \in Runs /\ exe[d].run = exe[e].run => d = e

Delivering(r) ==
  /\ Whereabouts(r) /\ Contents(r) /\ Watches(r) /\ Answers(r)
  /\ \A e \in Executions : Held(r, e)

DeliveryInv ==
  /\ Sole
  /\ \A e \in Executions : Sound(e)
  /\ \A r \in Runs : Delivering(r)

LEMMA DeliveryInit == Init => DeliveryInv
<1> SUFFICES ASSUME Init PROVE DeliveryInv
  OBVIOUS
<1>1. \A r \in Runs : /\ place[r] = "none"
                      /\ start[r].pc = "idle" /\ start[r].name = NoExecution
                      /\ start[r].status = "unknown" /\ start[r].out = "none"
                      /\ files[r].execution = NoExecution /\ files[r].result = "none"
  BY DEF Init, IdleStart, NoFiles
<1>2. \A e \in Executions : /\ exe[e].run = NoRun /\ exe[e].pc = "idle"
                            /\ exe[e].status = "unknown"
  BY DEF Init, IdleExe
<1>3. NoRun \notin Runs
  BY ExchangeAssumption DEF NoRun
<1>4. Sole /\ \A e \in Executions : Sound(e)
  BY <1>2, <1>3 DEF Sole, Sound, Ended
<1>5. ASSUME NEW r \in Runs PROVE Delivering(r)
  BY <1>1, <1>2, <1>3 DEF Delivering, Whereabouts, Contents, Watches, Answers, Held, Ended,
     Over, Watching, Removing, Publishing, Awaiting
<1> QED
  BY <1>4, <1>5 DEF DeliveryInv

-----------------------------------------------------------------------------
(* What a step of the launcher changes *)

\* Executions keep what the invariant reads of them, and a share that has failed
\* stays failed.
Around ==
  /\ \A e \in Executions : /\ exe'[e].run = exe[e].run /\ exe'[e].pc = exe[e].pc
                           /\ exe'[e].status = exe[e].status
                           /\ exe'[e].outcome = exe[e].outcome
  /\ Clean' => Clean

DirectoryStays(r) == place'[r] = place[r] /\ files'[r] = files[r]

SameWatch(r) ==
  /\ start'[r].name = start[r].name /\ start'[r].status = start[r].status
  /\ start'[r].notFound = start[r].notFound

SameOut(r) == start'[r].out = start[r].out

LEMMA FaultShows ==
  ASSUME TypeOK, ShareFails
  PROVE  ~Clean'
BY ExchangeAssumption DEF TypeOK, ShareFails, Clean

LEMMA GoRow ==
  ASSUME TypeOK, NEW r \in Runs, NEW p, Go(r, p)
  PROVE  start'[r].pc = p /\ SameWatch(r) /\ SameOut(r)
<1>1. start[r] \in StartRow
  BY DEF TypeOK
<1>2. start'[r] = [start[r] EXCEPT !.pc = p]
  BY SetEffect DEF Go
<1> QED
  BY <1>1, <1>2 DEF SameWatch, SameOut, StartRow

LEMMA OutRow ==
  ASSUME TypeOK, NEW r \in Runs, NEW p, NEW out,
         Set(r, [start[r] EXCEPT !.pc = p, !.out = out])
  PROVE  start'[r].pc = p /\ SameWatch(r) /\ start'[r].out = out
<1>1. start[r] \in StartRow
  BY DEF TypeOK
<1>2. start'[r] = [start[r] EXCEPT !.pc = p, !.out = out]
  BY SetEffect
<1> QED
  BY <1>1, <1>2 DEF SameWatch, StartRow

LEMMA ReturnRow ==
  ASSUME TypeOK, NEW r \in Runs, NEW out, Return(r, out)
  PROVE  start'[r].pc = "done" /\ SameWatch(r) /\ start'[r].out = out
BY OutRow DEF Return

LEMMA RemoveRow ==
  ASSUME TypeOK, NEW r \in Runs, NEW out, RemoveThen(r, out)
  PROVE  start'[r].pc = "remove" /\ SameWatch(r) /\ start'[r].out = out
BY OutRow DEF RemoveThen

\* A step that leaves the directory and the watched execution as they are.
LEMMA Glides ==
  ASSUME NEW r \in Runs, Delivering(r), Around, DirectoryStays(r), SameWatch(r),
         start[r].name \in Executions \cup {NoExecution},
         files[r].execution \in Executions \cup {NoExecution},
         SameOut(r) \/ start'[r].out \in Reasons,
         Whereabouts(r)',
         start[r].pc \in Over => start'[r].pc \in Over,
         start[r].pc \in {"done", "gone"} => start'[r].pc \in {"done", "gone"},
         start'[r].pc = "offer" => start[r].pc = "offer",
         start'[r].pc \in Publishing \cup Awaiting => start[r].pc \in Publishing \cup Awaiting,
         start'[r].pc \in Watching => start[r].pc \in Watching,
         start[r].status \in Ended =>
           start'[r].pc \in {"result", "remove", "rmdir", "done", "gone"},
         start[r].name # NoExecution /\ start'[r].pc \in Removing =>
           \/ start[r].pc \in Removing \/ start[r].notFound = ConfirmAttempts - 1
           \/ exe[start[r].name].pc = "ended",
         Clean' /\ start[r].status = "succeeded" /\ start'[r].pc \in Removing \cup {"done"}
           => start'[r].out = "succeeded"
  PROVE  Delivering(r)'
<1>1. Contents(r)'
  BY DEF Delivering, Contents, Around, DirectoryStays
<1>2. Watches(r)'
  BY DEF Delivering, Watches, Around, DirectoryStays, SameWatch
<1>3. Answers(r)'
  BY DEF Delivering, Answers, Around, SameWatch, SameOut, Reasons
<1>4. \A e \in Executions : Held(r, e)'
  BY DEF Delivering, Held, Around, DirectoryStays
<1> QED
  BY <1>1, <1>2, <1>3, <1>4 DEF Delivering

\* The rest of the share and of the launcher.
Apart(r) ==
  \A q \in Runs \ {r} : DirectoryStays(q) /\ start'[q] = start[q]

LEMMA LauncherApart ==
  ASSUME TypeOK, OfferInv, NEW r \in Runs,
         StartRun(r) \/ Launcher(r) \/ Deadline(r) \/ Cancel(r)
  PROVE  Apart(r) /\ Around
<1>1. Frame(r)
  BY LauncherStep
<1>2. \A q \in Runs \ {r} : files'[q] = files[q]
  <2>1. \/ UNCHANGED files
        \/ files' = [files EXCEPT ![r].job = TRUE]
        \/ \E f : files' = [files EXCEPT ![r] = f]
    <3>1. ASSUME RemoveFiles(r) PROVE \E f : files' = [files EXCEPT ![r] = f]
      <4>1. CASE UNCHANGED files
        BY <4>1 DEF TypeOK
      <4>2. CASE files' = [files EXCEPT ![r] = IF place[r] = "claimed" THEN NoFiles ELSE @]
        BY <4>2
      <4> QED
        BY <3>1, <4>1, <4>2 DEF RemoveFiles
    <3> QED
      BY <3>1 DEF StartRun, Launcher, Await, Deadline, Cancel, PublishStage, PublishWrite,
         PublishOffer, PublishUndo, ReadExecution, LookFirst, LookSecond, Nap, Withdraw, Purge,
         RemoveDir, Confirm, Poll, StopExecution, PollStopped, ReadResult, ShareKeeps
  <2> QED
    BY <2>1 DEF TypeOK
<1>3. \A e \in Executions : /\ exe'[e].status = exe[e].status
                            /\ exe'[e].outcome = exe[e].outcome
  <2>1. UNCHANGED exe \/ exe' = [exe EXCEPT ![start[r].name].stopping = TRUE]
    BY DEF StartRun, Launcher, Await, Deadline, Cancel, PublishStage, PublishWrite,
       PublishOffer, PublishUndo, ReadExecution, LookFirst, LookSecond, Nap, Withdraw, Purge,
       RemoveFiles, RemoveDir, Confirm, Poll, StopExecution, PollStopped, ReadResult,
       LauncherKeeps
  <2> QED
    BY <2>1 DEF TypeOK, ExeRow
<1>4. Clean' => Clean
  <2>1. ShareFails \/ ShareWorks
    BY DEF StartRun, Launcher, Await, Deadline, Cancel, PublishStage, PublishWrite,
       PublishOffer, PublishUndo, ReadExecution, LookFirst, LookSecond, Nap, Withdraw, Purge,
       RemoveFiles, RemoveDir, Confirm, Poll, StopExecution, PollStopped, ReadResult
  <2> QED
    BY <2>1, FaultShows DEF ShareWorks, Clean
<1> QED
  BY <1>1, <1>2, <1>3, <1>4 DEF Frame, Apart, DirectoryStays, Around

\* Names of executions, as the types have them.
LEMMA NameTypes ==
  ASSUME TypeOK, NEW r \in Runs
  PROVE  /\ start[r].name \in Executions \cup {NoExecution}
         /\ files[r].execution \in Executions \cup {NoExecution}
         /\ start[r].status \in Ended \cup {"unknown"}
         /\ start[r].notFound \in 0 .. ConfirmAttempts - 1
         /\ start[r].pc \in StartPC
BY DEF TypeOK, StartRow, FilesRow

-----------------------------------------------------------------------------
(* Publish *)

LEMMA PublishDelivers ==
  ASSUME TypeOK, OfferInv, DeliveryInv, NEW r \in Runs, Around,
         \/ StartRun(r) \/ PublishStage(r) \/ PublishWrite(r) \/ PublishOffer(r)
         \/ PublishUndo(r)
  PROVE  Delivering(r)'
<1>1. /\ start[r].pc \in Publishing /\ Located(r) /\ Delivering(r)
      /\ \A e \in Executions : exe[e].run # r
  <2>1. start[r].pc \in Publishing
    BY DEF StartRun, PublishStage, PublishWrite, PublishOffer, PublishUndo, At, Publishing
  <2>2. Located(r) /\ Delivering(r)
    BY DEF OfferInv, DeliveryInv
  <2>3. Free(r)
    BY <2>1, <2>2 DEF OfferInv, Located, Publishing
  <2> QED
    BY <2>1, <2>2, <2>3 DEF Free
<1>2. /\ start[r].name = NoExecution /\ start[r].status \notin Ended
      /\ start[r].out \notin {"absent", "succeeded"}
  BY <1>1 DEF Delivering, Watches, Answers, Whereabouts, Publishing
<1>3. files[r].execution = NoExecution /\ files[r].result = "none"
  BY <1>1, NameTypes DEF Delivering, Contents
<1>4. ASSUME SameWatch(r), SameOut(r) \/ start'[r].out = "start",
             files'[r].execution = NoExecution, files'[r].result = "none",
             start'[r].pc \in Publishing \cup {"read", "done"},
             start'[r].pc = "read" => place'[r] = "pending",
             start'[r].pc = "done" => place'[r] = "none" \/ ~Clean',
             start'[r].pc = "offer" => files'[r].job,
             place'[r] \in {"pending", "claimed"} => files'[r].job
      PROVE  Delivering(r)'
  <2>1. Whereabouts(r)'
    BY <1>2, <1>4 DEF Whereabouts, Watching, Removing, Publishing, SameOut
  <2>2. Contents(r)' /\ \A e \in Executions : Held(r, e)'
    BY <1>1, <1>4 DEF Contents, Held, Around
  <2>3. Watches(r)' /\ Answers(r)'
    BY <1>2, <1>4 DEF Watches, Answers, SameWatch, SameOut, Watching, Removing, Publishing,
       Awaiting, Ended
  <2> QED
    BY <2>1, <2>2, <2>3 DEF Delivering
<1>5. place[r] \notin {"pending", "claimed"}
  BY <1>1 DEF Located, Publishing
<1>6. /\ ShareKeeps => DirectoryStays(r)
      /\ UNCHANGED files => files'[r] = files[r]
      /\ UNCHANGED place => place'[r] = place[r]
  BY DEF ShareKeeps, DirectoryStays
<1>7. CASE StartRun(r)
  BY <1>3, <1>4, <1>5, <1>6, <1>7, GoRow DEF StartRun, DirectoryStays, Publishing
<1>8. CASE PublishStage(r)
  <2>1. CASE place' = [place EXCEPT ![r] = "staging"] /\ UNCHANGED files /\ Go(r, "write")
    <3>1. place'[r] = "staging" /\ files'[r] = files[r]
      BY <2>1, PlaceEffect
    <3>2. start'[r].pc = "write" /\ SameWatch(r) /\ SameOut(r)
      BY <2>1, GoRow
    <3> QED
      BY <1>3, <1>4, <3>1, <3>2 DEF Publishing
  <2>2. CASE ShareFails /\ Return(r, "start") /\ ShareKeeps
    BY <1>3, <1>4, <1>5, <1>6, <2>2, ReturnRow, FaultShows DEF DirectoryStays
  <2>3. place[r] = "none"
    BY <1>1, <1>8 DEF PublishStage, At, Located
  <2> QED
    BY <1>8, <2>1, <2>2, <2>3 DEF PublishStage
<1>9. CASE PublishWrite(r)
  <2>1. CASE files' = [files EXCEPT ![r].job = TRUE] /\ UNCHANGED place /\ Go(r, "offer")
    <3>1. /\ files'[r].job /\ files'[r].execution = files[r].execution
          /\ files'[r].result = files[r].result
      BY <2>1 DEF TypeOK, FilesRow
    <3> QED
      BY <1>3, <1>4, <1>5, <1>6, <2>1, <3>1, GoRow DEF Publishing
  <2>2. CASE Go(r, "unstage") /\ ShareKeeps
    BY <1>3, <1>4, <1>5, <1>6, <2>2, GoRow DEF DirectoryStays, Publishing
  <2> QED
    BY <1>9, <2>1, <2>2 DEF PublishWrite
<1>10. CASE PublishOffer(r)
  <2>1. CASE place' = [place EXCEPT ![r] = "pending"] /\ UNCHANGED files /\ Go(r, "read")
    <3>1. files[r].job
      BY <1>1, <1>10 DEF PublishOffer, At, Delivering, Contents
    <3>2. place'[r] = "pending" /\ files'[r] = files[r]
      BY <2>1, PlaceEffect
    <3>3. start'[r].pc = "read" /\ SameWatch(r) /\ SameOut(r)
      BY <2>1, GoRow
    <3> QED
      BY <1>3, <1>4, <3>1, <3>2, <3>3
  <2>2. CASE Go(r, "unstage") /\ ShareKeeps
    BY <1>3, <1>4, <1>5, <1>6, <2>2, GoRow DEF DirectoryStays, Publishing
  <2> QED
    BY <1>10, <2>1, <2>2 DEF PublishOffer
<1>11. CASE PublishUndo(r)
  <2>1. Return(r, "start")
    BY <1>11 DEF PublishUndo
  <2>2. CASE /\ place' = [place EXCEPT ![r] = "none"]
             /\ files' = [files EXCEPT ![r] = NoFiles]
    <3>1. files'[r].execution = NoExecution /\ files'[r].result = "none"
      BY <2>2 DEF TypeOK, NoFiles
    <3> QED
      BY <1>4, <2>1, <2>2, <3>1, ReturnRow, PlaceEffect
  <2>3. CASE ShareFails /\ ShareKeeps
    BY <1>3, <1>4, <1>5, <1>6, <2>1, <2>3, ReturnRow, FaultShows DEF DirectoryStays
  <2> QED
    BY <1>11, <2>2, <2>3 DEF PublishUndo
<1> QED
  BY <1>7, <1>8, <1>9, <1>10, <1>11

-----------------------------------------------------------------------------
(* awaitClaim *)

LEMMA AwaitGlides ==
  ASSUME TypeOK, NEW r \in Runs, Delivering(r), Around, DirectoryStays(r), SameWatch(r),
         SameOut(r) \/ start'[r].out \in Reasons,
         start[r].pc \in Awaiting, start'[r].pc \in Awaiting \cup {"remove", "done"},
         Whereabouts(r)'
  PROVE  Delivering(r)'
<1>1. start[r].name = NoExecution /\ start[r].status \notin Ended
  BY DEF Delivering, Watches, Awaiting
<1>2. start[r].status # "succeeded"
  BY <1>1 DEF Ended
<1>3. start[r].pc \notin Over /\ start'[r].pc # "offer" /\ start'[r].pc \notin Watching
  BY DEF Awaiting, Over, Watching
<1> QED
  BY <1>1, <1>2, <1>3, NameTypes, Glides DEF Over

LEMMA TimeDelivers ==
  ASSUME TypeOK, DeliveryInv, NEW r \in Runs, Around, Deadline(r) \/ Cancel(r)
  PROVE  Delivering(r)'
<1>1. start[r] \in StartRow
  BY DEF TypeOK
<1>2. \/ start'[r] = [start[r] EXCEPT !.due = TRUE]
      \/ start'[r] = [start[r] EXCEPT !.cancelled = TRUE]
  BY SetEffect DEF Deadline, Cancel
<1>3. start'[r].pc = start[r].pc /\ SameWatch(r) /\ SameOut(r)
  BY <1>1, <1>2 DEF StartRow, SameWatch, SameOut
<1>4. DirectoryStays(r)
  BY DEF Deadline, Cancel, ShareKeeps, DirectoryStays
<1>5. Delivering(r)
  BY DEF DeliveryInv
<1>6. Whereabouts(r)'
  BY <1>3, <1>4, <1>5 DEF Delivering, Whereabouts, Around, DirectoryStays, SameOut
<1>7. /\ start[r].status \in Ended =>
           start[r].pc \in {"result", "remove", "rmdir", "done", "gone"}
      /\ Clean /\ start[r].status = "succeeded" /\ start[r].pc \in Removing \cup {"done"}
           => start[r].out = "succeeded"
  BY <1>5 DEF Delivering, Watches, Answers
<1> QED
  BY <1>3, <1>4, <1>5, <1>6, <1>7, NameTypes, Glides DEF SameOut, Around

LEMMA ReadDelivers ==
  ASSUME TypeOK, DeliveryInv, NEW r \in Runs, Around, ReadExecution(r)
  PROVE  Delivering(r)'
<1>1. Delivering(r) /\ start[r].pc = "read" /\ DirectoryStays(r)
  BY DEF DeliveryInv, ReadExecution, At, ShareKeeps, DirectoryStays
<1>2. start[r].pc \in Awaiting
  BY <1>1 DEF Awaiting
<1>3. start[r].out # "absent" /\ place[r] \in {"pending", "claimed"}
  BY <1>1 DEF Delivering, Whereabouts
<1>4. CASE Go(r, "look")
  <2>1. start'[r].pc = "look" /\ SameWatch(r) /\ SameOut(r)
    BY <1>4, GoRow
  <2>2. Whereabouts(r)'
    BY <1>1, <1>3, <2>1 DEF Whereabouts, DirectoryStays, SameOut, Watching, Removing
  <2> QED
    BY <1>1, <1>2, <2>1, <2>2, AwaitGlides DEF Awaiting
<1>5. CASE ShareFails /\ RemoveThen(r, "start")
  <2>1. start'[r].pc = "remove" /\ SameWatch(r) /\ start'[r].out = "start"
    BY <1>5, RemoveRow
  <2>2. Whereabouts(r)'
    BY <1>5, <2>1, FaultShows DEF Whereabouts, Watching, Removing
  <2> QED
    BY <1>1, <1>2, <2>1, <2>2, AwaitGlides DEF Reasons
<1>6. CASE /\ place[r] = "claimed" /\ files[r].execution # NoExecution
           /\ Set(r, [start[r] EXCEPT !.pc = "confirm", !.due = FALSE,
                                      !.name = files[r].execution])
  <2>1. start[r] \in StartRow
    BY DEF TypeOK
  <2>2. start'[r] = [start[r] EXCEPT !.pc = "confirm", !.due = FALSE,
                                     !.name = files[r].execution]
    BY <1>6, SetEffect
  <2>3. /\ start'[r].pc = "confirm" /\ start'[r].name = files[r].execution
        /\ start'[r].status = start[r].status /\ SameOut(r)
    BY <2>1, <2>2 DEF StartRow, SameOut
  <2>4. start[r].name = NoExecution /\ start[r].status \notin Ended
    BY <1>1, <1>2 DEF Delivering, Watches
  <2>5. start[r].out # "succeeded"
    BY <1>1, <2>4 DEF Delivering, Answers
  <2>6. files[r].execution \in Executions /\ exe[files[r].execution].run = r
    BY <1>1, <1>6, NameTypes DEF Delivering, Contents
  <2>7. files[r].job
    BY <1>1, <1>6 DEF Delivering, Contents, Over
  <2>8. Whereabouts(r)'
    BY <1>1, <1>3, <1>6, <2>3 DEF Whereabouts, Watching, Removing, DirectoryStays, SameOut
  <2>9. Contents(r)' /\ \A e \in Executions : Held(r, e)'
    <3>1. Contents(r)'
      BY <1>1, <2>3, <2>6, <2>7 DEF Delivering, Contents, Around, DirectoryStays
    <3>2. start[r].pc \notin Over
      BY <1>1 DEF Over
    <3> QED
      BY <1>1, <1>6, <3>1, <3>2 DEF Delivering, Held, Around, DirectoryStays
  <2>10. Watches(r)'
    BY <1>1, <1>6, <2>3, <2>4, <2>6, <2>7 DEF Watches, Around, DirectoryStays, Publishing,
       Awaiting, Watching, Removing
  <2>11. Answers(r)'
    BY <2>3, <2>4, <2>5 DEF Answers, SameOut, Removing
  <2> QED
    BY <2>8, <2>9, <2>10, <2>11 DEF Delivering
<1> QED
  BY <1>4, <1>5, <1>6 DEF ReadExecution

LEMMA LookDelivers ==
  ASSUME TypeOK, DeliveryInv, NEW r \in Runs, Around,
         LookFirst(r) \/ LookSecond(r) \/ Nap(r)
  PROVE  Delivering(r)'
<1>1. Delivering(r) /\ DirectoryStays(r)
  BY DEF DeliveryInv, LookFirst, LookSecond, Nap, ShareKeeps, DirectoryStays
<1>2. start[r].pc \in Awaiting
  BY DEF LookFirst, LookSecond, Nap, At, Awaiting
<1>3. start[r].out # "absent"
  BY <1>1 DEF Delivering, Whereabouts
<1>4. ASSUME SameWatch(r), SameOut(r) \/ start'[r].out \in {"start", "cancelled"},
             \/ start'[r].pc \in {"read", "withdraw"} /\ place[r] \in {"pending", "claimed"}
             \/ start'[r].pc \in {"look2", "nap", "remove"} /\ place[r] = "claimed"
             \/ start'[r].pc = "done" /\ ~Clean'
      PROVE  Delivering(r)'
  <2>1. Whereabouts(r)'
    BY <1>1, <1>3, <1>4 DEF Whereabouts, DirectoryStays, SameOut, Watching, Removing
  <2> QED
    BY <1>1, <1>2, <1>4, <2>1, AwaitGlides DEF Awaiting, Reasons
<1>5. ASSUME ShareFails, Return(r, "start") PROVE Delivering(r)'
  BY <1>4, <1>5, ReturnRow, FaultShows
<1>6. CASE LookFirst(r)
  <2>1. place[r] \in {"pending", "claimed"}
    BY <1>1, <1>6 DEF LookFirst, At, Delivering, Whereabouts
  <2>2. CASE place[r] = "pending" /\ SeenIn(r, "pending")
    <3>1. Go(r, "withdraw") \/ Go(r, "read")
      BY <2>2 DEF SeenIn
    <3> QED
      BY <1>4, <2>1, <3>1, GoRow
  <2>3. CASE place[r] # "pending" /\ Go(r, "look2")
    BY <1>4, <2>1, <2>3, GoRow
  <2> QED
    BY <1>5, <1>6, <2>2, <2>3 DEF LookFirst, LookOrder
<1>7. CASE LookSecond(r)
  <2>1. place[r] = "claimed"
    BY <1>1, <1>7 DEF LookSecond, At, Delivering, Whereabouts
  <2>2. CASE SeenIn(r, "claimed")
    <3>1. \/ Go(r, "nap") \/ RemoveThen(r, "start")
          \/ Set(r, [start[r] EXCEPT !.pc = "nap", !.grace = TRUE, !.due = FALSE])
      BY <2>2 DEF SeenIn
    <3>2. CASE Go(r, "nap") \/ RemoveThen(r, "start")
      BY <1>4, <2>1, <3>2, GoRow, RemoveRow
    <3>3. CASE Set(r, [start[r] EXCEPT !.pc = "nap", !.grace = TRUE, !.due = FALSE])
      <4>1. start[r] \in StartRow
        BY DEF TypeOK
      <4>2. start'[r] = [start[r] EXCEPT !.pc = "nap", !.grace = TRUE, !.due = FALSE]
        BY <3>3, SetEffect
      <4>3. start'[r].pc = "nap" /\ SameWatch(r) /\ SameOut(r)
        BY <4>1, <4>2 DEF StartRow, SameWatch, SameOut
      <4> QED
        BY <1>4, <2>1, <4>3
    <3> QED
      BY <3>1, <3>2, <3>3
  <2> QED
    BY <1>5, <1>7, <2>1, <2>2 DEF LookSecond, LookOrder
<1>8. CASE Nap(r)
  <2>1. place[r] = "claimed"
    BY <1>1, <1>8 DEF Nap, At, Delivering, Whereabouts
  <2>2. Go(r, "read") \/ RemoveThen(r, "cancelled")
    BY <1>8 DEF Nap
  <2> QED
    BY <1>4, <2>1, <2>2, GoRow, RemoveRow
<1> QED
  BY <1>6, <1>7, <1>8

-----------------------------------------------------------------------------
(* Withdraw and Remove *)

LEMMA WithdrawDelivers ==
  ASSUME TypeOK, OfferInv, DeliveryInv, NEW r \in Runs, Around, Withdraw(r) \/ Purge(r)
  PROVE  Delivering(r)'
<1>1. Delivering(r) /\ start[r].pc \in Awaiting /\ start[r].pc \in {"withdraw", "purge"}
  BY DEF DeliveryInv, Withdraw, Purge, At, Awaiting
<1>2. /\ start[r].name = NoExecution /\ start[r].status \notin Ended
      /\ start[r].out \notin {"absent", "succeeded"}
  BY <1>1 DEF Delivering, Watches, Answers, Whereabouts
<1>3. CASE Return(r, "start") /\ ShareFails /\ ShareKeeps
  <2>1. start'[r].pc = "done" /\ SameWatch(r) /\ start'[r].out = "start" /\ ~Clean'
    BY <1>3, ReturnRow, FaultShows
  <2>2. Whereabouts(r)'
    BY <2>1 DEF Whereabouts, Watching, Removing
  <2> QED
    BY <1>1, <1>3, <2>1, <2>2, AwaitGlides DEF Reasons, ShareKeeps, DirectoryStays
<1>4. CASE Withdraw(r) /\ place[r] # "pending" /\ Go(r, "read") /\ ShareKeeps
  <2>1. start'[r].pc = "read" /\ SameWatch(r) /\ SameOut(r) /\ DirectoryStays(r)
    BY <1>4, GoRow DEF ShareKeeps, DirectoryStays
  <2>2. place[r] \in {"pending", "claimed"}
    BY <1>1, <1>4 DEF Withdraw, At, Delivering, Whereabouts
  <2>3. Whereabouts(r)'
    BY <1>2, <2>1, <2>2 DEF Whereabouts, SameOut, DirectoryStays, Watching, Removing
  <2> QED
    BY <1>1, <2>1, <2>3, AwaitGlides DEF Awaiting
<1>5. CASE /\ place[r] = "pending"
           /\ place' = [place EXCEPT ![r] = "withdrawn"] /\ UNCHANGED files
           /\ Set(r, [start[r] EXCEPT !.pc = "purge", !.back = TRUE])
  <2>1. place'[r] = "withdrawn" /\ files'[r] = files[r]
    BY <1>5, PlaceEffect
  <2>2. start[r] \in StartRow
    BY DEF TypeOK
  <2>3. start'[r] = [start[r] EXCEPT !.pc = "purge", !.back = TRUE]
    BY <1>5, SetEffect
  <2>4. start'[r].pc = "purge" /\ SameWatch(r) /\ SameOut(r)
    BY <2>2, <2>3 DEF StartRow, SameWatch, SameOut
  <2>5. \A e \in Executions : exe[e].run # r
    BY <1>5 DEF OfferInv, Free
  <2>6. files[r].execution = NoExecution /\ files[r].result = "none"
    BY <1>1, <2>5, NameTypes DEF Delivering, Contents
  <2>7. Whereabouts(r)'
    BY <1>2, <2>4 DEF Whereabouts, SameOut, Watching, Removing
  <2>8. Contents(r)' /\ \A e \in Executions : Held(r, e)'
    BY <2>1, <2>4, <2>5, <2>6 DEF Contents, Held, Around
  <2>9. Watches(r)' /\ Answers(r)'
    BY <1>2, <2>4 DEF Watches, Answers, SameWatch, SameOut, Watching, Removing
  <2> QED
    BY <2>7, <2>8, <2>9 DEF Delivering
<1>6. CASE /\ place' = [place EXCEPT ![r] = "none"]
           /\ files' = [files EXCEPT ![r] = NoFiles]
           /\ Return(r, IF start[r].cancelled THEN "cancelled" ELSE "start")
  <2>1. place'[r] = "none" /\ files'[r] = NoFiles
    BY <1>6, PlaceEffect DEF TypeOK
  <2>2. start'[r].pc = "done" /\ SameWatch(r) /\ start'[r].out \in {"cancelled", "start"}
    BY <1>6, ReturnRow
  <2>3. Whereabouts(r)'
    BY <2>1, <2>2 DEF Whereabouts, Watching, Removing
  <2>4. Contents(r)' /\ \A e \in Executions : Held(r, e)'
    BY <2>1, <2>2 DEF Contents, Held, NoFiles, Over
  <2>5. Watches(r)' /\ Answers(r)'
    BY <1>2, <2>2 DEF Watches, Answers, SameWatch, Watching, Removing, Ended
  <2> QED
    BY <2>3, <2>4, <2>5 DEF Delivering
<1> QED
  BY <1>3, <1>4, <1>5, <1>6 DEF Withdraw, Purge

LEMMA RemoveDelivers ==
  ASSUME TypeOK, DeliveryInv, NEW r \in Runs, Around, RemoveFiles(r) \/ RemoveDir(r)
  PROVE  Delivering(r)'
<1>1. Delivering(r) /\ start[r].pc \in Removing
  BY DEF DeliveryInv, RemoveFiles, RemoveDir, At, Removing
<1>2. /\ start[r].name # NoExecution =>
           start[r].notFound = ConfirmAttempts - 1 \/ exe[start[r].name].pc = "ended"
      /\ Clean => place[r] = "claimed"
      /\ Clean /\ start[r].status = "succeeded" => start[r].out = "succeeded"
      /\ start[r].out # "absent"
  BY <1>1 DEF Delivering, Watches, Whereabouts, Answers
<1>3. \/ Go(r, "rmdir") /\ RemoveFiles(r) /\ place'[r] = place[r]
      \/ /\ Go(r, "done") /\ files'[r] = files[r]
         /\ place'[r] = place[r] \/ (place[r] = "claimed" /\ place'[r] = "none")
  BY PlaceEffect DEF RemoveFiles, RemoveDir
<1>4. /\ start'[r].pc \in {"rmdir", "done"} /\ SameWatch(r) /\ SameOut(r)
      /\ start'[r].pc = "rmdir" => place'[r] = place[r] /\ start[r].pc = "remove"
  BY <1>3, GoRow DEF RemoveFiles, At
<1>5. files'[r] \in {files[r], NoFiles}
  <2>1. CASE RemoveFiles(r)
    <3>1. \/ UNCHANGED files
          \/ files' = [files EXCEPT ![r] = NoFiles]
          \/ files' = [files EXCEPT ![r] = files[r]]
      BY <2>1 DEF RemoveFiles
    <3> QED
      BY <3>1 DEF TypeOK
  <2>2. CASE RemoveDir(r)
    BY <2>2 DEF RemoveDir
  <2> QED
    BY <2>1, <2>2
<1>6. place'[r] = place[r] \/ (place[r] = "claimed" /\ place'[r] = "none")
  BY <1>3
<1>7. Whereabouts(r)'
  BY <1>2, <1>4, <1>6 DEF Whereabouts, Around, SameOut, Watching, Removing
<1>8. Contents(r)'
  <2>1. start'[r].pc \in Over /\ start'[r].pc # "offer"
    BY <1>4 DEF Over
  <2>2. CASE files'[r] = NoFiles
    BY <2>1, <2>2 DEF Contents, NoFiles
  <2>3. CASE files'[r] = files[r]
    BY <1>1, <2>1, <2>3, NameTypes DEF Delivering, Contents, Around
  <2> QED
    BY <1>5, <2>2, <2>3
<1>9. \A e \in Executions : Held(r, e)'
  <2>1. start[r].pc \notin {"done", "gone"}
    BY <1>1 DEF Removing
  <2> QED
    BY <1>1, <1>4, <1>6, <2>1 DEF Delivering, Held, Around, Over
<1>10. Watches(r)'
  BY <1>1, <1>2, <1>4, NameTypes DEF Delivering, Watches, Around, SameWatch, Publishing,
     Awaiting, Watching, Removing
<1>11. Answers(r)'
  BY <1>1, <1>2, <1>4, NameTypes DEF Delivering, Answers, Around, SameWatch, SameOut
<1> QED
  BY <1>7, <1>8, <1>9, <1>10, <1>11 DEF Delivering

-----------------------------------------------------------------------------
(* confirm and Wait *)

\* What the launcher knows while it watches.
LEMMA WatchingKnows ==
  ASSUME TypeOK, NEW r \in Runs, Delivering(r), start[r].pc \in Watching
  PROVE  /\ start[r].name \in Executions /\ exe[start[r].name].run = r
         /\ place[r] = "claimed" /\ files[r].job
         /\ start[r].out # "absent"
         /\ start[r].pc \notin Over
         /\ start[r].pc # "result" => start[r].status \notin Ended
<1>1. start[r].pc \notin Over
  BY DEF Watching, Over
<1>2. place[r] = "claimed" /\ files[r].job /\ start[r].out # "absent"
  BY <1>1 DEF Delivering, Whereabouts, Contents
<1>3. start[r].pc # "result" => start[r].status \notin Ended
  BY DEF Delivering, Watches, Watching
<1>4. start[r].name \in Executions /\ exe[start[r].name].run = r
  BY NameTypes DEF Delivering, Watches
<1> QED
  BY <1>1, <1>2, <1>3, <1>4

\* A step within Watching that keeps the name and what is to be returned.
LEMMA WatchGlides ==
  ASSUME TypeOK, NEW r \in Runs, Delivering(r), Around, DirectoryStays(r),
         start[r].pc \in Watching, start'[r].pc \in Watching,
         start'[r].name = start[r].name, SameOut(r),
         start'[r].status \in Ended =>
           start'[r].pc = "result" /\ exe[start[r].name].status = start'[r].status
  PROVE  Delivering(r)'
<1>1. /\ start[r].name \in Executions /\ exe[start[r].name].run = r
      /\ place[r] = "claimed" /\ files[r].job
      /\ start[r].out # "absent" /\ start[r].pc \notin Over
  BY WatchingKnows
<1>2. start[r].name # NoExecution
  BY DEF Delivering, Watches
<1>3. /\ start'[r].pc \notin Over \cup Removing \cup Publishing \cup Awaiting
      /\ start'[r].pc \notin {"read", "look", "withdraw", "done", "gone", "offer"}
      /\ start[r].pc \notin {"done", "gone"}
  BY DEF Watching, Over, Removing, Publishing, Awaiting
<1>4. Whereabouts(r)'
  BY <1>1, <1>3 DEF Whereabouts, DirectoryStays, SameOut
<1>5. Contents(r)'
  BY <1>1, <1>3, NameTypes DEF Delivering, Contents, Around, DirectoryStays
<1>6. \A e \in Executions : Held(r, e)'
  BY <1>1, <1>3 DEF Delivering, Held, Around, DirectoryStays
<1>7. Watches(r)'
  BY <1>1, <1>2, <1>3 DEF Watches, Around, DirectoryStays
<1>8. Answers(r)'
  BY <1>1, <1>3 DEF Delivering, Answers, Around, SameOut
<1> QED
  BY <1>4, <1>5, <1>6, <1>7, <1>8 DEF Delivering

LEMMA ConfirmDelivers ==
  ASSUME TypeOK, DeliveryInv, NEW r \in Runs, Around, Confirm(r)
  PROVE  Delivering(r)'
<1>1. /\ Delivering(r) /\ start[r].pc = "confirm" /\ DirectoryStays(r)
      /\ start[r].pc \in Watching
  BY DEF DeliveryInv, Confirm, At, ShareKeeps, DirectoryStays, Watching
<1>2. start[r].status \notin Ended
  BY <1>1, WatchingKnows
<1>3. CASE Go(r, "poll")
  <2>1. start'[r].pc = "poll" /\ SameWatch(r) /\ SameOut(r)
    BY <1>3, GoRow
  <2> QED
    BY <1>1, <1>2, <2>1, WatchGlides DEF SameWatch, Watching
<1>4. ASSUME NEW n, Set(r, [start[r] EXCEPT !.attempt = @ + 1, !.notFound = n])
      PROVE  Delivering(r)'
  <2>1. start[r] \in StartRow
    BY DEF TypeOK
  <2>2. start'[r] = [start[r] EXCEPT !.attempt = @ + 1, !.notFound = n]
    BY <1>4, SetEffect
  <2>3. /\ start'[r].pc = start[r].pc /\ start'[r].name = start[r].name
        /\ start'[r].status = start[r].status /\ SameOut(r)
    BY <2>1, <2>2 DEF StartRow, SameOut
  <2> QED
    BY <1>1, <1>2, <2>3, WatchGlides
<1>5. CASE start[r].notFound + 1 = ConfirmAttempts /\ RemoveThen(r, "start")
  <2>1. start'[r].pc = "remove" /\ SameWatch(r) /\ start'[r].out = "start"
    BY <1>5, RemoveRow
  <2>2. place[r] = "claimed" /\ start[r].pc \notin Over
    BY <1>1, WatchingKnows
  <2>3. Whereabouts(r)'
    BY <1>1, <2>1, <2>2 DEF Whereabouts, DirectoryStays, Watching
  <2>4. start[r].notFound = ConfirmAttempts - 1
    BY <1>5, NameTypes DEF ConfirmAttempts
  <2>5. /\ start'[r].pc \notin Publishing \cup Awaiting \cup Watching
        /\ start[r].pc \notin {"done", "gone"} /\ start'[r].pc # "offer"
        /\ start[r].status # "succeeded"
    BY <1>1, <1>2, <2>1 DEF Publishing, Awaiting, Watching, Ended
  <2> QED
    BY <1>1, <1>2, <2>1, <2>2, <2>3, <2>4, <2>5, NameTypes, Glides DEF Reasons
<1>6. \/ Go(r, "poll")
      \/ \E n : Set(r, [start[r] EXCEPT !.attempt = @ + 1, !.notFound = n])
      \/ start[r].notFound + 1 = ConfirmAttempts /\ RemoveThen(r, "start")
  BY DEF Confirm, Unconfirmed
<1> QED
  BY <1>3, <1>4, <1>5, <1>6

LEMMA PollDelivers ==
  ASSUME TypeOK, DeliveryInv, NEW r \in Runs, Around,
         Poll(r) \/ StopExecution(r) \/ PollStopped(r)
  PROVE  Delivering(r)'
<1>1. /\ Delivering(r) /\ DirectoryStays(r)
      /\ start[r].pc \in Watching /\ start[r].pc # "result"
  BY DEF DeliveryInv, Poll, StopExecution, PollStopped, At, ShareKeeps, DirectoryStays, Watching
<1>2. start[r].status \notin Ended
  BY <1>1, WatchingKnows
<1>3. CASE \E p \in {"stop", "poll2", "result"} : Go(r, p)
  <2>1. start'[r].pc \in {"stop", "poll2", "result"} /\ SameWatch(r) /\ SameOut(r)
    BY <1>3, GoRow
  <2> QED
    BY <1>1, <1>2, <2>1, WatchGlides DEF SameWatch, Watching
<1>4. CASE \/ Set(r, [start[r] EXCEPT !.pc = "result", !.due = FALSE,
                                      !.status = Watched(r).status])
           \/ Set(r, [start[r] EXCEPT !.pc = "result", !.status = Watched(r).status])
  <2>1. start[r] \in StartRow
    BY DEF TypeOK
  <2>2. \/ start'[r] = [start[r] EXCEPT !.pc = "result", !.due = FALSE,
                                        !.status = Watched(r).status]
        \/ start'[r] = [start[r] EXCEPT !.pc = "result", !.status = Watched(r).status]
    BY <1>4, SetEffect
  <2>3. /\ start'[r].pc = "result" /\ start'[r].name = start[r].name
        /\ start'[r].status = exe[start[r].name].status /\ SameOut(r)
    BY <2>1, <2>2 DEF StartRow, SameOut, Watched
  <2> QED
    BY <1>1, <2>3, WatchGlides DEF Watching
<1> QED
  BY <1>3, <1>4 DEF Poll, StopExecution, PollStopped

LEMMA ResultDelivers ==
  ASSUME TypeOK, DeliveryInv, NEW r \in Runs, Around, ReadResult(r)
  PROVE  Delivering(r)'
<1>1. /\ Delivering(r) /\ start[r].pc = "result" /\ DirectoryStays(r)
      /\ start[r].pc \in Watching
  BY DEF DeliveryInv, ReadResult, At, ShareKeeps, DirectoryStays, Watching
<1>2. /\ start[r].name \in Executions /\ exe[start[r].name].run = r
      /\ place[r] = "claimed" /\ files[r].job /\ start[r].pc \notin Over
  BY <1>1, WatchingKnows
<1> DEFINE e == start[r].name
<1>3. Sound(e) /\ Held(r, e)
  BY <1>1, <1>2 DEF DeliveryInv, Delivering
<1>4. start[r].status \in Ended => exe[e].pc = "ended" /\ exe[e].status = start[r].status
  BY <1>1, <1>3 DEF Delivering, Watches, Sound
<1>5. files[r].result # "none" =>
        exe[e].pc \in {"exit", "ended"} /\ exe[e].outcome = files[r].result
  <2> SUFFICES ASSUME files[r].result # "none"
               PROVE  exe[e].pc \in {"exit", "ended"} /\ exe[e].outcome = files[r].result
    OBVIOUS
  <2>1. PICK d \in Executions : /\ exe[d].run = r /\ exe[d].pc \in {"exit", "ended"}
                                /\ exe[d].outcome = files[r].result
    BY <1>1 DEF Delivering, Contents
  <2>2. d = e
    BY <1>2, <2>1 DEF DeliveryInv, Sole
  <2> QED
    BY <2>1, <2>2
<1>6. Clean /\ start[r].status = "succeeded" => files[r].result = "succeeded"
  <2> SUFFICES ASSUME Clean, start[r].status = "succeeded"
               PROVE  files[r].result = "succeeded"
    OBVIOUS
  <2>1. exe[e].status = "succeeded"
    BY <1>4 DEF Ended
  <2>2. exe[e].outcome = "succeeded"
    BY <1>2, <1>3, <2>1, ExchangeAssumption DEF Sound, NoRun
  <2> QED
    BY <1>2, <1>3, <2>1, <2>2 DEF Held
<1>7. PICK out : /\ WaitAnswers(r, out)
                 /\ out \in Reasons \ {"absent"} \/ out = files[r].result
                 /\ out = "succeeded" => files[r].result = "succeeded"
                 /\ Clean' /\ start[r].status = "succeeded" => out = "succeeded"
  <2>1. "succeeded" \notin Reasons
    BY DEF Reasons
  <2>2. CASE ShareFails
    <3>1. PICK out \in {"cancelled", "timeout", "noresult"} : WaitAnswers(r, out)
      <4> DEFINE none == CASE start[r].cancelled -> "cancelled"
                           [] ~start[r].cancelled /\ start[r].due -> "timeout"
                           [] OTHER -> "noresult"
      <4>1. none \in {"cancelled", "timeout", "noresult"}
        OBVIOUS
      <4>2. WaitAnswers(r, none) \/ (place[r] = "claimed" /\ files[r].result # "none" /\ ShareWorks)
        BY DEF ReadResult
      <4>3. ~ShareWorks
        BY <2>2 DEF ShareFails, ShareWorks, TypeOK
      <4> QED
        BY <4>1, <4>2, <4>3
    <3>2. ~Clean'
      BY <2>2, FaultShows
    <3> QED
      BY <2>1, <3>1, <3>2 DEF Reasons
  <2>3. CASE ~ShareFails
    <3>1. CASE files[r].result # "none"
      <4> DEFINE out == IF Disagree(start[r].status, files[r].result) THEN "mismatch"
                        ELSE files[r].result
      <4>1. WaitAnswers(r, out)
        BY <1>2, <2>3, <3>1 DEF ReadResult
      <4>2. out \in Reasons \ {"absent"} \/ out = files[r].result
        BY DEF Reasons
      <4>3. out = "succeeded" => files[r].result = "succeeded"
        OBVIOUS
      <4>4. Clean' /\ start[r].status = "succeeded" => out = "succeeded"
        BY <1>6 DEF Around, Disagree
      <4> QED
        BY <4>1, <4>2, <4>3, <4>4
    <3>2. CASE files[r].result = "none"
      <4>1. PICK out \in {"cancelled", "timeout", "noresult"} : WaitAnswers(r, out)
        <5> DEFINE none == CASE start[r].cancelled -> "cancelled"
                             [] ~start[r].cancelled /\ start[r].due -> "timeout"
                             [] OTHER -> "noresult"
        <5>1. none \in {"cancelled", "timeout", "noresult"}
          OBVIOUS
        <5>2. WaitAnswers(r, none)
          BY <2>3, <3>2 DEF ReadResult
        <5> QED
          BY <5>1, <5>2
      <4>2. ~(Clean' /\ start[r].status = "succeeded")
        BY <1>6, <3>2 DEF Around
      <4> QED
        BY <2>1, <4>1, <4>2 DEF Reasons
    <3> QED
      BY <3>1, <3>2
  <2> QED
    BY <2>2, <2>3
<1>8. /\ start'[r].pc = IF start[r].status \in Ended THEN "remove" ELSE "done"
      /\ SameWatch(r) /\ start'[r].out = out
  BY <1>7, RemoveRow, ReturnRow DEF WaitAnswers
<1>9. start'[r].pc \in {"remove", "done"}
  BY <1>8
<1>10. files[r].result \in {"none", "succeeded", "failed"}
  BY DEF TypeOK, FilesRow
<1>11. out # "absent"
  BY <1>7, <1>10
<1>12. Whereabouts(r)'
  BY <1>1, <1>2, <1>8, <1>9, <1>11 DEF Whereabouts, DirectoryStays, Watching, Removing
<1>13. Contents(r)'
  BY <1>1, <1>2, <1>9, NameTypes DEF Delivering, Contents, Around, DirectoryStays
<1>14. \A d \in Executions : Held(r, d)'
  BY <1>1, <1>2, <1>9 DEF Delivering, Held, Around, DirectoryStays, Over
<1>15. Watches(r)'
  BY <1>1, <1>2, <1>4, <1>8, <1>9 DEF Delivering, Watches, Around, DirectoryStays, SameWatch,
     Publishing, Awaiting, Watching, Removing
<1>16. Answers(r)'
  BY <1>1, <1>2, <1>5, <1>7, <1>8, ExchangeAssumption DEF Answers, Around, SameWatch
<1> QED
  BY <1>12, <1>13, <1>14, <1>15, <1>16 DEF Delivering

-----------------------------------------------------------------------------
(* Executions *)

\* Execution e goes on with the run it has, or still without one, and the share
\* stays as it is.
Advances(e) ==
  /\ UNCHANGED <<place, files>>
  /\ exe[e].pc # "ended" /\ exe'[e].run = exe[e].run
  /\ exe'[e].pc \in {"take", "work", "ended"}
  /\ exe'[e].outcome = exe[e].outcome
  /\ exe[e].pc = "exit" => exe'[e].pc = "ended"
  /\ exe'[e].pc = "take" => exe[e].pc \in {"idle", "take"}
  /\ exe'[e].pc = "work" => exe[e].pc = "job"
  /\ exe'[e].status # exe[e].status => exe'[e].pc = "ended"
  /\ exe'[e].status = "succeeded" =>
       \/ exe[e].status = "succeeded" \/ exe[e].run = NoRun
       \/ exe[e].pc = "exit" /\ exe[e].outcome = "succeeded"

\* It takes the job of r.
TakesJob(e, r) ==
  /\ Takes(e, r) /\ UNCHANGED files
  /\ exe'[e].status = exe[e].status /\ exe'[e].outcome = exe[e].outcome

\* It leaves its name, or its result, in the directory of r.
Marks(e, r) ==
  /\ exe[e].pc = "mark" /\ exe[e].run = r /\ place[r] = "claimed" /\ UNCHANGED place
  /\ exe'[e].pc = "job" /\ exe'[e].run = r
  /\ exe'[e].status = exe[e].status /\ exe'[e].outcome = exe[e].outcome
  /\ files'[r].execution = e /\ files'[r].job = files[r].job
  /\ files'[r].result = files[r].result
  /\ \A q \in Runs \ {r} : files'[q] = files[q]

Reports(e, r) ==
  /\ exe[e].pc = "work" /\ exe[e].run = r /\ UNCHANGED place
  /\ exe'[e].pc = "exit" /\ exe'[e].run = r
  /\ exe'[e].status = exe[e].status
  /\ files'[r].execution = files[r].execution /\ files'[r].job = files[r].job
  /\ \/ files'[r].result = exe'[e].outcome
     \/ files'[r].result = files[r].result /\ (place[r] # "claimed" \/ ~Clean')
  /\ exe'[e].outcome \in {"succeeded", "failed"}
  /\ \A q \in Runs \ {r} : files'[q] = files[q]

\* A step of execution e leaves the launcher and the other executions alone.
Alone(e) ==
  /\ UNCHANGED start
  /\ \A d \in Executions \ {e} : exe'[d] = exe[d]
  /\ Clean' => Clean

LEMMA EndAdvances ==
  ASSUME TypeOK, NEW e \in Executions, NEW st, End(e, st), UNCHANGED <<place, files>>,
         exe[e].pc # "ended",
         st = "succeeded" =>
           exe[e].run = NoRun \/ (exe[e].pc = "exit" /\ exe[e].outcome = "succeeded")
  PROVE  Advances(e)
<1>1. exe[e] \in ExeRow
  BY DEF TypeOK
<1>2. exe'[e] = [exe[e] EXCEPT !.pc = "ended", !.status = st]
  BY DEF End, ExeSet, TypeOK
<1>3. /\ exe'[e].pc = "ended" /\ exe'[e].status = st /\ exe'[e].run = exe[e].run
      /\ exe'[e].outcome = exe[e].outcome
  BY <1>1, <1>2 DEF ExeRow
<1> QED
  BY <1>3 DEF Advances

LEMMA ExecutionKinds ==
  ASSUME TypeOK, OfferInv, DeliveryInv, NEW e \in Executions, Execution(e)
  PROVE  /\ Alone(e)
         /\ \/ Advances(e)
            \/ \E r \in Runs : TakesJob(e, r) \/ Marks(e, r) \/ Reports(e, r)
<1>1. Alone(e)
  <2>1. ShareFails \/ ShareWorks
    BY DEF Execution, ListPending, Take, MarkExecution, ReadJob, WriteResult, Exit, Die
  <2> QED
    BY <2>1, ExecutionStep, FaultShows DEF Alone, ShareWorks, Clean
<1>2. exe[e] \in ExeRow /\ Sound(e)
  BY DEF TypeOK, DeliveryInv
<1>3. exe[e].pc \in {"idle", "take"} => exe[e].run = NoRun
  BY DEF OfferInv
<1>4. ASSUME NEW x, ExeSet(e, x) PROVE exe'[e] = x
  BY <1>4 DEF ExeSet, TypeOK
<1>5. ASSUME UNCHANGED <<place, files>>, exe[e].pc # "ended",
             \E st \in {"failed", "stopped"} : End(e, st)
      PROVE  Advances(e)
  BY <1>5, EndAdvances
<1>6. CASE ListPending(e)
  <2> DEFINE x == [exe[e] EXCEPT !.pc = "take",
                                 !.todo = {r \in Runs : place[r] = "pending"}]
  <2>1. /\ x.run = exe[e].run /\ x.pc = "take" /\ x.status = exe[e].status
        /\ x.outcome = exe[e].outcome
    BY <1>2 DEF ExeRow
  <2>2. /\ exe[e].pc = "idle" /\ UNCHANGED <<place, files>>
        /\ ExeSet(e, x) \/ End(e, "failed")
    BY <1>6 DEF ListPending, ShareKeeps
  <2>3. CASE ExeSet(e, x)
    <3> HIDE DEF x
    <3>1. exe'[e] = x
      BY <1>4, <2>3
    <3>2. /\ exe'[e].run = exe[e].run /\ exe'[e].pc = "take"
          /\ exe'[e].status = exe[e].status /\ exe'[e].outcome = exe[e].outcome
      BY <2>1, <3>1
    <3>3. exe[e].pc = "idle" /\ UNCHANGED <<place, files>>
      BY <2>2
    <3>4. Advances(e)
      BY <3>2, <3>3 DEF Advances
    <3> QED
      BY <1>1, <3>4
  <2> QED
    BY <1>1, <1>5, <2>2, <2>3
<1>7. CASE Take(e)
  <2>1. /\ exe[e].pc = "take" /\ UNCHANGED files /\ exe[e].todo \subseteq Runs
        /\ exe[e].run = NoRun
    BY <1>2, <1>3, <1>7 DEF Take, ExeRow
  <2>2. ASSUME NEW r \in exe[e].todo, place[r] = "pending",
               place' = [place EXCEPT ![r] = "claimed"],
               ExeSet(e, [exe[e] EXCEPT !.pc = "mark", !.todo = {}, !.run = r])
        PROVE  TakesJob(e, r)
    <3>1. exe'[e] = [exe[e] EXCEPT !.pc = "mark", !.todo = {}, !.run = r]
      BY <1>4, <2>2
    <3>2. /\ exe'[e].run = r /\ exe'[e].pc = "mark" /\ exe'[e].status = exe[e].status
          /\ exe'[e].outcome = exe[e].outcome
      BY <1>2, <3>1 DEF ExeRow
    <3>3. place'[r] = "claimed" /\ \A q \in Runs \ {r} : place'[q] = place[q]
      BY <2>1, <2>2, PlaceEffect
    <3> QED
      BY <2>1, <2>2, <3>2, <3>3 DEF TakesJob, Takes
  <2>3. ASSUME NEW r \in exe[e].todo, UNCHANGED place,
               ExeSet(e, [exe[e] EXCEPT !.todo = @ \ {r}])
        PROVE  Advances(e)
    <3>1. exe'[e] = [exe[e] EXCEPT !.todo = @ \ {r}]
      BY <1>4, <2>3
    <3>2. /\ exe'[e].run = exe[e].run /\ exe'[e].pc = "take"
          /\ exe'[e].status = exe[e].status /\ exe'[e].outcome = exe[e].outcome
      BY <1>2, <2>1, <3>1 DEF ExeRow
    <3> QED
      BY <2>1, <2>3, <3>2 DEF Advances
  <2>4. ASSUME UNCHANGED place, End(e, "failed") \/ End(e, "succeeded") PROVE Advances(e)
    BY <2>1, <2>4, EndAdvances
  <2>5. \/ UNCHANGED place /\ (End(e, "failed") \/ End(e, "succeeded"))
        \/ \E r \in exe[e].todo :
             \/ UNCHANGED place /\ ExeSet(e, [exe[e] EXCEPT !.todo = @ \ {r}])
             \/ /\ place[r] = "pending" /\ place' = [place EXCEPT ![r] = "claimed"]
                /\ ExeSet(e, [exe[e] EXCEPT !.pc = "mark", !.todo = {}, !.run = r])
    BY <1>7 DEF Take
  <2> QED
    BY <1>1, <2>1, <2>2, <2>3, <2>4, <2>5
<1>8. CASE MarkExecution(e)
  <2> DEFINE r == exe[e].run
  <2>1. exe[e].pc = "mark" /\ UNCHANGED place /\ r \in Runs
    BY <1>2, <1>8 DEF MarkExecution, Sound
  <2>2. CASE UNCHANGED files /\ End(e, "failed")
    BY <1>1, <1>5, <2>1, <2>2
  <2>3. CASE /\ place[r] = "claimed" /\ files' = [files EXCEPT ![r].execution = e]
             /\ ExeSet(e, [exe[e] EXCEPT !.pc = "job"])
    <3>1. exe'[e] = [exe[e] EXCEPT !.pc = "job"]
      BY <1>4, <2>3
    <3>2. /\ exe'[e].run = r /\ exe'[e].pc = "job"
          /\ exe'[e].status = exe[e].status /\ exe'[e].outcome = exe[e].outcome
      BY <1>2, <3>1 DEF ExeRow
    <3>3. /\ files'[r].execution = e /\ files'[r].job = files[r].job
          /\ files'[r].result = files[r].result
          /\ \A q \in Runs \ {r} : files'[q] = files[q]
      BY <2>1, <2>3 DEF TypeOK, FilesRow
    <3> QED
      BY <1>1, <2>1, <2>3, <3>2, <3>3 DEF Marks
  <2> QED
    BY <1>8, <2>2, <2>3 DEF MarkExecution
<1>9. CASE ReadJob(e)
  <2>1. exe[e].pc = "job" /\ UNCHANGED <<place, files>>
    BY <1>9 DEF ReadJob, ShareKeeps
  <2>2. CASE ExeSet(e, [exe[e] EXCEPT !.pc = "work"])
    <3>1. exe'[e] = [exe[e] EXCEPT !.pc = "work"]
      BY <1>4, <2>2
    <3>2. /\ exe'[e].run = exe[e].run /\ exe'[e].pc = "work"
          /\ exe'[e].status = exe[e].status /\ exe'[e].outcome = exe[e].outcome
      BY <1>2, <3>1 DEF ExeRow
    <3> QED
      BY <1>1, <2>1, <3>2 DEF Advances
  <2> QED
    BY <1>1, <1>5, <1>9, <2>1, <2>2 DEF ReadJob
<1>10. CASE WriteResult(e)
  <2> DEFINE r == exe[e].run
  <2>1. exe[e].pc = "work" /\ UNCHANGED place /\ r \in Runs
    BY <1>2, <1>10 DEF WriteResult, Sound
  <2>2. PICK s \in {"succeeded", "failed"} :
          /\ ExeSet(e, [exe[e] EXCEPT !.pc = "exit", !.outcome = s])
          /\ \/ files' = [files EXCEPT ![r].result = s]
             \/ UNCHANGED files /\ (place[r] # "claimed" \/ ShareFails)
    BY <1>10 DEF WriteResult
  <2>3. exe'[e] = [exe[e] EXCEPT !.pc = "exit", !.outcome = s]
    BY <1>4, <2>2
  <2>4. /\ exe'[e].run = r /\ exe'[e].pc = "exit"
        /\ exe'[e].status = exe[e].status /\ exe'[e].outcome = s
    BY <1>2, <2>3 DEF ExeRow
  <2>5. /\ files'[r].execution = files[r].execution /\ files'[r].job = files[r].job
        /\ \/ files'[r].result = s
           \/ files'[r].result = files[r].result /\ (place[r] # "claimed" \/ ShareFails)
        /\ \A q \in Runs \ {r} : files'[q] = files[q]
    BY <2>1, <2>2 DEF TypeOK, FilesRow
  <2>6. Reports(e, r)
    BY <2>1, <2>4, <2>5, FaultShows DEF Reports
  <2> QED
    BY <1>1, <2>1, <2>6
<1>11. CASE Exit(e)
  <2>1. exe[e].pc = "exit" /\ UNCHANGED <<place, files>> /\ End(e, exe[e].outcome)
    BY <1>11 DEF Exit, ShareKeeps
  <2> QED
    BY <1>1, <2>1, EndAdvances
<1>12. CASE Die(e)
  <2>1. /\ exe[e].pc # "ended" /\ UNCHANGED <<place, files>>
        /\ End(e, "failed") \/ End(e, "stopped")
    BY <1>12 DEF Die, ShareKeeps
  <2> QED
    BY <1>1, <1>5, <2>1
<1> QED
  BY <1>6, <1>7, <1>8, <1>9, <1>10, <1>11, <1>12 DEF Execution

\* A run that execution e does not hold is not touched by a step of e.
LEMMA BystanderDelivers ==
  ASSUME TypeOK, DeliveryInv, NEW e \in Executions, Alone(e), NEW q \in Runs,
         exe[e].run # q, exe'[e].run # q, DirectoryStays(q)
  PROVE  Delivering(q)'
<1>1. Delivering(q) /\ start'[q] = start[q]
  BY DEF DeliveryInv, Alone
<1>2. \A d \in Executions : exe[d].run = q \/ exe'[d].run = q => exe'[d] = exe[d]
  BY DEF Alone
<1>3. start[q].name # NoExecution => exe'[start[q].name] = exe[start[q].name]
  BY <1>1, <1>2, NameTypes DEF Delivering, Watches
<1>4. Whereabouts(q)'
  BY <1>1 DEF Delivering, Whereabouts, DirectoryStays, Alone
<1>5. Contents(q)'
  BY <1>1, <1>2, NameTypes DEF Delivering, Contents, DirectoryStays
<1>6. \A d \in Executions : Held(q, d)'
  BY <1>1, <1>2 DEF Delivering, Held, DirectoryStays, Alone
<1>7. Watches(q)'
  <2>1. start[q].status \in Ended => start[q].name # NoExecution
    BY <1>1 DEF Delivering, Watches
  <2> QED
    BY <1>1, <1>3, <2>1 DEF Delivering, Watches, DirectoryStays
<1>8. Answers(q)'
  BY <1>1, <1>3 DEF Delivering, Answers, Alone
<1> QED
  BY <1>4, <1>5, <1>6, <1>7, <1>8 DEF Delivering

LEMMA AdvanceDelivers ==
  ASSUME TypeOK, OfferInv, DeliveryInv, NEW e \in Executions, Alone(e), Advances(e)
  PROVE  DeliveryInv'
<1>1. Sound(e) /\ exe[e].status \notin Ended
  BY DEF DeliveryInv, Sound, Advances
<1>2. exe[e].status # "succeeded"
  BY <1>1 DEF Ended
<1>3. Sound(e)'
  <2>1. exe'[e].pc # "work" \/ exe[e].pc = "job"
    BY DEF Advances
  <2>2. exe'[e].status \in Ended => exe'[e].pc = "ended"
    BY <1>1 DEF Advances
  <2> QED
    BY <1>1, <1>2, <2>1, <2>2 DEF Advances, Sound
<1>4. \A d \in Executions : Sound(d)'
  BY <1>3 DEF DeliveryInv, Alone, Sound
<1>5. Sole'
  BY DEF DeliveryInv, Sole, Alone, Advances
<1>6. ASSUME NEW r \in Runs PROVE Delivering(r)'
  <2>1. CASE exe[e].run # r
    BY <2>1, BystanderDelivers DEF Advances, DirectoryStays
  <2>2. CASE exe[e].run = r
    <3>1. /\ Delivering(r) /\ start'[r] = start[r]
          /\ place'[r] = place[r] /\ files'[r] = files[r]
      BY DEF DeliveryInv, Alone, Advances
    <3>2. exe'[e].run = r /\ exe[e].pc # "ended" /\ exe'[e].outcome = exe[e].outcome
      BY <2>2 DEF Advances
    <3>3. exe[e].pc = "exit" => exe'[e].pc = "ended"
      BY DEF Advances
    <3>4. exe'[e].pc # "exit" /\ (exe'[e].status = "succeeded" => exe[e].pc = "exit")
      BY <1>2, <2>2, ExchangeAssumption DEF Advances, NoRun
    <3>5. \A d \in Executions \ {e} : exe'[d] = exe[d]
      BY DEF Alone
    <3>6. Whereabouts(r)'
      BY <3>1 DEF Delivering, Whereabouts, Alone
    <3>7. Contents(r)'
      <4>1. files[r].execution # NoExecution => exe'[files[r].execution].run = r
        BY <3>1, <3>2, <3>5, NameTypes DEF Delivering, Contents
      <4>2. ASSUME NEW d \in Executions, exe[d].run = r, exe[d].pc \in {"exit", "ended"}
            PROVE  /\ exe'[d].run = r /\ exe'[d].pc \in {"exit", "ended"}
                   /\ exe'[d].outcome = exe[d].outcome
        BY <3>2, <3>3, <3>5, <4>2
      <4> QED
        BY <3>1, <4>1, <4>2 DEF Delivering, Contents
    <3>8. \A d \in Executions : Held(r, d)'
      <4>1. Held(r, e)'
        BY <2>2, <3>1, <3>2, <3>4 DEF Delivering, Held, Alone
      <4>2. \A d \in Executions \ {e} : Held(r, d)'
        BY <3>1, <3>5 DEF Delivering, Held, Alone
      <4> QED
        BY <4>1, <4>2
    <3>9. Watches(r)'
      <4>1. CASE start[r].name = e
        BY <1>1, <3>1, <3>2, <4>1 DEF Delivering, Watches
      <4>2. CASE start[r].name # e
        <5>1. start[r].name # NoExecution => exe'[start[r].name] = exe[start[r].name]
          BY <3>5, <4>2, NameTypes
        <5>2. start[r].status \in Ended => start[r].name # NoExecution
          BY <3>1 DEF Delivering, Watches
        <5> QED
          BY <3>1, <5>1, <5>2 DEF Delivering, Watches
      <4> QED
        BY <4>1, <4>2
    <3>10. Answers(r)'
      <4>1. CASE start[r].name = e
        BY <3>1, <3>2, <3>3, <4>1 DEF Delivering, Answers, Alone
      <4>2. CASE start[r].name # e
        BY <3>1, <3>5, <4>2, NameTypes DEF Delivering, Answers, Alone
      <4> QED
        BY <4>1, <4>2
    <3> QED
      BY <3>6, <3>7, <3>8, <3>9, <3>10 DEF Delivering
  <2> QED
    BY <2>1, <2>2
<1> QED
  BY <1>4, <1>5, <1>6 DEF DeliveryInv

LEMMA TakeDelivers ==
  ASSUME TypeOK, OfferInv, DeliveryInv, NEW e \in Executions, Alone(e), NEW r \in Runs,
         TakesJob(e, r)
  PROVE  DeliveryInv'
<1>1. NoRun \notin Runs
  BY ExchangeAssumption DEF NoRun
<1>2. exe[e].run = NoRun /\ exe[e].pc = "take" /\ \A d \in Executions : exe[d].run # r
  BY DEF OfferInv, TakesJob, Takes, Free
<1>3. Sound(e) /\ exe[e].status \notin Ended
  BY <1>2 DEF DeliveryInv, Sound
<1>4. /\ exe'[e].run = r /\ exe'[e].pc = "mark" /\ exe'[e].status = exe[e].status
      /\ place[r] = "pending" /\ place'[r] = "claimed"
      /\ \A q \in Runs \ {r} : place'[q] = place[q]
      /\ files' = files
  BY DEF TakesJob, Takes
<1>5. \A d \in Executions : Sound(d)'
  <2>1. Sound(e)'
    BY <1>3, <1>4 DEF Sound, Ended
  <2> QED
    BY <2>1 DEF DeliveryInv, Alone, Sound
<1>6. Sole'
  BY <1>2, <1>4 DEF DeliveryInv, Sole, Alone
<1>7. ASSUME NEW q \in Runs \ {r} PROVE Delivering(q)'
  BY <1>1, <1>2, <1>4, <1>7, BystanderDelivers DEF DirectoryStays
<1>8. Delivering(r)'
  <2>1. Delivering(r) /\ start'[r] = start[r] /\ files'[r] = files[r]
    BY <1>4 DEF DeliveryInv, Alone
  <2>2. /\ start[r].name = NoExecution /\ files[r].execution = NoExecution
        /\ files[r].result = "none"
    BY <1>2, <2>1, NameTypes DEF Delivering, Watches, Contents
  <2>3. Whereabouts(r)'
    BY <1>4, <2>1 DEF Delivering, Whereabouts, Alone
  <2>4. Contents(r)'
    BY <1>4, <2>1, <2>2 DEF Delivering, Contents
  <2>5. \A d \in Executions : Held(r, d)'
    <3>1. Held(r, e)'
      BY <1>3, <1>4 DEF Held, Ended
    <3> QED
      BY <1>2, <3>1 DEF Held, Alone
  <2>6. Watches(r)' /\ Answers(r)'
    BY <2>1, <2>2 DEF Delivering, Watches, Answers, Alone
  <2> QED
    BY <2>3, <2>4, <2>5, <2>6 DEF Delivering
<1> QED
  BY <1>5, <1>6, <1>7, <1>8 DEF DeliveryInv

LEMMA WritingDelivers ==
  ASSUME TypeOK, OfferInv, DeliveryInv, NEW e \in Executions, Alone(e), NEW r \in Runs,
         Marks(e, r) \/ Reports(e, r)
  PROVE  DeliveryInv'
<1>1. /\ exe[e].run = r /\ exe'[e].run = r /\ exe[e].pc \in {"mark", "work"}
      /\ exe'[e].pc \in {"job", "exit"} /\ exe'[e].status = exe[e].status
      /\ place' = place
      /\ \A q \in Runs \ {r} : files'[q] = files[q]
  BY DEF Marks, Reports
<1>2. Sound(e) /\ exe[e].status \notin Ended
  BY <1>1 DEF DeliveryInv, Sound
<1>3. \A d \in Executions : Sound(d)'
  <2>1. Sound(e)'
    BY <1>1, <1>2 DEF Sound, Ended
  <2> QED
    BY <2>1 DEF DeliveryInv, Alone, Sound
<1>4. Sole'
  BY <1>1 DEF DeliveryInv, Sole, Alone
<1>5. ASSUME NEW q \in Runs \ {r} PROVE Delivering(q)'
  BY <1>1, <1>5, BystanderDelivers DEF DirectoryStays
<1>6. Delivering(r)'
  <2>1. Delivering(r) /\ start'[r] = start[r] /\ place'[r] = place[r]
    BY <1>1 DEF DeliveryInv, Alone
  <2>2. \A d \in Executions : exe[d].run = r => d = e
    BY <1>1 DEF DeliveryInv, Sole
  <2>3. files[r].result = "none"
    BY <1>1, <2>1, <2>2 DEF Delivering, Contents
  <2>4. start[r].name \in {e, NoExecution}
    BY <2>1, <2>2, NameTypes DEF Delivering, Watches
  <2>5. files[r].execution \in {e, NoExecution}
    BY <2>1, <2>2, NameTypes DEF Delivering, Contents
  <2>6. files'[r].job = files[r].job /\ files'[r].execution \in {e, NoExecution}
    BY <2>5 DEF Marks, Reports
  <2>7. \A d \in Executions : exe'[d].run = r => d = e
    BY <2>2 DEF Alone
  <2>8. Whereabouts(r)'
    BY <2>1 DEF Delivering, Whereabouts, Alone
  <2>9. Contents(r)'
    <3>1. files'[r].result # "none" =>
            exe'[e].pc = "exit" /\ exe'[e].outcome = files'[r].result
      BY <2>3 DEF Marks, Reports
    <3> QED
      BY <1>1, <2>1, <2>6, <3>1 DEF Delivering, Contents
  <2>10. \A d \in Executions : Held(r, d)'
    <3>1. Held(r, e) /\ exe'[e].status # "succeeded"
      BY <1>1, <1>2, <2>1 DEF Delivering, Ended
    <3>2. CASE Marks(e, r)
      BY <1>1, <2>1, <2>7, <3>1, <3>2 DEF Held, Marks
    <3>3. CASE Reports(e, r)
      <4>1. Held(r, e)'
        BY <1>1, <2>1, <3>1, <3>3 DEF Held, Reports, Over
      <4> QED
        BY <2>7, <4>1 DEF Held
    <3> QED
      BY <3>2, <3>3
  <2>11. Watches(r)'
    BY <1>1, <1>2, <2>1, <2>4, <2>6 DEF Delivering, Watches
  <2>12. Answers(r)'
    BY <1>1, <2>1, <2>4 DEF Delivering, Answers, Alone
  <2> QED
    BY <2>8, <2>9, <2>10, <2>11, <2>12 DEF Delivering
<1> QED
  BY <1>3, <1>4, <1>5, <1>6 DEF DeliveryInv

-----------------------------------------------------------------------------
(* Every step *)

LEMMA LauncherDelivers ==
  ASSUME TypeOK, OfferInv, DeliveryInv, NEW r \in Runs,
         StartRun(r) \/ Launcher(r) \/ Deadline(r) \/ Cancel(r)
  PROVE  DeliveryInv'
<1>1. Apart(r) /\ Around
  BY LauncherApart
<1>2. Delivering(r)'
  BY <1>1, PublishDelivers, TimeDelivers, ReadDelivers, LookDelivers, WithdrawDelivers,
     RemoveDelivers, ConfirmDelivers, PollDelivers, ResultDelivers DEF Launcher, Await
<1>3. Sole' /\ \A e \in Executions : Sound(e)'
  BY <1>1 DEF DeliveryInv, Sole, Sound, Around
<1>4. ASSUME NEW q \in Runs \ {r} PROVE Delivering(q)'
  <2>1. Delivering(q) /\ start'[q] = start[q] /\ DirectoryStays(q)
    BY <1>1 DEF DeliveryInv, Apart
  <2>2. SameWatch(q) /\ SameOut(q)
    BY <2>1 DEF SameWatch, SameOut
  <2>3. Whereabouts(q)'
    BY <1>1, <2>1 DEF Delivering, Whereabouts, Around, DirectoryStays
  <2>4. /\ start[q].status \in Ended =>
             start[q].pc \in {"result", "remove", "rmdir", "done", "gone"}
        /\ Clean /\ start[q].status = "succeeded" /\ start[q].pc \in Removing \cup {"done"}
             => start[q].out = "succeeded"
    BY <2>1 DEF Delivering, Watches, Answers
  <2> QED
    BY <1>1, <2>1, <2>2, <2>3, <2>4, NameTypes, Glides DEF Around
<1> QED
  BY <1>2, <1>3, <1>4 DEF DeliveryInv

LEMMA CrashDelivers ==
  ASSUME TypeOK, DeliveryInv, Crash
  PROVE  DeliveryInv'
<1>1. Around /\ \A r \in Runs : DirectoryStays(r)
  BY DEF Crash, Around, DirectoryStays, Clean
<1>2. Sole' /\ \A e \in Executions : Sound(e)'
  BY <1>1 DEF DeliveryInv, Sole, Sound, Around
<1>3. ASSUME NEW r \in Runs PROVE Delivering(r)'
  <2>1. Delivering(r) /\ start[r] \in StartRow
    BY DEF DeliveryInv, TypeOK
  <2>2. \/ start'[r] = start[r]
        \/ start[r].pc # "done" /\ start'[r] = [start[r] EXCEPT !.pc = "gone"]
    BY DEF Crash
  <2>3. /\ SameWatch(r) /\ SameOut(r)
        /\ start'[r].pc = start[r].pc \/ start'[r].pc = "gone"
    BY <2>1, <2>2 DEF SameWatch, SameOut, StartRow
  <2>4. Whereabouts(r)'
    BY <1>1, <2>1, <2>3 DEF Delivering, Whereabouts, Around, DirectoryStays, SameOut, Watching,
       Removing
  <2>5. /\ start[r].status \in Ended =>
             start[r].pc \in {"result", "remove", "rmdir", "done", "gone"}
        /\ Clean /\ start[r].status = "succeeded" /\ start[r].pc \in Removing \cup {"done"}
             => start[r].out = "succeeded"
    BY <2>1 DEF Delivering, Watches, Answers
  <2>6. CASE start'[r].pc = start[r].pc
    BY <1>1, <2>1, <2>3, <2>4, <2>5, <2>6, NameTypes, Glides DEF Around, SameOut
  <2>7. CASE start'[r].pc = "gone"
    <3>1. "gone" \notin Publishing \cup Awaiting \cup Watching \cup Removing \cup {"done", "offer"}
      BY DEF Publishing, Awaiting, Watching, Removing
    <3>2. "gone" \in Over
      BY DEF Over
    <3> QED
      BY <1>1, <2>1, <2>3, <2>4, <2>7, <3>1, <3>2, NameTypes, Glides
  <2> QED
    BY <2>3, <2>6, <2>7
<1> QED
  BY <1>2, <1>3 DEF DeliveryInv

LEMMA DeliveryStep ==
  ASSUME TypeOK, OfferInv, DeliveryInv, [Next]_vars
  PROVE  DeliveryInv'
<1>1. ASSUME NEW e \in Executions, Execution(e) PROVE DeliveryInv'
  BY <1>1, ExecutionKinds, AdvanceDelivers, TakeDelivers, WritingDelivers
<1>2. CASE UNCHANGED vars
  BY <1>2 DEF vars, DeliveryInv, Sole, Sound, Delivering, Whereabouts, Contents, Watches,
     Answers, Held, Clean
<1> QED
  BY <1>1, <1>2, LauncherDelivers, CrashDelivers DEF Next

\* The invariant of the four results below, with the facts it rests on.
THEOREM DeliveryInductive == Spec => [](TypeOK /\ OfferInv /\ DeliveryInv)
<1>1. Spec => []OfferInv
  BY OfferInit, OfferStep, ExchangeTypeCorrect, PTL DEF Spec
<1>2. Spec => []DeliveryInv
  BY <1>1, DeliveryInit, DeliveryStep, ExchangeTypeCorrect, PTL DEF Spec
<1> QED
  BY <1>1, <1>2, ExchangeTypeCorrect, PTL

-----------------------------------------------------------------------------
(* Results *)

\* An offer on its way from pending to claimed is never taken for vanished,
\* whenever a Runner takes it between the two looks (exchange.go: StateOf;
\* acajob: awaitClaim).
THEOREM NeverDisappearsCorrect == Spec => []NeverDisappears
<1>1. DeliveryInv => NeverDisappears
  BY DEF DeliveryInv, Delivering, Whereabouts, NeverDisappears
<1> QED
  BY <1>1, DeliveryInductive, PTL

\* When Start or Wait has returned and no operation on the share failed, no Runner
\* can take the job any more, also when a withdrawal and a claim were tried at once
\* (acajob: awaitClaim, wait; exchange.go: Withdraw, Remove).
THEOREM NoOrphanCorrect == Spec => []NoOrphanedOffer
<1>1. DeliveryInv => NoOrphanedOffer
  BY DEF DeliveryInv, Delivering, Whereabouts, NoOrphanedOffer, Clean
<1> QED
  BY <1>1, DeliveryInductive, PTL

\* A Runner that has taken a job finds it complete unless the launcher has given
\* up on it, and one the launcher watches keeps its directory while it works,
\* unless the platform denied its name in every attempt (exchange.go: Publish,
\* Remove; acajob: confirm, wait).
THEOREM TakenIsReadableCorrect == Spec => []TakenIsReadable
<1>1. DeliveryInv => TakenIsReadable
  <2> SUFFICES ASSUME DeliveryInv, NEW e \in Executions, NEW r, r = exe[e].run
               PROVE  /\ /\ exe[e].pc \in {"mark", "job"}
                         /\ start[r].pc \notin {"rmdir", "done", "gone"}
                         => files[r].job
                      /\ /\ exe[e].pc = "work" /\ start[r].name = e
                         /\ start[r].notFound < ConfirmAttempts - 1
                         => place[r] = "claimed" /\ files[r].job
    BY DEF TakenIsReadable
  <2>1. exe[e].pc \in {"mark", "job", "work"} => r \in Runs
    BY DEF DeliveryInv, Sound
  <2>2. ASSUME exe[e].pc \in {"mark", "job"}, start[r].pc \notin {"rmdir", "done", "gone"}
        PROVE  files[r].job
    <3>1. Held(r, e) /\ Contents(r)
      BY <2>1, <2>2 DEF DeliveryInv, Delivering
    <3> QED
      BY <2>2, <3>1 DEF Held, Contents, Over
  <2>3. ASSUME exe[e].pc = "work", start[r].name = e,
               start[r].notFound < ConfirmAttempts - 1
        PROVE  place[r] = "claimed" /\ files[r].job
    <3>1. Watches(r)
      BY <2>1, <2>3 DEF DeliveryInv, Delivering
    <3> QED
      BY <2>3, <3>1, ExchangeAssumption DEF Watches
  <2> QED
    BY <2>2, <2>3
<1> QED
  BY <1>1, DeliveryInductive, PTL

\* A Runner that was seen to succeed has its result delivered before the directory
\* goes, unless the share failed, and a delivered success is one that Runner
\* reported (acajob: wait, readResult; exchange.go: Remove).
THEOREM ResultDeliveredCorrect == Spec => []ResultDelivered
<1>1. DeliveryInv => ResultDelivered
  BY DEF DeliveryInv, Delivering, Answers, ResultDelivered, Clean, Watched
<1> QED
  BY <1>1, DeliveryInductive, PTL
=============================================================================
