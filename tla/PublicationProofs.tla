------------------------- MODULE PublicationProofs -------------------------
(***************************************************************************)
(* Theorems about Publication, for any number of writers, readers, failing *)
(* operations, kills and power losses: the link never dangles, what was    *)
(* reported stays, and the directory implements the register Published.    *)
(***************************************************************************)
EXTENDS Publication, TLAPS

\* The steps a writer takes under the lock, and those of a reader.
Before == {"idle", "lock", "layout", "fill", "filling", "syncVersion", "commit", "syncVersions", "swap"}
Written == {"syncVersion", "commit", "syncVersions", "swap", "syncLink", "prune"}
Durable == {"swap", "syncLink", "prune"}
Swapped == {"syncLink", "prune"}
Writing == {"layout", "fill", "filling"} \cup Written
Reading == {"resolve", "read", "readOn"}

\* The lock excludes: a writer under it is alone.
Locking ==
  /\ \A w \in Writers : pc[w] \in Writing => w \in locked
  /\ \A r \in Readers : pc[r] \in Reading => r \in locked
  /\ \A w \in Writers : w \in locked => locked = {w}

\* What each step of a writer has behind it.
Progress ==
  \A w \in Writers :
    /\ pc[w] \in Before => w # link /\ w \notin unsettled
    /\ pc[w] \in Written => version[w] = "whole"
    /\ pc[w] \in Durable => w \in synced
    /\ pc[w] \in Swapped => link = w /\ \E i \in DOMAIN order : order[i] = w
    /\ pc[w] = "prune" => unsettled = {w}

\* A reader works on the version the link names.
Current == \A r \in Readers : pc[r] \in {"read", "readOn"} => seen[r] = link /\ link # None

\* The inductive invariant.
Inv ==
  /\ TypeOK /\ Locking /\ Progress /\ Current
  /\ link \in unsettled
  /\ LinkNeverDangles /\ ReportedStays

-----------------------------------------------------------------------------
(* Every step preserves every part. *)

LEMMA TypeStep ==
  ASSUME TypeOK, [Next]_vars
  PROVE  TypeOK'
<1> USE PublicationAssumptions
      DEF Processes, At, Go, Fails, Works, dir, TypeOK, Over
<1>1. ASSUME NEW w \in Writers, Start(w) \/ TakeExclusive(w) \/ CheckLayout(w)
      PROVE  TypeOK'
  BY <1>1 DEF Start, TakeExclusive, CheckLayout, CanExclude, LayoutValid, Return
<1>2. ASSUME NEW w \in Writers, Fill(w) \/ Filled(w)
      PROVE  TypeOK'
  BY <1>2 DEF Fill, Filled, Return
<1>3. ASSUME NEW w \in Writers, SyncVersion(w) \/ Commit(w)
      PROVE  TypeOK'
  BY <1>3 DEF SyncVersion, Commit, OrDiscard, Return
<1>4. ASSUME NEW w \in Writers, SyncVersions(w)
      PROVE  TypeOK'
  BY <1>4 DEF SyncVersions, Return
<1>5. ASSUME NEW w \in Writers, SwapLink(w)
      PROVE  TypeOK'
  BY <1>5 DEF SwapLink, Return
<1>6. ASSUME NEW w \in Writers, SyncLink(w)
      PROVE  TypeOK'
  BY <1>6 DEF SyncLink, Return
<1>7. ASSUME NEW w \in Writers, Prune(w)
      PROVE  TypeOK'
  BY <1>7 DEF Prune, Return
<1>8. ASSUME NEW r \in Readers, BeginRead(r) \/ TakeShared(r) \/ Resolve(r)
      PROVE  TypeOK'
  BY <1>8 DEF BeginRead, TakeShared, Resolve, Answer, CanShare
<1>9. ASSUME NEW r \in Readers, ReadFirst(r) \/ ReadSecond(r)
      PROVE  TypeOK'
  BY <1>9 DEF ReadFirst, ReadSecond, Answer
<1>10. ASSUME NEW p \in Processes, Unlocked(p) \/ Kill(p)
      PROVE  TypeOK'
  BY <1>10 DEF Unlocked, Kill, Stops, Over
<1>11. CASE PowerLoss
  BY <1>11 DEF PowerLoss, Stops, Over
<1>12. CASE UNCHANGED vars
  BY <1>12 DEF vars
<1> QED
  BY <1>1, <1>2, <1>3, <1>4, <1>5, <1>6, <1>7, <1>8, <1>9, <1>10, <1>11, <1>12 DEF Next

\* A writer under the lock goes on, or returns and gives the lock back.
LEMMA GoesOn ==
  ASSUME TypeOK, Locking, NEW w \in Writers, pc[w] \in Writing,
         NEW a \in Writing, Go(w, a), UNCHANGED locked
  PROVE  Locking'
BY PublicationAssumptions DEF TypeOK, Locking, Go, Processes, Writing, Written, Reading

LEMMA GivesBack ==
  ASSUME TypeOK, Locking, NEW w \in Writers, NEW a \in Over, Return(w, a)
  PROVE  Locking'
BY PublicationAssumptions
   DEF TypeOK, Locking, Return, Go, Processes, Writing, Written, Reading, Over

LEMMA LockingStep ==
  ASSUME TypeOK, Locking, [Next]_vars
  PROVE  Locking'
<1> USE PublicationAssumptions
      DEF Processes, At, Go, Fails, Works, dir, TypeOK, Locking, Writing, Written, Reading
<1>1. ASSUME NEW w \in Writers, Start(w) \/ TakeExclusive(w) \/ CheckLayout(w)
      PROVE  Locking'
  BY <1>1 DEF Start, TakeExclusive, CheckLayout, CanExclude, LayoutValid, Return
<1>2. ASSUME NEW w \in Writers, Fill(w) \/ Filled(w)
      PROVE  Locking'
  BY <1>2, GoesOn, GivesBack DEF Fill, Filled, Over
<1>3. ASSUME NEW w \in Writers, SyncVersion(w) \/ Commit(w)
      PROVE  Locking'
  BY <1>3, GoesOn, GivesBack DEF SyncVersion, Commit, OrDiscard, Over
<1>4. ASSUME NEW w \in Writers, SyncVersions(w)
      PROVE  Locking'
  BY <1>4, GoesOn, GivesBack DEF SyncVersions, Over
<1>5. ASSUME NEW w \in Writers, SwapLink(w)
      PROVE  Locking'
  BY <1>5, GoesOn, GivesBack DEF SwapLink, Over
<1>6. ASSUME NEW w \in Writers, SyncLink(w)
      PROVE  Locking'
  BY <1>6, GoesOn, GivesBack DEF SyncLink, Over
<1>7. ASSUME NEW w \in Writers, Prune(w)
      PROVE  Locking'
  BY <1>7 DEF Prune, Return
<1>8. ASSUME NEW r \in Readers, BeginRead(r) \/ TakeShared(r) \/ Resolve(r)
      PROVE  Locking'
  BY <1>8 DEF BeginRead, TakeShared, Resolve, Answer, CanShare
<1>9. ASSUME NEW r \in Readers, ReadFirst(r) \/ ReadSecond(r)
      PROVE  Locking'
  BY <1>9 DEF ReadFirst, ReadSecond, Answer
<1>10. ASSUME NEW p \in Processes, Unlocked(p) \/ Kill(p)
      PROVE  Locking'
  BY <1>10 DEF Unlocked, Kill, Stops, Over
<1>11. CASE PowerLoss
  BY <1>11 DEF PowerLoss, Stops, Over
<1>12. CASE UNCHANGED vars
  BY <1>12 DEF vars
<1> QED
  BY <1>1, <1>2, <1>3, <1>4, <1>5, <1>6, <1>7, <1>8, <1>9, <1>10, <1>11, <1>12 DEF Next

LEMMA ProgressStep ==
  ASSUME TypeOK, Locking, Progress, link \in unsettled, [Next]_vars
  PROVE  Progress'
<1> USE PublicationAssumptions
      DEF Processes, At, Go, Fails, Works, dir, TypeOK, Locking, Progress,
          Before, Written, Durable, Swapped, Writing
<1>1. ASSUME NEW w \in Writers, Start(w) \/ TakeExclusive(w) \/ CheckLayout(w)
      PROVE  Progress'
  BY <1>1 DEF Start, TakeExclusive, CheckLayout, CanExclude, LayoutValid, Return
<1>2. ASSUME NEW w \in Writers, Fill(w) \/ Filled(w)
      PROVE  Progress'
  BY <1>2 DEF Fill, Filled, Return
<1>3. ASSUME NEW w \in Writers, SyncVersion(w) \/ Commit(w)
      PROVE  Progress'
  BY <1>3 DEF SyncVersion, Commit, OrDiscard, Return
<1>4. ASSUME NEW w \in Writers, SyncVersions(w)
      PROVE  Progress'
  BY <1>4 DEF SyncVersions, Return
<1>5. ASSUME NEW w \in Writers, SwapLink(w)
      PROVE  Progress'
  BY <1>5 DEF SwapLink, Return
<1>6. ASSUME NEW w \in Writers, SyncLink(w)
      PROVE  Progress'
  BY <1>6 DEF SyncLink, Return
<1>7. ASSUME NEW w \in Writers, Prune(w)
      PROVE  Progress'
  BY <1>7 DEF Prune, Return
<1>8. ASSUME NEW r \in Readers, BeginRead(r) \/ TakeShared(r) \/ Resolve(r)
      PROVE  Progress'
  BY <1>8 DEF BeginRead, TakeShared, Resolve, Answer, CanShare
<1>9. ASSUME NEW r \in Readers, ReadFirst(r) \/ ReadSecond(r)
      PROVE  Progress'
  BY <1>9 DEF ReadFirst, ReadSecond, Answer
<1>10. ASSUME NEW p \in Processes, Unlocked(p) \/ Kill(p)
      PROVE  Progress'
  BY <1>10 DEF Unlocked, Kill, Stops, Over
<1>11. CASE PowerLoss
  BY <1>11 DEF PowerLoss, Stops, Over
<1>12. CASE UNCHANGED vars
  BY <1>12 DEF vars
<1> QED
  BY <1>1, <1>2, <1>3, <1>4, <1>5, <1>6, <1>7, <1>8, <1>9, <1>10, <1>11, <1>12 DEF Next

LEMMA CurrentStep ==
  ASSUME TypeOK, Locking, Current, [Next]_vars
  PROVE  Current'
<1> USE PublicationAssumptions
      DEF Processes, At, Go, Fails, Works, dir, TypeOK, Locking, Current,
          Writing, Written, Reading
<1>1. ASSUME NEW w \in Writers, Start(w) \/ TakeExclusive(w) \/ CheckLayout(w)
      PROVE  Current'
  BY <1>1 DEF Start, TakeExclusive, CheckLayout, CanExclude, LayoutValid, Return
<1>2. ASSUME NEW w \in Writers, Fill(w) \/ Filled(w)
      PROVE  Current'
  BY <1>2 DEF Fill, Filled, Return
<1>3. ASSUME NEW w \in Writers, SyncVersion(w) \/ Commit(w)
      PROVE  Current'
  BY <1>3 DEF SyncVersion, Commit, OrDiscard, Return
<1>4. ASSUME NEW w \in Writers, SyncVersions(w)
      PROVE  Current'
  BY <1>4 DEF SyncVersions, Return
<1>5. ASSUME NEW w \in Writers, SwapLink(w)
      PROVE  Current'
  BY <1>5 DEF SwapLink, Return
<1>6. ASSUME NEW w \in Writers, SyncLink(w)
      PROVE  Current'
  BY <1>6 DEF SyncLink, Return
<1>7. ASSUME NEW w \in Writers, Prune(w)
      PROVE  Current'
  BY <1>7 DEF Prune, Return
<1>8. ASSUME NEW r \in Readers, BeginRead(r) \/ TakeShared(r) \/ Resolve(r)
      PROVE  Current'
  BY <1>8 DEF BeginRead, TakeShared, Resolve, Answer, CanShare
<1>9. ASSUME NEW r \in Readers, ReadFirst(r) \/ ReadSecond(r)
      PROVE  Current'
  BY <1>9 DEF ReadFirst, ReadSecond, Answer
<1>10. ASSUME NEW p \in Processes, Unlocked(p) \/ Kill(p)
      PROVE  Current'
  BY <1>10 DEF Unlocked, Kill, Stops, Over
<1>11. CASE PowerLoss
  BY <1>11 DEF PowerLoss, Stops, Over
<1>12. CASE UNCHANGED vars
  BY <1>12 DEF vars
<1> QED
  BY <1>1, <1>2, <1>3, <1>4, <1>5, <1>6, <1>7, <1>8, <1>9, <1>10, <1>11, <1>12 DEF Next

LEMMA LinkStep ==
  ASSUME TypeOK, Progress, link \in unsettled, LinkNeverDangles, [Next]_vars
  PROVE  (link \in unsettled)' /\ LinkNeverDangles'
<1> USE PublicationAssumptions
      DEF Processes, At, Go, Fails, Works, dir, TypeOK, Progress, LinkNeverDangles,
          Before, Written, Durable, Swapped, Writing
<1>1. ASSUME NEW w \in Writers, Start(w) \/ TakeExclusive(w) \/ CheckLayout(w)
      PROVE  (link \in unsettled)' /\ LinkNeverDangles'
  BY <1>1 DEF Start, TakeExclusive, CheckLayout, CanExclude, LayoutValid, Return
<1>2. ASSUME NEW w \in Writers, Fill(w) \/ Filled(w)
      PROVE  (link \in unsettled)' /\ LinkNeverDangles'
  BY <1>2 DEF Fill, Filled, Return
<1>3. ASSUME NEW w \in Writers, SyncVersion(w) \/ Commit(w)
      PROVE  (link \in unsettled)' /\ LinkNeverDangles'
  BY <1>3 DEF SyncVersion, Commit, OrDiscard, Return
<1>4. ASSUME NEW w \in Writers, SyncVersions(w)
      PROVE  (link \in unsettled)' /\ LinkNeverDangles'
  BY <1>4 DEF SyncVersions, Return
<1>5. ASSUME NEW w \in Writers, SwapLink(w)
      PROVE  (link \in unsettled)' /\ LinkNeverDangles'
  BY <1>5 DEF SwapLink, Return
<1>6. ASSUME NEW w \in Writers, SyncLink(w)
      PROVE  (link \in unsettled)' /\ LinkNeverDangles'
  BY <1>6 DEF SyncLink, Return
<1>7. ASSUME NEW w \in Writers, Prune(w)
      PROVE  (link \in unsettled)' /\ LinkNeverDangles'
  BY <1>7 DEF Prune, Return
<1>8. ASSUME NEW r \in Readers, BeginRead(r) \/ TakeShared(r) \/ Resolve(r)
      PROVE  (link \in unsettled)' /\ LinkNeverDangles'
  BY <1>8 DEF BeginRead, TakeShared, Resolve, Answer, CanShare
<1>9. ASSUME NEW r \in Readers, ReadFirst(r) \/ ReadSecond(r)
      PROVE  (link \in unsettled)' /\ LinkNeverDangles'
  BY <1>9 DEF ReadFirst, ReadSecond, Answer
<1>10. ASSUME NEW p \in Processes, Unlocked(p) \/ Kill(p)
      PROVE  (link \in unsettled)' /\ LinkNeverDangles'
  BY <1>10 DEF Unlocked, Kill, Stops, Over
<1>11. CASE PowerLoss
  BY <1>11 DEF PowerLoss, Stops, Over
<1>12. CASE UNCHANGED vars
  BY <1>12 DEF vars
<1> QED
  BY <1>1, <1>2, <1>3, <1>4, <1>5, <1>6, <1>7, <1>8, <1>9, <1>10, <1>11, <1>12 DEF Next

LEMMA ReportedStep ==
  ASSUME TypeOK, Progress, link \in unsettled, ReportedStays, [Next]_vars
  PROVE  ReportedStays'
<1> USE PublicationAssumptions
      DEF Processes, At, Go, Fails, Works, dir, TypeOK, Progress, ReportedStays,
          Before, Written, Durable, Swapped, Writing
<1>1. ASSUME NEW w \in Writers, Start(w) \/ TakeExclusive(w) \/ CheckLayout(w)
      PROVE  ReportedStays'
  BY <1>1 DEF Start, TakeExclusive, CheckLayout, CanExclude, LayoutValid, Return
<1>2. ASSUME NEW w \in Writers, Fill(w) \/ Filled(w)
      PROVE  ReportedStays'
  BY <1>2 DEF Fill, Filled, Return
<1>3. ASSUME NEW w \in Writers, SyncVersion(w) \/ Commit(w)
      PROVE  ReportedStays'
  BY <1>3 DEF SyncVersion, Commit, OrDiscard, Return
<1>4. ASSUME NEW w \in Writers, SyncVersions(w)
      PROVE  ReportedStays'
  BY <1>4 DEF SyncVersions, Return
<1>5. ASSUME NEW w \in Writers, SwapLink(w)
      PROVE  ReportedStays'
  <2>1. CASE link' = w /\ unsettled' = unsettled \cup {w} /\ order' = Append(order, w)
             /\ pc' = [pc EXCEPT ![w] = "syncLink"]
    <3> SUFFICES ASSUME NEW u \in Writers, pc'[u] = "ok", NEW v \in unsettled \cup {w}
                 PROVE  \E i, j \in DOMAIN order' : order'[i] = u /\ order'[j] = v /\ i <= j
      BY <2>1
    <3>1. u # w /\ pc[u] = "ok"
      BY <2>1
    <3>2. PICK i, j \in DOMAIN order : order[i] = u /\ order[j] = IF v \in unsettled THEN v ELSE link
      BY <3>1
    <3>3. PICK k, l \in DOMAIN order : order[k] = u /\ k <= l /\ (v \in unsettled => order[l] = v)
      BY <3>1
    <3>4. /\ DOMAIN order' = 1 .. Len(order) + 1
          /\ DOMAIN order = 1 .. Len(order)
          /\ order'[Len(order) + 1] = w
          /\ \A m \in 1 .. Len(order) : order'[m] = order[m]
      BY <2>1
    <3>5. CASE v \in unsettled
      BY <3>3, <3>4, <3>5
    <3>6. CASE v = w
      BY <3>2, <3>4, <3>6
    <3> QED
      BY <3>5, <3>6
  <2>2. CASE UNCHANGED <<link, unsettled, order>> /\ Return(w, "failed")
    BY <2>2 DEF Return
  <2> QED
    BY <1>5, <2>1, <2>2 DEF SwapLink
<1>6. ASSUME NEW w \in Writers, SyncLink(w)
      PROVE  ReportedStays'
  BY <1>6 DEF SyncLink, Return
<1>7. ASSUME NEW w \in Writers, Prune(w)
      PROVE  ReportedStays'
  BY <1>7 DEF Prune, Return
<1>8. ASSUME NEW r \in Readers, BeginRead(r) \/ TakeShared(r) \/ Resolve(r)
      PROVE  ReportedStays'
  BY <1>8 DEF BeginRead, TakeShared, Resolve, Answer, CanShare
<1>9. ASSUME NEW r \in Readers, ReadFirst(r) \/ ReadSecond(r)
      PROVE  ReportedStays'
  BY <1>9 DEF ReadFirst, ReadSecond, Answer
<1>10. ASSUME NEW p \in Processes, Unlocked(p) \/ Kill(p)
      PROVE  ReportedStays'
  BY <1>10 DEF Unlocked, Kill, Stops, Over
<1>11. CASE PowerLoss
  BY <1>11 DEF PowerLoss, Stops, Over
<1>12. CASE UNCHANGED vars
  BY <1>12 DEF vars
<1> QED
  BY <1>1, <1>2, <1>3, <1>4, <1>5, <1>6, <1>7, <1>8, <1>9, <1>10, <1>11, <1>12 DEF Next

LEMMA InvStep == Inv /\ [Next]_vars => Inv'
BY TypeStep, LockingStep, ProgressStep, CurrentStep, LinkStep, ReportedStep DEF Inv

LEMMA InvInit == Init => Inv
BY PublicationAssumptions
   DEF Init, Inv, TypeOK, Processes, Over, Locking, Progress, Current, Before, Written, Durable,
       Swapped, Writing, Reading, LinkNeverDangles, ReportedStays

LEMMA InvAlways == Spec => []Inv
BY InvInit, InvStep, PTL DEF Spec

-----------------------------------------------------------------------------
(* Theorems *)

\* Every variable of the published directory keeps its type.
THEOREM PublicationTypeCorrect == Spec => []TypeOK
BY InvAlways, PTL DEF Inv

\* The link, and every link a power loss may leave, names a version that is whole and
\* on disk, whatever writer failed or was killed at whatever step (workdir.go
\* persistAccounts, filesystem Put): the swap comes after both syncs, and a version
\* that may still be named is never discarded.
THEOREM LinkCorrect == Spec => []LinkNeverDangles
BY InvAlways, PTL DEF Inv

\* No failure, kill or power loss brings back a version older than one a call has
\* reported as published: success is returned only after the link's directory is
\* synced.
THEOREM ReportedCorrect == Spec => []ReportedStays
BY InvAlways, PTL DEF Inv

-----------------------------------------------------------------------------
(* Refinement: a read is the register's read at the step that returns, since the   *)
(* shared lock keeps the link where it was resolved.                               *)

LEMMA RegisterInit == Init => Register!Init
BY DEF Init, Register!Init

LEMMA RegisterStep ==
  ASSUME Inv, [Next]_vars
  PROVE  [Register!Next]_<<link, unsettled, got>>
<1> USE DEF dir
<1>1. ASSUME NEW w \in Writers,
             \/ Start(w) \/ TakeExclusive(w) \/ CheckLayout(w) \/ Fill(w) \/ Filled(w)
             \/ SyncVersion(w) \/ Commit(w) \/ SyncVersions(w) \/ Prune(w)
      PROVE  UNCHANGED <<link, unsettled, got>>
  BY <1>1 DEF Start, TakeExclusive, CheckLayout, Fill, Filled, SyncVersion, Commit, SyncVersions, Prune
<1>2. ASSUME NEW w \in Writers, SwapLink(w)
      PROVE  Register!Swap(w) \/ UNCHANGED <<link, unsettled, got>>
  BY <1>2 DEF SwapLink, Register!Swap
<1>3. ASSUME NEW w \in Writers, SyncLink(w)
      PROVE  Register!Settle \/ UNCHANGED <<link, unsettled, got>>
  BY <1>3 DEF SyncLink, Register!Settle
<1>4. ASSUME NEW r \in Readers, BeginRead(r)
      PROVE  Register!Read(r) \/ Register!Retry(r)
  BY <1>4 DEF BeginRead, Answer, Register!Read, Register!Retry
<1>5. ASSUME NEW r \in Readers, Resolve(r)
      PROVE  Register!Read(r) \/ UNCHANGED <<link, unsettled, got>>
  BY <1>5 DEF Resolve, Answer, Register!Read
<1>6. ASSUME NEW r \in Readers, pc[r] \in {"read", "readOn"}
      PROVE  seen[r] = link /\ version[seen[r]] = "whole"
  BY <1>6 DEF Inv, Current, LinkNeverDangles
<1>7. ASSUME NEW r \in Readers, ReadFirst(r)
      PROVE  UNCHANGED <<link, unsettled, got>>
  BY <1>6, <1>7 DEF ReadFirst, At
<1>8. ASSUME NEW r \in Readers, ReadSecond(r)
      PROVE  Register!Read(r)
  BY <1>6, <1>8 DEF ReadSecond, Answer, At, Register!Read
<1>9. ASSUME NEW r \in Readers, TakeShared(r)
      PROVE  UNCHANGED <<link, unsettled, got>>
  BY <1>9 DEF TakeShared
<1>10. ASSUME NEW p \in Processes, Unlocked(p) \/ Kill(p)
       PROVE  UNCHANGED <<link, unsettled, got>>
  BY <1>10 DEF Unlocked, Kill
<1>11. ASSUME PowerLoss
       PROVE  Register!PowerLoss
  <2>1. got' = [r \in Readers |-> IF r \in {} THEN Unread ELSE got[r]]
    BY <1>11 DEF PowerLoss, Inv, TypeOK
  <2> QED
    BY <1>11, <2>1 DEF PowerLoss, Register!PowerLoss
<1>12. CASE UNCHANGED vars
  BY <1>12 DEF vars
<1> QED
  BY <1>1, <1>2, <1>3, <1>4, <1>5, <1>7, <1>8, <1>9, <1>10, <1>11, <1>12 DEF Next, Register!Next

\* The directory implements the register: what readers get is the version named by
\* the link when the read returns, never a missing or a half-written one, and it
\* changes only by a swap, a settling sync or a power loss.
THEOREM PublishedRefinement == Spec => ImplementsPublished
<1>1. Inv /\ [Next]_vars => [Register!Next]_<<link, unsettled, got>>
  BY RegisterStep
<1> QED
  BY RegisterInit, <1>1, InvAlways, PTL DEF Spec, ImplementsPublished, Register!Spec
=============================================================================
