---------------------------- MODULE Publication ----------------------------
(***************************************************************************)
(* Publication of a directory by swapping a link, as the account state     *)
(* (internal/runner/workdir.go, account.go) and the filesystem store       *)
(* (internal/store/filesystem) do it:                                      *)
(*   fill a fresh version, sync it, sync the directory of versions, swap   *)
(*   the link, sync the link's directory, remove the other versions,       *)
(* under an exclusive advisory lock; readers resolve the link and read     *)
(* under a shared one (internal/fslock).                                   *)
(*                                                                         *)
(* A process may be killed between any two steps, which releases its lock  *)
(* and nothing else; power may be lost, after which only what was synced   *)
(* is certain; any operation may fail.  A file that copyTree or writeFile  *)
(* has synced is assumed to survive with its path up to the version.       *)
(***************************************************************************)
EXTENDS Naturals, FiniteSets, Sequences

CONSTANTS
  Writers,      \* calls of persistAccounts or Put; each names its version
  Readers,      \* callers of loadAccounts, publishedAccountRegistered or Current
  None, Unread, Corrupt,
  MaxFaults,    \* bound: failing operations
  MaxStops      \* bound: kills and power losses

ASSUME PublicationAssumptions ==
  /\ None \notin Writers /\ Unread \notin Writers \cup {None}
  /\ Corrupt \notin Writers \cup {None, Unread}
  /\ Writers \cap Readers = {}
  /\ MaxFaults \in Nat /\ MaxStops \in Nat

VARIABLES
  kind,       \* "accounts" or "store": which of the two directories this is
  link,       \* the version the link names, None when there is no link
  unsettled,  \* the links a power loss may leave behind
  version,    \* per writer: its version is "absent", "partial" or "whole"
  synced,     \* the versions whose files and entry survive a power loss
  pc,         \* per process
  locked,     \* the processes that hold the lock
  seen,       \* per reader: the version it resolved
  got,        \* per reader: what it returned
  order,      \* history: the versions swapped in, oldest first
  faults, stops

dir == <<link, unsettled, version, synced, order>>
vars == <<kind, dir, pc, locked, seen, got, faults, stops>>

Processes == Writers \cup Readers

\* A writer that has not gone further, or has returned.
Over == {"ok", "failed", "killed"}

Init ==
  /\ kind \in {"accounts", "store"}
  /\ link = None /\ unsettled = {None}
  /\ version = [w \in Writers |-> "absent"] /\ synced = {}
  /\ pc = [p \in Processes |-> "idle"]
  /\ locked = {}
  /\ seen = [r \in Readers |-> None] /\ got = [r \in Readers |-> Unread]
  /\ order = <<>> /\ faults = 0 /\ stops = 0

At(p, a) == pc[p] = a
Go(p, a) == pc' = [pc EXCEPT ![p] = a]
Fails == faults < MaxFaults /\ faults' = faults + 1
Works == UNCHANGED faults

---------------------------------------------------------------------------
(* Locks: fslock.take polls until the lock is free or its context ends. *)

CanShare == locked \cap Writers = {}
CanExclude == locked = {}

\* Give up waiting: the context ended.
Unlocked(p) ==
  /\ At(p, "lock")
  /\ IF p \in Writers THEN Go(p, "failed") ELSE Go(p, "idle")
  /\ Fails
  /\ UNCHANGED <<kind, dir, locked, seen, got, stops>>

TakeExclusive(w) ==
  /\ At(w, "lock") /\ CanExclude
  /\ locked' = locked \cup {w}
  /\ Go(w, IF kind = "accounts" THEN "layout" ELSE "fill")
  /\ Works /\ UNCHANGED <<kind, dir, seen, got, stops>>

TakeShared(r) ==
  /\ At(r, "lock") /\ CanShare
  /\ locked' = locked \cup {r}
  /\ Go(r, "resolve")
  /\ Works /\ UNCHANGED <<kind, dir, seen, got, stops>>

\* The deferred Unlock, with the call's result.
Return(w, result) == Go(w, result) /\ locked' = locked \ {w}

---------------------------------------------------------------------------
(* Writers. *)

\* persistAccounts without accounts in the work directory has nothing to do.
Start(w) ==
  /\ At(w, "idle") /\ Go(w, "lock")
  /\ Works /\ UNCHANGED <<kind, dir, locked, seen, got, stops>>

\* validateAccountsLayout: the link is absent or names a version that is there.
LayoutValid == link = None \/ version[link] # "absent"

CheckLayout(w) ==
  /\ At(w, "layout")
  /\ IF LayoutValid THEN Go(w, "fill") /\ UNCHANGED locked ELSE Return(w, "failed")
  /\ Works /\ UNCHANGED <<kind, dir, seen, got, stops>>

\* copyTree, or the four writeFile calls: begun, then done; an error removes it.
Fill(w) ==
  /\ At(w, "fill")
  /\ version' = [version EXCEPT ![w] = "partial"]
  /\ Go(w, "filling")
  /\ Works /\ UNCHANGED <<kind, link, unsettled, synced, order, locked, seen, got, stops>>

\* One step of w that leaves the version alone, or fails and removes it.
OrDiscard(w, next) ==
  \/ Go(w, next) /\ Works /\ UNCHANGED <<version, synced, locked>>
  \/ /\ Fails /\ Return(w, "failed")
     /\ version' = [version EXCEPT ![w] = "absent"] /\ synced' = synced \ {w}

Filled(w) ==
  /\ At(w, "filling")
  /\ \/ /\ version' = [version EXCEPT ![w] = "whole"]
        /\ Go(w, "syncVersion") /\ Works /\ UNCHANGED <<synced, locked>>
     \/ /\ Fails /\ Return(w, "failed")
        /\ version' = [version EXCEPT ![w] = "absent"] /\ UNCHANGED synced
  /\ UNCHANGED <<kind, link, unsettled, order, seen, got, stops>>

\* fsyncDir of the version.
SyncVersion(w) ==
  /\ At(w, "syncVersion")
  /\ OrDiscard(w, IF kind = "store" THEN "commit" ELSE "syncVersions")
  /\ UNCHANGED <<kind, link, unsettled, order, seen, got, stops>>

\* Put alone fills under a temporary name and renames.
Commit(w) ==
  /\ At(w, "commit")
  /\ OrDiscard(w, "syncVersions")
  /\ UNCHANGED <<kind, link, unsettled, order, seen, got, stops>>

\* Faulty variant of SyncVersions: the entry is left to the system to write.
SyncVersionsSkipped(w) ==
  /\ At(w, "syncVersions") /\ Go(w, "swap")
  /\ Works /\ UNCHANGED <<kind, dir, locked, seen, got, stops>>

\* fsyncDir of the directory of versions: the new entry is durable.
SyncVersions(w) ==
  /\ At(w, "syncVersions")
  /\ \/ /\ synced' = synced \cup {w} /\ Go(w, "swap")
        /\ Works /\ UNCHANGED <<version, locked>>
     \/ /\ Fails /\ Return(w, "failed")
        /\ version' = [version EXCEPT ![w] = "absent"] /\ UNCHANGED synced
  /\ UNCHANGED <<kind, link, unsettled, order, seen, got, stops>>

\* Symlink under a temporary name and rename over the link.
SwapLink(w) ==
  /\ At(w, "swap")
  /\ \/ /\ link' = w /\ unsettled' = unsettled \cup {w} /\ order' = Append(order, w)
        /\ Go(w, "syncLink") /\ Works /\ UNCHANGED <<version, synced, locked>>
     \/ /\ Fails /\ Return(w, "failed")
        /\ version' = [version EXCEPT ![w] = "absent"] /\ synced' = synced \ {w}
        /\ UNCHANGED <<link, unsettled, order>>
  /\ UNCHANGED <<kind, seen, got, stops>>

\* Faulty variant of SyncLink: a failed sync is not reported.
SyncLinkUnchecked(w) ==
  /\ At(w, "syncLink")
  /\ \/ unsettled' = {link} /\ Go(w, "prune") /\ Works /\ UNCHANGED locked
     \/ Fails /\ Return(w, "ok") /\ UNCHANGED unsettled
  /\ UNCHANGED <<kind, link, version, synced, order, seen, got, stops>>

\* fsyncDir of the link's directory.  On an error the call fails with the new
\* version in place and the old one kept.
SyncLink(w) ==
  /\ At(w, "syncLink")
  /\ \/ unsettled' = {link} /\ Go(w, "prune") /\ Works /\ UNCHANGED locked
     \/ Fails /\ Return(w, "failed") /\ UNCHANGED unsettled
  /\ UNCHANGED <<kind, link, version, synced, order, seen, got, stops>>

\* Remove the other versions, best effort: some may stay.
Prune(w) ==
  /\ At(w, "prune")
  /\ \E removed \in SUBSET (Writers \ {w}) :
       /\ version' = [v \in Writers |-> IF v \in removed THEN "absent" ELSE version[v]]
       /\ synced' = synced \ removed
  /\ Return(w, "ok")
  /\ Works /\ UNCHANGED <<kind, link, unsettled, order, seen, got, stops>>

---------------------------------------------------------------------------
(* Readers. *)

Answer(r, v) == got' = [got EXCEPT ![r] = v] /\ locked' = locked \ {r} /\ Go(r, "idle")

\* Current looks for the link before it takes the lock; loadAccounts does not.
BeginRead(r) ==
  /\ At(r, "idle")
  /\ \/ /\ kind = "store" /\ link = None /\ got[r] = Unread
        /\ Answer(r, None) /\ UNCHANGED seen
     \/ /\ kind = "store" => link # None
        /\ Go(r, "lock") /\ got' = [got EXCEPT ![r] = Unread]
        /\ UNCHANGED <<seen, locked>>
  /\ Works /\ UNCHANGED <<kind, dir, stops>>

\* Faulty variant of Resolve: the lock is given back once the link is resolved.
ResolveAndUnlock(r) ==
  /\ At(r, "resolve")
  /\ \/ link = None /\ Answer(r, None) /\ UNCHANGED seen
     \/ /\ link # None /\ seen' = [seen EXCEPT ![r] = link] /\ locked' = locked \ {r}
        /\ Go(r, "read") /\ UNCHANGED got
  /\ Works /\ UNCHANGED <<kind, dir, stops>>

\* Readlink, or validateAccountsLayout.
Resolve(r) ==
  /\ At(r, "resolve")
  /\ \/ link = None /\ Answer(r, None) /\ UNCHANGED seen
     \/ /\ link # None /\ seen' = [seen EXCEPT ![r] = link]
        /\ Go(r, "read") /\ UNCHANGED <<got, locked>>
  /\ Works /\ UNCHANGED <<kind, dir, stops>>

\* The files of the version resolved, one after the other: certificate and key,
\* or the copied tree.
ReadFirst(r) ==
  /\ At(r, "read")
  /\ IF version[seen[r]] = "absent"
       THEN Answer(r, Corrupt)
       ELSE Go(r, "readOn") /\ UNCHANGED <<got, locked>>
  /\ Works /\ UNCHANGED <<kind, dir, seen, stops>>

ReadSecond(r) ==
  /\ At(r, "readOn")
  /\ Answer(r, IF version[seen[r]] = "whole" THEN seen[r] ELSE Corrupt)
  /\ Works /\ UNCHANGED <<kind, dir, seen, stops>>

---------------------------------------------------------------------------
(* Faults. *)

Stops == stops < MaxStops /\ stops' = stops + 1

\* The kernel releases the lock of a process that ends.
Kill(p) ==
  /\ Stops
  /\ pc[p] \notin Over \cup {"idle"}
  /\ Go(p, IF p \in Writers THEN "killed" ELSE "idle")
  /\ locked' = locked \ {p}
  /\ UNCHANGED <<kind, dir, seen, got, faults>>

\* What survives: a synced version, a link that may be older; anything may have
\* become of a version that was being written or removed.
PowerLoss ==
  /\ Stops
  /\ link' \in unsettled /\ unsettled' = {link'}
  /\ version' \in [Writers -> {"absent", "partial", "whole"}]
  /\ \A w \in Writers :
       w \in synced \/ pc[w] \in {"idle", "lock", "layout", "fill"} => version'[w] = version[w]
  /\ pc' = [p \in Processes |->
       IF pc[p] \in Over \cup {"idle"} THEN pc[p] ELSE IF p \in Writers THEN "killed" ELSE "idle"]
  /\ locked' = {}
  /\ UNCHANGED <<kind, synced, order, seen, got, faults>>

Next ==
  \/ \E w \in Writers :
       \/ Start(w) \/ TakeExclusive(w) \/ CheckLayout(w) \/ Fill(w) \/ Filled(w)
       \/ SyncVersion(w) \/ Commit(w) \/ SyncVersions(w) \/ SwapLink(w) \/ SyncLink(w) \/ Prune(w)
  \/ \E r \in Readers :
       BeginRead(r) \/ TakeShared(r) \/ Resolve(r) \/ ReadFirst(r) \/ ReadSecond(r)
  \/ \E p \in Processes : Unlocked(p) \/ Kill(p)
  \/ PowerLoss

Spec == Init /\ [][Next]_vars

---------------------------------------------------------------------------
(* Properties. *)

TypeOK ==
  /\ kind \in {"accounts", "store"}
  /\ link \in Writers \cup {None} /\ unsettled \subseteq Writers \cup {None}
  /\ version \in [Writers -> {"absent", "partial", "whole"}] /\ synced \subseteq Writers
  /\ pc \in [Processes -> Over \cup {"idle", "lock", "layout", "fill", "filling", "syncVersion",
                                     "commit", "syncVersions", "swap", "syncLink", "prune",
                                     "resolve", "read", "readOn"}]
  /\ locked \subseteq Processes
  /\ seen \in [Readers -> Writers \cup {None}]
  /\ got \in [Readers -> Writers \cup {None, Unread, Corrupt}]
  /\ order \in Seq(Writers)
  /\ faults \in 0..MaxFaults /\ stops \in 0..MaxStops

\* The link never names a version that is missing or incomplete, nor would it after
\* a power loss: "there is no moment at which accounts is absent".
LinkNeverDangles ==
  \A v \in unsettled \cup {link} : v # None => version[v] = "whole" /\ v \in synced

\* What a call reported as published is only ever replaced by something swapped in
\* later: no failure, kill or power loss brings an older version back.
ReportedStays ==
  \A w \in Writers : pc[w] = "ok" =>
    \A v \in unsettled \cup {link} :
      \E i, j \in DOMAIN order : order[i] = w /\ order[j] = v /\ i <= j

\* The directory behaves as one register: swapped and read in one step, whole.
Register == INSTANCE Published
  WITH Versions <- Writers, Readers <- Readers, None <- None, Unread <- Unread,
       current <- link, unsettled <- unsettled, got <- got
ImplementsPublished == Register!Spec
=============================================================================
