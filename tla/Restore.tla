------------------------------- MODULE Restore -------------------------------
(***************************************************************************)
(* Backup, restore and the restore gate (restore_contract.py) under a      *)
(* backend that goes on causing external effects.                          *)
(*                                                                         *)
(* An effect is one external operation of one Cell (a pull request, an     *)
(* Airflow run).  The backend writes the journal's intent, acts, writes    *)
(* the receipt and then the Cell's history, each to its own store.  A      *)
(* backup fences the stores one after another; a restore puts the copies   *)
(* back and opens a window in which every first attempt must observe the   *)
(* remote before it acts.                                                  *)
(***************************************************************************)
EXTENDS Naturals, Sequences, FiniteSets

CONSTANTS
    Effects,        \* external operations, each of its own Cell
    MaxBinary,      \* bound: versions of the program
    MaxRestores     \* bound: restores begun

ASSUME RestoreAssumption ==
    MaxBinary \in Nat \ {0} /\ MaxRestores \in Nat

VARIABLES
    disk,      \* the live stores: journal, Cell history, restore stamp, schema
    remote,    \* how often each effect was caused
    copy,      \* the last complete backup, or the empty one
    fence,     \* the backup in progress: step, stores locked, moved and seen
    marker,    \* restore/pending.json: state and worklist, or "none"
    backend,   \* the backend process: on, and the operation in hand
    restoring, \* the restore in progress
    cut,       \* ghost: a restore was killed between its steps
    unlinking, \* a close() under way: the stamp is off and the marker is about to go
    missed,    \* ghost: effects only the remote knew of when a window was closed
    binary,    \* the version of the installed program
    restores   \* restores begun

restorevars == <<disk, remote, copy, fence, marker, backend, restoring, cut, unlinking, missed, binary, restores>>

FencedStores == <<"cells", "operations">>   \* the order of their paths
EmptyDisk == [journal |-> [e \in Effects |-> "none"], cells |-> {}, stamp |-> FALSE, schema |-> 1]
NoCopy == [complete |-> FALSE, disk |-> EmptyDisk]
NoFence == [step |-> "off", locked |-> {}, moved |-> {}]
NoMarker == [state |-> "none", owed |-> {}]
Off == [on |-> FALSE, op |-> "none", step |-> "idle"]

RestoreInit ==
    /\ disk = EmptyDisk /\ remote = [e \in Effects |-> 0]
    /\ copy = NoCopy /\ fence = NoFence /\ marker = NoMarker
    /\ backend = Off /\ restoring = "off" /\ cut = FALSE /\ unlinking = FALSE /\ missed = {} /\ binary = 1
    /\ restores = 0

-----------------------------------------------------------------------------
\* A commit to one store: refused while the backup holds its lock, and seen by
\* the backup's data_version.
CommitTo(store, d) ==
    /\ store \notin fence.locked
    /\ disk' = d
    /\ fence' = IF fence.step = "off" THEN fence ELSE [fence EXCEPT !.moved = @ \cup {store}]

\* RestoreGate.state: the marker's, or pending when the stores record an open
\* restore whose marker is gone.
GateState ==
    CASE marker.state # "none" -> marker.state
      [] marker.state = "none" /\ disk.stamp -> "pending"
      [] OTHER -> "clear"

\* Mutant: only the Cells the snapshot named must observe.
ObservesNamed(e) == GateState # "clear" /\ e \in marker.owed

\* RestoreGate.requires_observation: every Cell while the window is open.
Observes(e) == GateState # "clear"

\* The store's schema is not newer than the program: guard_before_ddl,
\* ensure_sqlite_schema.  Opening migrates it forward.
StartBackend ==
    /\ ~backend.on /\ restoring = "off" /\ disk.schema <= binary
    /\ backend' = [Off EXCEPT !.on = TRUE]
    /\ disk' = [disk EXCEPT !.schema = binary]
    /\ UNCHANGED <<remote, copy, fence, marker, restoring, cut, unlinking, missed, binary, restores>>

\* The backend stops or is killed in the middle of an operation.
StopBackend ==
    /\ backend.on
    /\ backend' = Off
    /\ UNCHANGED <<disk, remote, copy, fence, marker, restoring, cut, unlinking, missed, binary, restores>>

Upgrade ==
    /\ ~backend.on /\ \E b \in 1..MaxBinary : b # binary /\ binary' = b
    /\ UNCHANGED <<disk, remote, copy, fence, marker, backend, restoring, cut, unlinking, missed, restores>>

\* mutate(): assert_mutations_allowed, then the intent.  An operation the
\* journal holds undecided is observed; a first attempt is when the gate says.
Intend(e) ==
    /\ backend.on /\ backend.step = "idle" /\ GateState # "pending"
    /\ disk.journal[e] # "committed"
    /\ CommitTo("operations", [disk EXCEPT !.journal[e] = IF @ = "none" THEN "intent" ELSE @])
    /\ backend' = [backend EXCEPT !.op = e,
                     !.step = IF Observes(e) \/ disk.journal[e] # "none" THEN "observe" ELSE "act"]
    /\ UNCHANGED <<remote, copy, marker, restoring, cut, unlinking, missed, binary, restores>>

\* The journal keeps what the observation found.
ObserveRemote ==
    /\ backend.step = "observe"
    /\ CommitTo("operations", [disk EXCEPT !.journal[backend.op] = "observed"])
    /\ backend' = [backend EXCEPT !.step = IF remote[backend.op] > 0 THEN "receipt" ELSE "act"]
    /\ UNCHANGED <<remote, copy, marker, restoring, cut, unlinking, missed, binary, restores>>

Act ==
    /\ backend.step = "act"
    /\ remote' = [remote EXCEPT ![backend.op] = @ + 1]
    /\ backend' = [backend EXCEPT !.step = "receipt"]
    /\ UNCHANGED <<disk, copy, fence, marker, restoring, cut, unlinking, missed, binary, restores>>

WriteReceipt ==
    /\ backend.step = "receipt"
    /\ CommitTo("operations", [disk EXCEPT !.journal[backend.op] = "committed"])
    /\ backend' = [backend EXCEPT !.step = "event"]
    /\ UNCHANGED <<remote, copy, marker, restoring, cut, unlinking, missed, binary, restores>>

WriteHistory ==
    /\ backend.step = "event"
    /\ CommitTo("cells", [disk EXCEPT !.cells = @ \cup {backend.op}])
    /\ backend' = [Off EXCEPT !.on = TRUE]
    /\ UNCHANGED <<remote, copy, marker, restoring, cut, unlinking, missed, binary, restores>>

-----------------------------------------------------------------------------
\* coherence_problems: history without a receipt.
Coherent(d) == \A e \in d.cells : d.journal[e] # "none"

\* quiesce: the stores that committed since the versions were read.
MovedStores == fence.moved

\* create_backup on usable stores: data_version of every store is read first.
BeginBackup ==
    /\ fence.step = "off" /\ restoring = "off"
    /\ fence' = [NoFence EXCEPT !.step = "fencing"]
    /\ UNCHANGED <<disk, remote, copy, marker, backend, restoring, cut, unlinking, missed, binary, restores>>

\* BEGIN IMMEDIATE on the next store in order.
FenceStore(i) ==
    /\ fence.step = "fencing" /\ fence.locked = {FencedStores[j] : j \in 1..(i - 1)}
    /\ fence' = [fence EXCEPT !.locked = @ \cup {FencedStores[i]}]
    /\ UNCHANGED <<disk, remote, copy, marker, backend, restoring, cut, unlinking, missed, binary, restores>>

\* All fenced: refused when one moved, or when the copy does not hold together;
\* otherwise copied, and the manifest is written last.
FinishBackup ==
    /\ fence.step = "fencing" /\ Cardinality(fence.locked) = Len(FencedStores)
    /\ copy' = IF MovedStores = {} /\ Coherent(disk) THEN [complete |-> TRUE, disk |-> disk] ELSE copy
    /\ fence' = NoFence
    /\ UNCHANGED <<disk, remote, marker, backend, restoring, cut, unlinking, missed, binary, restores>>

\* A lock that cannot be had, or a killed backup: a copy without a manifest.
AbandonBackup ==
    /\ fence.step # "off"
    /\ fence' = NoFence
    /\ UNCHANGED <<disk, remote, copy, marker, backend, restoring, cut, unlinking, missed, binary, restores>>

-----------------------------------------------------------------------------
\* verify_backup: a manifest, written last, over copies that still hold together.
Restorable == copy.complete /\ Coherent(copy.disk) /\ copy.disk.schema <= binary

\* restore(): the backup is verified, no store is newer than the program, the
\* factory is stopped and the live tree is moved aside.
BeginRestore ==
    /\ ~backend.on /\ fence.step = "off" /\ restoring = "off" /\ ~unlinking /\ restores < MaxRestores
    /\ Restorable
    /\ disk' = EmptyDisk /\ marker' = NoMarker
    /\ restoring' = "moved" /\ restores' = restores + 1
    /\ UNCHANGED <<remote, copy, fence, backend, cut, unlinking, missed, binary>>

PlaceStores ==
    /\ restoring = "moved"
    /\ disk' = copy.disk /\ restoring' = "placed"
    /\ UNCHANGED <<remote, copy, fence, marker, backend, cut, unlinking, missed, binary, restores>>

\* _build_marker: the Cells the snapshot left with something undecided.
Owed(d) == {e \in Effects : d.journal[e] # "committed" \/ e \notin d.cells}

OpenWindow ==
    /\ restoring = "placed"
    /\ marker' = [state |-> "pending", owed |-> Owed(disk)]
    /\ restoring' = "marked"
    /\ UNCHANGED <<disk, remote, copy, fence, backend, cut, unlinking, missed, binary, restores>>

StampStores ==
    /\ restoring = "marked"
    /\ disk' = [disk EXCEPT !.stamp = TRUE] /\ restoring' = "off"
    /\ UNCHANGED <<remote, copy, fence, marker, backend, cut, unlinking, missed, binary, restores>>

\* The restore is killed between two of its steps.
KillRestore ==
    /\ restoring # "off"
    /\ restoring' = "off" /\ cut' = TRUE
    /\ UNCHANGED <<disk, remote, copy, fence, marker, backend, unlinking, missed, binary, restores>>

-----------------------------------------------------------------------------
\* inspect_store, assert_compatible: no store is newer than the program.
Compatible == disk.schema <= binary

\* RestoreGate.resume: schemas and joins are checked again.
ResumeGate ==
    /\ restoring = "off" /\ marker.state = "pending" /\ Compatible /\ Coherent(disk)
    /\ marker' = [marker EXCEPT !.state = "reconciling"]
    /\ UNCHANGED <<disk, remote, copy, fence, backend, restoring, cut, unlinking, missed, binary, restores>>

\* mark_reconciled: no operation of the Cell is undecided without an observation.
ReconcileEffect(e) ==
    /\ marker.state = "reconciling" /\ e \in marker.owed /\ disk.journal[e] # "intent"
    /\ marker' = [marker EXCEPT !.owed = @ \ {e}]
    /\ UNCHANGED <<disk, remote, copy, fence, backend, restoring, cut, unlinking, missed, binary, restores>>

\* The effects that a backup is too old to have, and no observation has brought back.
KnownToRemoteOnly == {e \in Effects : remote[e] > 0 /\ disk.journal[e] = "none"}

\* close(): the worklist is empty and the operator says that the interval was reviewed, which nothing
\* checks.  The stores stop recording the restore, then the marker goes.
CloseWindow ==
    /\ restoring = "off" /\ ~unlinking /\ marker.state = "reconciling" /\ marker.owed = {}
    /\ disk' = [disk EXCEPT !.stamp = FALSE] /\ unlinking' = TRUE
    /\ missed' = missed \cup KnownToRemoteOnly
    /\ UNCHANGED <<remote, copy, fence, marker, backend, restoring, cut, binary, restores>>

UnlinkMarker ==
    /\ unlinking /\ unlinking' = FALSE
    /\ marker' = NoMarker
    /\ UNCHANGED <<disk, remote, copy, fence, backend, restoring, cut, missed, binary, restores>>

\* The command is killed between the two: the marker still holds the window open.
KillClose ==
    /\ unlinking /\ unlinking' = FALSE
    /\ UNCHANGED <<disk, remote, copy, fence, marker, backend, restoring, cut, missed, binary, restores>>

\* An operator deletes the restore directory to unstick the factory.
DeleteMarker ==
    /\ restoring = "off" /\ ~unlinking /\ marker.state # "none"
    /\ marker' = NoMarker
    /\ UNCHANGED <<disk, remote, copy, fence, backend, restoring, cut, unlinking, missed, binary, restores>>

RestoreNext ==
    \/ StartBackend \/ StopBackend \/ Upgrade
    \/ \E e \in Effects : Intend(e) \/ ReconcileEffect(e)
    \/ ObserveRemote \/ Act \/ WriteReceipt \/ WriteHistory
    \/ BeginBackup \/ FinishBackup \/ AbandonBackup
    \/ \E i \in DOMAIN FencedStores : FenceStore(i)
    \/ BeginRestore \/ PlaceStores \/ OpenWindow \/ StampStores \/ KillRestore
    \/ ResumeGate \/ CloseWindow \/ UnlinkMarker \/ KillClose \/ DeleteMarker

RestoreSpec == RestoreInit /\ [][RestoreNext]_restorevars

-----------------------------------------------------------------------------
\* The failure the contract exists for: however backups, completed restores, stops, upgrades and
\* operator steps interleave, no external effect is caused twice (restore_contract.py,
\* requires_observation).  What is left is the residual risk docs/backup-restore.md names: an effect
\* of the lost interval that the journal still had no row of when the operator closed the window.
NoDuplicateEffect == cut \/ \A e \in Effects : remote[e] <= 1 \/ e \in missed

=============================================================================
