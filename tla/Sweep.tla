-------------------------------- MODULE Sweep --------------------------------
(***************************************************************************)
(* The backend's sweeps of orphaned sandboxes (maintain.py) beside the     *)
(* Cells that go on living: a pass of sweep_sandboxes reads the Cell rows  *)
(* once, then lists and removes MicroVMs, then lists and removes           *)
(* containers.  Every removal is a journalled sandbox_cleanup operation.   *)
(* Passes may overlap: the maintain DAG runs nightly and after every       *)
(* delivery, and the backend's route takes no lock.                        *)
(*                                                                         *)
(* A resource is what one provider holds for one epoch of one Cell.  A     *)
(* container carries the Cell and the epoch as labels; a MicroVM is tied   *)
(* to a Cell only through the Airflow run the Cell is bound to.            *)
(***************************************************************************)
EXTENDS Naturals, FiniteSets

CONSTANTS
    SweptCells,   \* Cells of the store
    Resources,    \* the sandboxes their runs may provision
    Passes,       \* sweeps that may run at once
    MaxRearms,    \* bound: epochs of a Cell
    MaxSweeps     \* bound: sweeps started

ASSUME SweepAssumption ==
    /\ MaxRearms \in Nat \ {0} /\ MaxSweeps \in Nat
    /\ Resources \subseteq [by : {"islo", "docker"}, cell : SweptCells, epoch : 1..MaxRearms]

VARIABLES
    crow,       \* the Cell store: epoch, live, bound (airflow_run_id is set)
    pool,       \* the providers: what became of each resource
    debtrow,    \* the operation journal: the cleanup operation of a resource; "noted" once an
                \* observation of an unresolved one names the resource
    pass,       \* each sweep: stage, Cell rows it read, resources listed, not yet provisioned then,
                \* to remove, and the removal at hand
    killed,     \* removals of a resource whose Cell was live at its epoch
    misread,    \* resources settled as absent from a listing older than they are
    overlapped, \* have two passes ever run at once
    sweeps      \* passes started

sweepvars == <<crow, pool, debtrow, pass, killed, misread, overlapped, sweeps>>

Resting == [stage |-> "off", rows |-> <<>>, listed |-> {}, unborn |-> {}, todo |-> {}, asked |-> {}, reply |-> "none"]

Up(by) == {r \in Resources : r.by = by /\ pool[r] = "up"}
NotYetUp == {r \in Resources : pool[r] = "none"}
LiveAt(r) == crow[r.cell].live /\ crow[r.cell].epoch = r.epoch

SweepInit ==
    /\ crow = [c \in SweptCells |-> [epoch |-> 0, live |-> FALSE, bound |-> FALSE]]
    /\ pool = [r \in Resources |-> "none"]
    /\ debtrow = [r \in Resources |-> "none"]
    /\ pass = [p \in Passes |-> Resting]
    /\ killed = {} /\ misread = {} /\ overlapped = FALSE /\ sweeps = 0

-----------------------------------------------------------------------------
\* CellStore.activate: a new epoch, the run binding cleared.
Rearm(c) ==
    /\ ~crow[c].live /\ crow[c].epoch < MaxRearms
    /\ crow' = [crow EXCEPT ![c] = [epoch |-> @.epoch + 1, live |-> TRUE, bound |-> FALSE]]
    /\ UNCHANGED <<pool, debtrow, pass, killed, misread, overlapped, sweeps>>

\* Factory._bind_run.
BindCell(c) ==
    /\ crow[c].live /\ ~crow[c].bound
    /\ crow' = [crow EXCEPT ![c].bound = TRUE]
    /\ UNCHANGED <<pool, debtrow, pass, killed, misread, overlapped, sweeps>>

\* A terminal report or a stop.
EndCell(c) ==
    /\ crow[c].live
    /\ crow' = [crow EXCEPT ![c].live = FALSE]
    /\ UNCHANGED <<pool, debtrow, pass, killed, misread, overlapped, sweeps>>

\* The run of the epoch provisions its sandbox, which closes it or does not.
Provide(r) ==
    /\ LiveAt(r) /\ pool[r] = "none"
    /\ pool' = [pool EXCEPT ![r] = "up"]
    /\ UNCHANGED <<crow, debtrow, pass, killed, misread, overlapped, sweeps>>

-----------------------------------------------------------------------------
\* authorize_cleanup: an active Cell keeps (same epoch) or refuses (another
\* epoch), and a Cell that is over gives up every resource that names it.
Authorized(cell, r) == ~cell.live

\* cell_for_sandbox: the row of the Cell bound to the run that named the
\* MicroVM; authorize_removal judges an unowned one by itself.
OrphanMicroVM(rows, r) ==
    LET owned == rows[r.cell].bound /\ rows[r.cell].epoch = r.epoch
    IN  owned => Authorized(rows[r.cell], r)

\* authorize_container: a Cell the store never held is only observed.
OrphanContainer(rows, r) == rows[r.cell].epoch # 0 /\ Authorized(rows[r.cell], r)

\* sweep_sandboxes: the rows are read first, then MicroVMs are listed.  Age
\* nominates: those older than ttl_s, any subset of the listed.
StartSweep(p) ==
    /\ pass[p].stage = "off" /\ sweeps < MaxSweeps
    /\ sweeps' = sweeps + 1
    /\ pass' = [pass EXCEPT ![p] = [Resting EXCEPT !.stage = "rows", !.rows = crow]]
    /\ overlapped' = (overlapped \/ \E q \in Passes : pass[q].stage # "off")
    /\ UNCHANGED <<crow, pool, debtrow, killed, misread>>

ListMicroVMs(p) ==
    /\ pass[p].stage = "rows"
    /\ \E old \in SUBSET Up("islo") :
          pass' = [pass EXCEPT ![p] = [@ EXCEPT !.stage = "islo", !.listed = Up("islo"), !.unborn = NotYetUp,
                                         !.todo = {r \in old : OrphanMicroVM(pass[p].rows, r)}]]
    /\ UNCHANGED <<crow, pool, debtrow, killed, misread, overlapped, sweeps>>

-----------------------------------------------------------------------------
(* _remove: one journalled removal.                                        *)

\* What the pass goes on with: no removal, or the one of r with its reply.
Handled(p, r)          == pass' = [pass EXCEPT ![p] = [@ EXCEPT !.asked = {}, !.reply = "none", !.todo = pass[p].todo \ {r}]]
AwaitsRecord(p, r, how) == pass' = [pass EXCEPT ![p] = [@ EXCEPT !.asked = {r}, !.reply = how, !.todo = pass[p].todo \ {r}]]

\* OperationJournal.execute up to the provider's rm: a committed row answers without one, a row of
\* before is observed first.  The attempt is claimed and rm called, which lands or does not; or a live
\* owner, a spent retry budget or an unreadable provider refuses it.
AskRemoval(p, r) ==
    /\ pass[p].stage \in {"islo", "docker"} /\ pass[p].asked = {} /\ r \in pass[p].todo
    /\ \/ /\ debtrow[r] = "committed"
          /\ Handled(p, r) /\ UNCHANGED <<debtrow, pool, killed>>
       \/ /\ debtrow[r] \in {"open", "noted"} /\ pool[r] = "gone"
          /\ debtrow' = [debtrow EXCEPT ![r] = "committed"]
          /\ Handled(p, r) /\ UNCHANGED <<pool, killed>>
       \/ /\ debtrow[r] = "none" \/ (debtrow[r] \in {"open", "noted"} /\ pool[r] = "up")
          /\ debtrow' = [debtrow EXCEPT ![r] = IF @ = "none" THEN "open" ELSE "noted"]
          /\ \E lands \in BOOLEAN, reply \in {"kept", "lost"} :
                /\ reply = "kept" => lands
                /\ pool' = IF lands THEN [pool EXCEPT ![r] = "gone"] ELSE pool
                /\ killed' = IF lands /\ pool[r] = "up" /\ LiveAt(r)
                                THEN killed \cup {[r |-> r, read |-> pass[p].rows[r.cell].epoch]} ELSE killed
                /\ AwaitsRecord(p, r, reply)
       \/ /\ debtrow[r] \in {"open", "noted"}
          /\ AwaitsRecord(p, r, "lost") /\ UNCHANGED <<debtrow, pool, killed>>
    /\ UNCHANGED <<crow, misread, overlapped, sweeps>>

\* observe(): what a new listing of the provider says of the resource, if it can be read.
ObservedState(r, readable) == IF readable /\ pool[r] = "gone" THEN "committed" ELSE "noted"

\* The owner of the attempt commits its reply; an error, or an owner whose lease lapsed and who was
\* displaced meanwhile, is followed by an observation.
RecordRemoval(p, r) ==
    /\ r \in pass[p].asked
    /\ \/ debtrow[r] = "committed" /\ UNCHANGED debtrow
       \/ debtrow[r] # "committed" /\ pass[p].reply = "kept" /\ debtrow' = [debtrow EXCEPT ![r] = "committed"]
       \/ /\ debtrow[r] # "committed"
          /\ \E readable \in BOOLEAN : debtrow' = [debtrow EXCEPT ![r] = ObservedState(r, readable)]
    /\ Handled(p, r)
    /\ UNCHANGED <<crow, pool, killed, misread, overlapped, sweeps>>

-----------------------------------------------------------------------------
\* Mutant: a row of either provider is settled from the listing of one.
SettledByAny(p, by) == {r \in Resources : debtrow[r] = "noted" /\ r \notin pass[p].listed}

\* _settle_absent: the unresolved removals whose observation names a resource that the pass's own
\* listing of the same provider did not show.
Settled(p, by) ==
    {r \in Resources : r.by = by /\ debtrow[r] = "noted" /\ r \notin pass[p].listed}

SettleAbsent(p, by) ==
    /\ debtrow' = [r \in Resources |-> IF r \in Settled(p, by) THEN "committed" ELSE debtrow[r]]
    /\ misread' = misread \cup (Settled(p, by) \cap pass[p].unborn)

RemovedAll(p, by) == pass[p].stage = by /\ pass[p].asked = {} /\ pass[p].todo = {}

\* _sweep_islo ends by settling; sweep_containers judges every labelled one.
ListContainers(p) ==
    /\ RemovedAll(p, "islo")
    /\ SettleAbsent(p, "islo")
    /\ pass' = [pass EXCEPT ![p] = [@ EXCEPT !.stage = "docker", !.listed = Up("docker"), !.unborn = NotYetUp,
                                      !.todo = {r \in Up("docker") : OrphanContainer(pass[p].rows, r)}]]
    /\ UNCHANGED <<crow, pool, killed, overlapped, sweeps>>

\* No docker factory, or a daemon that cannot be reached.
SkipContainers(p) ==
    /\ RemovedAll(p, "islo")
    /\ SettleAbsent(p, "islo")
    /\ pass' = [pass EXCEPT ![p] = Resting]
    /\ UNCHANGED <<crow, pool, killed, overlapped, sweeps>>

EndSweep(p) ==
    /\ RemovedAll(p, "docker")
    /\ SettleAbsent(p, "docker")
    /\ pass' = [pass EXCEPT ![p] = Resting]
    /\ UNCHANGED <<crow, pool, killed, overlapped, sweeps>>

\* The backend dies in the middle of a pass.
LosePass(p) ==
    /\ pass[p].stage # "off"
    /\ pass' = [pass EXCEPT ![p] = Resting]
    /\ UNCHANGED <<crow, pool, debtrow, killed, misread, overlapped, sweeps>>

SweepNext ==
    \/ \E c \in SweptCells : Rearm(c) \/ BindCell(c) \/ EndCell(c)
    \/ \E r \in Resources : Provide(r)
    \/ \E p \in Passes, r \in Resources : AskRemoval(p, r) \/ RecordRemoval(p, r)
    \/ \E p \in Passes : \/ StartSweep(p) \/ ListMicroVMs(p) \/ ListContainers(p) \/ SkipContainers(p)
                         \/ EndSweep(p) \/ LosePass(p)

SweepSpec == SweepInit /\ [][SweepNext]_sweepvars

-----------------------------------------------------------------------------
\* A removal the journal calls committed is true: the resource is gone, across lost replies, unreadable
\* providers, displaced owners and dead passes (_remove, _settle_absent).  The one exception takes two
\* passes at once: one settles from a listing older than the resource the other failed to remove.
CommittedRemovalIsGone ==
    \A r \in Resources : debtrow[r] = "committed" => pool[r] = "gone" \/ (overlapped /\ r \in misread)

\* A container is removed under a live Cell only when the Cell was re-armed
\* after the pass had read the rows: what a row protects stays (authorize_*).
LiveRowKeepsContainer ==
    \A x \in killed : x.r.by = "docker" => x.read < x.r.epoch

\* A removal on record happened, but for overlapping passes, and nothing that a row the pass read
\* protects was removed.
SweepKeepsFaith == CommittedRemovalIsGone /\ LiveRowKeepsContainer
=============================================================================
