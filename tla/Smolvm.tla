------------------------------- MODULE Smolvm -------------------------------
(***************************************************************************)
(* The one micro-VM of a factory run: smolvm_backend.SmolvmSandboxBackend  *)
(* below sandbox.ToolsetSandbox.                                           *)
(*                                                                         *)
(* Two files survive the worker: the record smolvm/<name>.json (phase,     *)
(* inflight fence, process id of the incarnation) and the toolset handle.  *)
(* The daemon carries out create, exec and delete requests whether or not  *)
(* the client that sent them still waits.                                  *)
(***************************************************************************)
EXTENDS Naturals

CONSTANT MaxBoots   \* bound: incarnations of the machine

ASSUME SmolvmAssumption == MaxBoots \in Nat \ {0}

VARIABLES
    vrec,      \* smolvm/<name>.json: phase, inflight and pid
    handle,    \* the toolset handle: "none", "held" or "terminated"
    vm,        \* the machine of that name: "absent", "stopped", "running", "foreign"
    boot,      \* the incarnation (pid) of the machine
    sent,      \* requests the daemon has not carried out yet
    step,      \* where the worker is
    closing,   \* the worker destroys for close(), not after a command
    seen,      \* the process id the worker read last
    cancel,    \* a destroy of another thread: its step and the record it loaded
    touched,   \* incarnations in which a command ran whose worker lost it
    mixed,     \* a later command ran in such an incarnation
    unique     \* no machine bore the run's name before the run
smolvars == <<vrec, handle, vm, boot, sent, step, closing, seen, cancel, touched, mixed, unique>>

Unborn == [phase |-> "none", inflight |-> FALSE, pid |-> 0]
NoCancel == [step |-> "off", rec |-> Unborn]

Answers200 == vm # "absent"

SmolInit ==
    /\ vrec = Unborn /\ handle = "none"
    /\ vm \in {"absent", "foreign"} /\ boot = 0 /\ unique = (vm = "absent")
    /\ sent = {} /\ step = "idle" /\ closing = FALSE /\ seen = 0 /\ cancel = NoCancel
    /\ touched = {} /\ mixed = FALSE

-----------------------------------------------------------------------------
\* create(): a first call journals the name, a later one observes it.
Provision ==
    /\ step = "idle" /\ handle = "none"
    /\ \/ /\ vrec.phase = "none"
          /\ vrec' = [vrec EXCEPT !.phase = "pending"]
          /\ step' = "posting"
       \/ /\ vrec.phase = "pending" /\ Answers200
          /\ step' = "booting" /\ UNCHANGED vrec
       \/ /\ vrec.phase = "ready" /\ ~vrec.inflight /\ vm = "running" /\ boot = vrec.pid
          /\ step' = "holding" /\ UNCHANGED vrec
    /\ UNCHANGED <<handle, vm, boot, sent, closing, seen, cancel, touched, mixed, unique>>

PostCreate ==
    /\ step = "posting"
    /\ sent' = sent \cup {"create"} /\ step' = "creating"
    /\ UNCHANGED <<vrec, handle, vm, boot, closing, seen, cancel, touched, mixed, unique>>

\* The daemon creates the machine, or answers 409 when the name is taken.
DaemonCreates ==
    /\ "create" \in sent
    /\ sent' = sent \ {"create"}
    /\ vm' = IF vm = "absent" THEN "stopped" ELSE vm
    /\ UNCHANGED <<vrec, handle, boot, step, closing, seen, cancel, touched, mixed, unique>>

CreateAnswered ==
    /\ step = "creating" /\ "create" \notin sent
    /\ IF vm = "foreign"
         THEN vrec' = [vrec EXCEPT !.phase = "collision"] /\ step' = "idle"
         ELSE UNCHANGED vrec /\ step' = "booting"
    /\ UNCHANGED <<handle, vm, boot, sent, closing, seen, cancel, touched, mixed, unique>>

\* The start request, for a machine that does not run.  A foreign machine found on recovery passes the
\* validation: only the isolation fields are compared.
StartMachine ==
    /\ step = "booting" /\ Answers200 /\ boot < MaxBoots
    /\ vm' = IF vm = "stopped" THEN "running" ELSE vm
    /\ boot' = IF vm = "stopped" THEN boot + 1 ELSE boot
    /\ seen' = boot' /\ step' = "started"
    /\ UNCHANGED <<vrec, handle, sent, closing, cancel, touched, mixed, unique>>

\* The ready record, with the process id of the answer.
RecordReady ==
    /\ step = "started"
    /\ vrec' = [phase |-> "ready", inflight |-> FALSE, pid |-> seen]
    /\ step' = "holding"
    /\ UNCHANGED <<handle, vm, boot, sent, closing, seen, cancel, touched, mixed, unique>>

\* ToolsetSandbox._persist_id.
HoldHandle ==
    /\ step = "holding"
    /\ handle' = "held" /\ step' = "idle"
    /\ UNCHANGED <<vrec, vm, boot, sent, closing, seen, cancel, touched, mixed, unique>>

-----------------------------------------------------------------------------

\* _begin: _ready fences an operation a dead worker left in flight; otherwise
\* the incarnation must be the recorded one.
Unfenced == ~vrec.inflight

BeginOperation ==
    /\ step = "idle" /\ handle = "held" /\ vrec.phase = "ready"
    /\ IF Unfenced
         THEN /\ vm \in {"running", "foreign"} /\ boot = vrec.pid
              /\ step' = "fencing"
         ELSE step' = "destroying"
    /\ closing' = FALSE /\ seen' = vrec.pid
    /\ UNCHANGED <<vrec, handle, vm, boot, sent, cancel, touched, mixed, unique>>

\* The fence is journalled in the record as it was read, over whatever stands there now.
JournalFence ==
    /\ step = "fencing"
    /\ vrec' = [phase |-> "ready", inflight |-> TRUE, pid |-> seen]
    /\ step' = "ready"
    /\ UNCHANGED <<handle, vm, boot, sent, closing, seen, cancel, touched, mixed, unique>>

\* exec/stream or a file upload is sent; the daemon runs it when it comes to it.
SendCommand ==
    /\ step = "ready"
    /\ sent' = sent \cup {"exec"} /\ step' = "running"
    /\ UNCHANGED <<vrec, handle, vm, boot, closing, seen, cancel, touched, mixed, unique>>

DaemonRuns ==
    /\ "exec" \in sent
    /\ sent' = sent \ {"exec"}
    /\ mixed' = (mixed \/ (vm = "running" /\ boot \in touched /\ step = "running"))
    /\ touched' = IF vm = "running" /\ step # "running" THEN touched \cup {boot} ELSE touched
    /\ UNCHANGED <<vrec, handle, vm, boot, step, closing, seen, cancel, unique>>

\* The terminal exit event: _finish lifts the fence, or raises when a destroy left its record meanwhile
\* (run_command destroys then; write_file does not).
Finish ==
    /\ step = "running" /\ "exec" \notin sent
    /\ IF vrec.phase = "ready"
         THEN vrec' = [vrec EXCEPT !.inflight = FALSE] /\ step' = "idle"
         ELSE step' \in {"destroying", "idle"} /\ UNCHANGED vrec
    /\ UNCHANGED <<handle, vm, boot, sent, closing, seen, cancel, touched, mixed, unique>>

\* A timeout, exit 124, a broken stream: the machine is destroyed.
CommandLost ==
    /\ step = "running"
    /\ step' = "destroying"
    /\ touched' = IF vm = "running" THEN touched \cup {boot} ELSE touched
    /\ UNCHANGED <<vrec, handle, vm, boot, sent, closing, seen, cancel, mixed, unique>>

-----------------------------------------------------------------------------
\* close(): without a handle there is nothing to destroy.
Close ==
    /\ step = "idle" /\ handle # "none"
    /\ step' = "destroying" /\ closing' = TRUE
    /\ UNCHANGED <<vrec, handle, vm, boot, sent, seen, cancel, touched, mixed, unique>>

\* Airflow's own toolset, or an operator, destroys the recorded name.
ReconcileMachine ==
    /\ step = "idle" /\ vrec.phase # "none"
    /\ step' = "destroying" /\ closing' = FALSE
    /\ UNCHANGED <<vrec, handle, vm, boot, sent, seen, cancel, touched, mixed, unique>>

\* Mutant: an absent machine is taken for deleted.
NeverInDoubt == FALSE

\* destroy(): an absent machine whose create is in doubt stays in doubt.
InDoubt == vrec.phase = "pending" /\ ~Answers200

FenceDestroy ==
    /\ step = "destroying" /\ vrec.phase \notin {"deleted", "collision"}
    /\ IF InDoubt
         THEN step' = "idle" /\ UNCHANGED vrec
         ELSE vrec' = [vrec EXCEPT !.phase = "terminated"] /\ step' = "deleting"
    /\ UNCHANGED <<handle, vm, boot, sent, closing, seen, cancel, touched, mixed, unique>>

DestroyRefused ==
    /\ step = "destroying" /\ vrec.phase = "collision"
    /\ step' = "idle"
    /\ UNCHANGED <<vrec, handle, vm, boot, sent, closing, seen, cancel, touched, mixed, unique>>

DestroyAgain ==
    /\ step = "destroying" /\ vrec.phase = "deleted"
    /\ step' = "destroyed"
    /\ UNCHANGED <<vrec, handle, vm, boot, sent, closing, seen, cancel, touched, mixed, unique>>

\* DELETE is sent; it may land after the client has gone.
SendDelete ==
    /\ step = "deleting"
    /\ sent' = sent \cup {"delete"} /\ step' = "confirming"
    /\ UNCHANGED <<vrec, handle, vm, boot, closing, seen, cancel, touched, mixed, unique>>

DaemonDeletes ==
    /\ "delete" \in sent
    /\ sent' = sent \ {"delete"} /\ vm' = "absent"
    /\ UNCHANGED <<vrec, handle, boot, step, closing, seen, cancel, touched, mixed, unique>>

ConfirmDelete ==
    /\ step = "confirming"
    /\ IF ~Answers200
         THEN vrec' = [vrec EXCEPT !.phase = "deleted", !.inflight = FALSE] /\ step' = "destroyed"
         ELSE UNCHANGED vrec /\ step' = "idle"
    /\ UNCHANGED <<handle, vm, boot, sent, closing, seen, cancel, touched, mixed, unique>>

\* close() drops the handle; a command that reports a dead sandbox marks it.
DestroyReturns ==
    /\ step = "destroyed"
    /\ handle' \in IF closing THEN {"none"} ELSE {handle, "terminated"}
    /\ step' = "idle"
    /\ UNCHANGED <<vrec, vm, boot, sent, closing, seen, cancel, touched, mixed, unique>>

-----------------------------------------------------------------------------
(* destroy() in another thread, beside whatever the worker does: the       *)
(* record is loaded once and saved twice.                                  *)

CancelLoads ==
    /\ cancel.step = "off" /\ vrec.phase \notin {"none", "deleted", "collision"} /\ ~InDoubt
    /\ cancel' = [step |-> "fencing", rec |-> vrec]
    /\ UNCHANGED <<vrec, handle, vm, boot, sent, step, closing, seen, touched, mixed, unique>>

CancelFences ==
    /\ cancel.step = "fencing"
    /\ vrec' = [cancel.rec EXCEPT !.phase = "terminated"]
    /\ sent' \in {sent, sent \cup {"delete"}}
    /\ cancel' = [cancel EXCEPT !.step = "confirming"]
    /\ UNCHANGED <<handle, vm, boot, step, closing, seen, touched, mixed, unique>>

CancelConfirms ==
    /\ cancel.step = "confirming"
    /\ vrec' = IF Answers200 THEN vrec ELSE [phase |-> "deleted", inflight |-> FALSE, pid |-> cancel.rec.pid]
    /\ cancel' = NoCancel
    /\ handle' \in {handle, "none"}
    /\ UNCHANGED <<vm, boot, sent, step, closing, seen, touched, mixed, unique>>

CancelDies ==
    /\ cancel.step # "off"
    /\ cancel' = NoCancel
    /\ UNCHANGED <<vrec, handle, vm, boot, sent, step, closing, seen, touched, mixed, unique>>

-----------------------------------------------------------------------------
\* The worker dies, or a request raises and the operation ends there.
WorkerDies ==
    /\ step # "idle"
    /\ step' = "idle"
    /\ touched' = IF step = "running" /\ "exec" \notin sent /\ vm = "running"
                    THEN touched \cup {boot} ELSE touched
    /\ UNCHANGED <<vrec, handle, vm, boot, sent, closing, seen, cancel, mixed, unique>>

\* The machine stops or is restarted under the same name by someone else.
MachineStops ==
    /\ vm = "running" /\ vm' = "stopped"
    /\ UNCHANGED <<vrec, handle, boot, sent, step, closing, seen, cancel, touched, mixed, unique>>

MachineRestarts ==
    /\ vm = "stopped" /\ boot > 0 /\ boot < MaxBoots
    /\ vm' = "running" /\ boot' = boot + 1
    /\ UNCHANGED <<vrec, handle, sent, step, closing, seen, cancel, touched, mixed, unique>>

SmolNext ==
    \/ Provision \/ PostCreate \/ CreateAnswered \/ StartMachine \/ RecordReady \/ HoldHandle
    \/ BeginOperation \/ JournalFence \/ SendCommand \/ Finish \/ CommandLost
    \/ Close \/ ReconcileMachine \/ FenceDestroy \/ DestroyRefused \/ DestroyAgain \/ SendDelete
    \/ ConfirmDelete \/ DestroyReturns \/ WorkerDies
    \/ CancelLoads \/ CancelFences \/ CancelConfirms \/ CancelDies
    \/ DaemonCreates \/ DaemonRuns \/ DaemonDeletes \/ MachineStops \/ MachineRestarts

SmolSpec == SmolInit /\ [][SmolNext]_smolvars

-----------------------------------------------------------------------------
\* A record that says "deleted" is true and stays true: no machine of the name
\* exists, and nothing the daemon was asked can still make one (destroy).
DeletedIsGone == unique /\ vrec.phase = "deleted" => vm = "absent" /\ "create" \notin sent

\* A command never runs in the incarnation in which an earlier command was
\* lost by its worker: that machine is fenced and destroyed first (_ready).
LostWorkNotContinued == ~mixed

\* A machine recorded as deleted is gone and stays so, and no machine carries on after a lost command.
MachinesAccountedFor == DeletedIsGone /\ LostWorkNotContinued
=============================================================================
