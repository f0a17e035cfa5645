------------------------------- MODULE Backend -------------------------------
(***************************************************************************)
(* The control loop of swfactory/backend/service.py: request threads that  *)
(* submit, deliver, reconcile, cancel and report, over three stores that   *)
(* no transaction spans: the admission store (module Admission), the Cell  *)
(* store (swfactory/cells.py) and Airflow.                                 *)
(*                                                                         *)
(* Every step on admission state is an action of module Admission, so this *)
(* specification implements Admission!Spec.  A thread takes one step per   *)
(* store transaction, Cell read or Airflow call; between two of them any   *)
(* other thread may run, the process may die, or a worker may report.      *)
(*                                                                         *)
(* Airflow is external.  A dispatch that raises may still be applied later *)
(* ("sent").  The operation journal (module OperationJournal) is used by   *)
(* its promise: mutate returns only when the effect is there, and observes *)
(* before it repeats one.                                                  *)
(*                                                                         *)
(* Simplifications: a member loop visits its Cells in any order; a Cell's  *)
(* policy digest is fixed by the order that activated it, so binding it    *)
(* can only fail on the epoch; reports carry a fresh operation key (run,   *)
(* task, try), so only the other keys are kept; while a drain transaction  *)
(* is open no other step is taken (none would read what it changes).       *)
(***************************************************************************)
EXTENDS Admission

CONSTANTS
  Threads,        \* request threads
  ProcOf,         \* [Threads -> Procs]
  DesiredEpoch,   \* [Works -> Epochs]: the Cell epochs that are part of the work id
  Attached,       \* orders of runs that Airflow's scheduler created
  Requests,       \* kinds of request the environment makes
  MaxCrashes,     \* bound on process deaths
  NoWork, NoCell

VARIABLES
  cell,      \* cell[c]: the row of Cell c, with the operation keys of its events
  airflow,   \* airflow[w]: the DAG run of order w
  thread,    \* thread[t]: local variables of the request t serves
  crashes    \* process deaths so far

backendVars == <<admissionVars, cell, airflow, thread, crashes>>

LiveCellStates == {"dispatching", "queued", "running"}
EndStates      == {"success", "failed", "cancelled", "rejected"}
CellStates     == {"created"} \cup LiveCellStates \cup EndStates
RequestKinds   == {"submit", "resume", "withdraw", "stop", "report"}

ASSUME BackendAssumption ==
  /\ ProcOf \in [Threads -> Procs]
  /\ DesiredEpoch \in [Works -> Epochs]
  /\ Attached \subseteq Works
  /\ Requests \subseteq RequestKinds
  /\ MaxCrashes \in Nat
  /\ 1 \in Epochs /\ {"success", "failed", "cancelled"} \subseteq Outcomes
  /\ NoWork \notin Works /\ NoCell \notin CellIds

Unit == Works \X CellIds \X Epochs

IdleThread ==
  [at      |-> "idle",
   work    |-> NoWork,                             \* the order delivered or withdrawn
   token   |-> NoToken,                            \* lease token of the intent
   pumping |-> FALSE,                              \* delivering on behalf of resume_dispatch
   local   |-> FALSE,                              \* nothing was sent: compensation is allowed
   todo    |-> {},                                 \* Cells the current loop has not visited
   cell    |-> NoCell,                             \* the Cell in hand
   bind    |-> [c \in CellIds |-> NoEpoch],        \* member epochs as this thread knows them
   want    |-> "none",                             \* the state it is about to write
   held    |-> {},                                 \* units to reconcile or to release
   unit    |-> <<>>,                               \* the unit in hand
   seen    |-> {},                                 \* orders this pump has tried
   owes    |-> NoWork,                             \* it closed this order and has not drained
   open    |-> FALSE,                              \* its drain transaction is open
   freed   |-> FALSE]                              \* a drain of this request admitted something

-----------------------------------------------------------------------------
(* Threads.                                                                *)

Proc(t)   == ProcOf[t]
Own(t)    == [proc |-> Proc(t), work |-> thread[t].work, token |-> thread[t].token]
Free(t)   == pass = 0 /\ thread[t].owes = NoWork /\ ~thread[t].open
At(t, p)  == Free(t) /\ thread[t].at = p
Become(t, r) == thread' = [thread EXCEPT ![t] = r]
Goto(t, p)   == Become(t, [thread[t] EXCEPT !.at = p])

\* Where a delivery returns: the pump swallows its exception, a submission does not.
Returned(t, ok) ==
  IF thread[t].pumping THEN [IdleThread EXCEPT !.at = "pump", !.seen = thread[t].seen]
  ELSE IF ok THEN [IdleThread EXCEPT !.at = "sweep"] ELSE IdleThread

\* The exception escapes _dispatch_intent without any call to the admission store.
Abort(t) ==
  /\ AttemptAborts(Own(t))
  /\ Become(t, Returned(t, FALSE))
  /\ UNCHANGED <<cell, airflow, crashes>>

\* Local state of a thread that has just claimed w: the intent carries the
\* members as they are in the claiming transaction.
Delivering(w, seen, pumping) ==
  [IdleThread EXCEPT !.at = IF w \in Attached THEN "attach" ELSE "look",
                     !.work = w, !.token = dispatch'[w].token, !.todo = Cells(w),
                     !.bind = [c \in CellIds |-> member'[w][c].epoch],
                     !.seen = seen, !.pumping = pumping]

\* CellStore.patch at the Cell's current epoch: an operation key that was used
\* before, at any epoch, changes nothing.
Patched(c, key, row) == IF key \in row.keys THEN cell[c] ELSE [row EXCEPT !.keys = @ \cup {key}]
Patch(c, key, row)   == cell' = [cell EXCEPT ![c] = Patched(c, key, row)]

Live(c) == cell[c].state \in LiveCellStates

-----------------------------------------------------------------------------

BackendInit ==
  /\ Init
  /\ cell = [c \in CellIds |->
               [epoch |-> 1, state |-> "created", by |-> NoWork, run |-> NoWork, keys |-> {}]]
  /\ airflow = [w \in Works |-> IF w \in Attached THEN "live" ELSE "absent"]
  /\ thread = [t \in Threads |-> IdleThread]
  /\ crashes = 0

-----------------------------------------------------------------------------
(* submit.  The work id contains the epochs _desired_epoch reads, so an    *)
(* order can only be submitted while they are the ones it names.           *)

Desired(c) == IF cell[c].state \in EndStates THEN cell[c].epoch + 1 ELSE cell[c].epoch
Nameable(t, w) ==
  /\ At(t, "idle")
  /\ "submit" \in Requests
  /\ \A c \in Cells(w) : Desired(c) = DesiredEpoch[w]

Submit(t, w) ==
  /\ Nameable(t, w)
  /\ \/ SubmitAdmitted(Proc(t), w) /\ Become(t, Delivering(w, {}, FALSE))
     \/ SubmitQueued(w) /\ Become(t, [IdleThread EXCEPT !.at = "sweep"])
  /\ UNCHANGED <<cell, airflow, crashes>>

\* The same order again: a holding one is delivered if nobody delivers it, a
\* queued one only pumps the outbox, a finished one is refused.
SubmitAgain(t, w) ==
  /\ Nameable(t, w)
  /\ work[w] \in UndeliveredStates \cup {"bound"}
  /\ IF Claimable(Proc(t), w)
       THEN ClaimDispatch(Proc(t), w) /\ Become(t, Delivering(w, {}, FALSE))
       ELSE UNCHANGED admissionVars /\ Goto(t, "sweep")
  /\ UNCHANGED <<cell, airflow, crashes>>

-----------------------------------------------------------------------------
(* _dispatch_intent.                                                       *)

\* _attached_run: the scheduled run is there, is not, or Airflow did not say.
Attach(t) ==
  /\ At(t, "attach")
  /\ \/ airflow[thread[t].work] = "live" /\ Goto(t, "look")
     \/ Become(t, [thread[t] EXCEPT !.at = "recover", !.local = TRUE, !.cell = NoCell])
  /\ UNCHANGED <<admissionVars, cell, airflow, crashes>>

\* Refused: assert_lease, then compensate at once.
AttachRefused(t) ==
  /\ At(t, "attach")
  /\ airflow[thread[t].work] # "live"
  /\ LeaseHeld(Own(t))
  /\ Become(t, [thread[t] EXCEPT !.at = "undo", !.want = "failed",
                                 !.bind = [c \in CellIds |-> member[thread[t].work][c].epoch]])
  /\ UNCHANGED <<admissionVars, cell, airflow, crashes>>

AttachLost(t) ==
  /\ At(t, "attach")
  /\ airflow[thread[t].work] # "live"
  /\ ~LeaseHeld(Own(t))
  /\ Abort(t)

\* Fault: any live Cell is adopted, whoever activated it.
LookTrusting(t, c) ==
  LET th == thread[t]  known == th.bind[c]
  IN  /\ At(t, "look") /\ c \in th.todo
      /\ \/ /\ known # NoEpoch /\ cell[c].epoch = known /\ Live(c)
            /\ Become(t, [th EXCEPT !.at = "policy", !.cell = c])
         \/ /\ known # NoEpoch /\ (cell[c].epoch > known \/ cell[c].state \in EndStates)
            /\ Become(t, [th EXCEPT !.at = "recover", !.local = TRUE, !.cell = NoCell])
         \/ /\ known = NoEpoch /\ Live(c)
            /\ Become(t, [th EXCEPT !.at = "record", !.cell = c, !.bind[c] = cell[c].epoch])
         \/ /\ known = NoEpoch /\ ~Live(c)
            /\ Become(t, [th EXCEPT !.at = "activate", !.cell = c])
      /\ UNCHANGED <<admissionVars, cell, airflow, crashes>>

\* _member_cell: use the recorded epoch, refuse a Cell that moved past it,
\* adopt an activation of this order nobody recorded, or activate.
Look(t, c) ==
  LET th == thread[t]  known == th.bind[c]
  IN  /\ At(t, "look") /\ c \in th.todo
      /\ \/ /\ known # NoEpoch /\ cell[c].epoch = known /\ Live(c)
            /\ Become(t, [th EXCEPT !.at = "policy", !.cell = c])
         \/ /\ known # NoEpoch /\ (cell[c].epoch > known \/ cell[c].state \in EndStates)
            /\ Become(t, [th EXCEPT !.at = "recover", !.local = TRUE, !.cell = NoCell])
         \/ /\ known = NoEpoch /\ Live(c) /\ cell[c].by = th.work
            /\ Become(t, [th EXCEPT !.at = "record", !.cell = c, !.bind[c] = cell[c].epoch])
         \/ /\ known = NoEpoch /\ ~(Live(c) /\ cell[c].by = th.work)
            /\ Become(t, [th EXCEPT !.at = "activate", !.cell = c])
      /\ UNCHANGED <<admissionVars, cell, airflow, crashes>>

\* CellStore.activate: a fresh Cell keeps its epoch, a finished one advances
\* it, an active one is busy.
Activate(t) ==
  LET th == thread[t]  c == th.cell
      epoch == IF cell[c].state = "created" THEN cell[c].epoch ELSE cell[c].epoch + 1
  IN  /\ At(t, "activate")
      /\ IF Live(c)
           THEN /\ Become(t, [th EXCEPT !.at = "recover", !.local = TRUE, !.cell = NoCell])
                /\ UNCHANGED cell
           ELSE /\ epoch \in Epochs
                /\ cell' = [cell EXCEPT ![c] =
                              [epoch |-> epoch, state |-> "dispatching", by |-> th.work,
                               run |-> NoWork, keys |-> cell[c].keys]]
                /\ Become(t, [th EXCEPT !.at = "record", !.bind[c] = epoch])
      /\ UNCHANGED <<admissionVars, airflow, crashes>>

Record(t) ==
  LET th == thread[t]
  IN  /\ At(t, "record")
      /\ \/ RecordMemberEpoch(Own(t), th.cell, th.bind[th.cell]) /\ Goto(t, "policy")
         \/ /\ ~LeaseHeld(Own(t))
            /\ Become(t, [th EXCEPT !.at = "recover", !.local = TRUE, !.cell = NoCell])
            /\ UNCHANGED admissionVars
      /\ UNCHANGED <<cell, airflow, crashes>>

\* _bind_cell_policy.
Policy(t) ==
  LET th == thread[t]
  IN  /\ At(t, "policy")
      /\ IF cell[th.cell].epoch = th.bind[th.cell]
           THEN Become(t, [th EXCEPT !.at = "look", !.todo = @ \ {th.cell}, !.cell = NoCell])
           ELSE Become(t, [th EXCEPT !.at = "recover", !.local = TRUE, !.cell = NoCell])
      /\ UNCHANGED <<admissionVars, cell, airflow, crashes>>

\* Every member is bound; an attached order has nothing to send.
MembersBound(t) ==
  LET th == thread[t]
  IN  /\ At(t, "look") /\ th.todo = {}
      /\ IF th.work \in Attached
           THEN Become(t, [th EXCEPT !.at = "bind", !.todo = Cells(th.work)])
           ELSE Goto(t, "post")
      /\ UNCHANGED <<admissionVars, cell, airflow, crashes>>

\* The journaled unpause and POST return: the deterministic run exists.
Post(t) ==
  LET th == thread[t]
  IN  /\ At(t, "post")
      /\ airflow' = [airflow EXCEPT ![th.work] = IF @ \in {"absent", "sent"} THEN "live" ELSE @]
      /\ Become(t, [th EXCEPT !.at = "bind", !.todo = Cells(th.work)])
      /\ UNCHANGED <<admissionVars, cell, crashes>>

\* Fault: a POST that raised is taken for a run.
PostRaisesUnnoticed(t) ==
  /\ At(t, "post")
  /\ airflow' = [airflow EXCEPT ![thread[t].work] = IF @ = "absent" THEN "sent" ELSE @]
  /\ Become(t, [thread[t] EXCEPT !.at = "bind", !.todo = Cells(thread[t].work)])
  /\ UNCHANGED <<admissionVars, cell, crashes>>

\* They raise: the request may be applied now, later or never.
PostRaises(t) ==
  /\ At(t, "post")
  /\ airflow' = [airflow EXCEPT ![thread[t].work] = IF @ = "absent" THEN "sent" ELSE @]
  /\ Become(t, [thread[t] EXCEPT !.at = "recover", !.local = FALSE])
  /\ UNCHANGED <<admissionVars, cell, crashes>>

\* _bind_run, the read of one Cell: only a dispatching Cell will be patched.
BindLook(t, c) ==
  LET th == thread[t]
  IN  /\ At(t, "bind") /\ c \in th.todo
      /\ IF cell[c].state = "dispatching"
           THEN Become(t, [th EXCEPT !.at = "bound", !.cell = c]) /\ UNCHANGED admissionVars
         ELSE IF cell[c].run \in {NoWork, th.work}
           THEN Become(t, [th EXCEPT !.todo = @ \ {c}]) /\ UNCHANGED admissionVars
         ELSE AttemptAborts(Own(t)) /\ Become(t, Returned(t, FALSE))
      /\ UNCHANGED <<cell, airflow, crashes>>

\* _bind_run, the patch: fenced on the epoch, not on the state that was read.
BindPatch(t) ==
  LET th == thread[t]  c == th.cell
  IN  /\ At(t, "bound")
      /\ IF cell[c].epoch = th.bind[c]
           THEN /\ Patch(c, <<"bind", th.work>>, [cell[c] EXCEPT !.state = "queued", !.run = th.work])
                /\ Become(t, [th EXCEPT !.at = "bind", !.todo = @ \ {c}, !.cell = NoCell])
                /\ UNCHANGED admissionVars
           ELSE AttemptAborts(Own(t)) /\ Become(t, Returned(t, FALSE)) /\ UNCHANGED cell
      /\ UNCHANGED <<airflow, crashes>>

\* Fault: the run is recorded although the lease is gone.
DeliveredLate(t) ==
  LET w == thread[t].work
  IN  /\ At(t, "bind") /\ thread[t].todo = {}
      /\ dispatch' = [dispatch EXCEPT ![w] = Unleased(@, "delivered")]
      /\ work' = [work EXCEPT ![w] = IF @ = "dispatching" THEN "bound" ELSE @]
      /\ Returns(Own(t))
      /\ Become(t, Returned(t, TRUE))
      /\ UNCHANGED <<member, seq, nextSeq, deficit, owed, pass, cell, airflow, crashes>>

\* record_dispatch; a lost lease escapes as an exception.
Delivered(t) ==
  /\ At(t, "bind") /\ thread[t].todo = {}
  /\ \/ RecordDispatch(Own(t)) /\ Become(t, Returned(t, TRUE))
     \/ ~LeaseHeld(Own(t)) /\ AttemptAborts(Own(t)) /\ Become(t, Returned(t, FALSE))
  /\ UNCHANGED <<cell, airflow, crashes>>

-----------------------------------------------------------------------------
(* _recover_dispatch and _retire_dispatch.                                 *)

Recover(t) ==
  /\ At(t, "recover")
  /\ \/ ~LeaseHeld(Own(t)) /\ NoteOutcome(Own(t))
     \/ dispatch[thread[t].work].attempt < MaxAttempts /\ ReleaseDispatch(Own(t))
  /\ Become(t, Returned(t, FALSE))
  /\ UNCHANGED <<cell, airflow, crashes>>

\* Fault: the attempt that spent the budget just returns.
RetireQuietly(t) ==
  /\ At(t, "recover")
  /\ LeaseHeld(Own(t)) /\ dispatch[thread[t].work].attempt >= MaxAttempts
  /\ Abort(t)

\* The budget is spent and this attempt still owns the intent.
Retire(t) ==
  LET th == thread[t]
  IN  /\ At(t, "recover")
      /\ LeaseHeld(Own(t)) /\ dispatch[th.work].attempt >= MaxAttempts
      /\ Become(t, [th EXCEPT !.at = IF th.local THEN "undo" ELSE "observe", !.want = "failed",
                              !.todo = Cells(th.work),
                              !.bind = [c \in CellIds |-> member[th.work][c].epoch]])
      /\ UNCHANGED <<admissionVars, cell, airflow, crashes>>

\* _observe_dispatch: a 404 is proof; anything else keeps the capacity.
Observe(t) ==
  /\ At(t, "observe")
  /\ \/ airflow[thread[t].work] \in {"absent", "sent"} /\ Goto(t, "undo") /\ UNCHANGED admissionVars
     \/ MarkUndeliverable(Own(t)) /\ Become(t, Returned(t, FALSE))
  /\ UNCHANGED <<cell, airflow, crashes>>

\* _cancel_activations, the read: Cells this order recorded, at that epoch,
\* live and without a run.
UndoLook(t, c) ==
  LET th == thread[t]
  IN  /\ At(t, "undo") /\ c \in th.todo
      /\ IF cell[c].epoch = th.bind[c] /\ Live(c) /\ cell[c].run = NoWork
           THEN Become(t, [th EXCEPT !.at = "undone", !.cell = c])
           ELSE Become(t, [th EXCEPT !.todo = @ \ {c}])
      /\ UNCHANGED <<admissionVars, cell, airflow, crashes>>

UndoPatch(t) ==
  LET th == thread[t]  c == th.cell
  IN  /\ At(t, "undone")
      /\ IF cell[c].epoch = th.bind[c]
           THEN Patch(c, <<"undo", th.work, th.token>>, [cell[c] EXCEPT !.state = "cancelled"])
           ELSE UNCHANGED cell
      /\ Become(t, [th EXCEPT !.at = "undo", !.todo = @ \ {c}, !.cell = NoCell])
      /\ UNCHANGED <<admissionVars, airflow, crashes>>

\* admission.cancel: nothing happens when the order is closed or bound.
UndoEnds(t) ==
  LET th == thread[t]
      done == [th EXCEPT !.at = IF th.want = "failed" THEN "leave" ELSE "sweep"]
  IN  /\ At(t, "undo") /\ th.todo = {}
      /\ \/ Cancel(Proc(t), th.work, th.want) /\ Become(t, [done EXCEPT !.owes = th.work])
         \/ work[th.work] \notin UndeliveredStates /\ UNCHANGED admissionVars /\ Become(t, done)
      /\ UNCHANGED <<cell, airflow, crashes>>

\* The compensated attempt re-raises.
Leave(t) == At(t, "leave") /\ Abort(t)

-----------------------------------------------------------------------------
(* drain, called by the thread whose cancel or complete closed an order.   *)

OpenDrain(t) ==
  /\ thread[t].owes # NoWork
  /\ BeginDrain(Proc(t), thread[t].owes)
  /\ Become(t, [thread[t] EXCEPT !.owes = NoWork, !.open = TRUE])
  /\ UNCHANGED <<cell, airflow, crashes>>

StepDrain(t) ==
  /\ thread[t].open
  /\ \/ /\ DrainEmpty \/ \E w \in Works : DrainBlocked(w)
        /\ Become(t, [thread[t] EXCEPT !.open = pass' > 0])
     \/ /\ \E w \in Works : DrainAdmit(w)
        /\ Become(t, [thread[t] EXCEPT !.open = pass' > 0, !.freed = TRUE])
  /\ UNCHANGED <<cell, airflow, crashes>>

-----------------------------------------------------------------------------
(* resume_dispatch: first _reconcile_held_units, then the pump.            *)

Resume(t) ==
  /\ At(t, "idle")
  /\ "resume" \in Requests
  /\ Goto(t, "sweep")
  /\ UNCHANGED <<admissionVars, cell, airflow, crashes>>

\* held_memberships.
Sweep(t) ==
  /\ At(t, "sweep")
  /\ Become(t, [IdleThread EXCEPT !.at = "reconcile",
                  !.held = {u \in Unit : /\ <<u[1], u[2]>> \in HeldMembers
                                         /\ member[u[1]][u[2]].epoch = u[3]}])
  /\ UNCHANGED <<admissionVars, cell, airflow, crashes>>

\* Fault: Airflow is never asked about a live Cell.
ReconcileCellOnly(t, u) ==
  LET th == [thread[t] EXCEPT !.held = @ \ {u}, !.unit = u]  c == u[2]
  IN  /\ At(t, "reconcile") /\ u \in thread[t].held
      /\ IF cell[c].epoch > u[3]
           THEN Become(t, [th EXCEPT !.at = "complete", !.want = "cancelled"])
         ELSE IF cell[c].epoch = u[3] /\ cell[c].state \in EndStates
           THEN Become(t, [th EXCEPT !.at = "complete", !.want = cell[c].state])
         ELSE Become(t, [th EXCEPT !.unit = <<>>])
      /\ UNCHANGED <<admissionVars, cell, airflow, crashes>>

\* One unit compared with its Cell.
Reconcile(t, u) ==
  LET th == [thread[t] EXCEPT !.held = @ \ {u}, !.unit = u]  c == u[2]
  IN  /\ At(t, "reconcile") /\ u \in thread[t].held
      /\ IF cell[c].epoch > u[3]
           THEN Become(t, [th EXCEPT !.at = "complete", !.want = "cancelled"])
         ELSE IF cell[c].epoch = u[3] /\ cell[c].state \in EndStates
           THEN Become(t, [th EXCEPT !.at = "complete", !.want = cell[c].state])
         ELSE IF cell[c].epoch = u[3] /\ Live(c) /\ cell[c].run # NoWork
           THEN Become(t, [th EXCEPT !.at = "settle"])
         ELSE Become(t, [th EXCEPT !.unit = <<>>])
      /\ UNCHANGED <<admissionVars, cell, airflow, crashes>>

\* _settle_lost_report, the GET: a live run settles nothing, a removed one is
\* cancelled.
Settle(t) ==
  LET th == thread[t]  run == cell[th.unit[2]].run
  IN  /\ At(t, "settle")
      /\ IF run = NoWork \/ airflow[run] = "live"
           THEN Become(t, [th EXCEPT !.at = "reconcile", !.unit = <<>>])
           ELSE Become(t, [th EXCEPT !.at = "settled",
                             !.want = IF airflow[run] \in {"success", "failed"} THEN airflow[run] ELSE "cancelled"])
      /\ UNCHANGED <<admissionVars, cell, airflow, crashes>>

\* Too early to ask, or Airflow does not answer.
SettleNothing(t) ==
  /\ At(t, "settle")
  /\ Become(t, [thread[t] EXCEPT !.at = "reconcile", !.unit = <<>>])
  /\ UNCHANGED <<admissionVars, cell, airflow, crashes>>

\* Its patch, fenced on the epoch.
SettlePatch(t) ==
  LET th == thread[t]  c == th.unit[2]
  IN  /\ At(t, "settled")
      /\ IF cell[c].epoch = th.unit[3]
           THEN /\ Patch(c, <<"settle", cell[c].run, th.want>>, [cell[c] EXCEPT !.state = th.want])
                /\ Goto(t, "complete")
           ELSE UNCHANGED cell /\ Become(t, [th EXCEPT !.at = "reconcile", !.unit = <<>>, !.want = "none"])
      /\ UNCHANGED <<admissionVars, airflow, crashes>>

\* admission.complete by thread t, which drains when it closed the order; a
\* unit that is not held any more is left alone.
CompleteBy(t, u, next) ==
  \/ /\ Complete(Proc(t), u[1], u[2], u[3], thread[t].want)
     /\ Become(t, [next EXCEPT !.owes = IF work'[u[1]] \in TerminalStates THEN u[1] ELSE NoWork])
  \/ /\ member[u[1]][u[2]] # [epoch |-> u[3], state |-> "held"]
     /\ UNCHANGED admissionVars
     /\ Become(t, next)

CompleteUnit(t) ==
  /\ At(t, "complete")
  /\ CompleteBy(t, thread[t].unit, [thread[t] EXCEPT !.at = "reconcile", !.unit = <<>>, !.want = "none"])
  /\ UNCHANGED <<cell, airflow, crashes>>

StartPump(t) ==
  /\ At(t, "reconcile") /\ thread[t].held = {}
  /\ Become(t, [IdleThread EXCEPT !.at = "pump"])
  /\ UNCHANGED <<admissionVars, cell, airflow, crashes>>

\* pending_dispatch.
Pending(w) ==
  /\ dispatch[w].state \in {"pending", "inflight"}
  /\ work[w] = "admitted" \/ (work[w] = "dispatching" /\ ~dispatch[w].lease)

Pump(t, w) ==
  /\ At(t, "pump") /\ Pending(w) /\ w \notin thread[t].seen
  /\ IF Claimable(Proc(t), w)
       THEN /\ ClaimDispatch(Proc(t), w)
            /\ Become(t, Delivering(w, thread[t].seen \cup {w}, TRUE))
       ELSE /\ UNCHANGED admissionVars
            /\ Become(t, [thread[t] EXCEPT !.seen = @ \cup {w}])
  /\ UNCHANGED <<cell, airflow, crashes>>

PumpEnds(t) ==
  /\ At(t, "pump") /\ \A w \in Works : Pending(w) => w \in thread[t].seen
  /\ Become(t, IdleThread)
  /\ UNCHANGED <<admissionVars, cell, airflow, crashes>>

-----------------------------------------------------------------------------
(* routes._queue_cancel: an operator withdraws an order that is not bound. *)

Withdraw(t, w) ==
  /\ At(t, "idle")
  /\ "withdraw" \in Requests
  /\ work[w] \notin {"absent", "bound"}
  /\ Become(t, [IdleThread EXCEPT !.at = "undo", !.work = w, !.want = "cancelled",
                  !.todo = Cells(w), !.bind = [c \in CellIds |-> member[w][c].epoch]])
  /\ UNCHANGED <<admissionVars, cell, airflow, crashes>>

-----------------------------------------------------------------------------
(* _transition: a report of a worker, or an operator who stops a run.      *)

\* The states a Cell may be asked to leave.
MayMove(from, to) ==
  /\ from \in EndStates \ {"success"} => to = from
  /\ from = "success" => to \in {"success", "failed"}
  /\ to = "running" => from \in LiveCellStates

\* A worker of w reports on its Cell, at the epoch its run was given.
Report(t, w, c, state) ==
  /\ At(t, "idle")
  /\ "report" \in Requests
  /\ airflow[w] \in {"live", "success", "failed"}
  /\ w \in Attached => dispatch[w].state = "delivered"
  /\ c \in Cells(w) /\ state \in (Outcomes \cap (EndStates \ {"cancelled"})) \cup {"running"}
  /\ cell[c].epoch = member[w][c].epoch
  /\ MayMove(cell[c].state, state)
  /\ Become(t, [IdleThread EXCEPT !.at = "patch", !.want = state, !.unit = <<w, c, cell[c].epoch>>])
  /\ UNCHANGED <<admissionVars, cell, airflow, crashes>>

\* compatibility, PATCH dagRuns: every Cell of the run is asked to cancel.
StopRun(t, c) ==
  /\ At(t, "idle")
  /\ "stop" \in Requests
  /\ cell[c].run # NoWork
  /\ Live(c) \/ cell[c].state = "cancelled"
  /\ Become(t, [IdleThread EXCEPT !.at = "patch", !.want = "cancelled", !.local = TRUE,
                                  !.unit = <<cell[c].run, c, cell[c].epoch>>])
  /\ UNCHANGED <<admissionVars, cell, airflow, crashes>>

\* The patch: fenced on the epoch, not on the state that was read.
TransitionPatch(t) ==
  LET th == thread[t]  c == th.unit[2]  row == [cell[c] EXCEPT !.state = th.want]
  IN  /\ At(t, "patch")
      /\ IF cell[c].epoch # th.unit[3]
           THEN UNCHANGED cell /\ Become(t, IdleThread)
         ELSE IF th.local
           THEN Patch(c, <<"stop", th.unit[1]>>, row) /\ Goto(t, "stop")
         ELSE /\ cell' = [cell EXCEPT ![c] = row]
              /\ IF th.want \in EndStates THEN Goto(t, "members") ELSE Become(t, IdleThread)
      /\ UNCHANGED <<admissionVars, airflow, crashes>>

\* _journal_airflow_cancel returns: the run is terminal or gone.
StopReturns(t) ==
  /\ At(t, "stop")
  /\ airflow' = [airflow EXCEPT ![thread[t].unit[1]] = IF @ = "live" THEN "failed" ELSE @]
  /\ Goto(t, "members")
  /\ UNCHANGED <<admissionVars, cell, crashes>>

\* It raises: nothing is known, and nothing is released by this request.
StopRaises(t) ==
  /\ At(t, "stop")
  /\ Become(t, IdleThread)
  /\ UNCHANGED <<admissionVars, cell, airflow, crashes>>

\* release_cell: members_for_cell, then one complete per membership.
MembersForCell(t) ==
  LET th == thread[t]  c == th.unit[2]  e == th.unit[3]
  IN  /\ At(t, "members")
      /\ Become(t, [th EXCEPT !.at = "release",
                      !.held = {<<w, c, e>> : w \in {v \in Works :
                                   member[v][c] = [epoch |-> e, state |-> "held"]}}])
      /\ UNCHANGED <<admissionVars, cell, airflow, crashes>>

Release(t, u) ==
  /\ At(t, "release") /\ u \in thread[t].held
  /\ CompleteBy(t, u, [thread[t] EXCEPT !.held = @ \ {u}])
  /\ UNCHANGED <<cell, airflow, crashes>>

\* Only a drain that admitted something is followed by a resume.
ReleaseEnds(t) ==
  /\ At(t, "release") /\ thread[t].held = {}
  /\ IF thread[t].freed THEN Goto(t, "sweep") ELSE Become(t, IdleThread)
  /\ UNCHANGED <<admissionVars, cell, airflow, crashes>>

\* A "cleaned" report leaves the state alone and releases a finished Cell's units.
Cleaned(t, c) ==
  /\ At(t, "idle")
  /\ "report" \in Requests
  /\ cell[c].state \in EndStates /\ cell[c].run # NoWork
  /\ Become(t, [IdleThread EXCEPT !.at = "members", !.want = cell[c].state,
                                  !.unit = <<cell[c].run, c, cell[c].epoch>>])
  /\ UNCHANGED <<admissionVars, cell, airflow, crashes>>

-----------------------------------------------------------------------------
(* Airflow, the clock, process deaths.                                     *)

RunAppears(w) ==
  /\ airflow[w] = "sent"
  /\ airflow' = [airflow EXCEPT ![w] = "live"]
  /\ UNCHANGED <<admissionVars, cell, thread, crashes>>

RunEnds(w) ==
  /\ airflow[w] = "live"
  /\ \E outcome \in {"success", "failed"} : airflow' = [airflow EXCEPT ![w] = outcome]
  /\ UNCHANGED <<admissionVars, cell, thread, crashes>>

Expire(w) == LeaseExpires(w) /\ pass = 0 /\ UNCHANGED <<cell, airflow, thread, crashes>>

ProcessDies(q) ==
  /\ crashes < MaxCrashes
  /\ crashes' = crashes + 1
  /\ Crash(q)
  /\ thread' = [t \in Threads |-> IF ProcOf[t] = q THEN IdleThread ELSE thread[t]]
  /\ UNCHANGED <<cell, airflow>>

-----------------------------------------------------------------------------

\* What a thread does with the request it has.
Step(t) ==
  \/ Attach(t) \/ AttachRefused(t) \/ AttachLost(t)
  \/ \E c \in CellIds : Look(t, c) \/ BindLook(t, c) \/ UndoLook(t, c)
  \/ Activate(t) \/ Record(t) \/ Policy(t) \/ MembersBound(t) \/ Post(t) \/ BindPatch(t) \/ Delivered(t)
  \/ Recover(t) \/ Retire(t) \/ Observe(t) \/ UndoPatch(t) \/ UndoEnds(t) \/ Leave(t)
  \/ OpenDrain(t) \/ StepDrain(t)
  \/ Sweep(t) \/ Settle(t) \/ SettlePatch(t) \/ CompleteUnit(t) \/ StartPump(t) \/ PumpEnds(t)
  \/ \E u \in thread[t].held : Reconcile(t, u) \/ Release(t, u)
  \/ \E w \in Works : Pump(t, w)
  \/ TransitionPatch(t) \/ StopReturns(t) \/ MembersForCell(t) \/ ReleaseEnds(t)

\* The requests that arrive, and the Airflow calls that fail.
Ask(t) ==
  \/ \E w \in Works : Submit(t, w) \/ SubmitAgain(t, w) \/ Withdraw(t, w)
  \/ \E w \in Works, c \in CellIds, s \in CellStates : Report(t, w, c, s)
  \/ \E c \in CellIds : StopRun(t, c) \/ Cleaned(t, c)
  \/ Resume(t)

BackendNext ==
  \/ \E t \in Threads : Step(t) \/ Ask(t) \/ PostRaises(t) \/ SettleNothing(t) \/ StopRaises(t)
  \/ \E w \in Works : RunAppears(w) \/ RunEnds(w) \/ Expire(w)
  \/ \E q \in Procs : ProcessDies(q)

BackendSpec == BackendInit /\ [][BackendNext]_backendVars

\* A thread finishes the request it has; the maintenance DAG asks for a resume
\* again and again; a run ends, a lease runs out, and an Airflow that is asked
\* again and again about an ended run answers at last.
Fairness ==
  /\ \A t \in Threads : /\ WF_backendVars(Step(t))
                        /\ SF_backendVars(Resume(t))
                        /\ SF_backendVars(Settle(t))
  /\ \A w \in Works : WF_backendVars(RunEnds(w)) /\ WF_backendVars(Expire(w))

-----------------------------------------------------------------------------
(* Properties.                                                             *)

\* Whatever threads, workers, Airflow and process deaths do between two store
\* transactions, the admission store sees only the steps of module Admission: no
\* delivery, compensation or repair writes it with a lease it lost or a unit it
\* does not hold.
ImplementsAdmission == Spec

\* work_order_for_cell: "Cell epoch must belong to exactly one durable work
\* order".  Two orders that compete for one Cell, a delivery that is repeated by
\* another thread and an activation that is adopted never record the same epoch.
OneOwnerPerEpoch ==
  \A w, v \in Works, c \in CellIds :
    (member[w][c].epoch # NoEpoch /\ member[w][c].epoch = member[v][c].epoch) => w = v

\* The answer "submitted" is never given for a run that does not exist: a bound
\* order and a Cell that names a run have that run in Airflow, and a Cell names
\* only the run of the order that activated it.
RunBehindDelivery ==
  /\ \A w \in Works : work[w] = "bound" => airflow[w] \notin {"absent", "sent"}
  /\ \A c \in CellIds : cell[c].run # NoWork =>
       cell[c].by = cell[c].run /\ airflow[cell[c].run] \notin {"absent", "sent"}

\* "terminal Factory Cell cannot transition": a finished Cell moves only from
\* success to failed, or to a new epoch.
FinishedCellStays ==
  [][\A c \in CellIds :
       (cell[c].state \in EndStates /\ cell'[c].epoch = cell[c].epoch) =>
         cell'[c].state \in {cell[c].state} \cup (IF cell[c].state = "success" THEN {"failed"} ELSE {})]_backendVars

\* A report that comes before _bind_run moves its Cell out of "dispatching": _bind_run leaves it, it never
\* names its run, and reconciliation cannot ask Airflow about it.  Only its own final report frees it.
RunUnnamed(w) ==
  \E c \in Cells(w) : cell[c].epoch = member[w][c].epoch /\ Live(c) /\ cell[c].run = NoWork

\* compatibility answers 202 for a queued order: it "will be delivered when
\* capacity frees up".  Unless the process dies, it leaves the queue or its capacity
\* is kept by an order that was declared undeliverable or whose Cell does not name its run.
QueuedIsServed ==
  \A w \in Works : work[w] = "queued" ~>
    \/ work[w] # "queued" \/ crashes > 0
    \/ \E v \in Works : dispatch[v].state = "undeliverable" \/ (work[v] = "bound" /\ RunUnnamed(v))

\* durable_admission's docstring: "Spending the budget must never mean keep the
\* unit and go quiet".  An attempt ends: delivered, closed, handed back or marked.
\* The last attempt ends too, unless the process dies.
AttemptsEnd ==
  \A w \in Works : work[w] = "dispatching" ~>
    (work[w] # "dispatching" \/ (crashes > 0 /\ dispatch[w].attempt = MaxAttempts))

\* _reconcile_held_units: no reservation "holds a unit that nothing will ever ask
\* for back".  A bound order gives its units back, although reports are lost or the
\* process dies between ending the Cell and closing the reservation; what it cannot get back is the
\* unit of a Cell that does not name its run.
BoundEnds == \A w \in Works : work[w] = "bound" ~> (work[w] \in TerminalStates \/ RunUnnamed(w))

=============================================================================
