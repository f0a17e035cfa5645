------------------------------ MODULE MappedJob ------------------------------
(***************************************************************************)
(* One mapped job of a line's DAG (dags/blueprints.py) and its reports to  *)
(* the Factory Cell (swfactory/cell_callback.py): the tasks with their     *)
(* trigger rules, retries and failure callbacks, the debt a task leaves in *)
(* XCom when a report is not delivered, and the replay of that debt.       *)
(*                                                                         *)
(* The line has one gated stage and one stage after it.  The Cell changes  *)
(* in one step per request here; Backend has the steps of a transition.    *)
(* A request may be lost, an answer may be lost, a worker may die, and the *)
(* Cell may be cancelled or taken to its next epoch meanwhile.             *)
(***************************************************************************)
EXTENDS Naturals, Sequences, SequencesExt

CONSTANTS
  TaskRetries,   \* retries of setup, deliver and teardown
  MaxMishaps     \* bound on lost messages, deaths, errors of a task's own work and cancellations

ASSUME JobAssumption == TaskRetries \in Nat /\ MaxMishaps \in Nat

VARIABLES
  autonomous,   \* the job is of the autonomous line: policy gate, merge task
  ti,           \* ti[t]: state and try number of a task instance
  attempt,      \* the attempt in progress
  debts,        \* debts[t]: reports task t could not deliver, oldest first
  jobCell,      \* the Cell: epoch, state, and whether its cleanup is recorded
  decision,     \* the gate's answer, and what is in approvals.json
  shown,        \* the pull request: "none", "plain", "rejected" or "merged"
  jobBox,       \* the job's sandbox: "none", "live" or "closed"
  dagRun,       \* the Airflow run: "open", "success" or "failed"
  mishaps,
  silent        \* a task ended with no report and no debt

jobVars == <<autonomous, ti, attempt, debts, jobCell, decision, shown, jobBox, dagRun, mishaps, silent>>

TaskLine == IF autonomous
  THEN <<"setup", "stage", "record", "work", "deliver", "merge", "metrics", "teardown">>
  ELSE <<"setup", "stage", "approve", "record", "work", "deliver", "metrics", "teardown">>
JobTasks == {TaskLine[i] : i \in DOMAIN TaskLine}

Finals    == {"success", "failed", "skipped", "upstream_failed"}
CellLive  == {"dispatching", "queued", "running"}
Unclaimed == [task |-> "none", step |-> "idle", phase |-> "body", want |-> "none", todo |-> <<>>]

JobInit ==
  /\ autonomous \in BOOLEAN
  /\ ti = [t \in JobTasks |-> [state |-> "none", try |-> 0]]
  /\ attempt = Unclaimed
  /\ debts = [t \in JobTasks |-> <<>>]
  /\ jobCell = [epoch |-> 1, state |-> "queued", cleaned |-> FALSE]
  /\ decision = [answer |-> "none", recorded |-> "none"]
  /\ shown = "none" /\ jobBox = "none" /\ dagRun = "open" /\ mishaps = 0 /\ silent = FALSE

Mishap == mishaps < MaxMishaps /\ mishaps' = mishaps + 1

-----------------------------------------------------------------------------
(* Airflow: trigger rules, attempts and retries.                           *)

Retries(t) == IF t \in {"setup", "deliver", "teardown"} THEN TaskRetries ELSE 0

\* What the trigger rule makes of a task whose upstream ended as up: deliver and metrics run unless
\* something failed, the other tasks only on success, teardown whenever its setup succeeded.
Triggered(t, up) ==
  IF t = "teardown" THEN IF ti["setup"].state = "success" THEN "running" ELSE "upstream_failed"
  ELSE IF up \in {"failed", "upstream_failed"} THEN "upstream_failed"
  ELSE IF up = "skipped" /\ t \notin {"deliver", "metrics"} THEN "skipped"
  ELSE "running"

\* A task is scheduled once its upstream is final; one that does not run is final at once.
ScheduleTask(i) ==
  LET t == TaskLine[i]
      verdict == IF i = 1 THEN "running" ELSE Triggered(t, ti[TaskLine[i - 1]].state) IN
  /\ dagRun = "open" /\ attempt = Unclaimed /\ ti[t].state = "none"
  /\ i > 1 => ti[TaskLine[i - 1]].state \in Finals
  /\ ti' = [ti EXCEPT ![t] = [state |-> verdict, try |-> IF verdict = "running" THEN 1 ELSE 0]]
  /\ attempt' = IF verdict = "running" THEN [Unclaimed EXCEPT !.task = t, !.step = "ctx"] ELSE Unclaimed
  /\ UNCHANGED <<autonomous, debts, jobCell, decision, shown, jobBox, dagRun, mishaps, silent>>

\* A retry.  Whether Airflow still shows the rows of the earlier try is left open.
RetryTask(t) ==
  /\ ti[t].state = "up_for_retry"
  /\ ti' = [ti EXCEPT ![t] = [state |-> "running", try |-> @.try + 1]]
  /\ attempt' = [Unclaimed EXCEPT !.task = t, !.step = "ctx"]
  /\ debts' \in {debts, [debts EXCEPT ![t] = <<>>]}
  /\ UNCHANGED <<autonomous, jobCell, decision, shown, jobBox, dagRun, mishaps, silent>>

Ended(t, state) == ti' = [ti EXCEPT ![t].state = state] /\ attempt' = Unclaimed

\* A failed try is retried; after the last one the failure callback runs, where the task has one.
AttemptFails(t) ==
  IF ti[t].try <= Retries(t) THEN Ended(t, "up_for_retry")
  ELSE IF t \in {"approve", "teardown"} THEN Ended(t, "failed")
  ELSE /\ UNCHANGED ti
       /\ attempt' = [attempt EXCEPT !.phase = "callback", !.want = "failed", !.step = "settle"]

\* After the callback the task is failed; that of setup also closes what setup may have created.
CallbackEnds(t) ==
  IF attempt.phase = "callback" /\ t = "setup"
  THEN attempt' = [attempt EXCEPT !.phase = "closing", !.step = "ctx"] /\ UNCHANGED ti
  ELSE Ended(t, "failed")

Raises(t) == IF attempt.phase = "body" THEN AttemptFails(t) ELSE CallbackEnds(t)

WorkerDies ==
  /\ attempt # Unclaimed /\ Mishap /\ silent' = TRUE
  /\ Ended(attempt.task, IF attempt.phase = "body" /\ ti[attempt.task].try <= Retries(attempt.task)
                         THEN "up_for_retry" ELSE "failed")
  /\ UNCHANGED <<autonomous, debts, jobCell, decision, shown, jobBox, dagRun>>

-----------------------------------------------------------------------------
(* The body of a task.                                                     *)

\* Mutant: the autonomous line reports success when the pull request is open.
ReportOfUnmerged(t) ==
  IF t = "setup" THEN "running" ELSE IF t \in {"deliver", "merge"} THEN "success"
  ELSE IF t = "record" /\ decision.answer = "reject" THEN "rejected"
  ELSE IF t = "teardown" THEN "cleaned" ELSE "none"

\* The lifecycle report a task makes when its work is done.
ReportOf(t) ==
  IF t = "setup" THEN "running"
  ELSE IF t = (IF autonomous THEN "merge" ELSE "deliver") THEN "success"
  ELSE IF t = "record" /\ decision.answer = "reject" THEN "rejected"
  ELSE IF t = "teardown" THEN "cleaned"
  ELSE "none"

\* runtime.build_ctx: every managed task reads the Cell's epoch back first; the gate task has no context.
BuildContext ==
  /\ attempt.step = "ctx"
  /\ \/ /\ attempt.task = "approve" \/ jobCell.epoch = 1
        /\ attempt' = [attempt EXCEPT !.step = "work"]
        /\ UNCHANGED <<ti, mishaps>>
     \/ jobCell.epoch # 1 /\ attempt.task # "approve" /\ Raises(attempt.task) /\ UNCHANGED mishaps
     \/ attempt.task # "approve" /\ Mishap /\ Raises(attempt.task)
  /\ UNCHANGED <<autonomous, debts, jobCell, decision, shown, jobBox, dagRun, silent>>

\* core_capabilities: a Cell that has ended, or another epoch, causes no new effect; a receipt is replayed.
MayPublish == shown # "none" \/ (jobCell.epoch = 1 /\ jobCell.state \in CellLive)
MayMerge   == jobCell.epoch = 1 /\ jobCell.state \in CellLive

\* The work of a task, done: its effect, then its report or its end.
TaskWorks(answer) ==
  LET t == attempt.task IN
  /\ attempt.step = "work"
  /\ t = "deliver" => MayPublish
  /\ t = "merge" => MayMerge
  /\ decision' = IF t = "approve" THEN [decision EXCEPT !.answer = answer]
                 ELSE IF t = "record"
                      THEN [answer |-> IF autonomous THEN "approve" ELSE decision.answer,
                            recorded |-> IF autonomous THEN "approve" ELSE decision.answer]
                 ELSE decision
  /\ shown' = IF t = "deliver" /\ shown = "none"
              THEN IF decision.recorded = "reject" THEN "rejected" ELSE "plain"
              ELSE IF t = "merge" THEN "merged" ELSE shown
  /\ jobBox' = IF t = "setup" /\ attempt.phase = "body" THEN "live"
               ELSE IF t = "teardown" \/ attempt.phase = "closing" THEN "closed" ELSE jobBox
  /\ LET want == IF attempt.phase = "closing" THEN "cleaned" ELSE ReportOf(t) IN
     IF want = "none" THEN Ended(t, "success")
     ELSE attempt' = [attempt EXCEPT !.want = want, !.step = "settle"] /\ UNCHANGED ti
  /\ UNCHANGED <<autonomous, debts, jobCell, dagRun, mishaps, silent>>

\* The work raises: refused by the Cell, or by an error of its own (setup may have made its sandbox,
\* a person may not have answered in time, a merge may have timed out).
WorkRaises ==
  LET t == attempt.task
      refused == (t = "deliver" /\ ~MayPublish) \/ (t = "merge" /\ ~MayMerge) IN
  /\ attempt.step = "work"
  /\ Raises(t)
  /\ IF refused THEN UNCHANGED <<mishaps, silent>>
     ELSE Mishap /\ silent' = (silent \/ t = "approve")
  /\ jobBox' \in IF t = "setup" /\ attempt.phase = "body" THEN {jobBox, "live"} ELSE {jobBox}
  /\ UNCHANGED <<autonomous, debts, jobCell, decision, shown, dagRun>>

-----------------------------------------------------------------------------
(* report: settle what the job owes, then post the state.                  *)

\* Backend._transition: what the Cell accepts of a caller of epoch 1.
Accepts(want) ==
  /\ jobCell.epoch = 1
  /\ \/ want = "cleaned"
     \/ jobCell.state \in CellLive
     \/ jobCell.state = "success" /\ want \in {"success", "failed"}
     \/ jobCell.state = want /\ want # "running"

Transitioned(want) ==
  jobCell' = IF want = "cleaned" THEN [jobCell EXCEPT !.cleaned = TRUE] ELSE [jobCell EXCEPT !.state = want]

\* CellCallbackError in report: the debt is written down, if XCom can be written, before the error
\* goes on.  n is 1 when the cause is itself a mishap, 0 for a refusal.
ReportFails(n) ==
  LET t == attempt.task IN
  /\ \/ /\ mishaps + n <= MaxMishaps /\ mishaps' = mishaps + n
        /\ debts' = [debts EXCEPT ![t] = IF Contains(@, attempt.want) THEN @ ELSE Append(@, attempt.want)]
        /\ UNCHANGED silent
     \/ /\ mishaps + n < MaxMishaps /\ mishaps' = mishaps + n + 1
        /\ silent' = TRUE /\ UNCHANGED debts
  /\ Raises(t)

\* outstanding: the rows of the job's tasks, in the order of the DAG.
ReadDebts ==
  /\ attempt.step = "settle"
  /\ attempt' = [attempt EXCEPT !.step = "inspect", !.todo = FlattenSeq([i \in DOMAIN TaskLine |-> debts[TaskLine[i]]])]
  /\ UNCHANGED <<autonomous, ti, debts, jobCell, decision, shown, jobBox, dagRun, mishaps, silent>>

\* reconcile_callback: a debt is void once the epoch moved or the Cell ended otherwise.
MustReplay(owed) ==
  /\ jobCell.epoch = 1
  /\ jobCell.state # owed
  /\ jobCell.state \notin {"success", "failed", "cancelled"}

\* settle: the Cell is inspected for each debt; an unreachable backend fails this report too.
InspectDebt ==
  /\ attempt.step = "inspect" /\ attempt.todo # <<>>
  /\ \/ /\ attempt' = IF MustReplay(Head(attempt.todo)) THEN [attempt EXCEPT !.step = "replay"]
                      ELSE [attempt EXCEPT !.todo = Tail(@)]
        /\ UNCHANGED <<ti, debts, mishaps, silent>>
     \/ ReportFails(1)
  /\ UNCHANGED <<autonomous, jobCell, decision, shown, jobBox, dagRun>>

\* A POST: accepted and answered; accepted, the answer lost; refused; or never received.
Posts(want, answered) ==
  \/ Accepts(want) /\ Transitioned(want) /\ answered /\ UNCHANGED <<debts, mishaps, silent>>
  \/ Accepts(want) /\ Transitioned(want) /\ ReportFails(1)
  \/ ~Accepts(want) /\ ReportFails(0) /\ UNCHANGED jobCell
  \/ ReportFails(1) /\ UNCHANGED jobCell

ReplayDebt ==
  /\ attempt.step = "replay"
  /\ Posts(Head(attempt.todo), attempt' = [attempt EXCEPT !.step = "inspect", !.todo = Tail(@)] /\ UNCHANGED ti)
  /\ UNCHANGED <<autonomous, decision, shown, jobBox, dagRun>>

\* The report itself; a recorded rejection then skips the tasks after it.
PostReport ==
  LET t == attempt.task IN
  /\ attempt.step = "inspect" /\ attempt.todo = <<>>
  /\ Posts(attempt.want,
           IF attempt.phase # "body" THEN CallbackEnds(t)
           ELSE Ended(t, IF attempt.want = "rejected" THEN "skipped" ELSE "success"))
  /\ UNCHANGED <<autonomous, decision, shown, jobBox, dagRun>>

-----------------------------------------------------------------------------
(* The run, the backend and the operator.                                  *)

\* Airflow closes the run by its last task; teardown does not count.
CloseDagRun ==
  /\ dagRun = "open" /\ \A t \in JobTasks : ti[t].state \in Finals
  /\ dagRun' = IF ti["metrics"].state \in {"success", "skipped"} THEN "success" ELSE "failed"
  /\ UNCHANGED <<autonomous, ti, attempt, debts, jobCell, decision, shown, jobBox, mishaps, silent>>

\* Backend._settle_lost_report: a live Cell takes over how its run ended.
SettleLostReport ==
  /\ dagRun # "open" /\ jobCell.epoch = 1 /\ jobCell.state \in CellLive
  /\ jobCell' = [jobCell EXCEPT !.state = dagRun]
  /\ UNCHANGED <<autonomous, ti, attempt, debts, decision, shown, jobBox, dagRun, mishaps, silent>>

CancelCell ==
  /\ jobCell.epoch = 1 /\ jobCell.state \in CellLive /\ Mishap
  /\ jobCell' = [jobCell EXCEPT !.state = "cancelled"]
  /\ UNCHANGED <<autonomous, ti, attempt, debts, decision, shown, jobBox, dagRun, silent>>

\* Another order activates the ended Cell.
NextEpoch ==
  /\ jobCell.epoch = 1 /\ jobCell.state \notin CellLive /\ Mishap
  /\ jobCell' = [epoch |-> 2, state |-> "queued", cleaned |-> FALSE]
  /\ UNCHANGED <<autonomous, ti, attempt, debts, decision, shown, jobBox, dagRun, silent>>

JobNext ==
  \/ \E i \in DOMAIN TaskLine : ScheduleTask(i)
  \/ \E t \in JobTasks : RetryTask(t)
  \/ WorkerDies \/ BuildContext \/ WorkRaises
  \/ \E a \in {"approve", "reject"} : TaskWorks(a)
  \/ ReadDebts \/ InspectDebt \/ ReplayDebt \/ PostReport
  \/ CloseDagRun \/ SettleLostReport \/ CancelCell \/ NextEpoch

JobSpec == JobInit /\ [][JobNext]_jobVars

-----------------------------------------------------------------------------
\* The Cell tells what became of the job, however reports are lost, replayed from debt or refused
\* (cell_callback.report, settle, report_failure): success means the change was delivered (merged,
\* on the autonomous line) and never rejected, rejected that the gate said so, failed that a task
\* has failed for good; a cleanup on record means the sandbox is closed; the next epoch is never
\* touched; and a run that is over leaves the Cell live only with the lost report on record.
CellTellsTheJob ==
  /\ jobCell.epoch = 1 =>
       /\ jobCell.state = "success" => shown = IF autonomous THEN "merged" ELSE "plain"
       /\ jobCell.state = "rejected" => decision.recorded = "reject"
       /\ jobCell.state = "failed" => attempt.phase # "body" \/ \E t \in JobTasks : ti[t].state = "failed"
       /\ dagRun # "open" /\ jobCell.state \in CellLive => silent \/ \E t \in JobTasks : debts[t] # <<>>
  /\ jobCell.cleaned => jobBox # "live"
  /\ jobCell.epoch = 2 => jobCell.state = "queued" /\ ~jobCell.cleaned

\* docs/astronomer-blueprint.md:66: "A rejected line deliberately completes after publishing rejection
\* evidence": a job whose gate was rejected, and that met no mishap, ends its run in success with the
\* rejection published.
RejectedLineCompletes ==
  (dagRun # "open" /\ decision.recorded = "reject" /\ mishaps = 0) => dagRun = "success" /\ shown = "rejected"
=============================================================================
