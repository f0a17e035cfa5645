--------------------------- MODULE PopulationSearch ---------------------------
(***************************************************************************)
(* The population search of a build stage: a worker sends every task of a  *)
(* pinned search to the backend, which journals each paid provider call,   *)
(* and settles one budget reservation with what the calls cost             *)
(* (population_stage.py, population_execution.py, backend_population.py,   *)
(* backend/population_service.py).                                         *)
(***************************************************************************)
EXTENDS Integers, FiniteSets, FiniteSetsExt

CONSTANTS
    Searches,       \* contents the control file may have
    Members,        \* tasks of a search
    Verifier,       \* [Searches -> [Members -> signature of an independent verifier]]
    SearchCost,     \* the declared ceiling, max_cost_usd
    RunCeiling,     \* max_budget_usd of the run
    MaxPrice,       \* bound: what one call may cost
    MaxSearchTries  \* bound: attempts of the stage

ASSUME PopulationAssumption ==
    /\ IsFiniteSet(Searches) /\ IsFiniteSet(Members) /\ "none" \notin Searches
    /\ SearchCost \in Nat /\ RunCeiling \in Nat /\ MaxPrice \in Nat /\ MaxSearchTries \in Nat

VARIABLES
    control,   \* the search the control file holds; an operator may edit it
    dir,       \* the run directory: pin, budget record, retained report and its made-up receipts, decision
    row,       \* the ledger row of the search: state and settled cost
    leaked,    \* reservations whose budget record was never written
    callRow,        \* the journal's row of every call: state, cost, verdict
    charged,   \* what the provider charged for each call
    fresh,     \* the Cell is still at the epoch of the run
    worker,    \* the stage: step, its search, members asked, with a receipt, with a made-up one
    tries      \* attempts begun

popvars == <<control, dir, row, leaked, callRow, charged, fresh, worker, tries>>

Unset == "none"
SearchCalls == Searches \X Members
NoSearchWorker == [step |-> "off", search |-> Unset, asked |-> {}, got |-> {}, broken |-> {}]

PopulationInit ==
    /\ control \in Searches
    /\ dir = [pin |-> Unset, budget |-> FALSE, report |-> -1, broken |-> {}, decision |-> -1]
    /\ row = [state |-> "none", settled |-> 0] /\ leaked = 0
    /\ callRow = [c \in SearchCalls |-> [state |-> "none", cost |-> 0, verdict |-> "none"]]
    /\ charged = [c \in SearchCalls |-> 0]
    /\ fresh = TRUE /\ worker = NoSearchWorker /\ tries = 0

\* seed_budget: a settled row counts what it cost, an open one its reservation.
SearchSpent ==
    leaked * SearchCost + (IF row.state = "settled" THEN row.settled
                           ELSE IF row.state = "none" THEN 0 ELSE SearchCost)

GoTo(s) == worker' = [worker EXCEPT !.step = s]

-----------------------------------------------------------------------------
\* _validate_verifier_independence: no two independent verifiers are one.
Independent(s) ==
    \A m, n \in Members : Verifier[s][m] = Verifier[s][n] => m = n

\* PopulationStageSpec.validate: the binding names the manifest's tasks.
Bound(s) == DOMAIN Verifier[s] = Members

\* load_population_stage_spec: a changed control file is refused.
PinMatches(s) == dir.pin \in {Unset, s}

LoadSearch ==
    /\ worker.step = "off" /\ tries < MaxSearchTries
    /\ tries' = tries + 1
    /\ IF Bound(control) /\ PinMatches(control)
         THEN /\ dir' = [dir EXCEPT !.pin = IF @ = Unset THEN control ELSE @]
              /\ worker' = [NoSearchWorker EXCEPT !.step = "budget", !.search = control]
         ELSE UNCHANGED <<dir, worker>>
    /\ UNCHANGED <<control, row, leaked, callRow, charged, fresh>>

\* _budget_attempt: a record means the row exists; otherwise a row is reserved.
UseReservation ==
    /\ worker.step = "budget" /\ dir.budget
    /\ GoTo("search")
    /\ UNCHANGED <<control, dir, row, leaked, callRow, charged, fresh, tries>>

ReserveSearch ==
    /\ worker.step = "budget" /\ ~dir.budget
    /\ IF SearchCost <= RunCeiling - SearchSpent
         THEN GoTo("reserved") /\ leaked' = leaked + 1
         ELSE worker' = NoSearchWorker /\ UNCHANGED leaked
    /\ UNCHANGED <<control, dir, row, callRow, charged, fresh, tries>>

WriteBudget ==
    /\ worker.step = "reserved"
    /\ dir' = [dir EXCEPT !.budget = TRUE]
    /\ leaked' = leaked - 1 /\ row' = [row EXCEPT !.state = "reserved"]
    /\ GoTo("search")
    /\ UNCHANGED <<control, callRow, charged, fresh, tries>>

-----------------------------------------------------------------------------
ReplayReport ==
    /\ worker.step = "search" /\ dir.report # -1
    /\ GoTo("settle")
    /\ UNCHANGED <<control, dir, row, leaked, callRow, charged, fresh, tries>>

\* Manifest, binding and verifiers are validated before the first call.
BeginSearch ==
    /\ worker.step = "search" /\ dir.report = -1
    /\ GoTo(IF Independent(worker.search) THEN "calls" ELSE "abort")
    /\ UNCHANGED <<control, dir, row, leaked, callRow, charged, fresh, tries>>

Call(m) == <<worker.search, m>>

\* Mutant: a call whose outcome is unknown is made again.
StartableAgain(c) == callRow[c].state \in {"none", "in_doubt"}

\* The journal starts a call only when no attempt was made (replay_safe=False).
MayStart(c) == callRow[c].state = "none"

\* The worker posts a task.  The backend checks the Cell's epoch and its
\* journal: it starts the call, returns the committed receipt, or refuses.
AskProvider(m) ==
    /\ worker.step = "calls" /\ m \notin worker.asked
    /\ CASE ~fresh -> GoTo("abort") /\ UNCHANGED callRow
         [] fresh /\ callRow[Call(m)].state = "committed" ->
               /\ worker' = [worker EXCEPT !.asked = @ \cup {m}, !.got = @ \cup {m}]
               /\ UNCHANGED callRow
         [] fresh /\ MayStart(Call(m)) ->
               /\ worker' = [worker EXCEPT !.asked = @ \cup {m}]
               /\ callRow' = [callRow EXCEPT ![Call(m)].state = "running"]
         [] OTHER -> GoTo("abort") /\ UNCHANGED callRow
    /\ UNCHANGED <<control, dir, row, leaked, charged, fresh, tries>>

\* provider_call: the adapter's answer, charged at its price.
ProviderAnswers(c, price, verdict) ==
    /\ callRow[c].state = "running"
    /\ charged' = [charged EXCEPT ![c] = @ + price]
    /\ callRow' = [callRow EXCEPT ![c] = [state |-> "paid", cost |-> price, verdict |-> verdict]]
    /\ UNCHANGED <<control, dir, row, leaked, fresh, worker, tries>>

\* The output is retained and the operation committed.
CommitCall(c) ==
    /\ callRow[c].state = "paid"
    /\ callRow' = [callRow EXCEPT ![c].state = "committed"]
    /\ UNCHANGED <<control, dir, row, leaked, charged, fresh, worker, tries>>

\* The adapter raised, charged or not, or the backend died around the call.
CallInDoubt(c, price) ==
    /\ callRow[c].state \in {"running", "paid"}
    /\ charged' = [charged EXCEPT ![c] = IF callRow[c].state = "running" THEN @ + price ELSE @]
    /\ callRow' = [callRow EXCEPT ![c].state = "in_doubt"]
    /\ UNCHANGED <<control, dir, row, leaked, fresh, worker, tries>>

\* The receipt arrives and is normalised against the binding.
ReceiveReceipt(m) ==
    /\ worker.step = "calls" /\ m \in worker.asked \ worker.got /\ callRow[Call(m)].state = "committed"
    /\ worker' = [worker EXCEPT !.got = @ \cup {m}]
    /\ UNCHANGED <<control, dir, row, leaked, callRow, charged, fresh, tries>>

\* A lost, late or refused answer, or a receipt that is not the task's: what
\* the runner names a boundary failure aborts the whole search, while the call
\* may still run.
AnswerFails(m) ==
    /\ worker.step = "calls" /\ m \in worker.asked \ worker.got
    /\ GoTo("abort")
    /\ UNCHANGED <<control, dir, row, leaked, callRow, charged, fresh, tries>>

\* Any other exception of the runner (an HTTPException of the transport is
\* neither OSError nor ValueError): a failed receipt of no cost is made up.
RunnerRaises(m) ==
    /\ worker.step = "calls" /\ m \in worker.asked \ worker.got
    /\ worker' = [worker EXCEPT !.got = @ \cup {m}, !.broken = @ \cup {m}]
    /\ UNCHANGED <<control, dir, row, leaked, callRow, charged, fresh, tries>>

\* The pool waits for its threads, not for the calls they gave up on; the
\* reservation stays charged.
AbortSearch ==
    /\ worker.step = "abort"
    /\ row' = IF row.state = "settled" THEN row ELSE [row EXCEPT !.state = "unknown"]
    /\ worker' = NoSearchWorker
    /\ UNCHANGED <<control, dir, leaked, callRow, charged, fresh, tries>>

\* summarize_population: every receipt, whatever its state; a made-up one cost nothing.
SummaryCost(s, broken) == MapThenSumSet(LAMBDA m : callRow[<<s, m>>].cost, Members \ broken)

\* All tasks have receipts (require_complete): the report is retained.
WriteReport ==
    /\ worker.step = "calls" /\ worker.got = Members
    /\ dir' = [dir EXCEPT !.report = SummaryCost(worker.search, worker.broken), !.broken = worker.broken]
    /\ GoTo("settle")
    /\ UNCHANGED <<control, row, leaked, callRow, charged, fresh, tries>>

\* _settle_population_budget: settled once; above the declared ceiling the
\* stage fails after it settled.
SettleSearch ==
    /\ worker.step = "settle"
    /\ row' = IF row.state = "settled" THEN row ELSE [state |-> "settled", settled |-> dir.report]
    /\ IF dir.report > SearchCost THEN worker' = NoSearchWorker ELSE GoTo("decide")
    /\ UNCHANGED <<control, dir, leaked, callRow, charged, fresh, tries>>

\* The information budget of the report is computed once and retained.
RetainDecision ==
    /\ worker.step = "decide" /\ dir.decision \in {-1, dir.report}
    /\ dir' = [dir EXCEPT !.decision = dir.report]
    /\ GoTo("guidance")
    /\ UNCHANGED <<control, row, leaked, callRow, charged, fresh, tries>>

\* artifact(): backed by a committed call of the Cell's current epoch.
Served(c) == fresh /\ callRow[c].state = "committed"

\* The excerpts of answered tasks are read from their committed operations.
ReadExcerpts ==
    /\ worker.step = "guidance"
    /\ IF \A m \in Members \ dir.broken : callRow[Call(m)].verdict = "answered" => Served(Call(m))
         THEN GoTo("done") ELSE worker' = NoSearchWorker
    /\ UNCHANGED <<control, dir, row, leaked, callRow, charged, fresh, tries>>

-----------------------------------------------------------------------------
EditControl ==
    /\ \E s \in Searches \ {control} : control' = s
    /\ UNCHANGED <<dir, row, leaked, callRow, charged, fresh, worker, tries>>

RearmCell ==
    /\ fresh /\ fresh' = FALSE
    /\ UNCHANGED <<control, dir, row, leaked, callRow, charged, worker, tries>>

\* The task is killed; its calls go on in the backend.
KillSearch ==
    /\ worker.step \notin {"off", "done"}
    /\ worker' = NoSearchWorker
    /\ UNCHANGED <<control, dir, row, leaked, callRow, charged, fresh, tries>>

PopulationNext ==
    \/ LoadSearch \/ UseReservation \/ ReserveSearch \/ WriteBudget
    \/ ReplayReport \/ BeginSearch \/ AbortSearch \/ WriteReport
    \/ SettleSearch \/ RetainDecision \/ ReadExcerpts
    \/ \E m \in Members : AskProvider(m) \/ ReceiveReceipt(m) \/ AnswerFails(m) \/ RunnerRaises(m)
    \/ \E c \in SearchCalls : CommitCall(c)
    \/ \E c \in SearchCalls, p \in 0..MaxPrice : CallInDoubt(c, p)
    \/ \E c \in SearchCalls, p \in 0..MaxPrice, v \in {"answered", "failed"} : ProviderAnswers(c, p, v)
    \/ EditControl \/ RearmCell \/ KillSearch

PopulationSpec == PopulationInit /\ [][PopulationNext]_popvars

-----------------------------------------------------------------------------
\* What providers charged the run, but for calls whose receipt was made up.
Excused == {dir.pin} \X dir.broken
KnownCharges == MapThenSumSet(LAMBDA c : charged[c], SearchCalls \ Excused)

\* Across kills, retries, lost and late answers and edits of the control file,
\* the run settles exactly what providers charged it: no call is paid twice,
\* dropped from the report, or made for a search other than the settled one.
\* The one exception is what the executor does with an exception it does not
\* know (population_execution.py): that call is settled as free.
SettledIsCharged == row.state = "settled" => row.settled = KnownCharges
=============================================================================
