# SWFactory: a TLA+ verification project

SWFactory turns GitHub issues into pull requests. Airflow schedules the stages
of a *blueprint*; a Python backend (`src/src/swfactory/backend/`) owns every
decision that may be made only once: who gets capacity, which Factory Cell
epoch belongs to which order, which external effect has been applied. The
stages themselves run agents in sandboxes, keep journals of what they did, and
publish through the backend.

This project models the authority core, the stages of a run, the searches
beside them and the operations around them as TLA+ modules, model-checks them
with TLC on small instances, and proves with TLAPS, for every value of the constants,
the safety properties of all of them.

## 1. Inventory

| Component | State it keeps | Operations | Interacts with | What is hard |
|---|---|---|---|---|
| Admission store (`durable_admission.py`) | SQLite: work, member and outbox rows, fairness deficits; in memory `_inflight` | submit, drain, claim, record epoch, record dispatch, release, mark undeliverable, cancel, complete | backend threads, reconciles | leases that expire under live threads, several processes, closing in one transaction and draining in another |
| Operation journal (`idempotency.py`) | one row per operation key | begin, start_attempt, mark_in_doubt, mark_observation, commit, execute, observe | wraps every external effect | a provider that applies a request whose caller was told it failed; displaced owners; reads outside the transaction, and several processes |
| Backend control loop (`backend/service.py`, `routes.py`), Cell store (`cells.py`) | request threads; Cell rows with epochs and an event log | submit, resume, reconcile, settle, deliver, bind, recover, compensate, withdraw, stop, report; activate, patch | admission, journal, Airflow | three stores without a common transaction; read-then-patch windows; process death |
| Webhook receiver and inbox (`webhook.py`, `dispatch.py`) | SQLite deliveries | handle, enqueue, claim, complete, fail, retry, dispatch_one | GitHub, Airflow or the backend | repeated and reused delivery ids, lost answers, lapsed leases |
| Build stage, fork waves (`work_stage.py`, `stages.py`, `fork_wave.py`, `boat.py`) | git checkout, recorded head, progress journal, child VMs | run nodes, test, repair, revert, fork, merge, recover | agents, provider of VMs | durable writes that are not atomic together; children that outlive the worker |
| Accounting (`call_accounting.py`, `state.py`) | ledger rows, run lock, cached spend | reserve, start, settle, observe | every model call | a call that was billed and whose caller is dead |
| Gates, review, delivery (`stages.py`, `accepted_inputs.py`, `approval_policy.py`) | artifacts, decisions, pin, recorded suite runs | setup, plan, gate, review, fix, deliver | agents, operators, source control | kills inside review; inputs that change under an approval |
| Mapped job (`dags/blueprints.py`, `cell_callback.py`) | task instances, XCom debts | report, report_failure, settle | Airflow, backend | lost reports and their replay |
| Searches (`liquid_annealing.py`, `recursive_search.py`, `swarm_dynamics.py`, `population_*.py`, `replica_fusion.py`) | journals of attempts, budgets, postures | anneal, plan a round, execute a population, fuse | agents, paid providers | settlement of paid calls; what may be adopted |
| Candidates (`candidate_worktree.py`, `candidate_evidence.py`, `candidate_retention.py`) | worktrees, refs, bundles, leases | create, freeze, remove, build, retain, pin, unpin, gc | git, concurrent shells | no lock spans two commands |
| Publication (`scm.py`, `core_capabilities.py`, `credential_lease.py`, `backend/scm_service.py`, `autonomous_service.py`) | leases, journal rows, evidence chain | mint, redeem, publish, merge | GitHub, Cells, journal | rivals on one branch; epochs read before they are used |
| Promotion (`scripts/promotion_policy.py`) | labels, manifests, settings | gate, seal, merge, release | GitHub Actions | what was tested against what ships |
| Sandboxes (`sandbox.py`, `smolvm_backend.py`) | call journal, machine record and handle | create, start, exec, reap, close | Docker, microVM daemon | a daemon that answers late or not at all |
| Maintenance (`maintain.py`, `maintenance_incidents.py`) | incident ledger, cleanup receipts | sweep, propose, open an issue | providers, Cells, GitHub | decisions on rows read earlier |
| Restore gate (`restore_contract.py`) | backup fences, marker, window | back up, restore, resume, reconcile, close | journal, all stores | a journal that is older than the world |

`PROJECT.json` lists every part, also those that are not modelled, and the
hazards of the code with the property that covers each.

What makes each part correct:

* **admission**: no capacity limit is exceeded; an order closes with its last
  member and honestly; one holder delivers an order at a time; closed orders stay closed;
* **journal**: two workers are in the provider call at once only after a lease ran out; a receipt is written
  for an applied effect only, and once unless another process declares the committed row exhausted;
* **backend**: a Cell epoch belongs to one order; units come back although reports are lost;
* **webhooks**: what is acknowledged is kept; never more orders for a delivery than attempts on record; every delivery ends;
* **run of the line**: whatever is killed, work is neither lost nor counted twice, the
  best verified candidate survives, the caps of model calls fit the ceiling, and what is
  published was measured, reviewed and approved;
* **searches**: a review that says ok is about the head; a plan fits its budget and answers
  disagreement; what was charged is what is settled; what is adopted was verified;
* **operations**: what was shown, merged, promoted or shipped is what was sealed and tested; nothing
  the factory started is forgotten; a restore repeats no effect the journal or the operator knew of.

## 2. Modules

| Module | Models |
|---|---|
| `Admission` | the admission store |
| `OperationJournal`, `Receipt` | the journal, and its abstract promise that it implements |
| `Backend` | control loop and Cells; EXTENDS `Admission`, whose actions are the only steps it takes on admission state |
| `Receiver`, `WebhookInbox` | handler threads before the inbox; inbox and workers after it |
| `BuildStage`, `ForkWave`, `CallLedger` | build, fork waves, money |
| `Delivery`, `ReviewRules`, `MappedJob` | the line from setup to pull request, its pure rules, its reports |
| `Annealing` | the annealed review |
| `PhaseControl`, `SearchRound` | phases and postures; a campaign round by round |
| `PopulationSearch`, `Fusion` | paid population search, fusion of replicas |
| `Candidate` | candidates explored from the command line |
| `Publication`, `Promotion` | changes of GitHub by a Cell; promotion of the factory's own changes |
| `ExternalCall`, `Smolvm`, `Sweep`, `Incidents`, `Restore` | sandboxes, maintenance, restore |
| `AdmissionProofs`, `OperationJournalProofs`, `WebhookInboxProofs`, `BackendProofs` | the theorems about the component of that name |
| `LineProofs` | theorems about `Delivery`, `BuildStage`, `ForkWave`, `CallLedger`, `MappedJob` |
| `ExploreProofs` | theorems about `ReviewRules`, `Annealing`, `SearchRound`, `PopulationSearch`, `Fusion`, `Candidate` |
| `OperationsProofs` | theorems about `Receiver`, `Publication`, `Promotion`, `ExternalCall`, `Smolvm`, `Sweep`, `Incidents`, `Restore` |
| `SumTheorems` | what the proofs about money and charges need of sums |
| `AdmissionMC`, `BackendMC`, `BackendLiveMC`, `WebhookInboxMC`, `DeliveryMC` | instances for TLC |
| `LineMC`, `ExploreMC`, `OperationsMC` | instances of several components that share no state |

The head of every module says what it models and which simplifications it makes.
Definitions whose comment begins with *Fault* are plausible bugs of the code.
They are used by nothing in the specifications; substituting one for the
definition it imitates makes a property fail (`mutants` in `PROJECT.json`).

Conventions: a store transaction, a file write, a git command, a remote call is one
step; the local variables of a thread, a task or a process are a record with the
step it is at (`thread[t].at`, `task.at`, `calls[q].at`, `attempt.step`); a death sets that record back
and leaves what is durable; a request to an external party is applied, refused, lost, or
applied without an answer.

**Admission.** `work[w]` is `admission_work.state` (`absent` for no row), `member[w][c]`
the unit and epoch of a member, `dispatch[w]` the outbox row (attempt, token, whether the lease
runs), `seq`, `nextSeq`, `deficit` the queue order and weighted deficits, `inflight[p]` the dictionary
of process p, `intents` the claims threads hold. Each public method is one `BEGIN IMMEDIATE`
transaction and one action; `drain` is a pass of several transactions (`BeginDrain`,
`DrainAdmit`, `DrainBlocked`, `DrainEmpty`). `LeaseExpires` is the clock, `Crash` the
death of a process. The rate limiter is off by default and is left out.

**OperationJournal.** One operation key; workers are threads of several processes, each process with one journal
object and its `RLock` (`JournalOf`). A worker walks through `execute`: `Enter`, `Begin`, `Read`, `Displace`, `Reconcile`,
`MarkObservation`, `Adopt`, the claim, the call, then `Commit` or `MarkInDoubt`; `Watch` is `observe`. The claim is
`start_attempt`, whose SELECT is outside the transaction of its UPDATE: `ReadForClaim` takes the lock of the process and reads,
and then one of `ExpireClaim`, `ExhaustClaim` (without a guard on the state, as in the code), `StartAttempt` and `ClaimLost` acts on what was
read. An attempt number may be issued twice by two processes, so a call is identified by a token of its own. The provider may apply a request
at any time after it was sent, also after its caller gave up.

**Backend.** `thread[t]` holds the local variables of a request; `cell[c]` is the Cell row with the
operation keys its event log has seen and the order that activated it; `airflow[w]` is
the run of an order: absent, sent (the answer was lost; it may still appear), live or ended. The
journal is used through the promise that `OperationJournal` is checked for.

**Receiver, WebhookInbox.** A handler thread checks the signature, routes against the blueprints as they are
at that moment, looks the delivery id up, commits and answers; the direct path submits instead. `row[d]` is
a delivery row, `worker[k]` the local state of `dispatch_one`. The run is of the managed mode. With `Managed = FALSE` a delivery keeps the run id stored
when it was enqueued; with `Managed = TRUE` the backend derives the identity of an order from the Cell epoch of the moment.

**BuildStage, ForkWave.** Checkout, fence (the recorded head) and progress journal are three variables
that no step writes together; the retry starts at `Open` from what it finds. The suite may be flaky. A fork wave
parks the parent, forks children under idempotency keys, merges patches by node id, and recovers from any prefix of this;
a teardown closes the parent also when it could not stop every child, and from then on a child without a known id cannot be reclaimed.

**CallLedger.** `call[k]` is the ledger's record of a call and the provider's truth about it, `owner` the run lock, `ctx[c]` the
`Ctx` of a task or fork child with the spend cached in it. What a call really costs is known to the provider only, and may
exceed its cap (by `MaxOvershoot` at most, a bound of the model).

**Delivery, ReviewRules.** Commits are reduced to the code and to what the suite says of it; inputs to a version
number. Delivery is the sequential control of `setup`, the document stages, gates, review with its fixes and reverts, and
`deliver` with its refusals. `ReviewRules` checks the pure functions against reference definitions over bounded documents and suites.

**MappedJob.** The task instances of one mapped job with trigger rules, retries, failure callbacks, XCom
debts and the reports to a Cell that other parties may cancel or re-arm.

**Annealing, PhaseControl, SearchRound, PopulationSearch, Fusion.** Rates are whole numbers of hundredths of a percent
so that the thresholds of the laws are met exactly; numbers that steer nothing are left out.

**Candidate.** Every command is a process of its own; `desk` is the evidence directory, `objects` and `lease` the retention
store, `ref` the frozen refs. Each git call and each file operation is a step.

**Publication.** A Cell, several request threads, its branch on GitHub and a rival instance working on the same issue.
`rows` are journal rows, `leases` credentials, `calls` the threads, `ref` and `prs` the branch and its pull requests.

**PopulationSearch** has both ways in which a provider call can fail: a boundary failure that aborts the search, and any other
exception of the runner, which becomes a receipt of cost 0 (`RunnerRaises`).

**Smolvm.** The worker, a second thread that destroys the machine of the same record beside it (`cancel`), and the daemon, which carries
out requests whether or not their sender waits.

**Sweep, Incidents.** Passes overlap: nothing in the DAG or the route keeps them apart. A pass of `Sweep` works with the Cell
rows and the listing it read; a pass of `Incidents` with the ledger it loaded, from a kept root or from a clone that goes with it (`kept`).

**Restore.** `close()` asks for an empty worklist and the operator's word. `missed` records the effects that only the
remote knew of at that moment. **Promotion, ExternalCall** follow the same pattern; see their heads.

The suite modules put several components side by side: the variable `part`, chosen in the initial state, lets one
behaviour exercise one part, and the other parts stay in their initial state. They add nothing to the components'
definitions, and each property is about one component.

## 3. Runs

`tlc -workers 2 -config X.cfg M` for each row of `runs` in `PROJECT.json`.

| Run | Instance | Shows |
|---|---|---|
| admission_capacity | 3 orders, 3 Cells, 2 repositories, 1 process | the four capacity limits hold through submissions, drains, cancellations and a death |
| admission_lease | 2 processes, 2 orders (one with two members), 2 attempts | exclusive delivery, outbox and admission rows that agree, honest and final outcomes |
| backend_owner | 2 threads, a submission and a scheduled run that are rivals for one Cell, withdrawals, one death | one owner per Cell epoch, a run behind each delivery |
| backend_steal | 2 processes, 1 order, every request kind, 2 attempts | every step is a step of `Admission!Spec` or a stutter |
| backend_live | 2 neighbour orders, global capacity 1, 2 attempts; reports that come early, late or never, or one death without reports; a death with reports for one order | queued orders are served and attempts end unless the process died; bound orders give their units back; except for a run that reported before its Cell named it |
| inbox | 2 deliveries, 2 bodies, 2 workers, 2 attempts each, 3 in total, managed mode | one running lease, honest receipts, never more orders than attempts on record, every delivery ends |
| line | the run of the line, part by part (below) | a run accounts for its work and its money, and publishes only what was vouched for and approved |
| explore | review and searches, part by part | ok is about the head; plans are sound; what was charged is settled; what is adopted was verified; evidence names the frozen commit |
| operations | what happens around a run, part by part | receipts, publication, promotion, sandboxes, sweep, incidents, restore, receiver |

The parts of the suites and the bounds that make their hard cases happen:

| Part | Instance | Property |
|---|---|---|
| build (`BuildStage`) | plans of 0, 1, 2 dependent nodes, six suite outcomes, 4 calls, 1 kill | `BuildAccounted`, `DoneIsVerifiedBest` |
| fork (`ForkWave`) | 2 nodes in parallel, 2 waves, 1 kill | `ForkAccounted` |
| ledger (`CallLedger`) | 2 tasks, 2 fork children, ceiling 3, 3 calls, each up to 1 over its cap, 1 death, older money on record | `SpendAccounted` |
| delivery (`Delivery`) | a line with one gate, 2 input versions, 1 review fix, 2 codes, 1 kill | `PublishedCodeVouchedFor`, `PublishedOnItsApprovals` |
| rules (`ReviewRules`) | documents of up to 3 lines, suites of 2 tests and 2 parameters | `RulesAreSound` |
| job (`MappedJob`) | 1 retry per task, 3 mishaps | `CellTellsTheJob` |
| anneal (`Annealing`) | 2 fixes, 1 kill | `OkIsOfHead` |
| search (`SearchRound`) | 3 strategies, 2 rounds, no or full pressure | `PlansAreSound` |
| population (`PopulationSearch`) | 4 control files, 2 members, 3 tries, boundary failures and runner exceptions | `SettledIsCharged` |
| fusion (`Fusion`) | 3 files, one protected, 2 rounds, 2 tries | `AdoptedWasVerified` |
| candidate (`Candidate`) | 1 candidate, 2 shells, 5 commands, 1 kill | `EvidenceNamesFrozen` |
| journal (`OperationJournal`) | 2 workers in 2 processes, one of them without a reconciler, 2 attempts, 3 claims, replay-safe | `CallsOverlapOnlyInDoubt`, `ReceiptWrittenOnce` |
| publication (`Publication`) | 2 request threads, 2 epochs, a rival instance, 2 starts of the backend | `CommittedWasShown`, `MergedIsSealed`, `PublicationFenced` |
| promotion (`Promotion`) | 1 leg, 2 heads, 2 mains, 1 change of settings | `PromotedWasTested` |
| external (`ExternalCall`) | 3 calls, 3 containers | `ContainersAccountedFor` |
| smolvm (`Smolvm`) | 3 boots, a second thread that destroys | `MachinesAccountedFor` |
| sweep (`Sweep`) | 1 Cell, 2 epochs, 2 resources, 2 passes that overlap | `SweepKeepsFaith` |
| incidents (`Incidents`) | 2 metrics, 1 run, 3 passes, 2 of them at once, kept root or clone | `OneIssuePerIncident` |
| restore (`Restore`) | 1 effect, 2 binaries, 1 restore, windows closed unreviewed in fact | `NoDuplicateEffect` |
| receiver (`Receiver`) | 2 threads, 3 posts out of six kinds, inbox of 1, 1 edit of a blueprint | `AcknowledgedIsKept` |

Larger instances that were also checked, alone, and pass: BuildStage with two kills (1.05 million
states), ForkWave with two kills (2.47), Publication with `MaxTries = 2` (2.43), Promotion with two legs (1.35), Restore
with two effects (2.57), the journal with three workers in two processes, one with other content (1.35), Candidate with six commands and `MaxNow = 2` (0.72).

Violation runs state a sentence of the repository and show a behaviour of the
code that contradicts it; `findings` in `PROJECT.json` quotes the sentence.

| Run | Sentence | Behaviour |
|---|---|---|
| backend_finished | "terminal Factory Cell cannot transition" (`service.py:1448`) | a terminal report is overwritten by the run binding, which read the Cell before it |
| delivery_red | "so the stage cannot end ``ok`` on a head nobody saw pass" (`stages.py:2124`) | review is killed between the red run of a fix and its revert; the next review takes the record as current, and red code is published without a banner |
| rejected_line | "A rejected line deliberately completes after publishing rejection evidence" (`docs/astronomer-blueprint.md:66`) | the report `rejected` ends the Cell, which refuses the publication that follows; the run fails |

**Bounds.** The races in the hazards are between one actor and its
successor or rival, so two threads, workers, passes or processes suffice; in the journal `MaxClaims` is one more than the attempts, so that two
processes can overrun the budget. Two attempts make a retry and an
exhausted budget both happen; two epochs make a Cell be finished and activated
again; two orders make one queue or compete. The capacity run has three orders
because two limits must bind different pairs. One kill separates any two durable writes; the second kill of the larger
instances interrupts a recovery. `MaxTotal` bounds the lifetime attempts of a
delivery, which operator retries would let grow without end. `MaxEpoch` and `Epochs` bound Cell epochs, `MaxEvents` the
steps of a rival, `MaxNow` the clock of retention leases, `MaxMishaps` what goes wrong in a job, `MaxOvershoot` what a call costs beyond its cap.
`admission_lease` and `backend_owner` use symmetry over interchangeable processes and
threads; no liveness property is checked under symmetry.
Runs with `CHECK_DEADLOCK FALSE` are those where every order may be closed, every budget spent or every task over,
and nothing is left to do.

**Fairness.** A request thread finishes its request (weak fairness of its steps: threads
are not suspended for ever, and every remote call has a timeout). The maintenance DAG and each later
request ask for a resume again and again (strong fairness: a thread
must be free). Airflow runs end, leases run out. An Airflow that is asked again and again
about an ended run answers at last (strong fairness of `Settle`); without
it no recovery of a lost report is possible. `BackendLiveMC` lets workers report while two orders compete, or the process die; both together only
with one order, which keeps the state graph within reach of liveness checking. No fairness is assumed for process
deaths, lost answers, operators, submissions or reports. In the inbox, workers go on
with what they hold, poll for work, and clocks advance. The violation run `rejected_line` checks an invariant of runs
in which nothing goes wrong and needs no fairness; the suites state no liveness.

## 4. Behaviours of the code that no run asserts

Modelling brought up further windows. Where a model has the component it takes these steps; a property then either
does not speak of the case or names it as its exception, and both are said here. A property shows nothing about a case it excepts.

Backend and admission:

* **A pass that stops early** (`durable_admission.py:430`). A blocked order is deferred behind the
  others; when it is the minimum again the drain ends with an order still queued that would fit. The next closing drains again.
* **A withdrawal in the activation window** (`routes.py:146-150`). Between `activate` and
  `record_member_epoch` a withdrawal cannot see the member's epoch, skips the Cell and cancels the order: the Cell stays
  live and no open order owns it.
* **A stop whose Airflow call raises** (`service.py:1356-1361`). The Cell is patched to
  cancelled first; a reconcile that comes next releases its unit although the run may be live.
* **Deaths** between closing and draining (`durable_admission.py:477`) leave a queued order until the next closing, and in the last
  attempt (`durable_admission.py:17-18`) an intent nobody marks. `QueuedIsServed` and `AttemptsEnd` except them.
* **An attempt that raises outside the store's calls** (`durable_admission.py:174`). The `_inflight` entry stays until the
  process restarts; another process may claim the order once the lease has run out.
* **An unbound run** (`service.py:984-1001`, `653-665`). A running report comes before `_bind_run`, because the answer to the POST was lost and retried
  or its process died: the Cell leaves `dispatching`, never names its run, and reconciliation has nothing to ask Airflow about. If
  the final report is lost as well, the unit stays taken and the queue behind it waits. `BoundEnds` and `QueuedIsServed` except it (`RunUnnamed`).
* **A last attempt judged local** (`service.py:1063`). A failure of the last attempt counts as "nothing was sent", though an
  earlier attempt's POST may have been applied.
* **The default key of an operator request** (`service.py:1417`) names the state only, so the same request at a later epoch
  is taken for a repetition.
* **Two backend processes on one journal** (`idempotency.py:250-284`). The claim's SELECT is outside the transaction of its UPDATE and the `RLock` covers
  one process. A stale counter issues an attempt number twice, so the provider may be asked more often than `max_attempts`; the `exhausted` UPDATE
  (269-272) has no guard on the state and may overwrite a row committed meanwhile, after which the receipt may be written again. The module's docstring and
  `tests/test_operation_single_writer.py` speak of independent journals; what survives there is that calls overlap only after a lapsed lease
  (`CallsOverlapOnlyInDoubt`) and that each receipt names an applied effect. `Receipt` states the exception, and `OneProcessSound` proves that one process
  keeps its budget and its committed row.
* **A blind repetition** (`idempotency.py:3-6`). Two first-time callers of an unsafe operation without a reconciler: the second may repeat it.
* **A second order for one delivery** (`docs/webhooks.md:8`: "one **work order** per delivery"; `webhook.py:374`). In managed mode the identity of an order comes
  from the Cell's epoch: the retry of a delivery whose answer was lost is a new order when the first one has finished meanwhile.
  `OrdersWithinAttempts` bounds what that can cost.

The line:

* An edit made during a read-only call is held by a comparison after the call (`stages.py:574-577`); if the worker is killed before it, the
  next write stage may commit the edit.
* A teardown that could not stop every child closes the parent all the same (`stages.py:2472-2479`). "a retry or the teardown task reaps them"
  (`fork_wave.py:405`) then holds only of children whose id is known: without the parent `reclaim_fork` raises for ever (`boat.py:648-653`), and
  a child whose fork answer was lost ends with its lease. `ForkAccounted` says that the wave's record stays open until then.
* A call may cost more than its cap (`docs/run-recovery.md:167`), so the money really billed may exceed the ceiling by the overshoots.
  `SpendAccounted` is about what is billed within the caps, and about what the factory can know.
* A lost fork counts as reaped when its lease must have run out (`fork_wave._lost`), which trusts the provider's clock. A build
  whose checkout the journal cannot explain is refused, and every retry meets the same refusal.
* `reaccept` says that every gate must be answered again (`accepted_inputs.py:515-531`); when the inputs admitted next are the earlier ones, earlier
  decisions carry their digest and count.
* `settle` says it refuses a debt when the Cell "ended differently"; a Cell observed as rejected or cleaned is retried. A task of a stale epoch raises
  in `_cell_binding` before its teardown closes the sandbox. A timed out gate has no failure callback. A report that was delivered and whose answer
  was lost is replayed as success after a failure. Debts stay in XCom.

Review and searches:

* "A candidate crystallizes only when [...] tests are green" (`liquid_annealing.py:97-99`): the annealed review has the window of `delivery_red`
  as well. Killed after the run of a red fix was recorded, it starts again from a record that is current for its head, takes it for green and may crystallize.
* A jammed phase alone does not stop a campaign ("stop spawning", `docs/phase-control.md:31-39`), and the one caller passes neither a previous phase nor pressures.
* An exception of a population runner that is not one of the known boundary failures becomes a failed receipt of cost 0 and the search goes on to
  settle (`population_execution.py:220-231`, `tests/test_population_execution.py:97`), although the call may have been paid ("Unknown usage never returns
  to available funds", `call_accounting.py:17`). `SettledIsCharged` excepts exactly these calls.
* A campaign round given a report without its plan is sized by independence alone (`adaptive_information.py:388-389, 397-404`); the model has the plan.
* The key of a population call lacks the epoch; a kill between the reservation and the budget file leaks the reservation.
* A fusion campaign killed inside an attempt, apply, commit, record or bundle refuses to go on for good.
* The candidate store takes no locks (`candidate_retention.py:3-5` promises that pinned bundles stay): a sweep that read an
  expired lease removes a bundle pinned meanwhile; `retain` and `pin` lose updates to each other; of two concurrent `retain`s one
  fails with ENOTEMPTY. Two creations with different inputs may write receipts for one output. A kill during `create` leaves the `.reserve` file,
  which blocks the candidate. Two builds in one directory may mix their files, which `verify` refuses; what is copied after `verify` may have changed.

Publication and operations:

* The evidence chain may fork (`lifecycle_evidence.py:105-106`: the predecessor is read before the append). The keys of publish and merge
  lack the epoch (`backend_scm.py:119-122`). Two publications of different content may overwrite each other. A publication after a merged pull request
  is judged divergent. A lease is redeemed for a Cell that has ended in its epoch. `take_epoch` has no caller.
* A crash between the removal of a container and its `cleaned` record, or its creation and `created`, blocks the reap until the operator steps in;
  the backend's sweep removes such containers without reading the call journal (`sandbox.py:1368-1370`).
* A 409 whose answer is lost may make a worker adopt a foreign machine; a close without a handle leaks one.
* The sweep may remove the container of a Cell re-armed after the rows were read (`maintain.py:484-486`, `docs/selfhost.md:124`); a MicroVM of a Cell that
  is not bound yet and older than the limit counts as unowned; more than 1000 Cells are cut off.
* Two overlapping sweeps: the older one's listing does not contain a resource that the newer one saw and failed to remove; it settles the removal as
  `already_absent` while the resource lives, and the committed row answers every later sweep (`maintain.py:683-689`). Nothing keeps sweeps apart
  (`dags/maintain.py:54-60`, `routes.py:227-243`). `SweepKeepsFaith` excepts resources misread so, and only when passes overlapped.
* The DAG's default root is a clone that goes with the pass (`dags/maintain.py:77-85`, `maintain.py:268-288`): the next pass finds an empty ledger and files the
  same incident again. Overlapping passes each load the ledger once and both find a key fresh. `OneIssuePerIncident` promises one issue for a kept root
  and passes one after another.
* An incident left `in_doubt` or `creating` is never retried, although `maintain.py:241-242` says so.
* A restore killed half way leaves stores of two times without a marker (`restore_contract.py:522-531`: the copy comes before the marker and the stamp).
  `NoDuplicateEffect` is about restores that complete.
* `close()` takes the operator's word for the interval the backup does not know (`restore_contract.py:871-905`). An effect of that interval
  without a journal row is caused again after the window is closed, the residual risk of `docs/backup-restore.md:125-127`; `NoDuplicateEffect` excepts
  exactly those effects (`missed`).

## 5. Proofs

`tlapm X.tla` for the `*Proofs` modules and `SumTheorems`. Every theorem is for arbitrary sets of
orders, Cells, processes, threads, workers, deliveries, tasks, searches, shells and arbitrary limits satisfying the named
assumptions. The pattern is the same everywhere: an inductive invariant that says what each step of
the code may rely on (a kill may come between any two steps, so most of it is about what the durable
writes so far imply), one lemma per action that the invariant is kept, and the property as a
consequence. Each inductive invariant was checked by TLC on the run's instance before it was proved.

* **AdmissionProofs.** `TypeCorrect`, then `StoreCorrect`: the inductive invariant
  `StoreInv` adds to the safety properties what they rest on: tokens in
  intents are at most the attempt counter, `inflight` knows every intent of
  a process on an open order, a dispatching row carries the current token, closed
  orders hold nothing. `OpenWhileHeld`, `HonestSummary`, their conjunction `OrderHonest`, `OutboxConsistent` and
  `ExclusiveDelivery` are consequences. `CapacityCorrect` counts held units: an admission step
  adds the members of one order, and `FitsBeside` is exactly the bound
  needed for the union; the other steps only shrink the set. `ClosedStaysClosed` is an action property.
* **BackendProofs.** `BackendInvariant`: `StoreInv` and what threads, Cells and runs know of each other.
  `ThreadsOK` says what a thread at each place holds (in particular a delivering thread's claim is in
  `intents`, and no two threads share an attempt), `ClaimsOK` that an epoch of a Cell is recorded by at
  most one order, the one that activated it, `RunsOK` that the runs behind bindings exist. From it
  `OneOwner`, `RunBehind` and the refinement `BackendKeepsStore`: every step of the composed backend is a
  step of `Admission!Spec` or leaves the store alone. So `CapacityCorrect` and the other theorems about
  admission hold of the backend too.
* **OperationJournalProofs.** `JournalCorrect`, for any number of processes (inductive invariant: tokens of calls are distinct
  and no newer than the claims made; the owner of a row is one of them, and its lease runs unless it lapsed; a worker in a call that is not the owner has outlived its lease or
  a receipt was stored; what a claim read may be stale, but its UPDATE repeats the conditions that matter; a receipt implies an
  effect), `ExclusiveAttempts`, `OwnerSafe`, and `ReceiptRefinement`: each step maps to
  a step of `Receipt` or leaves the receipt alone. `OneProcessSound` adds what the `RLock` of a single process buys: what a claim read is still
  so when it writes.
* **WebhookInboxProofs.** `InboxCorrect` (budget, numbering of leases, saved
  body, what a claiming worker may know), then `InboxTypeCorrect`, `LeasesExclusive`,
  `ReceiptsHonest`, `ReceiptsFinal`, `InboxBounded` and, for both modes, `OrdersBounded`: every attempt on record pays
  for one order, one that exists or one that the call under way may still make (`AttemptsPay`).
* **LineProofs.**
  `DeliveryInvariant` says what the records of the stages say of the code they are about, place by place;
  `PublishedVouched` and the action property `PublishedApproved` follow. The window of `delivery_red` is part of the
  model, so what is proved is what the code keeps in spite of it.
  `BuildInvariant` relates checkout, fence and journal: `InFlight` (an attempt starts from the checkpoint and made at most
  one commit on it), `CallsCounted` (a number is on record before its call), `RepairsJudged` and `AcceptedWork` (checkpoint and best
  candidate hold accepted work only), and `AtPlace`, what a step may assume; plans without work take the legacy loop (`LegacyPlace`). `BuildIsAccounted`
  and `BuildDoneIsBest` follow.
  `ForkWaveInvariant` says when the record of a wave is open and its parent parked (`WaveOpen`, `ParentKnown`), what the record says of a
  child whose runner is at a given step (`RunnersKnown`), and that a clean up without debt knows every child to be gone (`CleaningUp`); a closed parent keeps the
  record of its debt open. `WaveAccounted` follows.
  `LedgerInvariant` has at its heart `Affords`: old money, what calls are charged within their caps and what contexts were promised and have not
  reserved yet fit the ceiling together, whatever was overshot. `LedgerAccounts` follows because a charge is never below the real price as far as the cap goes.
  `JobInvariant` says that the task instances are in the order of the DAG, and that every report, also one
  that is owed, replayed or lost on the way, stays true from the moment it is written (`ClaimsTrue`); a failure that
  did not reach the Cell is on record (`EndsTold`). `CellIsTold` follows.
* **SumTheorems.** A sum over a finite set is the number of its units (pairs of an element and one of its
  units), `SumIsCount`; facts about sums become facts about finite sets. The one induction, on the cardinality of the
  sets the fold visits, takes a least counterexample.
* **ExploreProofs.** `RulesSound`: the reader of a spec keeps, line by line, the level of the outermost open section and the ids of
  its items, each once (`ReadSound`, by a least counterexample; that the recursive reader exists is the same argument); the sorted
  sequence of a finite set of numbers enumerates it, because the rank of an element is a bijection; so a trace has one row per requirement
  and a planned test that is not in a blocker has passed. `AnnealedOkIsOfHead` (fence and suite run keep up with the head at every step that reads them),
  `PopulationSettles` (a report and a settled row sum up calls that are all committed or have a made-up receipt), `FusionAdopts` (the winner is journalled
  once, out of the rows that passed, and only it is applied), `CandidatesBound` (the ref is written once, so what a shell carries past the write is the ref).
  `PlansSound` is about pure functions for the most part; its invariant `SearchInv` only says that signals name strategies, that what
  was learned is sound while no report is due, and that a plan due a report is that of the last round. Sums over lanes, the
  filter `Keep` and the fitting of lanes are recursive functions along a sequence; what each computes up to an index is
  proved by induction on the interval (`IntervalInduction`, once for all of them, and `RecursionExists`). Then: what is left of
  a budget and what was fitted add up to it, lane by lane (`FitLaneKeeps`), so whatever lanes are wanted the fitted ones are inside
  (`FitBudgetFits`); the rank of a strategy among (score, name) pairs is a bijection, so an order lists no strategy twice
  (`SortedFacts`), and neither do the winner put first and the prefixes of an order; the law of the last round and the posture
  of the next agree (`LawIsPosture`), because answers of which fewer than half are new cannot disagree by two thirds (`FewOutputsAgree`); a decision
  that found unverified disagreement asks for `measure`, leaves the verifier its cap, a deep place and 800 of compute
  (`DecisionIsSound`; the base budget has at least 1600), and the deep verifier `measure` wants first passes caps and fitting (`CapsKeep`, `FirstVerifierFits`).
* **OperationsProofs.** `ReceiverKeeps`; `PublicationInvariant` with `CommittedShown`, `MergedSealed` and the action
  property `PublicationIsFenced` (a thread's lease is of the epoch it was minted for, and a push replaces the head
  the thread read); `PromotionTested` (a manifest names a tree the required legs ran on); `ExternalAccounted` (a container of the daemon was
  asked for by a call on record, and at most one reservation is unresolved); `SmolvmAccounted` (a lost command leaves
  the fence up in the incarnation of the record, and a destroy of another thread invalidates what the worker read); `SweepFaithful` (a settled row's resource is gone, or was not there yet when the
  settling pass listed, which takes two passes at once); `IncidentsOnce` (what a pass has in memory is ahead of GitHub, and in a kept root the file is as long as passes do not overlap) and `RestoreOnce` (stores that record
  no open restore know of every effect that was caused, but for those missed when a window was closed).

**Assumptions.** The proofs assume what the `ASSUME`s of the modules state, and TLC evaluates them in the runs. Limits
are naturals; those that bound how often something that must exist is made are not zero (a first epoch, a first
input version, one call, one round of a fusion). Ids are distinct from the null values. Orders have at least one Cell. The tasks, fork children,
searches and members over which money is summed are finite sets, and so are the strategies that are sorted; pressures are shares. A Cell's first epoch is 1 and its outcomes include the three that
the backend itself writes. `LineAssumption` is what `Blueprint._check_order` and `_check_gates` accept: distinct
stages, build before review before deliver, gates on document stages. Suites, agents, providers and schedules are nondeterministic within
what the model lets them do: a store transaction, a git command or one request to a daemon is atomic, an overshoot and the number of faults are bounded by a constant of any size,
and a reported lease is kept by the provider. Where a property names an exception (a run its Cell does not name, an overlapping pass, a killed restore, an effect missed
when a window was closed, a made-up receipt) its theorem says nothing about that case.

**Proved and in no run:** `TypeCorrect`, `OpenWhileHeld`, `HonestSummary`, `OwnerSafe`, `OneProcessSound`, `InboxTypeCorrect`, `InboxBounded`, `ReceiptsFinal`.

**Only model-checked:** the liveness properties `QueuedIsServed`, `AttemptsEnd`, `BoundEnds`, `DeliveryEnds` (fairness and `ENABLED`
are outside the proof system's reach). Every safety property a passing run checks is a theorem.
The violation runs are counterexamples and have no theorem.

## 6. Not modelled

* The HTTP server and client, the command line, configuration, reports, intake: I/O, parsing and formatting. Requests
  become the request threads of `Backend` and the posts of `Receiver`.
* The operator consoles (`herd.py`, `control.py`, the Rust console) read and ask for requests that other components carry out. An answer addresses a gate by
  the identity captured with the question; a collector thread may show an older snapshot after a newer one.
* Snapshot replay, experiments and self improvement read finished runs and write documents no part of the line depends on.
* Prompts, answers and their parsing, mounts, images and limits of sandboxes, the files of blueprints: configuration or text.
* `bind_jobs` and `admit_scheduled_run` (their last step, the attachment of a scheduled run, is in `Backend`), the rate limiter, the binding
  of an inbox file to its base URL, comments, labels and local publication.
* Airflow, GitHub, Docker, git, the microVM daemon and model providers are external and appear as nondeterministic answers.
  Hash functions are replaced by what they distinguish.

## 7. Plan

The components that change state are modelled, some in part (section 6 and the notes in `PROJECT.json`), and the safety the runs check is proved. What is left is liveness of the job and of the
restore window, under the fairness Airflow's scheduler and the operator justify.
