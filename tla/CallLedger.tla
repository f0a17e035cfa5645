----------------------------- MODULE CallLedger -----------------------------
(***************************************************************************)
(* Who pays for a model call: the per-call ledger of                       *)
(* swfactory/call_accounting.py, the run's ceiling and the read-only hold  *)
(* of stages._agent, the run lock of swfactory/state.py and the operator's *)
(* billing import of swfactory/call_observations.py.                       *)
(*                                                                         *)
(* A task owns the run while it executes a stage, and keeps its Ctx (and   *)
(* the spend cached in it) when it gives the run back, as the CLI does     *)
(* while it waits for an approval.  In a fork wave the children call the   *)
(* agent side by side, each on a copy of the Ctx.  A task may die at any   *)
(* point: the provider goes on and bills what it likes.                    *)
(*                                                                         *)
(* Money is counted in small units.  A provider may cost more than the cap *)
(* of its call (granted), as docs/run-recovery.md says; what a call really *)
(* costs is known to the factory only through the answer or an             *)
(* observation.  Journals are appended under the run lock or the file's    *)
(* own lock and fsynced, so a row is atomic.                               *)
(***************************************************************************)
EXTENDS Integers, FiniteSets, FiniteSetsExt

CONSTANTS
  Tasks,           \* processes that work on the run, with a Ctx each
  Kids,            \* fork children of the stage in progress
  NoTask,
  MaxBudget,       \* cfg.max_budget_usd
  PerStage,        \* cfg.max_budget_usd_per_stage
  OldSpend,        \* cost in the stage log from before the ledger existed
  MaxOvershoot,    \* bound on what a call costs beyond its cap
  MaxLedgerCalls,  \* bound on calls
  MaxTaskDeaths    \* bound on deaths

ASSUME LedgerAssumption ==
  /\ MaxBudget \in Nat /\ PerStage \in Nat \ {0} /\ OldSpend \in 0 .. MaxBudget
  /\ MaxLedgerCalls \in Nat \ {0} /\ MaxTaskDeaths \in Nat /\ MaxOvershoot \in Nat
  /\ IsFiniteSet(Tasks) /\ IsFiniteSet(Kids) /\ Tasks \cap Kids = {} /\ NoTask \notin Tasks

VARIABLES
  era,         \* where earlier money stands: "stagelog" (before the ledger), "rows" (ledger without a floor)
  agentKind,   \* "claude": the answer carries the cost; "external": an observation must
  owner,       \* holder of the kernel lock of the run
  floor,       \* the adopted floor, or -1
  stageLog,    \* sum of cost_usd in stages.jsonl
  call,        \* call[k]: the ledger's record of call k, and the provider's truth about it
  ctx,         \* ctx[c]: the Ctx of a task or of a fork child
  worktree,    \* "clean", or "edited" by a read-only call
  hold,        \* does READONLY_HOLD exist
  deaths

ledgerVars == <<era, agentKind, owner, floor, stageLog, call, ctx, worktree, hold, deaths>>

CallIds  == 1 .. MaxLedgerCalls
Contexts == Tasks \cup Kids
External == agentKind = "external"

Rounds   == 1 .. 2       \* <stage>.<iteration> of a call

NoCall == [state |-> "none", granted |-> 0, settled |-> 0, round |-> 0,     \* the ledger
           real |-> 0, sent |-> FALSE, running |-> FALSE, nostart |-> FALSE]  \* the provider and the sandbox
Fresh  == [at |-> "away", seeded |-> FALSE, spent |-> 0, start |-> 0, granted |-> 0, call |-> 0,
           round |-> 0, writes |-> FALSE, before |-> "clean"]

\* A run the ledger meets for the first time, or one whose ledger predates the floor row.
LedgerInit ==
  /\ era \in {"stagelog", "rows"}
  /\ agentKind \in {"claude", "external"}
  /\ External => era = "rows"      \* external agents always had a ledger
  /\ owner = NoTask
  /\ floor = -1
  /\ stageLog = OldSpend
  /\ call = [k \in CallIds |->
               IF era = "rows" /\ k = 1
               THEN [NoCall EXCEPT !.state = "settled", !.granted = OldSpend, !.settled = OldSpend, !.real = OldSpend]
               ELSE NoCall]
  /\ ctx = [c \in Contexts |-> Fresh]
  /\ worktree = "clean" /\ hold = FALSE
  /\ deaths = 0

-----------------------------------------------------------------------------
(* What the ledger says.                                                   *)

Made         == {k \in CallIds : call[k].state # "none"}
Unreconciled == {k \in Made : call[k].state # "settled"}

\* Fault: a call whose answer was lost is not charged.
ChargeKnownOnly(k) == IF call[k].state = "unknown" THEN 0 ELSE IF call[k].state = "settled" THEN call[k].settled ELSE call[k].granted

\* CallRecord.charge: the full reservation until the call is settled.
Charge(k) == IF call[k].state = "settled" THEN call[k].settled ELSE call[k].granted

Charged == MapThenSumSet(Charge, Made)
SettledCalls == MapThenSumSet(LAMBDA k : call[k].settled, Made \ Unreconciled)

\* persisted_cost: the stage log, or for an external agent what the ledger has settled.
PersistedCost == IF External THEN SettledCalls ELSE stageLog

\* adopt_floor: once, the money of calls the ledger never saw.
AdoptedFloor == IF floor # -1 THEN floor ELSE IF Made # {} THEN 0 ELSE PersistedCost

PersistedSpend == AdoptedFloor + Charged

\* seed_budget(refresh=True).
SeededSpend(c) ==
  IF ~ctx[c].seeded THEN ctx[c].spent + PersistedSpend
  ELSE IF External \/ ctx[c].spent < PersistedSpend THEN PersistedSpend ELSE ctx[c].spent

\* observed() of the stage wrapper: the cached spend, or what the ledger has settled.
ObservedCost(spent) == IF External THEN AdoptedFloor + SettledCalls ELSE spent

-----------------------------------------------------------------------------
(* A stage under the run lock.                                             *)

\* exclusive and _timed: the lock is not waited for; the spend is refreshed before the stage begins.
Acquire(t) ==
  /\ owner = NoTask /\ ctx[t].at = "away"
  /\ owner' = t
  /\ ctx' = [ctx EXCEPT ![t] = [@ EXCEPT !.at = "idle", !.seeded = TRUE, !.spent = SeededSpend(t),
                                         !.start = ObservedCost(SeededSpend(t))]]
  /\ floor' = AdoptedFloor
  /\ UNCHANGED <<era, agentKind, stageLog, call, worktree, hold, deaths>>

\* The stage returns or raises: its cost goes to the stage log either way.
EndStage(t) ==
  LET cost == ObservedCost(ctx[t].spent) - ctx[t].start IN
  /\ owner = t /\ ctx[t].at \in {"idle", "raised"}
  /\ \A k \in Kids : ctx[k].at = "away"
  /\ stageLog' = IF cost > 0 THEN stageLog + cost ELSE stageLog
  /\ owner' = NoTask
  /\ ctx' = [ctx EXCEPT ![t].at = "away"]
  /\ UNCHANGED <<era, agentKind, floor, call, worktree, hold, deaths>>

\* The process dies, its fork children's threads with it; the kernel frees the lock.
Die(t) ==
  /\ owner = t /\ deaths < MaxTaskDeaths
  /\ owner' = NoTask
  /\ ctx' = [c \in Contexts |-> IF c = t \/ c \in Kids THEN Fresh ELSE ctx[c]]
  /\ deaths' = deaths + 1
  /\ UNCHANGED <<era, agentKind, floor, stageLog, call, worktree, hold>>

\* fork_decision: every child must be able to draw its whole cap.
GateAffords(t) == MaxBudget - SeededSpend(t) >= Cardinality(Kids) * PerStage

\* run_wave: the children start on copies of the parent's Ctx.
ForkKids(t) ==
  /\ owner = t /\ ctx[t].at = "idle" /\ ~External /\ Kids # {}
  /\ \A k \in Kids : ctx[k].at = "away"
  /\ GateAffords(t)
  /\ ctx' = [c \in Contexts |->
               IF c = t THEN [ctx[t] EXCEPT !.at = "joining", !.spent = SeededSpend(t)]
               ELSE IF c \in Kids THEN [ctx[t] EXCEPT !.at = "idle", !.spent = SeededSpend(t)]
               ELSE ctx[c]]
  /\ UNCHANGED <<era, agentKind, owner, floor, stageLog, call, worktree, hold, deaths>>

\* The parent continues when every child has returned or raised, and looks at the ledger again.
Join(t) ==
  /\ owner = t /\ ctx[t].at = "joining"
  /\ \A k \in Kids : ctx[k].at \in {"returned", "raised"}
  /\ ctx' = [c \in Contexts |->
               IF c = t THEN [ctx[t] EXCEPT !.at = "idle", !.spent = SeededSpend(t)]
               ELSE IF c \in Kids THEN Fresh ELSE ctx[c]]
  /\ UNCHANGED <<era, agentKind, owner, floor, stageLog, call, worktree, hold, deaths>>

-----------------------------------------------------------------------------
(* stages._agent, up to the reservation.                                   *)

\* recover_external stops what an earlier attempt left running; a persisted proof that a call never
\* started settles it at zero before the ceiling is checked.
Recovered ==
  [k \in CallIds |->
    IF k \notin Unreconciled THEN call[k]
    ELSE IF call[k].nostart THEN [call[k] EXCEPT !.state = "settled", !.settled = 0, !.running = FALSE]
    ELSE [call[k] EXCEPT !.running = FALSE]]

RecoverLedger(c) ==
  /\ ctx[c].at = "idle" /\ External
  /\ call' = Recovered
  /\ ctx' = [ctx EXCEPT ![c].at = "recovered"]
  /\ UNCHANGED <<era, agentKind, owner, floor, stageLog, worktree, hold, deaths>>

Ready(c)     == ctx[c].at = IF External THEN "recovered" ELSE "idle"
Remaining(c) == MaxBudget - SeededSpend(c)
Granted(c)   == Min({PerStage, Remaining(c)})

Refused(c) ==
  \/ Remaining(c) <= 0
  \/ hold /\ worktree # "clean"

\* The ceiling and the read-only hold; the fingerprint the tree is compared with afterwards.
StartCall(c, writes, round) ==
  /\ Ready(c) /\ ~Refused(c)
  /\ c \in Kids => writes
  /\ ~External => round = 1       \* only an external agent's round is ever compared
  /\ ctx' = [ctx EXCEPT ![c] = [@ EXCEPT !.at = "checked", !.spent = SeededSpend(c), !.granted = Granted(c),
                                         !.round = round, !.writes = writes, !.before = worktree]]
  /\ hold' = FALSE
  /\ UNCHANGED <<era, agentKind, owner, floor, stageLog, call, worktree, deaths>>

RefuseCall(c) ==
  /\ Ready(c) /\ Refused(c)
  /\ ctx' = [ctx EXCEPT ![c].at = "raised", ![c].spent = SeededSpend(c)]
  /\ UNCHANGED <<era, agentKind, owner, floor, stageLog, call, worktree, hold, deaths>>

\* An unresolved paid attempt of the same round is not repeated by an external agent.
Unresolved(c) == External /\ \E k \in Unreconciled : call[k].round = ctx[c].round

\* CallLedger.reserve: a new call id for every attempt, on disk before the provider is asked.
Reserve(c) ==
  /\ ctx[c].at = "checked" /\ ~Unresolved(c)
  /\ \E k \in CallIds \ Made :
       /\ \A j \in CallIds \ Made : k <= j
       /\ call' = [call EXCEPT ![k] = [NoCall EXCEPT !.state = "reserved", !.granted = ctx[c].granted,
                                                    !.round = ctx[c].round]]
       /\ ctx' = [ctx EXCEPT ![c].at = "called", ![c].call = k]
  /\ UNCHANGED <<era, agentKind, owner, floor, stageLog, worktree, hold, deaths>>

RefuseRepeat(c) ==
  /\ ctx[c].at = "checked" /\ Unresolved(c)
  /\ ctx' = [ctx EXCEPT ![c].at = "raised"]
  /\ UNCHANGED <<era, agentKind, owner, floor, stageLog, call, worktree, hold, deaths>>

-----------------------------------------------------------------------------
(* The provider.                                                           *)

\* The launcher hands the request over.
Launch(c) ==
  LET k == ctx[c].call IN
  /\ ctx[c].at = "called" /\ ~call[k].sent /\ ~call[k].nostart
  /\ call' = [call EXCEPT ![k].sent = TRUE, ![k].running = TRUE]
  /\ UNCHANGED <<era, agentKind, owner, floor, stageLog, ctx, worktree, hold, deaths>>

\* The container runtime refuses to start the process; the launcher persists the proof.
LaunchFails(c) ==
  LET k == ctx[c].call IN
  /\ ctx[c].at = "called" /\ External /\ ~call[k].sent /\ ~call[k].nostart
  /\ call' = [call EXCEPT ![k].nostart = TRUE]
  /\ UNCHANGED <<era, agentKind, owner, floor, stageLog, ctx, worktree, hold, deaths>>

\* The provider bills one more unit, beyond the cap it was given too, whether or not anybody still waits.
Bill(k) ==
  /\ call[k].running /\ call[k].real < call[k].granted + MaxOvershoot
  /\ call' = [call EXCEPT ![k].real = @ + 1]
  /\ UNCHANGED <<era, agentKind, owner, floor, stageLog, ctx, worktree, hold, deaths>>

\* A read-only call edits the tree of the run all the same; an external one has it mounted read-only.
Misbehave(t) ==
  /\ t \in Tasks /\ ctx[t].at = "called" /\ ~ctx[t].writes /\ ~External
  /\ call[ctx[t].call].running /\ worktree = "clean"
  /\ worktree' = "edited"
  /\ UNCHANGED <<era, agentKind, owner, floor, stageLog, call, ctx, hold, deaths>>

-----------------------------------------------------------------------------
(* stages._agent, after the call.                                          *)

\* The answer: the reservation is replaced by the cost it reports; an external one reports none.
Answer(c) ==
  LET k == ctx[c].call IN
  /\ ctx[c].at = "called" /\ call[k].running
  /\ call' = [call EXCEPT ![k] =
                IF External THEN [@ EXCEPT !.state = "unknown", !.running = FALSE]
                ELSE [@ EXCEPT !.state = "settled", !.settled = call[k].real, !.running = FALSE]]
  /\ ctx' = [ctx EXCEPT ![c] = [@ EXCEPT !.at = "answered", !.spent = ctx[c].spent + IF External THEN 0 ELSE call[k].real]]
  /\ UNCHANGED <<era, agentKind, owner, floor, stageLog, worktree, hold, deaths>>

\* A timeout or a dead cell: the provider may go on, so the whole reservation stands, unless the
\* sandbox can prove that the call never started.
CallRaises(c) ==
  LET k == ctx[c].call IN
  /\ ctx[c].at = "called"
  /\ call' = [call EXCEPT ![k] =
                IF call[k].nostart THEN [@ EXCEPT !.state = "settled", !.settled = 0]
                ELSE [@ EXCEPT !.state = "unknown"]]
  /\ ctx' = [ctx EXCEPT ![c].at = "raised"]
  /\ UNCHANGED <<era, agentKind, owner, floor, stageLog, worktree, hold, deaths>>

Edited(c) == ~ctx[c].writes /\ ~External /\ worktree # ctx[c].before

\* After the answer is settled: the read-only hold, the ceiling, the agent's own verdict.
Return(c) ==
  /\ ctx[c].at = "answered"
  /\ hold' = (hold \/ Edited(c))
  /\ \E failed \in BOOLEAN :
       ctx' = [ctx EXCEPT ![c].at = IF Edited(c) \/ ctx[c].spent > MaxBudget \/ failed THEN "raised"
                                     ELSE IF c \in Kids THEN "returned"
                                     ELSE IF ctx[c].writes THEN "written" ELSE "idle"]
  /\ UNCHANGED <<era, agentKind, owner, floor, stageLog, call, worktree, deaths>>

\* git add -A and commit of a write stage take whatever the tree holds.
CommitWrite(t) ==
  /\ ctx[t].at = "written"
  /\ ctx' = [ctx EXCEPT ![t].at = "idle"]
  /\ worktree' = "clean"
  /\ UNCHANGED <<era, agentKind, owner, floor, stageLog, call, hold, deaths>>

-----------------------------------------------------------------------------
(* The operator.                                                           *)

\* _cleanup_time: a final bill follows the proof that the process was stopped.
Final(k) == k \in Unreconciled /\ ~call[k].running

\* reconcile_call: under the run lock, the provider's own usage, which may be none.
Reconcile(k) ==
  /\ External /\ owner = NoTask /\ Final(k)
  /\ call' = [call EXCEPT ![k].state = "settled", ![k].settled = call[k].real]
  /\ UNCHANGED <<era, agentKind, owner, floor, stageLog, ctx, worktree, hold, deaths>>

\* The operator restores the tree the violating call found.
RestoreTree ==
  /\ owner = NoTask /\ hold /\ worktree = "edited"
  /\ worktree' = "clean"
  /\ UNCHANGED <<era, agentKind, owner, floor, stageLog, call, ctx, hold, deaths>>

-----------------------------------------------------------------------------
LedgerNext ==
  \/ \E t \in Tasks : \/ Acquire(t) \/ EndStage(t) \/ Die(t) \/ ForkKids(t) \/ Join(t)
                      \/ Misbehave(t) \/ CommitWrite(t)
  \/ \E c \in Contexts :
       \/ RecoverLedger(c) \/ RefuseCall(c) \/ Reserve(c) \/ RefuseRepeat(c)
       \/ Launch(c) \/ LaunchFails(c) \/ Answer(c) \/ CallRaises(c) \/ Return(c)
       \/ \E w \in BOOLEAN, r \in Rounds : StartCall(c, w, r)
  \/ \E k \in CallIds : Bill(k) \/ Reconcile(k)
  \/ RestoreTree

LedgerSpec == LedgerInit /\ [][LedgerNext]_ledgerVars

-----------------------------------------------------------------------------
OldMoney == IF era = "stagelog" THEN OldSpend ELSE 0

\* What a call really cost, as far as its own cap goes.
WithinCap(k) == IF call[k].real <= call[k].granted THEN call[k].real ELSE call[k].granted

\* What the ledger can know of it: an overshoot only once the call is settled.
Knowable(k) == IF call[k].state = "settled" THEN call[k].real ELSE WithinCap(k)

\* Only a call's own overshoot takes the money really billed over the ceiling of the run
\* (max_budget_usd): all that calls bill within their caps fits, for calls nobody waits for any more
\* too, over kills, retries, retained contexts and fork waves, and whatever others overshot before.
CapsWithinCeiling == OldMoney + MapThenSumSet(WithinCap, Made) <= MaxBudget

\* The factory never believes that a call cost less than it can know: whoever refreshes sees the whole
\* cost of every settled call, overshoot included, and at least the capped cost of every other one; the
\* money of the stage log is not counted on top of the ledger's own rows.
PersistedSpendIsSound ==
  /\ OldMoney + MapThenSumSet(Knowable, Made) <= PersistedSpend
  /\ floor # -1 => floor = OldMoney

\* The ceiling of a run holds of all the money billed within the caps of its calls, and what the factory
\* believes it spent is never less than it can know, across tasks, fork children and deaths, although
\* any call may overshoot its cap (call_accounting, stages._agent, stages._observed_spend).
SpendAccounted == CapsWithinCeiling /\ PersistedSpendIsSound
=============================================================================
