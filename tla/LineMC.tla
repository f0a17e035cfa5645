-------------------------------- MODULE LineMC --------------------------------
(***************************************************************************)
(* Small instances of what happens in one run of the line: the build stage,*)
(* the fork wave, the ledger of model calls, gates and delivery, the rules *)
(* of review and gate, and the job's reports to its Cell.  They share no   *)
(* state, so one behaviour exercises one of them.                          *)
(***************************************************************************)
EXTENDS BuildStage, ForkWave, CallLedger, Delivery, ReviewRules, MappedJob

VARIABLE part    \* the component exercised

\* Work node 2 depends on node 1.
Deps == [n \in WorkNodes |-> IF n = 2 THEN {1} ELSE {}]

\* Suites of four tests, or five: green, partly red, mostly red, with a new red test, lint broken, no report.
MCOutcomes == {Report(TRUE, TRUE, 1 .. 4, {}, FALSE), Report(TRUE, TRUE, 1 .. 4, {4}, TRUE),
               Report(TRUE, TRUE, 1 .. 4, 1 .. 3, TRUE), Report(TRUE, TRUE, 1 .. 5, {1}, FALSE),
               Report(TRUE, FALSE, 1 .. 4, {1, 2}, TRUE), Report(FALSE, FALSE, {}, {}, TRUE)}

\* A short line with a gate after the plan.
MCLine == <<"plan", "build_and_test", "review", "deliver">>

\* A component that is not exercised stays in one of its initial states.
LineInit ==
  /\ part \in {"build", "fork", "ledger", "delivery", "rules", "job"}
  /\ BuildInit /\ (part # "build" => plan = {})
  /\ ForkInit
  /\ LedgerInit /\ (part # "ledger" => era = "rows" /\ agentKind = "claude")
  /\ DeliveryInit
  /\ RulesInit
  /\ JobInit /\ (part # "job" => ~autonomous)

OthersStand ==
  /\ part' = part
  /\ IF part = "build" THEN TRUE ELSE UNCHANGED buildVars
  /\ IF part = "fork" THEN TRUE ELSE UNCHANGED forkVars
  /\ IF part = "ledger" THEN TRUE ELSE UNCHANGED ledgerVars
  /\ IF part = "delivery" THEN TRUE ELSE UNCHANGED runVars
  /\ IF part = "rules" THEN TRUE ELSE UNCHANGED ruleVars
  /\ IF part = "job" THEN TRUE ELSE UNCHANGED jobVars

LineNext ==
  \/ part = "build" /\ BuildNext /\ OthersStand
  \/ part = "fork" /\ ForkNext /\ OthersStand
  \/ part = "ledger" /\ LedgerNext /\ OthersStand
  \/ part = "delivery" /\ DeliveryNext /\ OthersStand
  \/ part = "rules" /\ question.about = "nothing" /\ RulesNext /\ OthersStand
  \/ part = "job" /\ JobNext /\ OthersStand

lineVars == <<part, buildVars, forkVars, ledgerVars, runVars, ruleVars, jobVars>>

LineSpec == LineInit /\ [][LineNext]_lineVars
===============================================================================
