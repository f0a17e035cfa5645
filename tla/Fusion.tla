-------------------------------- MODULE Fusion --------------------------------
(***************************************************************************)
(* The fusion build stage (replica_fusion.py): roles work in parallel on   *)
(* copies of one base, disjoint repairs are composed, a synthesis may      *)
(* follow, and the stage adopts a verified candidate.  Attempts are        *)
(* journalled so that a killed stage can be run again.                     *)
(***************************************************************************)
EXTENDS Integers, FiniteSets, FiniteSetsExt

CONSTANTS
    TreeFiles,       \* the files of the target
    PlanFiles,       \* the files the approved plan names
    FusionProtected, \* files no candidate may touch
    Edits,           \* sets of files an agent may fix in one call
    Needed,          \* files whose fix makes the checks pass
    FusionRounds,    \* spec.max_rounds
    MaxFusionTries   \* bound: attempts of the stage

ASSUME FusionAssumption ==
    /\ PlanFiles \subseteq TreeFiles /\ FusionProtected \subseteq TreeFiles /\ Needed \subseteq TreeFiles
    /\ Edits \subseteq SUBSET TreeFiles
    /\ FusionRounds \in Nat \ {0} /\ MaxFusionTries \in Nat

VARIABLES
    fused,      \* the stage's own checkout: committed fixes, dirty flag, recorded head
    progress,  \* replica-fusion.json: attempts, phase, winner
    stage,     \* the stage process: step, round, base
    bundle,    \* the evidence bundles of each round: none, partial or whole
    bill,      \* the campaign's ledger row: state and settled cost
    cell,      \* the Cell is live and the campaign is not cancelled
    runs       \* attempts of the stage begun

fusionvars == <<fused, progress, stage, bundle, bill, cell, runs>>

Writers == {"repair-a", "repair-b", "synthesis"}
Roles == {"repair-a", "repair-b", "challenger"}     \* diagnostic behaves as challenger
Identities == (1..FusionRounds) \X (Roles \cup {"composition", "synthesis"})

\* A candidate is the set of files it has fixed since the initial base.
NoRow == [state |-> "none", base |-> {}, head |-> {}, verdict |-> "none", cost |-> 0, unknown |-> FALSE]
NoStage == [step |-> "off", round |-> 0, base |-> {}]

FusionInit ==
    /\ fused = [fixed |-> {}, dirty |-> FALSE, recorded |-> {}]
    /\ progress = [rows |-> [i \in Identities |-> NoRow], phase |-> "search", winner |-> NoRow, tested |-> 0]
    /\ stage = NoStage /\ bundle = [n \in 1..FusionRounds |-> "none"]
    /\ bill = [state |-> "none", settled |-> 0] /\ cell = TRUE /\ runs = 0

Row(r) == progress.rows[<<stage.round, r>>]
SetRow(r, v) == progress' = [progress EXCEPT !.rows[<<stage.round, r>>] = v]
FusionCost == MapThenSumSet(LAMBDA i : progress.rows[i].cost, Identities)
InFlight == \E i \in Identities : progress.rows[i].state = "in-flight"
UsageUnknown == \E i \in Identities : progress.rows[i].unknown

\* fence: the Cell is owned and not cancelled, and the checkout is the recorded one.
Owned == cell /\ fused.fixed = fused.recorded

\* verify: lint and tests of the exact tree.
ChecksPass(files) == Needed \subseteq files

VerifierLeft == progress.tested < 4 * FusionRounds + 1

\* Mutant: only the plan bounds a candidate.
InScopeOfPlan(base, head) == head \ base \subseteq PlanFiles

\* scope: changed files are planned and not protected.
InScope(base, head) == head \ base \subseteq PlanFiles \ FusionProtected

\* Leaving the stage by an exception: known usage is settled, the rest unknown.
SettledOnFailure ==
    IF bill.state = "settled" THEN bill
    ELSE IF InFlight \/ UsageUnknown THEN [bill EXCEPT !.state = "unknown"]
    ELSE [state |-> "settled", settled |-> FusionCost]

Fail == stage' = NoStage /\ bill' = SettledOnFailure

-----------------------------------------------------------------------------
\* __init__: an attempt in flight is in doubt.
Resumable == ~InFlight

\* execute_fusion_stage: clean checkout, journal, fence, campaign reservation.
EnterFusion ==
    /\ stage.step = "off" /\ runs < MaxFusionTries /\ progress.phase # "complete"
    /\ runs' = runs + 1
    /\ IF ~fused.dirty /\ Resumable /\ Owned
         THEN /\ bill' = IF bill.state = "none" THEN [bill EXCEPT !.state = "reserved"] ELSE bill
              /\ stage' = [NoStage EXCEPT !.step = IF progress.winner # NoRow THEN "settle" ELSE "round", !.round = 1]
         ELSE UNCHANGED <<bill, stage>>
    /\ UNCHANGED <<fused, progress, bundle, cell>>

BeginRound ==
    /\ stage.step = "round"
    /\ IF Owned THEN stage' = [stage EXCEPT !.step = "roles"] /\ UNCHANGED bill ELSE Fail
    /\ UNCHANGED <<fused, progress, bundle, cell, runs>>

\* attempt: a recorded identity is returned, a new one is saved in flight.
StartAttempt(r) ==
    /\ Row(r).state = "none" /\ Owned
    /\ (stage.step = "roles" /\ r \in Roles) \/ (stage.step = "synthesis" /\ r = "synthesis")
    /\ SetRow(r, [NoRow EXCEPT !.state = "in-flight", !.base = stage.base])
    /\ UNCHANGED <<fused, stage, bill, bundle, cell, runs>>

\* The agent runs in the role's own checkout and is charged.
AgentFixes(r, files) ==
    /\ Row(r).state = "in-flight" /\ Row(r).cost = 0 /\ Owned
    /\ SetRow(r, [Row(r) EXCEPT !.head = Row(r).base \cup (IF r \in Writers THEN files ELSE {}), !.cost = 1])
    /\ UNCHANGED <<fused, stage, bill, bundle, cell, runs>>

\* The call ends without a bill: the attempt fails, its reservation counts.
AgentLost(r) ==
    /\ Row(r).state = "in-flight" /\ Row(r).cost = 0 /\ Owned
    /\ SetRow(r, [Row(r) EXCEPT !.state = "failed", !.cost = 1, !.unknown = TRUE])
    /\ UNCHANGED <<fused, stage, bill, bundle, cell, runs>>

\* The row of a finished attempt: a writer's candidate is scoped and verified.
FinishAttempt(r) ==
    /\ Row(r).state = "in-flight" /\ Row(r).cost = 1 /\ r # "composition"
    /\ LET judged == r \in Writers /\ InScope(Row(r).base, Row(r).head) /\ Owned /\ VerifierLeft
       IN progress' = [progress EXCEPT
            !.rows[<<stage.round, r>>] =
                IF judged THEN [Row(r) EXCEPT !.state = "answered",
                                  !.verdict = IF ChecksPass(Row(r).head) THEN "pass" ELSE "fail"]
                ELSE [Row(r) EXCEPT !.state = IF r \in Writers THEN "failed" ELSE "answered",
                                    !.head = {}],
            !.tested = IF judged THEN @ + 1 ELSE @]
    /\ UNCHANGED <<fused, stage, bill, bundle, cell, runs>>

\* An attempt the fence refused before its agent ran.
RefuseAttempt(r) ==
    /\ Row(r).state = "in-flight" /\ Row(r).cost = 0 /\ r # "composition" /\ ~Owned
    /\ SetRow(r, [Row(r) EXCEPT !.state = "failed"])
    /\ UNCHANGED <<fused, stage, bill, bundle, cell, runs>>

-----------------------------------------------------------------------------
\* The repairs that changed something.
Repairs == {r \in {"repair-a", "repair-b"} : Row(r).state = "answered" /\ Row(r).head # stage.base}

\* _proposal: two contributors whose changed files do not overlap.
Composable ==
    /\ Cardinality(Repairs) = 2
    /\ (Row("repair-a").head \ stage.base) \cap (Row("repair-b").head \ stage.base) = {}

RolesDone == \A r \in Roles : Row(r).state \notin {"none", "in-flight"}

\* search: the pool has ended; usage must be known before anything follows.
JoinRoles ==
    /\ stage.step = "roles"
    /\ RolesDone \/ (~Owned /\ \A r \in Roles : Row(r).state # "in-flight")
    /\ IF ~RolesDone \/ \E r \in Roles : Row(r).unknown THEN Fail
       ELSE /\ stage' = [stage EXCEPT !.step = IF Cardinality(Repairs) = 2 THEN "evidence" ELSE "composed"]
            /\ UNCHANGED bill
    /\ UNCHANGED <<fused, progress, bundle, cell, runs>>

\* compose: a bundle per repair is written file by file, its manifest last.
WriteBundles ==
    /\ stage.step = "evidence" /\ bundle[stage.round] = "none"
    /\ bundle' = [bundle EXCEPT ![stage.round] = "partial"]
    /\ stage' = [stage EXCEPT !.step = "manifest"]
    /\ UNCHANGED <<fused, progress, bill, cell, runs>>

SealBundles ==
    /\ stage.step = "manifest"
    /\ bundle' = [bundle EXCEPT ![stage.round] = "whole"]
    /\ stage' = [stage EXCEPT !.step = "evidence"]
    /\ UNCHANGED <<fused, progress, bill, cell, runs>>

\* A bundle that exists is verified; one that a kill left without its manifest
\* fails the stage, and every later attempt of it.
Compose ==
    /\ stage.step = "evidence" /\ bundle[stage.round] # "none"
    /\ IF bundle[stage.round] = "partial" THEN Fail /\ UNCHANGED progress
       ELSE IF Composable /\ Row("composition").state = "none"
              THEN /\ SetRow("composition", [NoRow EXCEPT !.state = "in-flight", !.base = stage.base])
                   /\ stage' = [stage EXCEPT !.step = "compose"] /\ UNCHANGED bill
              ELSE stage' = [stage EXCEPT !.step = "composed"] /\ UNCHANGED <<progress, bill>>
    /\ UNCHANGED <<fused, bundle, cell, runs>>

\* mechanical: the composed patch is committed, scoped and verified.
Mechanical ==
    /\ stage.step = "compose"
    /\ LET head == Row("repair-a").head \cup Row("repair-b").head
       IN IF Owned /\ VerifierLeft /\ InScope(stage.base, head)
            THEN /\ progress' = [progress EXCEPT
                       !.rows[<<stage.round, "composition">>] =
                          [@ EXCEPT !.state = "answered", !.head = head,
                                    !.verdict = IF ChecksPass(head) THEN "pass" ELSE "fail"],
                       !.tested = @ + 1]
                 /\ stage' = [stage EXCEPT !.step = "composed"] /\ UNCHANGED bill
            ELSE Fail /\ UNCHANGED progress
    /\ UNCHANGED <<fused, bundle, cell, runs>>

\* A passing composition needs no synthesis.
Composed ==
    /\ stage.step = "composed"
    /\ IF Row("composition").verdict = "pass" THEN stage' = [stage EXCEPT !.step = "pick"] /\ UNCHANGED bill
       ELSE IF Row("synthesis").state # "none" THEN stage' = [stage EXCEPT !.step = "pick"] /\ UNCHANGED bill
       ELSE IF Owned THEN stage' = [stage EXCEPT !.step = "synthesis"] /\ UNCHANGED bill
       ELSE Fail
    /\ UNCHANGED <<fused, progress, bundle, cell, runs>>

SynthesisDone ==
    /\ stage.step = "synthesis"
    /\ IF Row("synthesis").state \in {"answered", "failed"}
         THEN stage' = [stage EXCEPT !.step = "pick"] /\ UNCHANGED bill
         ELSE Row("synthesis").state = "none" /\ ~Owned /\ Fail
    /\ UNCHANGED <<fused, progress, bundle, cell, runs>>

\* The candidates whose fresh verification passed.
Winners == {r \in Writers \cup {"composition"} : Row(r).verdict = "pass"}

\* A passing composition or synthesis before a repair; otherwise the next round
\* continues from the best verified candidate.
Pick ==
    /\ stage.step = "pick"
    /\ LET preferred == {r \in Winners : r \in {"composition", "synthesis"}}
           verified == {r \in Writers \cup {"composition"} : Row(r).verdict # "none"}
       IN CASE Winners # {} ->
                 \E r \in IF preferred # {} THEN preferred ELSE Winners :
                    /\ progress' = [progress EXCEPT !.winner = Row(r)]
                    /\ stage' = [stage EXCEPT !.step = "settle"] /\ UNCHANGED bill
            [] Winners = {} /\ verified # {} /\ stage.round < FusionRounds ->
                 \E r \in verified :
                    /\ stage' = [step |-> "round", round |-> stage.round + 1, base |-> Row(r).head]
                    /\ UNCHANGED <<progress, bill>>
            [] OTHER -> Fail /\ UNCHANGED progress
    /\ UNCHANGED <<fused, bundle, cell, runs>>

SettleFusion ==
    /\ stage.step = "settle"
    /\ IF UsageUnknown THEN Fail
       ELSE /\ bill' = IF bill.state = "settled" THEN bill ELSE [state |-> "settled", settled |-> FusionCost]
            /\ stage' = [stage EXCEPT !.step = "adopt"]
    /\ UNCHANGED <<fused, progress, bundle, cell, runs>>

-----------------------------------------------------------------------------
\* adopt: the journal names the winner before the checkout changes.
BeginAdopt ==
    /\ stage.step = "adopt"
    /\ IF ~Owned THEN Fail /\ UNCHANGED progress
       ELSE /\ progress' = [progress EXCEPT !.phase = "adopting"]
            /\ stage' = [stage EXCEPT !.step = IF fused.fixed = {} THEN "apply" ELSE "compare"]
            /\ UNCHANGED bill
    /\ UNCHANGED <<fused, bundle, cell, runs>>

ApplyPatch ==
    /\ stage.step = "apply"
    /\ fused' = [fused EXCEPT !.dirty = TRUE] /\ stage' = [stage EXCEPT !.step = "commit"]
    /\ UNCHANGED <<progress, bill, bundle, cell, runs>>

CommitPatch ==
    /\ stage.step = "commit"
    /\ fused' = [fused EXCEPT !.fixed = progress.winner.head, !.dirty = FALSE]
    /\ stage' = [stage EXCEPT !.step = "record"]
    /\ UNCHANGED <<progress, bill, bundle, cell, runs>>

RecordAdopted ==
    /\ stage.step = "record"
    /\ fused' = [fused EXCEPT !.recorded = fused.fixed] /\ stage' = [stage EXCEPT !.step = "compare"]
    /\ UNCHANGED <<progress, bill, bundle, cell, runs>>

\* The adopted tree is the verified one and is verified once more.
Adopted ==
    /\ stage.step = "compare"
    /\ IF fused.fixed = progress.winner.head /\ Owned /\ VerifierLeft
         THEN /\ progress' = [progress EXCEPT !.tested = @ + 1,
                                 !.phase = IF ChecksPass(fused.fixed) THEN "complete" ELSE @]
              /\ stage' = NoStage /\ UNCHANGED bill
         ELSE Fail /\ UNCHANGED progress
    /\ UNCHANGED <<fused, bundle, cell, runs>>

\* The task is terminated: the exception ends the stage when no role is running.
TerminateFusion ==
    /\ stage.step # "off" /\ ~InFlight
    /\ Fail
    /\ UNCHANGED <<fused, progress, bundle, cell, runs>>

\* The process is killed: of an attempt in flight only its identity was saved.
KillFusion ==
    /\ stage.step # "off"
    /\ stage' = NoStage
    /\ progress' = [progress EXCEPT !.rows = [i \in Identities |->
            IF @[i].state = "in-flight" THEN [NoRow EXCEPT !.state = "in-flight"] ELSE @[i]]]
    /\ UNCHANGED <<fused, bill, bundle, cell, runs>>

CancelFusion ==
    /\ cell /\ cell' = FALSE
    /\ UNCHANGED <<fused, progress, stage, bundle, bill, runs>>

FusionNext ==
    \/ EnterFusion \/ BeginRound \/ JoinRoles \/ WriteBundles \/ SealBundles \/ Compose \/ Mechanical \/ Composed \/ SynthesisDone \/ Pick
    \/ SettleFusion \/ BeginAdopt \/ ApplyPatch \/ CommitPatch \/ RecordAdopted \/ Adopted
    \/ TerminateFusion \/ KillFusion \/ CancelFusion
    \/ /\ stage.step \in {"roles", "synthesis"}
       /\ \E r \in Roles \cup {"synthesis"} :
            \/ StartAttempt(r) \/ FinishAttempt(r) \/ RefuseAttempt(r)
            \/ AgentLost(r)
            \/ \E files \in Edits : AgentFixes(r, files)

FusionSpec == FusionInit /\ [][FusionNext]_fusionvars

-----------------------------------------------------------------------------
\* What the stage leaves in its checkout was verified as those bytes, passes,
\* and changes only planned, unprotected files, however many rounds it grew
\* over and wherever the stage was killed (search, adopt).
AdoptedWasVerified ==
    fused.fixed # {} =>
        /\ fused.fixed \subseteq PlanFiles \ FusionProtected
        /\ ChecksPass(fused.fixed)
        /\ \E i \in Identities : progress.rows[i].head = fused.fixed /\ progress.rows[i].verdict = "pass"

=============================================================================
