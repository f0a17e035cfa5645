----------------------------- MODULE Annealing -----------------------------
(***************************************************************************)
(* The review stage of the Liquid line (swfactory/liquid_annealing.py):    *)
(* three specialist lanes read the diff one after the other, their findings*)
(* are merged with what code decides of HEAD (plan fidelity, requirement   *)
(* trace) and with a carried test blocker, and blockers and majors are     *)
(* repaired within a bound.  The stage runs again from the start when it   *)
(* was killed.  The numbers evaluate() computes besides the phase steer    *)
(* nothing and are left out, and so are the nits that cap_nits drops.      *)
(*                                                                         *)
(* A finding is [key, sev]: the place and title it is de-duplicated by, and*)
(* its severity; "minor" stands for every severity that needs no repair.   *)
(***************************************************************************)
EXTENDS Integers, FiniteSets

CONSTANTS
  AnnealFixes,   \* cfg.max_review_fixes
  MaxVersions,   \* bound on versions of the code
  MaxCuts        \* bound on kills

ASSUME AnnealAssumption == AnnealFixes \in Nat /\ MaxVersions \in Nat \ {0} /\ MaxCuts \in Nat

LANES      == 1 .. 3
Severities == {"blocker", "major", "minor"}
Severity   == [blocker |-> 0, major |-> 1, minor |-> 2]     \* rank in merge_findings
LaneKey    == "remark"
Versions   == 1 .. MaxVersions

VARIABLES
  version,   \* code of HEAD
  fenced,     \* workspace-head
  greenOf,   \* greenOf[v]: the suite passes on version v, for the versions committed so far
  decided,   \* decided[v]: what plan fidelity and the requirement trace say of version v
  tested,    \* the version the recorded suite run describes
  pass,      \* the running pass of the stage
  outcome,   \* its record: status, the version it is about, the phase, and what the lanes raised in the last round
  cuts

anVars == <<version, fenced, greenOf, decided, tested, pass, outcome, cuts>>
source == <<version, fenced, greenOf, decided, tested>>

NoPass    == [at |-> "none", round |-> 0, groups |-> [l \in {} |-> {}], carried |-> {}, green |-> FALSE, findings |-> {},
              read |-> 0, before |-> 0, strays |-> FALSE, last |-> {}, phase |-> "none"]
NoOutcome == [status |-> "none", of |-> 0, phase |-> "none", raised |-> {}]

F(key, sev) == [key |-> key, sev |-> sev]

\* What code may decide of a version: a file outside the plan, a failing acceptance test, one that is
\* missing or skipped.
CodeDecided == {{}, {F("fidelity", "major")}, {F("acceptance", "blocker")}, {F("missing", "blocker")}}

\* The build left a green candidate and its suite run (review runs only after it).
AnnealInit ==
  /\ version = 1 /\ fenced = 1 /\ tested = 1
  /\ greenOf = [v \in {1} |-> TRUE]
  /\ \E d \in CodeDecided : decided = [v \in {1} |-> d]
  /\ pass = NoPass /\ outcome = NoOutcome /\ cuts = 0

-----------------------------------------------------------------------------
(* Findings.                                                               *)

\* merge_findings: one finding per key, the most severe.
MergeFindings(fs) == {f \in fs : \A g \in fs : g.key = f.key => Severity[f.sev] <= Severity[g.sev]}

Actionable(fs) == {f \in fs : f.sev \in {"blocker", "major"}}
HasBlocker(fs) == \E f \in fs : f.sev = "blocker"

\* fixable_findings
Repairable(fs) == {f \in fs : f.key # "missing"}

\* evaluate: every lane has answered when it is called.
Crystallized(fs, green) == green /\ Actionable(fs) = {}

\* evaluate: the phase of a round.
AnnealPhase(fs, green, stagnated, exhausted) ==
  IF exhausted /\ ~green THEN "jammed"
  ELSE IF HasBlocker(fs) \/ ~green THEN "critical"
  ELSE IF stagnated /\ Actionable(fs) # {} THEN "glass"
  ELSE IF Crystallized(fs, green) THEN "crystal"
  ELSE "liquid"

-----------------------------------------------------------------------------
(* The stage.                                                              *)

\* _assert_workspace_head, refresh_test_evidence and _initial_tests_green.  A checkout that left the
\* fence is refused.
BeginReview ==
  /\ pass.at = "none" /\ outcome.status \notin {"ok", "blocked"} /\ version = fenced
  /\ tested' = version
  /\ LET red == tested # version /\ ~greenOf[version] IN
       pass' = [NoPass EXCEPT !.at = "lanes", !.green = ~red, !.carried = IF red THEN {F("tests", "blocker")} ELSE {}]
  /\ UNCHANGED <<version, fenced, greenOf, decided, outcome, cuts>>

\* _round: the next lane answers.
Lane(found) ==
  LET l == Cardinality(DOMAIN pass.groups) + 1 IN
  /\ pass.at = "lanes" /\ l \in LANES
  /\ pass' = [pass EXCEPT !.groups = [k \in 1 .. l |-> IF k = l THEN found ELSE pass.groups[k]]]
  /\ UNCHANGED <<source, outcome, cuts>>

\* The fan-in of a round, and what the stage does next.
FanIn ==
  LET fs        == MergeFindings((UNION {pass.groups[l] : l \in LANES}) \cup decided[version] \cup pass.carried)
      signature == Actionable(fs)
      exhausted == pass.round = AnnealFixes
      stops     == Crystallized(fs, pass.green) \/ exhausted \/ Repairable(signature) = {}
  IN
  /\ pass.at = "lanes" /\ DOMAIN pass.groups = LANES
  /\ pass' = [pass EXCEPT !.at = IF stops THEN "conclude" ELSE "fix", !.findings = fs, !.read = version,
                !.last = IF stops THEN @ ELSE signature,
                !.phase = AnnealPhase(fs, pass.green, signature # {} /\ signature = pass.last, exhausted)]
  /\ UNCHANGED <<source, outcome, cuts>>

\* fix_and_retest: the agent's fix is committed, or there was nothing to commit.
Fix(green, says) ==
  /\ pass.at = "fix"
  /\ \/ /\ Cardinality(DOMAIN greenOf) + 1 \in Versions
        /\ version' = Cardinality(DOMAIN greenOf) + 1
        /\ greenOf' = [v \in 1 .. version' |-> IF v = version' THEN green ELSE greenOf[v]]
        /\ decided' = [v \in 1 .. version' |-> IF v = version' THEN says ELSE decided[v]]
     \/ green /\ says = {} /\ UNCHANGED <<version, greenOf, decided>>
  /\ pass' = [pass EXCEPT !.at = "fence", !.before = version, !.groups = NoPass.groups, !.findings = {}]
  /\ UNCHANGED <<fenced, tested, outcome, cuts>>

\* commit's fence, then _assert_stage_scope: a fix that touched a protected path is to be restored.
FenceFix ==
  /\ pass.at = "fence"
  /\ fenced' = version
  /\ \/ pass' = [pass EXCEPT !.at = "test"]
     \/ version # pass.before /\ pass' = [pass EXCEPT !.at = "restore", !.strays = TRUE]
  /\ UNCHANGED <<version, greenOf, decided, tested, outcome, cuts>>

NextRound(blocker) ==
  [pass EXCEPT !.at = "lanes", !.round = @ + 1, !.groups = NoPass.groups, !.green = ~blocker,
               !.carried = IF blocker THEN {F("tests", "blocker")} ELSE {}]

\* Fault: the stage ends with the fix that turned the suite green, on the findings of the last round it fixed.
TestFixEnds ==
  /\ pass.at = "test"
  /\ tested' = version
  /\ pass' = IF greenOf[version] THEN [pass EXCEPT !.at = "conclude", !.green = TRUE, !.findings = {}]
             ELSE IF version # pass.before THEN [pass EXCEPT !.at = "restore"]
             ELSE NextRound(TRUE)
  /\ UNCHANGED <<version, fenced, greenOf, decided, outcome, cuts>>

\* A red fix is reverted; a red head that no fix changed stays, as a blocker.
TestFix ==
  /\ pass.at = "test"
  /\ tested' = version
  /\ pass' = IF greenOf[version] THEN NextRound(FALSE)
             ELSE IF version # pass.before THEN [pass EXCEPT !.at = "restore"]
             ELSE NextRound(TRUE)
  /\ UNCHANGED <<version, fenced, greenOf, decided, outcome, cuts>>

\* restore_head in its two writes, then the suite of the restored head.
RestoreFix ==
  /\ pass.at = "restore"
  /\ version' = pass.before
  /\ pass' = [pass EXCEPT !.at = "refence"]
  /\ UNCHANGED <<fenced, greenOf, decided, tested, outcome, cuts>>

RefenceFix ==
  /\ pass.at = "refence"
  /\ fenced' = version
  /\ pass' = [pass EXCEPT !.at = IF pass.strays THEN "raise" ELSE "retest"]
  /\ UNCHANGED <<version, greenOf, decided, tested, outcome, cuts>>

RetestFix ==
  /\ pass.at = "retest"
  /\ tested' = version
  /\ pass' = NextRound(TRUE)
  /\ UNCHANGED <<version, fenced, greenOf, decided, outcome, cuts>>

\* review.json, annealing.json and trace.json, then the stage's record.
ConcludeReview ==
  /\ pass.at = "conclude"
  /\ outcome' = [status |-> IF Crystallized(pass.findings, pass.green) THEN "ok" ELSE "blocked",
                 of |-> pass.read, phase |-> pass.phase, raised |-> UNION {pass.groups[l] : l \in DOMAIN pass.groups}]
  /\ pass' = NoPass
  /\ UNCHANGED <<source, cuts>>

\* An agent call raises, or a fix that strayed is refused: the stage is recorded as failed and may run again.
AnnealRaises ==
  /\ \/ pass.at = "lanes" /\ DOMAIN pass.groups # LANES
     \/ pass.at \in {"fix", "raise"}
  /\ outcome' = [NoOutcome EXCEPT !.status = "failed"]
  /\ pass' = NoPass
  /\ UNCHANGED <<source, cuts>>

CutReview ==
  /\ pass.at # "none" /\ cuts < MaxCuts
  /\ pass' = NoPass /\ cuts' = cuts + 1
  /\ UNCHANGED <<source, outcome>>

AnnealNext ==
  \/ BeginReview \/ FanIn \/ FenceFix \/ TestFix \/ RestoreFix \/ RefenceFix \/ RetestFix
  \/ ConcludeReview \/ AnnealRaises \/ CutReview
  \/ Lane({}) \/ \E s \in Severities : Lane({F(LaneKey, s)})
  \/ \E g \in BOOLEAN, d \in CodeDecided : Fix(g, d)

AnnealSpec == AnnealInit /\ [][AnnealNext]_anVars

-----------------------------------------------------------------------------
\* A review on record as ok is about the very code HEAD is at, which has a suite run of its own; code found
\* no defect in it, and no lane is outvoted: what one lane calls a blocker or a major keeps the stage from
\* ending ok, whatever the others call it.  So neither a fix nor the revert of one escapes a further round.
OkIsOfHead ==
  outcome.status = "ok" => /\ outcome.of = version /\ version = fenced /\ tested = version
                           /\ decided[version] = {} /\ Actionable(outcome.raised) = {}

=============================================================================
