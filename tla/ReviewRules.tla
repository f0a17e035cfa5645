----------------------------- MODULE ReviewRules -----------------------------
(***************************************************************************)
(* The model-free rules of a review and of a gate, as functions of their   *)
(* evidence: the requirement trace and the regression guard of             *)
(* swfactory/stages.py, and what counts as an approval in                  *)
(* swfactory/approval_policy.py.                                           *)
(*                                                                         *)
(* A document is a sequence of lines, each one reduced to what the parser  *)
(* sees in it; a test is a name, a JUnit case a name with a parameter.     *)
(* The Python value None is the model value None.                          *)
(***************************************************************************)
EXTENDS Integers, Sequences, FiniteSets, SequencesExt

CONSTANTS
  None,
  TestNames,     \* test names of the target
  Params,        \* parameters of a parametrized test
  ReqIds,        \* requirement numbers
  MaxLines       \* bound on the lines of a spec

ASSUME RulesAssumption == MaxLines \in Nat /\ ReqIds \subseteq Nat /\ IsFiniteSet(ReqIds)

\* sorted(S) of a set of numbers.
Ascending(S) == CHOOSE s \in [1 .. Cardinality(S) -> S] : \A i, j \in 1 .. Cardinality(S) : i < j => s[i] < s[j]

-----------------------------------------------------------------------------
(* Requirements: spec_requirements, plan_test_map.                         *)

\* A line of the spec: a heading of some depth, titled as requirements or not; a numbered item; other text.
SpecLines == [kind : {"heading"}, depth : 1 .. 2, titled : BOOLEAN]
               \cup [kind : {"item"}, id : ReqIds] \cup {[kind |-> "text"]}

\* One line: a deeper heading stays inside the section, any other opens or closes it; an id counts once.
ReadLine(p, line) ==
  IF line.kind = "heading"
  THEN IF p.level > 0 /\ line.depth > p.level THEN p ELSE [p EXCEPT !.level = IF line.titled THEN line.depth ELSE 0]
  ELSE IF line.kind = "item" /\ p.level > 0 /\ ~Contains(p.found, line.id)
       THEN [p EXCEPT !.found = Append(@, line.id)]
       ELSE p

SpecRequirements(lines) ==
  LET Read[i \in 0 .. Len(lines)] == IF i = 0 THEN [level |-> 0, found |-> <<>>] ELSE ReadLine(Read[i - 1], lines[i])
  IN  Read[Len(lines)].found

\* A plan entry "R1-R3: test": a range, expanded when it is ascending and no longer than 50.
PlanEntries == [first : ReqIds, last : ReqIds, test : TestNames]
Numbers(e) == IF e.first <= e.last /\ e.last - e.first <= 50 THEN e.first .. e.last ELSE {e.first, e.last}

PlannedTests(entries, r) == {e.test : e \in {d \in entries : r \in Numbers(d)}}

-----------------------------------------------------------------------------
(* The trace: requirement -> planned test -> JUnit outcome.                *)

CaseIds  == TestNames \X Params
TestOutcomes == {"passed", "failed", "error", "skipped"}

\* junit_cases_for: None, or the outcome of every case the suite reported.
MatchingCases(test, cases) == {c \in DOMAIN cases : c[1] = test}

PlannedOutcome(test, cases) ==
  IF cases = None THEN "unverified"
  ELSE LET seen == {cases[c] : c \in MatchingCases(test, cases)} IN
       CASE seen = {} -> "missing"
         [] seen \cap {"failed", "error"} # {} -> "failed"
         [] seen \cap {"failed", "error"} = {} /\ "skipped" \in seen -> "skipped"
         [] OTHER -> "passed"

TraceStatuses == <<"failed", "missing", "skipped", "unverified", "passed">>

\* The worst status of a requirement's planned tests.
RowStatus(tests, cases) ==
  IF tests = {} THEN "untested"
  ELSE LET found == {PlannedOutcome(t, cases) : t \in tests} IN
       TraceStatuses[CHOOSE i \in 1 .. 5 : TraceStatuses[i] \in found /\ \A j \in 1 .. i - 1 : TraceStatuses[j] \notin found]

\* Requirements in the order of the spec, then the ones only the plan names.
TraceRows(lines, entries, cases) ==
  LET spec == SpecRequirements(lines)
      only == {r \in ReqIds : PlannedTests(entries, r) # {} /\ ~Contains(spec, r)}
      ids  == spec \o Ascending(only)
  IN  [i \in DOMAIN ids |-> [req |-> ids[i], tests |-> PlannedTests(entries, ids[i]),
                             status |-> RowStatus(PlannedTests(entries, ids[i]), cases)]]

AllPlanned(rows) == UNION {rows[i].tests : i \in DOMAIN rows}

\* trace_findings: one blocker per planned test that did not run and pass; without evidence, one in all.
TraceFindings(rows, cases) ==
  IF AllPlanned(rows) = {} THEN {}
  ELSE IF cases = None THEN {<<"no evidence", None>>}
  ELSE {<<PlannedOutcome(t, cases), t>> : t \in {u \in AllPlanned(rows) : PlannedOutcome(u, cases) # "passed"}}

-----------------------------------------------------------------------------
(* The regression guard.                                                   *)

Passing(cases) == {c \in DOMAIN cases : cases[c] = "passed"}

\* Fault: without ids on either side the counts decide.
RegressionsByCount(baseline, cases, passed) ==
  IF baseline.passing # None /\ cases # None THEN {c \in baseline.passing : c \notin Passing(cases)}
  ELSE IF passed >= baseline.passed THEN {} ELSE {"fewer"}

\* regression_findings: what the base passed the candidate must pass, id by id when the base has ids.
Regressions(baseline, cases, passed) ==
  CASE baseline.passing \notin {None, {}} /\ cases = None -> {"unconfirmed"}
    [] baseline.passing # None /\ cases # None -> {c \in baseline.passing : c \notin Passing(cases)}
    [] OTHER -> IF passed >= baseline.passed THEN {} ELSE {"fewer"}

-----------------------------------------------------------------------------
(* What counts as an answer to a gate.                                     *)

GateModes == {"human", "auto", "policy"}
Actors    == {None, "person", "auto", "replay:someone", "policy:r1", "policy:r0"}

\* A recorded response of a gate task: nothing, malformed, or one option with an actor and a time.
Responses == {None} \cup [choice : {"approve", "reject", "malformed"}, actor : Actors, dated : BOOLEAN]

GateRefusal == [mode |-> "refused", decision |-> "reject", actor |-> None, dated |-> FALSE]

\* replay_refusal
ReplayRefused(r) == r.managed \/ r.scm # "local"

\* replay_approval: a fixture never answers for work that can reach the outside world.
ReplayApproval(r) ==
  IF ~r.fixture \/ ReplayRefused(r) THEN GateRefusal
  ELSE [mode |-> "replay", decision |-> "approve", actor |-> "replay:someone", dated |-> FALSE]

\* approval_from_response
ApprovalFromResponse(r) ==
  IF r.gateMode = "policy" THEN GateRefusal
  ELSE IF r.response = None THEN ReplayApproval(r)
  ELSE IF r.response.choice = "malformed" THEN GateRefusal
  ELSE IF r.response.actor = None
       THEN IF r.gateMode = "auto" THEN [mode |-> "auto", decision |-> r.response.choice, actor |-> "auto", dated |-> FALSE]
            ELSE GateRefusal
  ELSE IF r.response.actor # "person" \/ ~r.response.dated THEN GateRefusal      \* a reserved name, or no answer time
  ELSE [mode |-> "human", decision |-> r.response.choice, actor |-> "person", dated |-> TRUE]

\* check_recorded: the same decision read back when delivery continues; policy revision r1 is in force.
CheckRecorded(r, a) ==
  /\ a.inputs = r.inputs /\ a.cell = r.cell
  /\ r.gateMode = "policy" => a.mode = "policy"
  /\ a.mode = "policy" => r.managed /\ r.gateMode = "policy" /\ a.actor = "policy:r1"
  /\ r.gateMode = "human" => a.mode \notin {"auto", "policy"}
  /\ a.mode = "replay" => ~r.managed
  /\ a.mode = "human" => a.actor \notin {"auto", "replay:someone"}

-----------------------------------------------------------------------------
(* One question after another.                                             *)

VARIABLES
  question,     \* the evidence put to the rules
  ruling        \* what they say

ruleVars == <<question, ruling>>

AllCases   == {None} \cup UNION {[D -> TestOutcomes] : D \in SUBSET CaseIds}
Baselines  == [passing : {None} \cup SUBSET CaseIds, passed : 0 .. 2]
Documents  == UNION {[1 .. n -> SpecLines] : n \in 0 .. MaxLines}
GateRuns   == [gateMode : GateModes, response : Responses, fixture : BOOLEAN, managed : BOOLEAN,
               scm : {"local", "github"}, inputs : {1}, cell : {1}]

\* review asks for the trace of the spec, the plan and the suite run of HEAD.
AskTrace(lines, entries, cases) ==
  /\ question' = [about |-> "trace", lines |-> lines, entries |-> entries, cases |-> cases]
  /\ ruling' = [rows |-> TraceRows(lines, entries, cases),
                findings |-> TraceFindings(TraceRows(lines, entries, cases), cases)]

\* deliver asks whether the candidate lost a test.
AskGuard(baseline, cases, passed) ==
  /\ cases # None => passed = Cardinality(Passing(cases))
  /\ baseline.passing # None => baseline.passed = Cardinality(baseline.passing)
  /\ question' = [about |-> "guard", baseline |-> baseline, cases |-> cases, passed |-> passed]
  /\ ruling' = [findings |-> Regressions(baseline, cases, passed)]

\* record_<stage> turns a response into a decision; delivery reads it back, perhaps in another cell.
AskGate(r, cell) ==
  LET a == ApprovalFromResponse(r)
      stamped == [mode |-> a.mode, actor |-> a.actor, inputs |-> r.inputs, cell |-> cell]
  IN  /\ question' = [about |-> "gate", gateMode |-> r.gateMode, response |-> r.response, managed |-> r.managed,
                      scm |-> r.scm, cell |-> cell]
      /\ ruling' = [mode |-> a.mode, accepted |-> a.mode # "refused" /\ CheckRecorded(r, stamped)]

RulesInit == question = [about |-> "nothing"] /\ ruling = [accepted |-> FALSE]

RulesNext ==
  \/ \E l \in Documents, e \in SUBSET PlanEntries : Cardinality(e) <= 1 /\ AskTrace(l, e, None)
  \/ \E l \in {<<>>}, e \in SUBSET PlanEntries, c \in AllCases : Cardinality(e) <= 2 /\ AskTrace(l, e, c)
  \/ \E b \in Baselines, c \in AllCases, p \in 0 .. Cardinality(CaseIds) : AskGuard(b, c, p)
  \/ \E r \in GateRuns, cell \in 1 .. 2 : AskGate(r, cell)

RulesSpec == RulesInit /\ [][question.about = "nothing" /\ RulesNext]_ruleVars

-----------------------------------------------------------------------------
\* A requirements section is open at line i, a reference reading of the section rule: it starts at a titled
\* heading, and every heading since is deeper.
InSection(lines, i) ==
  \E h \in 1 .. i - 1 :
    /\ lines[h].kind = "heading" /\ lines[h].titled
    /\ \A j \in h + 1 .. i - 1 : lines[j].kind = "heading" => lines[j].depth > lines[h].depth

\* When the trace raises no blocker, every test the plan maps to a requirement ran and every case of it
\* passed; and the requirements are the items of a requirements section, in order, each one once.
TraceIsProof ==
  question.about = "trace" =>
    LET q == question
    IN  /\ ruling.findings = {} =>
             \A e \in q.entries : /\ q.cases # None
                                  /\ \E c \in DOMAIN q.cases : c[1] = e.test
                                  /\ \A c \in DOMAIN q.cases : c[1] = e.test => q.cases[c] = "passed"
        /\ \A i \in DOMAIN q.lines : q.lines[i].kind = "item" /\ InSection(q.lines, i) =>
             Cardinality({k \in DOMAIN ruling.rows : ruling.rows[k].req = q.lines[i].id}) = 1
        /\ \A k \in DOMAIN ruling.rows :
             \/ ruling.rows[k].tests # {}
             \/ \E i \in DOMAIN q.lines : q.lines[i].kind = "item" /\ q.lines[i].id = ruling.rows[k].req /\ InSection(q.lines, i)

\* When the guard finds nothing, no test the base is known to have passed is missing, skipped or failing
\* on the candidate; a candidate without ids never passes for one that kept them.
GuardMissesNothing ==
  (question.about = "guard" /\ ruling.findings = {}) =>
    LET q == question IN
    /\ q.baseline.passing \notin {None, {}} => q.cases # None /\ q.baseline.passing \subseteq Passing(q.cases)
    /\ q.passed >= q.baseline.passed \/ q.baseline.passing # None

\* A decision that delivery accepts for a human gate was given by a named person at a known time, or by
\* a replay fixture of a run that is neither managed nor able to publish outside.
HumanGateTakesAPerson ==
  (question.about = "gate" /\ question.gateMode = "human" /\ ruling.accepted) =>
    IF question.response = None THEN ~question.managed /\ question.scm = "local"
    ELSE question.response.actor = "person" /\ question.response.dated

\* What the rules of review and gate let through is what they promise: a clean trace is a proof, a silent
\* guard missed no regression, and a human gate took a person.
RulesAreSound == TraceIsProof /\ GuardMissesNothing /\ HumanGateTakesAPerson
=============================================================================
