------------------------------ MODULE Delivery ------------------------------
(***************************************************************************)
(* One run of the line, from setup to the pull request: swfactory/stages.py*)
(* (setup, the document stages, the gates, review, deliver) and the pin of *)
(* the accepted inputs in swfactory/accepted_inputs.py.                    *)
(*                                                                         *)
(* Every task resolves the inputs again and is admitted against the pin    *)
(* (runtime.build_ctx), then works under the run lock, so one operation    *)
(* runs at a time; it may be killed between any two durable writes, and an *)
(* operator may clear and re-run a task or re-accept changed inputs.  The  *)
(* build stage is one step here; BuildStage has its detail.                *)
(*                                                                         *)
(* A commit is [code, chain]: the code it holds and whether the artifact   *)
(* chain is on top.  suite[c] is what the target's suite says of code c:   *)
(* "green", "red" (a test of its own fails), "broken" (one the base passed *)
(* fails), "lossy" (it exits 0, and a test the base passed is gone), or    *)
(* "touch" (green, and a protected path is changed).                       *)
(***************************************************************************)
EXTENDS Integers, Sequences, FiniteSets

CONSTANTS
  Line,            \* the stages of the blueprint, in order; build_and_test, review and deliver end it
  GateStages,      \* stages followed by a human gate
  MaxReviewFixes,  \* cfg.max_review_fixes
  MaxInputs,       \* bound on versions of the inputs (issue, blueprint, policy)
  MaxCodes,        \* bound on candidates
  MaxDocs,         \* bound on versions of a document
  MaxRunKills      \* bound on kills

DocStages == {"intent", "spec", "plan"}
LineSet   == {Line[i] : i \in DOMAIN Line}
Place(s)  == CHOOSE i \in DOMAIN Line : Line[i] = s

\* What Blueprint._check_order and _check_gates accept, of a line that builds and reviews.
ASSUME LineAssumption ==
  /\ DOMAIN Line = 1 .. Len(Line) /\ Len(Line) \in Nat
  /\ \A i, j \in DOMAIN Line : Line[i] = Line[j] => i = j
  /\ LineSet \subseteq DocStages \cup {"build_and_test", "review", "deliver"}
  /\ {"build_and_test", "review", "deliver"} \subseteq LineSet
  /\ Place("build_and_test") < Place("review") /\ Place("review") < Place("deliver")
  /\ GateStages \subseteq DocStages \cap LineSet

ASSUME DeliveryAssumption ==
  /\ MaxInputs \in Nat \ {0}
  /\ MaxReviewFixes \in Nat /\ MaxCodes \in Nat \ {0} /\ MaxDocs \in Nat \ {0} /\ MaxRunKills \in Nat

NoInputs == 0

MaxBaseMeasurements == 2

VARIABLES
  world,      \* the inputs a task resolves now
  pin,        \* accepted-inputs.json
  stamp,      \* the admission time on record: "none", the pin's "own", or an "old" one
  log,        \* log[s]: latest record of stage s in stages.jsonl: "none", "ok", "blocked" or "failed"
  doc,        \* doc[s]: version of the artifact of document stage s
  answer,     \* answer[g]: the operator's answer in the gate task, with what it was given for
  approvals,  \* approvals[g]: the entry of approvals.json
  head,       \* HEAD of the checkout
  headFence,  \* workspace-head
  suite,
  junit,      \* the code the recorded suite run describes, -1 before any
  base,       \* BASE_TESTS: "none", "measured" or "unmeasured"
  baseFails,  \* base-measurement-failures
  verdict,    \* review.json
  op,         \* the operation that holds the run
  pub,        \* what the pull request shows
  runKills

runVars == <<world, pin, stamp, log, doc, answer, approvals, head, headFence, suite, junit, base, baseFails,
             verdict, op, pub, runKills>>

Codes    == 0 .. MaxCodes
Free     == [task |-> "none", record |-> FALSE, at |-> "free", round |-> 0, before |-> 0, blocker |-> FALSE, found |-> "none", saw |-> -1,
             banner |-> "none"]
NoAnswer   == [decision |-> "none", doc |-> 0, inputs |-> NoInputs, late |-> FALSE]
NoApproval == [decision |-> "none", doc |-> 0, inputs |-> NoInputs, dated |-> FALSE, by |-> NoAnswer]
NoReview   == [blocked |-> FALSE, code |-> -1]
NoPub      == [banner |-> "none", code |-> -1]

DeliveryInit ==
  /\ world = 1
  /\ pin = NoInputs /\ stamp = "none"
  /\ log = [s \in LineSet |-> "none"]
  /\ doc = [s \in DocStages \cap LineSet |-> 0]
  /\ answer = [g \in GateStages |-> NoAnswer]
  /\ approvals = [g \in GateStages |-> NoApproval]
  /\ head = [code |-> 0, chain |-> FALSE] /\ headFence = [code |-> -1, chain |-> FALSE]
  /\ suite = [c \in Codes |-> "none"]
  /\ junit = -1 /\ base = "none" /\ baseFails = 0
  /\ verdict = NoReview /\ op = Free /\ pub = NoPub
  /\ runKills = 0

-----------------------------------------------------------------------------
(* Reading the run.                                                        *)

StageCompleted(s) == log[s] \in {"ok", "blocked"}

\* _done: the idempotent re-run returns the stage's completed record.
Done(s) == StageCompleted(s)

Approved(s) == s \in GateStages => approvals[s].decision = "approve"
RejectedAt  == {g \in GateStages : approvals[g].decision = "reject"}

\* The tasks before s in the DAG have succeeded; a rejection leads straight to deliver.
Upstream(s) ==
  /\ base # "none"
  /\ \/ \A i \in 1 .. Place(s) - 1 : StageCompleted(Line[i]) /\ Approved(Line[i])
     \/ s = "deliver" /\ \E g \in RejectedAt : StageCompleted(g)
  /\ s = "deliver" => ~StageCompleted(s)      \* the DAG run is over

\* _assert_workspace_head
OnFence == head = headFence

Ends == Free

-----------------------------------------------------------------------------
(* Admission: runtime.build_ctx and accepted_inputs.                       *)

\* A task runs setup, a stage, or (record) the recording of the answer to a stage's gate.
Startable(t, record) ==
  IF record THEN t \in GateStages /\ StageCompleted(t) /\ answer[t].decision # "none"
  ELSE t # "setup" => Upstream(t)

\* admit, first time: the pin first, its admission time in a later write.
AdmitFirst(t, r) ==
  /\ op = Free /\ Startable(t, r) /\ pin = NoInputs
  /\ pin' = world /\ stamp' = IF stamp = "none" THEN "none" ELSE "old"
  /\ op' = [Free EXCEPT !.task = t, !.record = r, !.at = "admitting"]
  /\ UNCHANGED <<world, log, doc, answer, approvals, head, headFence, suite, junit, base, baseFails, verdict, pub, runKills>>

AdmitStamp ==
  /\ op.at = "admitting"
  /\ stamp' = "own"
  /\ answer' = [g \in GateStages |-> [answer[g] EXCEPT !.late = FALSE]]
  /\ op' = [op EXCEPT !.at = "ready"]
  /\ UNCHANGED <<world, pin, log, doc, approvals, head, headFence, suite, junit, base, baseFails, verdict, pub, runKills>>

\* admit, later: a task that resolved other inputs is refused before it has a context.
AdmitAgain(t, r) ==
  /\ op = Free /\ Startable(t, r) /\ pin # NoInputs /\ pin = world
  /\ op' = [Free EXCEPT !.task = t, !.record = r, !.at = "ready"]
  /\ UNCHANGED <<world, pin, stamp, log, doc, answer, approvals, head, headFence, suite, junit, base, baseFails, verdict, pub, runKills>>

\* Somebody edits the issue, the blueprint or the policy.
EditInputs ==
  /\ op = Free /\ world < MaxInputs
  /\ world' = world + 1
  /\ UNCHANGED <<pin, stamp, log, doc, answer, approvals, head, headFence, suite, junit, base, baseFails, verdict, op, pub, runKills>>

\* reaccept: the operator retires the pin, then its admission time; the next task admits what the
\* inputs are by then.  It may die between the two.
Reaccept ==
  /\ op = Free /\ pin # NoInputs /\ pin # world
  /\ pin' = NoInputs
  /\ \/ stamp' = "none" /\ UNCHANGED runKills
     \/ runKills < MaxRunKills /\ runKills' = runKills + 1 /\ UNCHANGED stamp
  /\ UNCHANGED <<world, log, doc, answer, approvals, head, headFence, suite, junit, base, baseFails, verdict, op, pub>>

KillDelivery ==
  /\ op # Free /\ runKills < MaxRunKills
  /\ op' = Free /\ runKills' = runKills + 1
  /\ UNCHANGED <<world, pin, stamp, log, doc, answer, approvals, head, headFence, suite, junit, base, baseFails, verdict, pub>>

-----------------------------------------------------------------------------
(* setup: base, branch, and the base revision's test record.               *)

At(t, at) == op.task = t /\ ~op.record /\ op.at = at

\* The base and its fence are recorded once; afterwards the checkout must stand where the fence says.
SetupBase ==
  /\ At("setup", "ready")
  /\ headFence' = IF headFence.code = -1 THEN head ELSE headFence
  /\ op' = IF head = headFence' THEN [op EXCEPT !.at = "measure"] ELSE Ends
  /\ UNCHANGED <<world, pin, stamp, log, doc, answer, approvals, head, suite, junit, base, baseFails, verdict, pub, runKills>>

\* _record_base_tests: once, and only while the checkout is the base.  The suite of the base may fail to
\* report; after MaxBaseMeasurements attempts, or on a dirty base, the baseline is explicitly unmeasured.
MeasureBase ==
  /\ At("setup", "measure")
  /\ \/ /\ base # "none" \/ head.code # 0
        /\ op' = Ends
        /\ UNCHANGED <<base, baseFails, junit>>
     \/ /\ base = "none" /\ head.code = 0
        /\ \/ base' = "measured" /\ junit' = 0 /\ op' = Ends /\ UNCHANGED baseFails
           \/ base' = "unmeasured" /\ op' = Ends /\ UNCHANGED <<baseFails, junit>>    \* provisioning left it dirty
           \/ /\ baseFails' = baseFails + 1 /\ junit' = 0
              /\ base' = IF baseFails' < MaxBaseMeasurements THEN "none" ELSE "unmeasured"
              /\ op' = Ends
  /\ UNCHANGED <<world, pin, stamp, log, doc, answer, approvals, head, headFence, suite, verdict, pub, runKills>>

-----------------------------------------------------------------------------
(* The document stages and the gates.                                      *)

\* _resumable
Skippable == ~op.record /\ op.task \in LineSet \ {"deliver"} /\ Done(op.task)

Skip ==
  /\ op.at = "ready" /\ Skippable
  /\ op' = Ends
  /\ UNCHANGED <<world, pin, stamp, log, doc, answer, approvals, head, headFence, suite, junit, base, baseFails, verdict, pub, runKills>>

\* intent, spec, plan: the artifact, then (Record) the stage log.
WriteDoc ==
  /\ op.at = "ready" /\ ~op.record /\ op.task \in DocStages /\ ~Skippable
  /\ doc[op.task] < MaxDocs
  /\ doc' = [doc EXCEPT ![op.task] = @ + 1]
  /\ op' = [op EXCEPT !.at = "log"]
  /\ UNCHANGED <<world, pin, stamp, log, answer, approvals, head, headFence, suite, junit, base, baseFails, verdict, pub, runKills>>

\* _timed: the stage's record.
LogStage ==
  /\ op.at = "log"
  /\ log' = [log EXCEPT ![op.task] = IF op.blocker THEN "blocked" ELSE "ok"]
  /\ op' = Ends
  /\ UNCHANGED <<world, pin, stamp, doc, answer, approvals, head, headFence, suite, junit, base, baseFails, verdict, pub, runKills>>

\* _timed: a stage that raised is recorded as failed.
StageRaises ==
  /\ op.at = "raise"
  /\ log' = IF op.task \in LineSet THEN [log EXCEPT ![op.task] = "failed"] ELSE log
  /\ op' = Ends
  /\ UNCHANGED <<world, pin, stamp, doc, answer, approvals, head, headFence, suite, junit, base, baseFails, verdict, pub, runKills>>

NewAnswer(g, decision) == [decision |-> decision, doc |-> doc[g], inputs |-> pin, late |-> TRUE]

\* A person answers the gate task, on the artifact and the inputs of that moment; once, until either
\* changes.
Respond(g, decision) ==
  /\ op = Free /\ StageCompleted(g) /\ [answer[g] EXCEPT !.decision = "none"] # NewAnswer(g, "none")
  /\ answer' = [answer EXCEPT ![g] = NewAnswer(g, decision)]
  /\ UNCHANGED <<world, pin, stamp, log, doc, approvals, head, headFence, suite, junit, base, baseFails, verdict, op, pub, runKills>>

\* Fault: the answer's own time is not looked at.
NeverStale(g) == FALSE

\* answered_before_admission: an answer older than the admission of the pin; unknown without a stamp.
AnsweredBeforeAdmission(g) == stamp # "none" /\ ~answer[g].late

\* record_approval: the host stamps artifact, cell and inputs on the answer it finds in the gate task.
RecordApproval(g) ==
  /\ op.task = g /\ op.record /\ op.at = "ready"
  /\ approvals' = IF AnsweredBeforeAdmission(g) THEN approvals
                  ELSE [approvals EXCEPT ![g] = [decision |-> answer[g].decision, doc |-> doc[g], inputs |-> pin,
                                                 dated |-> stamp = "own", by |-> answer[g]]]
  /\ op' = Ends
  /\ UNCHANGED <<world, pin, stamp, log, doc, answer, head, headFence, suite, junit, base, baseFails, verdict, pub, runKills>>

-----------------------------------------------------------------------------
(* build_and_test, as one step: an accepted candidate whose suite exits 0. *)

NextCode == 1 + Cardinality({c \in Codes \ {0} : suite[c] # "none"})

Build(s) ==
  /\ At("build_and_test", "ready") /\ ~Skippable
  /\ IF ~OnFence THEN op' = [op EXCEPT !.at = "raise"] /\ UNCHANGED <<head, headFence, suite, junit>>
     ELSE /\ NextCode \in Codes
          /\ suite' = [suite EXCEPT ![NextCode] = s]
          /\ head' = [code |-> NextCode, chain |-> FALSE] /\ headFence' = head'
          /\ junit' = NextCode
          /\ op' = [op EXCEPT !.at = "log"]
  /\ UNCHANGED <<world, pin, stamp, log, doc, answer, approvals, base, baseFails, verdict, pub, runKills>>

-----------------------------------------------------------------------------
(* review                                                                  *)

Red(c) == suite[c] \in {"red", "broken"}

\* refresh_test_evidence: the recorded suite run describes the code of HEAD.
EvidenceCurrent == junit = head.code

ReviewBegin ==
  /\ At("review", "ready") /\ ~Skippable
  /\ IF ~OnFence THEN op' = [op EXCEPT !.at = "raise"] /\ UNCHANGED junit
     ELSE /\ junit' = IF EvidenceCurrent THEN junit ELSE head.code
          /\ op' = [op EXCEPT !.at = "ask", !.round = 0, !.blocker = ~EvidenceCurrent /\ Red(head.code)]
  /\ UNCHANGED <<world, pin, stamp, log, doc, answer, approvals, head, headFence, suite, base, baseFails, verdict, pub, runKills>>

\* One round: the agent's review, plan fidelity and the requirement trace, plus a carried blocker.
\* found is "none", "fixable", or "unfixable" (an acceptance test only the tests dir could provide).
ReviewRound(found) ==
  LET fixable == found = "fixable" \/ op.blocker IN
  /\ At("review", "ask")
  /\ op' = [op EXCEPT !.saw = head.code, !.found = IF found # "none" THEN found ELSE IF op.blocker THEN "fixable" ELSE "none",
                      !.at = IF fixable /\ op.round < MaxReviewFixes THEN "fix" ELSE "conclude"]
  /\ UNCHANGED <<world, pin, stamp, log, doc, answer, approvals, head, headFence, suite, junit, base, baseFails, verdict, pub, runKills>>

\* The agent call raises.
ReviewCallRaises ==
  /\ op.task = "review" /\ op.at \in {"ask", "fix"}
  /\ op' = [op EXCEPT !.at = "raise"]
  /\ UNCHANGED <<world, pin, stamp, log, doc, answer, approvals, head, headFence, suite, junit, base, baseFails, verdict, pub, runKills>>

\* fix_and_retest: the fix is committed, or there was nothing to commit.
FixCommit(s) ==
  /\ At("review", "fix")
  /\ \/ /\ NextCode \in Codes
        /\ suite' = [suite EXCEPT ![NextCode] = s]
        /\ head' = [code |-> NextCode, chain |-> FALSE]
     \/ s = "green" /\ UNCHANGED <<suite, head>>
  /\ op' = [op EXCEPT !.at = "fence", !.before = head.code, !.round = @ + 1]
  /\ UNCHANGED <<world, pin, stamp, log, doc, answer, approvals, headFence, junit, base, baseFails, verdict, pub, runKills>>

FixFence ==
  /\ At("review", "fence")
  /\ headFence' = head
  /\ op' = [op EXCEPT !.at = "scope"]
  /\ UNCHANGED <<world, pin, stamp, log, doc, answer, approvals, head, suite, junit, base, baseFails, verdict, pub, runKills>>

\* _assert_stage_scope: a fix that left its scope (tests or protected paths) is reverted and refused.
FixScope ==
  /\ At("review", "scope")
  /\ IF suite[head.code] \in {"touch", "lossy"} /\ head.code # op.before
     THEN op' = [op EXCEPT !.at = "reset", !.blocker = TRUE, !.found = "scope"]
     ELSE op' = [op EXCEPT !.at = "test"]
  /\ UNCHANGED <<world, pin, stamp, log, doc, answer, approvals, head, headFence, suite, junit, base, baseFails, verdict, pub, runKills>>

\* Fault: a fix that leaves the suite green settles the blockers it was asked to fix.
FixTestSettles ==
  /\ At("review", "test")
  /\ junit' = head.code
  /\ op' = [op EXCEPT !.blocker = Red(head.code), !.found = IF Red(head.code) THEN @ ELSE "none",
                      !.at = IF Red(head.code) /\ head.code # op.before THEN "reset" ELSE "conclude"]
  /\ UNCHANGED <<world, pin, stamp, log, doc, answer, approvals, head, headFence, suite, base, baseFails, verdict, pub, runKills>>

FixTest ==
  /\ At("review", "test")
  /\ junit' = head.code
  /\ op' = [op EXCEPT !.blocker = Red(head.code),
                      !.at = IF Red(head.code) /\ head.code # op.before THEN "reset" ELSE "ask"]
  /\ UNCHANGED <<world, pin, stamp, log, doc, answer, approvals, head, headFence, suite, base, baseFails, verdict, pub, runKills>>

\* restore_head, in two durable steps, then the suite of the restored head.
FixReset ==
  /\ At("review", "reset")
  /\ head' = [code |-> op.before, chain |-> FALSE]
  /\ op' = [op EXCEPT !.at = "refence"]
  /\ UNCHANGED <<world, pin, stamp, log, doc, answer, approvals, headFence, suite, junit, base, baseFails, verdict, pub, runKills>>

FixRefence ==
  /\ At("review", "refence")
  /\ headFence' = head
  /\ op' = [op EXCEPT !.at = IF op.found = "scope" THEN "raise" ELSE "retest"]
  /\ UNCHANGED <<world, pin, stamp, log, doc, answer, approvals, head, suite, junit, base, baseFails, verdict, pub, runKills>>

FixRetest ==
  /\ At("review", "retest")
  /\ junit' = head.code
  /\ op' = [op EXCEPT !.at = "ask", !.blocker = TRUE]
  /\ UNCHANGED <<world, pin, stamp, log, doc, answer, approvals, head, headFence, suite, base, baseFails, verdict, pub, runKills>>

\* review.json carries the last round's findings.
Conclude ==
  /\ At("review", "conclude")
  /\ verdict' = [blocked |-> op.found # "none", code |-> op.saw]
  /\ op' = [op EXCEPT !.at = "log", !.blocker = op.found # "none"]
  /\ UNCHANGED <<world, pin, stamp, log, doc, answer, approvals, head, headFence, suite, junit, base, baseFails, pub, runKills>>

-----------------------------------------------------------------------------
(* deliver                                                                 *)

\* The gates in order, up to the first rejection, are the ones that must be answered.
Required(s) == \A g \in RejectedAt : Place(s) <= Place(g)

\* _validate_approvals and check_recorded: every required decision, for this artifact and these inputs.
DecisionsValid ==
  \A g \in GateStages :
    IF Required(g) THEN approvals[g].decision # "none" /\ approvals[g].doc = doc[g] /\ approvals[g].inputs = pin
    ELSE approvals[g].decision = "none"

StagesComplete == \A s \in LineSet \ {"deliver"} : Required(s) => StageCompleted(s)

ReviewBlocked == Required("review") /\ (verdict.blocked \/ log["review"] = "blocked")

CodeChanged   == head.code # 0
Guarded       == Required("build_and_test") \/ CodeChanged

\* _base_tests and _tested_record: without a baseline, or with a suite run of other code, delivery is refused.
GuardEvidence == Guarded => base # "none" /\ junit = head.code

\* regression_findings, against the baseline when there is one.
Regressed == Guarded /\ base = "measured" /\ suite[head.code] \in {"broken", "lossy"}

\* _assert_unprotected_delivery
Protected == CodeChanged /\ suite[head.code] = "touch"

Refusal == ~OnFence \/ ~DecisionsValid \/ ~StagesComplete \/ Protected \/ ~GuardEvidence

DeliverCheck ==
  /\ At("deliver", "ready")
  /\ IF Refusal THEN op' = [op EXCEPT !.at = "raise"] /\ UNCHANGED head
     ELSE /\ op' = [op EXCEPT !.at = "chain",
                              !.banner = IF RejectedAt # {} THEN "REJECTED"
                                         ELSE IF ReviewBlocked \/ Regressed THEN "BLOCKED" ELSE "plain"]
          /\ head' = [head EXCEPT !.chain = TRUE]
  /\ UNCHANGED <<world, pin, stamp, log, doc, answer, approvals, headFence, suite, junit, base, baseFails, verdict, pub, runKills>>

ChainFence ==
  /\ At("deliver", "chain")
  /\ headFence' = head
  /\ op' = [op EXCEPT !.at = "publish"]
  /\ UNCHANGED <<world, pin, stamp, log, doc, answer, approvals, head, suite, junit, base, baseFails, verdict, pub, runKills>>

\* ctx.scm.publish: it may raise with the pull request opened or not.
Publish ==
  /\ At("deliver", "publish")
  /\ pub' = [banner |-> op.banner, code |-> head.code]
  /\ \E lost \in BOOLEAN : op' = [op EXCEPT !.at = IF lost THEN "raise" ELSE "log", !.blocker = op.banner # "plain"]
  /\ UNCHANGED <<world, pin, stamp, log, doc, answer, approvals, head, headFence, suite, junit, base, baseFails, verdict, runKills>>

PublishFails ==
  /\ At("deliver", "publish")
  /\ op' = [op EXCEPT !.at = "raise"]
  /\ UNCHANGED <<world, pin, stamp, log, doc, answer, approvals, head, headFence, suite, junit, base, baseFails, verdict, pub, runKills>>

-----------------------------------------------------------------------------
DeliveryNext ==
  \/ \E t \in {"setup"} \cup LineSet, r \in BOOLEAN : AdmitFirst(t, r) \/ AdmitAgain(t, r)
  \/ AdmitStamp \/ EditInputs \/ Reaccept \/ KillDelivery
  \/ SetupBase \/ MeasureBase \/ Skip \/ WriteDoc \/ LogStage \/ StageRaises
  \/ \E g \in GateStages : RecordApproval(g) \/ \E d \in {"approve", "reject"} : Respond(g, d)
  \/ \E s \in {"green", "lossy", "touch"} : Build(s)
  \/ ReviewBegin \/ ReviewCallRaises
  \/ \E f \in {"none", "fixable", "unfixable"} : ReviewRound(f)
  \/ \E s \in {"green", "red", "broken", "lossy"} : FixCommit(s)
  \/ FixFence \/ FixScope \/ FixTest \/ FixReset \/ FixRefence \/ FixRetest \/ Conclude
  \/ DeliverCheck \/ ChainFence \/ Publish \/ PublishFails

DeliverySpec == DeliveryInit /\ [][DeliveryNext]_runVars

-----------------------------------------------------------------------------
Plain == pub.banner = "plain"

\* Code published without a banner keeps every test the base passed, unless the base could not be
\* measured, and the suite run on record is of that code; code that changes a protected path is never
\* published at all (_regression_guard, _tested_record, _assert_unprotected_delivery).
PublishedCodeKeepsBase ==
  /\ Plain => junit = pub.code /\ (base = "measured" => suite[pub.code] \notin {"broken", "lossy"})
  /\ pub.code > 0 => suite[pub.code] # "touch"

\* What stages.py:2259 and 2122 say: review cannot end ok after a fix broke the tests, nor on a head
\* nobody saw pass; so code published without a banner passes its suite.
PublishedCodePasses == Plain => ~Red(pub.code)

\* Code published without a banner is the code the last concluded review looked at, with no blocker
\* left: a fix after that review, and a revert of one, is reviewed again.
PublishedCodeWasReviewed == Plain => verdict.code = pub.code /\ ~verdict.blocked

\* Code published without a banner is vouched for: measured against the base, and reviewed.
PublishedCodeVouchedFor == PublishedCodeKeepsBase /\ PublishedCodeWasReviewed

\* Whatever is published without a banner stands on decisions given on the very artifact that is in
\* the chain, and for the inputs pinned when it was recorded, if its admission time was on record then.
PublishedOnItsApprovals ==
  [][(pub' # pub /\ pub'.banner = "plain") =>
       \A g \in GateStages : /\ approvals[g].decision = "approve" /\ approvals[g].by.doc = doc[g]
                             /\ approvals[g].dated => approvals[g].by.inputs = pin]_runVars
=============================================================================
