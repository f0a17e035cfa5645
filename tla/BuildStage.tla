----------------------------- MODULE BuildStage -----------------------------
(***************************************************************************)
(* The build stage of swfactory/work_stage.py on the governed workspace of *)
(* swfactory/stages.py: the nodes of Plan.work are run one after the other *)
(* by paid agent calls, the result is tested, and bounded repairs are kept *)
(* or reverted by a ratchet.  A plan without work takes the legacy loop,   *)
(* which keeps its best candidate in memory only.                          *)
(*                                                                         *)
(* Three things survive the death of the task: the git checkout in the     *)
(* sandbox, the recorded workspace head (the fence) and the progress       *)
(* journal.  None is written together with another, and the task may die   *)
(* between any two steps; a retry starts at Open.                          *)
(*                                                                         *)
(* A commit is named by the position of the agent call that made it (every *)
(* call commits at most once), 0 is the commit the stage found.  The suite *)
(* may be flaky: every test run picks its outcome.  In memory the journal  *)
(* is as it was last stored, since every change is followed by a store.    *)
(*                                                                         *)
(* Simplifications: what the fork waves do to the journal is in module     *)
(* ForkWave; prompts, reports and evidence files are left out; the budget  *)
(* (module CallLedger) appears as a bound on the number of agent calls.    *)
(***************************************************************************)
EXTENDS Naturals, Sequences, FiniteSets, FiniteSetsExt

CONSTANTS
  WorkNodes,            \* node ids, numbers
  Plans,                \* the possible sets of Plan.work; empty: the legacy loop
  DependsOn,            \* [WorkNodes -> SUBSET WorkNodes]
  MaxBuildIterations,   \* cfg.max_build_iterations
  Outcomes,             \* what a run of the suite may report
  MaxCalls,             \* bound on agent calls: what the run's budget pays for
  MaxBuildKills         \* bound on deaths of the task

ASSUME BuildAssumption ==
  /\ WorkNodes \subseteq Nat /\ IsFiniteSet(WorkNodes)
  /\ DependsOn \in [WorkNodes -> SUBSET WorkNodes]
  /\ Plans \subseteq SUBSET WorkNodes
  /\ \A p \in Plans : \A n \in p : DependsOn[n] \subseteq p
  /\ MaxBuildIterations \in Nat \ {0} /\ MaxCalls \in Nat /\ MaxBuildKills \in Nat

VARIABLES
  plan,      \* the nodes of Plan.work
  repo,      \* the checkout: HEAD, and whether uncommitted work lies in it
  tree,      \* tree[c]: the commits that c contains
  escaped,   \* commits that touch a path outside the scope of their stage
  fence,     \* the control entry "workspace-head"
  journal,   \* workgraph-progress.json
  build,     \* local variables of the task that runs the stage
  asked,     \* the call numbers the agent was given, in order
  buildKills

buildVars == <<plan, repo, tree, escaped, fence, journal, build, asked, buildKills>>

-----------------------------------------------------------------------------
(* What a run of the suite reports: TestResult.                            *)

Commits == 0 .. MaxCalls
Nothing    == "none"

\* TestResult: does the report have usable ids, the cases it names, those that did not pass (failed,
\* in error or skipped), and whether anything failed or the command's exit was not 0.
Report(valid, named, cases, failing, red) ==
  [valid |-> valid, named |-> named, cases |-> cases, failing |-> failing, red |-> red]

Passed(t) == Cardinality(t.cases \ t.failing)
Green(t)  == t.valid /\ Passed(t) > 0 /\ ~t.red

NoReport == Report(FALSE, TRUE, {}, {}, TRUE)   \* before any run

RatchetGainPerLoss == 3

\* stages.ratchet: may a repair replace the best candidate so far?
Ratchet(best, cand) ==
  LET lost   == cand.failing \ best.failing
      gained == best.failing \ cand.failing
  IN /\ cand.valid
     /\ best.valid =>
          IF best.named /\ cand.named
            THEN IF best.cases # cand.cases
                   THEN Passed(cand) > Passed(best)
                   ELSE lost = {} \/ Cardinality(gained) >= RatchetGainPerLoss * Cardinality(lost)
            ELSE Passed(cand) >= Passed(best)

-----------------------------------------------------------------------------
(* The journal.                                                            *)

NoAttempt == [kind |-> Nothing, id |-> 0, call |-> 0, input |-> 0]
NoBest    == [head |-> 0, tests |-> NoReport, iteration |-> 0]
NoRevert  == [from |-> 0, to |-> 0, on |-> FALSE]
Unverified == [head |-> 0, tests |-> NoReport]

NoJournal ==
  [open     |-> FALSE,          \* has _PROGRESS been written
   head     |-> 0,              \* the checkpoint
   calls    |-> 0,              \* agent_calls
   attempt  |-> NoAttempt,      \* the call in flight
   nodes    |-> {},             \* receipts [id, call, head] of nodes
   repairs  |-> <<>>,           \* receipts [call, head, verdict] of repairs
   verified |-> Unverified,     \* the last verdict of the suite
   best     |-> NoBest,
   revert   |-> NoRevert]       \* a revert that may not have been finished

Completed == {r.id : r \in journal.nodes}
Pending   == plan \ Completed

\* workgraph.waves: the nodes of the first k waves.
WavesDone[k \in 0 .. Cardinality(WorkNodes)] ==
  IF k = 0 THEN {} ELSE {n \in WorkNodes : DependsOn[n] \subseteq WavesDone[k - 1]}

Wave(n) == Min({k \in 0 .. Cardinality(WorkNodes) : n \in WavesDone[k]})

\* _execute_nodes: wave by wave, by id within a wave.
NextNode ==
  CHOOSE n \in Pending : \A m \in Pending : Wave(n) < Wave(m) \/ (Wave(n) = Wave(m) /\ n <= m)

JudgePending == journal.repairs # <<>> /\ journal.repairs[Len(journal.repairs)].verdict = Nothing

-----------------------------------------------------------------------------
(* Opening the journal, and the fence.                                     *)

AtRest == [at |-> "idle", next |-> Nothing, target |-> 0, tests |-> NoReport, best |-> NoBest, round |-> 0]

BuildInit ==
  /\ plan \in Plans
  /\ repo = [head |-> 0, dirty |-> FALSE]
  /\ tree = [c \in Commits |-> {}]
  /\ escaped = {}
  /\ fence = 0
  /\ journal = NoJournal
  /\ build = AtRest
  /\ asked = <<>>
  /\ buildKills = 0

Goto(place) == build' = [build EXCEPT !.at = place]
Raise       == build' = AtRest
Refuse      == build' = [AtRest EXCEPT !.at = "refused"]   \* a policy error every retry meets again

\* restore_head(target), and what to do when it is done.
RestoreThen(head, next) == build' = [build EXCEPT !.at = "reset", !.target = head, !.next = next]

Fenced == repo.head = fence

\* The one drift a retry may explain: its own commit for the attempt the journal names.
OwnCommit == journal.attempt # NoAttempt /\ journal.attempt.input = journal.head

\* _finish_revert: a journalled revert whose fence and HEAD are each one of its ends is completed.
FinishRevert ==
  journal.revert.on /\ {fence, repo.head} \subseteq {journal.revert.from, journal.revert.to}

\* _open_progress: finish a revert, check the fence, load the journal, settle what was in flight.
Open ==
  /\ build.at \in {"idle", "refused"}
  /\ IF plan = {} THEN Goto("legacy")
     ELSE IF FinishRevert THEN RestoreThen(journal.revert.to, "reverted")
     ELSE IF ~Fenced \/ journal.revert.on THEN Refuse
     ELSE IF journal.open /\ journal.head # repo.head /\ ~OwnCommit THEN Refuse
     ELSE IF journal.attempt = NoAttempt THEN Goto("nodes")
     ELSE IF repo.head = journal.head THEN RestoreThen(repo.head, "struck")
     ELSE build' = [build EXCEPT !.at = "settle", !.next = "nodes"]
  /\ UNCHANGED <<plan, repo, tree, escaped, fence, journal, asked, buildKills>>

\* restore_head, first half: git reset --hard and git clean.
Reset ==
  /\ build.at = "reset"
  /\ repo' = [head |-> build.target, dirty |-> FALSE]
  /\ Goto("refence")
  /\ UNCHANGED <<plan, tree, escaped, fence, journal, asked, buildKills>>

\* restore_head, second half: the fence follows.
Refence ==
  /\ build.at = "refence"
  /\ fence' = build.target
  /\ IF build.next = "idle" THEN Raise ELSE Goto(build.next)
  /\ UNCHANGED <<plan, repo, tree, escaped, journal, asked, buildKills>>

-----------------------------------------------------------------------------
(* One paid attempt: journal it, call the agent, commit, settle.           *)

\* _attempt: the row is durable before the provider is called.
Attempt(kind, id) ==
  journal' = [journal EXCEPT !.open = TRUE, !.head = IF journal.open THEN @ ELSE repo.head,
              !.calls = @ + 1,
              !.attempt = [kind |-> kind, id |-> id, input |-> repo.head, call |-> journal.calls + 1]]

\* _execute_nodes: the next node that has no receipt; its dependencies have one.
StartNode ==
  /\ build.at = "nodes" /\ Pending # {} /\ Fenced
  /\ DependsOn[NextNode] \subseteq Completed
  /\ IF journal.calls = MaxCalls
       THEN Raise /\ UNCHANGED journal
       ELSE Attempt("node", NextNode) /\ Goto("agent")
  /\ UNCHANGED <<plan, repo, tree, escaped, fence, asked, buildKills>>

NodesDone ==
  /\ build.at = "nodes" /\ Pending = {}
  /\ Goto("test")
  /\ UNCHANGED <<plan, repo, tree, escaped, fence, journal, asked, buildKills>>

\* The bound counts journalled repairs, reverted ones included.
RepairsSpent == Len(journal.repairs)

\* The repair loop of build_and_test; exhausted or out of budget, it raises.
StartRepair ==
  /\ build.at = "repair" /\ Fenced
  /\ IF RepairsSpent >= MaxBuildIterations - 1 \/ journal.calls = MaxCalls
       THEN Raise /\ UNCHANGED journal
       ELSE Attempt("repair", RepairsSpent + 1) /\ Goto("agent")
  /\ UNCHANGED <<plan, repo, tree, escaped, fence, asked, buildKills>>

\* The number the call is made under: the journalled one, or build.1, fix.2, ... of the legacy loop.
CallNumber == IF build.round = 0 THEN journal.attempt.call ELSE build.round

\* Commits are named by position in asked, so that a legacy retry names a new one.
ThisCall == Len(asked)

\* _agent answers: the workspace holds uncommitted work, or nothing.
AgentAnswers ==
  /\ build.at = "agent"
  /\ asked' = Append(asked, CallNumber)
  /\ \E changes \in BOOLEAN : repo' = [repo EXCEPT !.dirty = changes]
  /\ Goto("commit")
  /\ UNCHANGED <<plan, tree, escaped, fence, journal, buildKills>>

\* _agent raises: _attempt abandons; the legacy loop lets the error through.
AgentRaises ==
  /\ build.at = "agent"
  /\ asked' = Append(asked, CallNumber)
  /\ \E changes \in BOOLEAN : repo' = [repo EXCEPT !.dirty = changes]
  /\ IF build.round = 0 THEN RestoreThen(journal.attempt.input, "strike") ELSE Raise
  /\ UNCHANGED <<plan, tree, escaped, fence, journal, buildKills>>

\* commit, first half: git commit, a no-op when nothing is staged.
Commit ==
  /\ build.at = "commit"
  /\ IF ~Fenced THEN Refuse ELSE Goto("fence")
  /\ IF Fenced /\ repo.dirty
       THEN /\ repo' = [head |-> ThisCall, dirty |-> FALSE]
            /\ tree' = [tree EXCEPT ![ThisCall] = tree[repo.head] \cup {ThisCall}]
            /\ \E out \in BOOLEAN : escaped' = IF out THEN escaped \cup {ThisCall} ELSE escaped
       ELSE UNCHANGED <<repo, tree, escaped>>
  /\ UNCHANGED <<plan, fence, journal, asked, buildKills>>

\* commit, second half: the new HEAD is recorded in host state.
RecordHead ==
  /\ build.at = "fence"
  /\ fence' = repo.head
  /\ build' = [build EXCEPT !.at = IF build.round = 0 THEN "settle" ELSE "scope",
                            !.next = IF journal.attempt.kind = "node" THEN "nodes" ELSE "test"]
  /\ UNCHANGED <<plan, repo, tree, escaped, journal, asked, buildKills>>

\* Fault: only the commits of nodes are held to their scope.
OutOfScopeNodes(before, after) == after # before /\ after \in escaped /\ journal.attempt.kind = "node"

\* changed_paths outside node.files, or a protected path under a repair.
OutOfScope(before, after) == after # before /\ after \in escaped

\* _settle: out of scope, the attempt is abandoned; otherwise its receipt is stored.
Settle ==
  /\ build.at = "settle"
  /\ LET a == journal.attempt IN
     IF OutOfScope(a.input, repo.head)
       THEN RestoreThen(a.input, "strike") /\ UNCHANGED journal
       ELSE /\ journal' =
                 [journal EXCEPT
                    !.head = repo.head, !.attempt = NoAttempt,
                    !.nodes = IF a.kind = "node"
                                THEN @ \cup {[id |-> a.id, call |-> a.call, head |-> repo.head]} ELSE @,
                    !.repairs = IF a.kind = "repair"
                                  THEN Append(@, [call |-> a.call, head |-> repo.head, verdict |-> Nothing])
                                  ELSE @]
            /\ Goto(build.next)
  /\ UNCHANGED <<plan, repo, tree, escaped, fence, asked, buildKills>>

\* _abandon, last step: the attempt is struck.  A retry goes on, a live attempt raises.
Strike ==
  /\ build.at \in {"strike", "struck"}
  /\ journal' = [journal EXCEPT !.attempt = NoAttempt]
  /\ Goto(IF build.at = "struck" THEN "nodes" ELSE "idle")
  /\ UNCHANGED <<plan, repo, tree, escaped, fence, asked, buildKills>>

-----------------------------------------------------------------------------
(* Verification and the ratchet.                                           *)

\* run_tests, and the verdict stored by _verify.
Test ==
  /\ build.at = "test" /\ Fenced
  /\ \E t \in Outcomes :
       /\ journal' = [journal EXCEPT !.open = TRUE, !.verified = [head |-> journal.head, tests |-> t]]
       /\ build' = [build EXCEPT !.at = "judge", !.tests = t]
  /\ UNCHANGED <<plan, repo, tree, escaped, fence, asked, buildKills>>

BestRow == [head |-> journal.head, tests |-> build.tests, iteration |-> 1 + Len(journal.repairs)]

Verdict(v) == [journal.repairs EXCEPT ![Len(journal.repairs)].verdict = v]

AfterTest == Goto(IF Green(build.tests) THEN "done" ELSE "repair")

\* _judge when no repair waits for a verdict: the suite ran on the best candidate itself.
JudgeBest ==
  /\ build.at = "judge" /\ ~JudgePending
  /\ IF journal.best = NoBest
       THEN journal' = [journal EXCEPT !.best = BestRow] /\ AfterTest
       ELSE /\ IF journal.best.head = journal.head THEN AfterTest ELSE Refuse
            /\ UNCHANGED journal
  /\ UNCHANGED <<plan, repo, tree, escaped, fence, asked, buildKills>>

\* Fault: a repair that is kept does not become the best.
JudgeRepairKeepingBest ==
  /\ build.at = "judge" /\ JudgePending
  /\ IF journal.best = NoBest \/ Ratchet(journal.best.tests, build.tests)
       THEN journal' = [journal EXCEPT !.repairs = Verdict("kept")] /\ AfterTest
       ELSE /\ journal' = [journal EXCEPT !.repairs = Verdict("reverted"),
                             !.revert = [from |-> journal.head, to |-> journal.best.head, on |-> TRUE]]
            /\ RestoreThen(journal.best.head, "reverted")
  /\ UNCHANGED <<plan, repo, tree, escaped, fence, asked, buildKills>>

\* _judge, a repair: kept, or the revert is journalled before the reset.
JudgeRepair ==
  /\ build.at = "judge" /\ JudgePending
  /\ IF journal.best = NoBest \/ Ratchet(journal.best.tests, build.tests)
       THEN /\ journal' = [journal EXCEPT !.repairs = Verdict("kept"), !.best = BestRow]
            /\ AfterTest
       ELSE /\ journal' = [journal EXCEPT !.repairs = Verdict("reverted"),
                             !.revert = [from |-> journal.head, to |-> journal.best.head, on |-> TRUE]]
            /\ RestoreThen(journal.best.head, "reverted")
  /\ UNCHANGED <<plan, repo, tree, escaped, fence, asked, buildKills>>

\* _complete_revert, last step: the checkpoint moves to the target and gets the verdict it earned.
Reverted ==
  /\ build.at = "reverted"
  /\ journal' = [journal EXCEPT !.head = journal.revert.to, !.revert = NoRevert,
                   !.verified = [head |-> journal.best.head, tests |-> journal.best.tests]]
  /\ build' = [AtRest EXCEPT !.at = IF build.tests = NoReport THEN "nodes" ELSE "repair"]
  /\ UNCHANGED <<plan, repo, tree, escaped, fence, asked, buildKills>>

-----------------------------------------------------------------------------
(* The legacy loop: nothing is journalled, the best is in memory.          *)

LegacyCall ==
  /\ build.at = "legacy"
  /\ IF build.round >= MaxBuildIterations \/ Len(asked) = MaxCalls
       THEN Raise
       ELSE build' = [build EXCEPT !.at = "agent", !.round = @ + 1]
  /\ UNCHANGED <<plan, repo, tree, escaped, fence, journal, asked, buildKills>>

\* _assert_stage_scope of a fix: on a protected path the input is restored and the stage raises.
LegacyScope ==
  /\ build.at = "scope"
  /\ IF build.best # NoBest /\ OutOfScope(build.best.head, repo.head)
       THEN RestoreThen(build.best.head, "idle")
       ELSE Goto("legacytest")
  /\ UNCHANGED <<plan, repo, tree, escaped, fence, journal, asked, buildKills>>

\* Test, ratchet, and either keep the candidate or restore the best.
LegacyJudge ==
  /\ build.at = "legacytest" /\ Fenced
  /\ \E t \in Outcomes :
       IF build.best = NoBest \/ Ratchet(build.best.tests, t)
         THEN build' = [build EXCEPT !.at = IF Green(t) THEN "done" ELSE "legacy", !.tests = t,
                          !.best = [head |-> repo.head, tests |-> t, iteration |-> build.round]]
         ELSE RestoreThen(build.best.head, "legacy")
  /\ UNCHANGED <<plan, repo, tree, escaped, fence, journal, asked, buildKills>>

-----------------------------------------------------------------------------

\* The task dies: its memory is gone, everything else stays.
Kill ==
  /\ build.at \notin {"idle", "done", "refused"}
  /\ buildKills < MaxBuildKills
  /\ buildKills' = buildKills + 1
  /\ build' = AtRest
  /\ UNCHANGED <<plan, repo, tree, escaped, fence, journal, asked>>

Finished == build.at = "done" /\ UNCHANGED buildVars

BuildNext ==
  \/ Open \/ Reset \/ Refence
  \/ StartNode \/ NodesDone \/ StartRepair
  \/ AgentAnswers \/ AgentRaises \/ Commit \/ RecordHead \/ Settle \/ Strike
  \/ Test \/ JudgeBest \/ JudgeRepair \/ Reverted
  \/ LegacyCall \/ LegacyScope \/ LegacyJudge
  \/ Kill \/ Finished

BuildSpec == BuildInit /\ [][BuildNext]_buildVars

-----------------------------------------------------------------------------
(* Properties.                                                             *)

Settled == journal.attempt = NoAttempt /\ ~journal.revert.on

Kept == {journal.repairs[i].head : i \in {j \in DOMAIN journal.repairs :
                                            journal.repairs[j].verdict # "reverted"}}

\* The journal's candidate is made of accepted work and nothing else, after any number of
\* deaths and retries: it contains the commit of every node with a receipt, no commit of an
\* abandoned attempt or a reverted repair, and none that left its scope.
CandidateIsAcceptedWork ==
  plan # {} /\ journal.open /\ Settled =>
    LET nodes == {r.head : r \in journal.nodes} IN
    /\ nodes \ {0} \subseteq tree[journal.head]
    /\ tree[journal.head] \subseteq nodes \cup Kept
    /\ tree[journal.head] \cap escaped = {}

\* No agent call is made under a number an earlier call of the stage was made under, dead or not:
\* the ledger and the provider recognise a call by it.
CallsNeverReused ==
  plan # {} => \A i, j \in DOMAIN asked : asked[i] = asked[j] => i = j

\* Whatever died on the way, the work on the candidate and the calls made for it are accounted for.
BuildAccounted == CandidateIsAcceptedWork /\ CallsNeverReused

\* A stage that returns leaves the workspace, the fence and the evidence on one commit: the best
\* candidate, on which the suite has been green.
DoneIsVerifiedBest ==
  build.at = "done" =>
    LET best == IF plan = {} THEN build.best ELSE journal.best IN
    /\ repo = [head |-> best.head, dirty |-> FALSE] /\ fence = best.head
    /\ Green(build.tests)
    /\ plan # {} => /\ journal.head = best.head /\ Pending = {}
                    /\ journal.verified = [head |-> best.head, tests |-> build.tests]

=============================================================================
