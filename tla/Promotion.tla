------------------------------ MODULE Promotion ------------------------------
(***************************************************************************)
(* The promotion boundary: scripts/promotion_policy.py (gate, identity,    *)
(* control plane, audit, live diff, release evidence) and swfactory/       *)
(* candidate_readiness.py (the sealed manifest), with the workflows that   *)
(* call them: a pull request is pushed, its legs run, candidate-readiness  *)
(* decides, GitHub merges, the merge is tested again and a tag ships it.   *)
(*                                                                         *)
(* A tree is the pair of the head and the main it was merged into.  A      *)
(* workflow is reduced to the features the audit reads, and a push departs *)
(* from the reviewed workflow in one of them at most.                      *)
(***************************************************************************)
EXTENDS Integers, FiniteSets, Functions

CONSTANTS
  Legs,       \* mandatory checks of the policy
  Advisory,   \* advisory checks
  WeakLeg,    \* the leg whose job a push may change
  MaxHeads,   \* bound on the pushes to the pull request
  MaxMain,    \* bound on the commits of main
  MaxSettings \* bound on the changes of the live settings

ASSUME PromotionAssumption == WeakLeg \in Legs /\ {MaxHeads, MaxMain, MaxSettings} \subseteq Nat

VARIABLES
  main,      \* tip of the protected branch
  pull,      \* the open pull request
  ci,        \* the workflow run in progress
  status,    \* conclusions GitHub holds for the head of the pull request
  manifests, \* retained candidate-readiness artifacts
  live,      \* branch protection as GitHub has it
  merges,    \* every merge: the tree, whether a person waived the gate, the drift at that time
  shipped,   \* trees that were released
  ran,       \* legs that really ran and passed, with their tree
  changed    \* bound on live

promoVars == <<main, pull, ci, status, manifests, live, merges, shipped, ran, changed>>

Contexts  == {"candidate-readiness", "protected-paths"}
Labels    == {"none", "person", "factory", "unknown"}

\* What audit_policy reads of ci.yml and release.yml.
ReviewedFlow == [jobs |-> Legs, legSoft |-> FALSE, legIf |-> "guard", needs |-> Legs, aggregateSoft |-> FALSE,
                 aggregateIf |-> "always", runsGate |-> TRUE, passes |-> Legs, runsAudit |-> TRUE, release |-> "gated"]
Flows == {ReviewedFlow,
          [ReviewedFlow EXCEPT !.jobs = Legs \ {WeakLeg}, !.needs = Legs \ {WeakLeg}, !.passes = Legs \ {WeakLeg}],
          [ReviewedFlow EXCEPT !.legSoft = TRUE], [ReviewedFlow EXCEPT !.legIf = "draft"],
          [ReviewedFlow EXCEPT !.needs = Legs \ {WeakLeg}], [ReviewedFlow EXCEPT !.aggregateSoft = TRUE],
          [ReviewedFlow EXCEPT !.aggregateIf = "guard"], [ReviewedFlow EXCEPT !.runsGate = FALSE],
          [ReviewedFlow EXCEPT !.passes = Legs \ {WeakLeg}], [ReviewedFlow EXCEPT !.runsAudit = FALSE],
          [ReviewedFlow EXCEPT !.release = "free"]}

Desired == [contexts |-> Contexts, strict |-> TRUE, enforce_admins |-> TRUE]
Tree(h, m) == [head |-> h, main |-> m]
NoRun  == [at |-> "idle", event |-> "none", commit |-> 0, tree |-> Tree(0, 0), flow |-> ReviewedFlow, results |-> [l \in {} |-> "none"]]

PromotionInit ==
  /\ main = [n |-> 1, tree |-> Tree(0, 0), flow |-> ReviewedFlow, tested |-> TRUE]
  /\ pull = [head |-> 1, onto |-> 1, flow |-> ReviewedFlow, label |-> "none"]
  /\ ci = NoRun /\ status = [c \in Contexts |-> "none"]
  /\ manifests = {} /\ live = Desired /\ merges = {} /\ shipped = {} /\ ran = {} /\ changed = 0

-----------------------------------------------------------------------------
(* Decisions of the script.                                                *)

\* Fault: only a failure blocks.
GateFailures(results) == {l \in DOMAIN results : results[l] = "failure"}

\* evaluate_gate: a mandatory leg without a result, skipped, or anything but success; an unknown check.
GateBlockers(results) ==
  {l \in Legs : l \notin DOMAIN results \/ results[l] # "success"} \cup (DOMAIN results \ (Legs \cup Advisory))

\* evaluate_identity: the evidence is about the head and the base that are live now.
IdentityBlockers(r) ==
  {f \in {"head", "base"} : r.event = "pull_request" /\ IF f = "head" THEN r.tree.head # pull.head ELSE r.tree.main # main.n}

\* control_plane_decision: armed unless an identified person, not the factory, applied the label.
ControlPlaneArmed(label) == label \in {"none", "unknown", "factory"}

\* audit_policy, one rule per feature.
AuditRules(w) ==
  [legsAreJobs       |-> Legs \subseteq w.jobs,
   legsFailClosed    |-> ~w.legSoft,
   legsUnconditional |-> w.legIf \in {"none", "guard"},
   aggregateNeeds    |-> w.needs = Legs,
   aggregateFails    |-> ~w.aggregateSoft,
   aggregateAlways   |-> w.aggregateIf = "always",
   aggregateGates    |-> w.runsGate /\ Legs \subseteq w.passes,
   aggregateAudits   |-> w.runsAudit,
   releaseGated      |-> w.release = "gated"]
AuditProblems(w) == {r \in DOMAIN AuditRules(w) : ~AuditRules(w)[r]}

\* diff_live_protection
DiffLive(settings) ==
  ((settings.contexts \cup Desired.contexts) \ (settings.contexts \cap Desired.contexts))
    \cup {f \in {"strict", "enforce_admins"} : settings[f] # Desired[f]}

\* verify_release_evidence of a retained manifest: every leg recorded as required and passed, and the tree.
ReleaseRefused(m, tree) == ~(Legs \subseteq m.legs) \/ m.tree # tree

-----------------------------------------------------------------------------
(* The pull request.                                                       *)

\* A push: a new head, with or without the current main, and some version of the workflows.
PushHead(flow, update) ==
  /\ pull.head < MaxHeads
  /\ pull' = [pull EXCEPT !.head = @ + 1, !.flow = flow, !.onto = IF update THEN main.n ELSE @]
  /\ status' = [c \in Contexts |-> "none"]
  /\ UNCHANGED <<main, ci, manifests, live, merges, shipped, ran, changed>>

ApplyLabel(who) ==
  /\ pull.label = "none" /\ who # "none"
  /\ pull' = [pull EXCEPT !.label = who]
  /\ UNCHANGED <<main, ci, status, manifests, live, merges, shipped, ran, changed>>

\* protected-paths: rules of the base, labels and diff of the pull request.
ProtectedPaths ==
  /\ status["protected-paths"] = "none"
  /\ status' = [status EXCEPT !["protected-paths"] =
                 IF ControlPlaneArmed(pull.label) /\ pull.flow # main.flow THEN "failure" ELSE "success"]
  /\ UNCHANGED <<main, pull, ci, manifests, live, merges, shipped, ran, changed>>

\* A run of ci.yml for the head, or for the push to main; an older one is cancelled on the spot or has ended.
StartRun(event) ==
  /\ ci' = [at |-> "legs", event |-> event, results |-> [l \in {} |-> "none"],
            commit |-> IF event = "push" THEN 100 + main.n ELSE pull.head,
            tree |-> IF event = "push" THEN main.tree ELSE Tree(pull.head, main.n),
            flow |-> IF event = "push" THEN main.flow ELSE pull.flow]
  /\ IF event = "push" THEN ~main.tested /\ main' = [main EXCEPT !.tested = TRUE]
     ELSE status["candidate-readiness"] = "none" /\ UNCHANGED main
  /\ ci.at = "idle" \/ (ci.event = "pull_request" /\ ci.commit # pull.head)
  /\ UNCHANGED <<pull, status, manifests, live, merges, shipped, ran, changed>>

\* What GitHub reports for a job that ended so.
JobReports(w, leg, ended) ==
  IF leg = WeakLeg /\ w.legIf = "draft" THEN "skipped" ELSE IF leg = WeakLeg /\ w.legSoft THEN "success" ELSE ended

LegEnds(leg, ended) ==
  /\ ci.at = "legs" /\ leg \in ci.flow.jobs /\ leg \notin DOMAIN ci.results
  /\ ci' = [ci EXCEPT !.results = [l \in DOMAIN ci.results \cup {leg} |->
                                     IF l = leg THEN JobReports(ci.flow, leg, ended) ELSE ci.results[l]]]
  /\ ran' = IF ended = "success" /\ JobReports(ci.flow, leg, ended) # "skipped" THEN ran \cup {<<ci.tree, leg>>} ELSE ran
  /\ UNCHANGED <<main, pull, status, manifests, live, merges, shipped, changed>>

\* The steps of candidate-readiness: audit, gate (which also checks the identity), then the manifest.
AggregateFails(r) ==
  \/ r.flow.runsAudit /\ AuditProblems(r.flow) # {}
  \/ r.flow.runsGate /\ \/ IdentityBlockers(r) # {}
                        \/ GateBlockers(Restrict(r.results, DOMAIN r.results \cap r.flow.passes)) # {}

\* build_manifest records every leg it is given as success.
Sealed(r) == [commit |-> r.commit, tree |-> r.tree, legs |-> r.flow.passes]

CandidateReadiness ==
  /\ ci.at = "legs" /\ ci.flow.needs \subseteq DOMAIN ci.results
  /\ LET skipped == ci.flow.aggregateIf # "always" /\ \E l \in ci.flow.needs : ci.results[l] # "success"
         fails   == AggregateFails(ci)
         reports == IF skipped THEN "skipped" ELSE IF fails /\ ~ci.flow.aggregateSoft THEN "failure" ELSE "success"
     IN  /\ manifests' = IF skipped \/ fails THEN manifests ELSE manifests \cup {Sealed(ci)}
         /\ status' = IF ci.event = "pull_request" /\ ci.commit = pull.head
                      THEN [status EXCEPT !["candidate-readiness"] = reports] ELSE status
  /\ ci' = NoRun
  /\ UNCHANGED <<main, pull, live, merges, shipped, ran, changed>>

\* GitHub's merge box: a skipped required check is satisfied; strict wants main in the head.
MergePull ==
  /\ main.n < MaxMain
  /\ \/ /\ \A c \in live.contexts : status[c] \in {"success", "skipped"}
        /\ live.strict => pull.onto = main.n
     \/ ~live.enforce_admins
  /\ merges' = merges \cup {[tree |-> Tree(pull.head, main.n), waived |-> pull.label = "person", drift |-> DiffLive(live)]}
  /\ main' = [n |-> main.n + 1, tree |-> Tree(pull.head, main.n), flow |-> pull.flow, tested |-> FALSE]
  /\ \E cut \in {main.n, main.n + 1} :   \* the next pull request, cut before or after this merge
       pull' = [head |-> pull.head + 1, onto |-> cut, flow |-> IF cut = main.n THEN main.flow ELSE pull.flow,
                label |-> IF pull.label = "person" THEN "factory" ELSE "none"]
  /\ status' = [c \in Contexts |-> "none"]
  /\ UNCHANGED <<ci, manifests, live, shipped, ran, changed>>

-----------------------------------------------------------------------------
(* Releases and settings.                                                  *)

\* A tag on the tip of main, or on the head of a pull request that leaves release.yml alone; the evidence is the one of that commit.
TagRelease(commit, tree, flow) ==
  /\ flow.release = "free" \/ \E m \in manifests : m.commit = commit /\ ~ReleaseRefused(m, tree)
  /\ shipped' = shipped \cup {tree}
  /\ UNCHANGED <<main, pull, ci, status, manifests, live, merges, ran, changed>>

\* An administrator changes the settings page, or applies the checked-in policy.
SettingsChange(settings) ==
  /\ changed < MaxSettings /\ changed' = changed + 1
  /\ live' = settings
  /\ UNCHANGED <<main, pull, ci, status, manifests, merges, shipped, ran>>

PromotionNext ==
  \/ \E w \in Flows, u \in BOOLEAN : PushHead(w, u)
  \/ \E who \in Labels : ApplyLabel(who)
  \/ ProtectedPaths
  \/ \E e \in {"pull_request", "push"} : StartRun(e)
  \/ \E l \in Legs, ended \in {"success", "failure", "cancelled"} : LegEnds(l, ended)
  \/ CandidateReadiness
  \/ MergePull
  \/ TagRelease(100 + main.n, main.tree, main.flow)
  \/ pull.flow.release = "gated" /\ TagRelease(pull.head, Tree(pull.head, pull.onto), pull.flow)
  \/ \E s \in {Desired, [Desired EXCEPT !.contexts = {"protected-paths"}], [Desired EXCEPT !.strict = FALSE],
               [Desired EXCEPT !.enforce_admins = FALSE]} : SettingsChange(s)

PromotionSpec == PromotionInit /\ [][PromotionNext]_promoVars

-----------------------------------------------------------------------------
(* Properties.                                                             *)

\* A merge that no person waived, made while diff reports no drift, put a tree on main that every mandatory leg
\* really ran on and passed: skipped and cancelled legs, a moved base, a label of the factory's own and a
\* weakened workflow in the same pull request do not get past.
MergedWasTested ==
  \A m \in merges : ~m.waived /\ m.drift = {} /\ (\A o \in merges : ~o.waived /\ o.drift = {}) =>
    \A l \in Legs : <<m.tree, l>> \in ran

\* While diff reports no drift, what ships was tested leg by leg on the very tree, even after a person waived
\* the protection of the workflows once: release evidence is looked up by commit and compared by tree.
ShippedWasTested ==
  (\A m \in merges : m.drift = {}) => \A t \in shipped : \A l \in Legs : <<t, l>> \in ran

\* Neither main nor a release holds a tree that the required legs did not run on, as long as the settings
\* of the repository are the reviewed ones.
PromotedWasTested == MergedWasTested /\ ShippedWasTested
=============================================================================
