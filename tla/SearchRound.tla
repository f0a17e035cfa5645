---------------------------- MODULE SearchRound ----------------------------
(***************************************************************************)
(* The adaptive search of a campaign, round by round                       *)
(* (recursive_search.plan_adaptive_round and what it calls): a campaign    *)
(* asks one question per strategy, its report becomes a signal; the next   *)
(* round's posture and strategies follow from the signals, its phase from  *)
(* PhaseControl, its population from swarm_dynamics.allocate_population    *)
(* inside the budget that adaptive_information derives from the execution  *)
(* report of the population before.                                        *)
(*                                                                         *)
(* Identities, digests, contexts, temperatures and diversity axes are left *)
(* out; every attempt costs AttemptCost.                                   *)
(***************************************************************************)
EXTENDS PhaseControl, Sequences, FiniteSets

CONSTANTS
  Strategies,      \* DEFAULT_STRATEGIES: 1 .. n in the order of their names
  MaxCandidates,   \* width of a round
  MaxAtOnce,
  AttemptCost,     \* USD of one attempt
  Pressures,       \* the pressures a caller may state: records of resource, context and debt
  MaxSearchRounds  \* bound on rounds

ASSUME SearchAssumption ==
  /\ Strategies # {} /\ Strategies \subseteq Nat \ {0} /\ IsFiniteSet(Strategies)    \* 0 is no winner
  /\ MaxCandidates \in Nat \ {0} /\ MaxAtOnce \in Nat \ {0} /\ AttemptCost \in Nat /\ MaxSearchRounds \in Nat
  /\ \A p \in Pressures : p.resource \in 0 .. Whole /\ p.context \in 0 .. Whole /\ p.debt \in 0 .. Whole

VARIABLES
  signals,   \* the rounds so far: per strategy asked, its outcome; and the winner
  learned,   \* what the execution report of the population of the plan says for the next round
  rplan      \* the plan of the next round

searchVars == <<signals, learned, rplan>>

Rate(n, d)     == IF d = 0 THEN 0 ELSE (n * Whole) \div d
SumOf(f)       == LET Upto[i \in 0 .. Len(f)] == IF i = 0 THEN 0 ELSE Upto[i - 1] + f[i] IN Upto[Len(f)]
Rounded(n, d)  == LET q == n \div d IN            \* int(round(n / d)): a half goes to the even number
                  IF 2 * (n % d) > d \/ (2 * (n % d) = d /\ q % 2 = 1) THEN q + 1 ELSE q
CeilDiv(n, d)  == (n + d - 1) \div d

\* The elements of s that are in T, in their order.
Keep(s, T) ==
  LET Upto[i \in 0 .. Len(s)] == IF i = 0 THEN <<>> ELSE IF s[i] \in T THEN Append(Upto[i - 1], s[i]) ELSE Upto[i - 1]
  IN Upto[Len(s)]

\* The strategies by a key, the smallest first; ties by name.
SortedBy(key) ==
  LET keyed     == {<<key[k], k>> : k \in Strategies}
      before(a) == {b \in keyed : b[1] < a[1] \/ (b[1] = a[1] /\ b[2] < a[2])} IN
  [i \in 1 .. Cardinality(keyed) |-> (CHOOSE a \in keyed : Cardinality(before(a)) = i - 1)[2]]

-----------------------------------------------------------------------------
(* Signals: signal_from_document.                                          *)

\* An outcome: unanswered, or answered with an output, and then with or without evidence and a pass of
\* the required dimensions.
NoAnswerRow == [answered |-> FALSE, evidence |-> FALSE, required |-> FALSE, output |-> 0]
Rows        == {NoAnswerRow} \cup [answered : {TRUE}, evidence : {TRUE}, required : {TRUE}, output : {1, 2}]
                             \cup [answered : {TRUE}, evidence : {FALSE}, required : {FALSE}, output : {1}]

AnsweredIn(s) == {k \in DOMAIN s.rows : s.rows[k].answered}
EvidenceIn(s) == {k \in DOMAIN s.rows : s.rows[k].evidence}
RequiredIn(s) == {k \in DOMAIN s.rows : s.rows[k].required}
OutputsIn(s)  == {s.rows[k].output : k \in AnsweredIn(s)}
Attempts(s)   == Cardinality(DOMAIN s.rows)

AnswerRate(s)   == Rate(Cardinality(AnsweredIn(s)), Attempts(s))
EvidenceRate(s) == Rate(Cardinality(EvidenceIn(s)), Attempts(s))
RequiredRate(s) == Rate(Cardinality(RequiredIn(s)), Attempts(s))
Novelty(s)      == Rate(Cardinality(OutputsIn(s)), Cardinality(AnsweredIn(s)))
Disagreement(s) == IF Cardinality(AnsweredIn(s)) < 2 THEN 0
                   ELSE Rate(Cardinality(OutputsIn(s)) - 1, Cardinality(AnsweredIn(s)) - 1)

LastSignal == signals[Len(signals)]

-----------------------------------------------------------------------------
(* What the rounds so far say of a strategy.                               *)

Tried(k)         == {i \in DOMAIN signals : k \in DOMAIN signals[i].rows}
AnsweredBy(k)    == {i \in Tried(k) : signals[i].rows[k].answered}
EvidenceBy(k)    == {i \in Tried(k) : signals[i].rows[k].evidence}
RequiredBy(k)    == {i \in Tried(k) : signals[i].rows[k].required}
TriedRate(S, k)  == Rate(Cardinality(S), Cardinality(Tried(k)))

\* Every answer of a strategy in a round is one output, so its novelty is all or nothing.
NoveltyOf(k) == IF AnsweredBy(k) = {} THEN 0 ELSE Whole

\* _strategy_scores
Score(k) ==
  IF Tried(k) = {} THEN Pc(25)
  ELSE LET cost    == Cardinality(Tried(k)) * AttemptCost * 1000                    \* a tenth of the dollars, as a rate
           penalty == Least(Whole, IF AnsweredBy(k) = {} THEN cost ELSE cost \div Cardinality(AnsweredBy(k)))
       IN (20 * TriedRate(AnsweredBy(k), k) + 35 * TriedRate(EvidenceBy(k), k) + 35 * TriedRate(RequiredBy(k), k)
           + 20 * NoveltyOf(k) - 10 * penalty) \div 100

Ordered == SortedBy([k \in Strategies |-> -Score(k)])

\* _least_tried_first
LeastTried == SortedBy([k \in Strategies |-> Cardinality(Tried(k))])

\* _novelty_first: one output per answer, so the answers decide.
NoveltyFirst == SortedBy([k \in Strategies |-> Cardinality(AnsweredBy(k))])

\* extract_search_laws: the rules about strategies, and at most one about the last round.  A strategy has one
\* output per answer, so none is deprioritized as correlated.
PreferLaws ==
  LET good == {k \in Strategies : /\ Cardinality(Tried(k)) >= 2
                                 /\ TriedRate(RequiredBy(k), k) >= Pc(60)
                                 /\ TriedRate(EvidenceBy(k), k) >= Pc(60)}
  IN {[kind |-> "prefer", of |-> {k}] : k \in good}

RoundLaw(s) ==
  IF AnsweredIn(s) = {} THEN {"perturb"}
  ELSE IF Disagreement(s) >= Pc(66) /\ RequiredRate(s) < Pc(66) THEN {"measure"}
  ELSE IF EvidenceRate(s) >= Pc(80) /\ RequiredRate(s) >= Pc(80) /\ Disagreement(s) <= Pc(25) THEN {"verify"}
  ELSE IF Novelty(s) < Pc(50) THEN {"diversify"} ELSE {}
Laws == PreferLaws \cup {[kind |-> l, of |-> {}] : l \in RoundLaw(LastSignal)}

-----------------------------------------------------------------------------
(* plan_next_round: posture, strategies and parallelism.                   *)

Posture(s) ==
  IF AnsweredIn(s) = {} THEN "perturb"
  ELSE IF EvidenceRate(s) >= Pc(80) /\ RequiredRate(s) >= Pc(80) /\ Disagreement(s) <= Pc(25) THEN "verify"
  ELSE IF Disagreement(s) >= Pc(66) THEN "measure"
  ELSE IF Novelty(s) < Pc(50) THEN "diversify"
  ELSE IF s.winner # 0 THEN "exploit" ELSE "coordinate"

WinnerFirst(w) == (IF w = 0 THEN <<>> ELSE <<w>>) \o Keep(Ordered, Strategies \ {w})

Preference(posture, w) ==
  CASE posture = "perturb"                -> LeastTried
    [] posture \in {"verify", "exploit"} -> WinnerFirst(w)
    [] posture = "diversify"              -> NoveltyFirst
    [] OTHER                              -> Ordered

Width(posture, n) ==
  Least(MaxCandidates, CASE posture \in {"verify", "exploit"} -> Largest(1, Least(2, n))
                         [] posture = "measure" -> Largest(2, Least(n, 3))
                         [] OTHER -> n)

Prefix(s, n) == SubSeq(s, 1, Least(n, Len(s)))

NextStrategies == LET p == Posture(LastSignal) pref == Preference(p, LastSignal.winner) IN Prefix(pref, Width(p, Len(pref)))

NextParallel(asks) == Least(MaxAtOnce, Largest(IF Posture(LastSignal) = "measure" THEN 2 ELSE 1, Len(asks)))

\* _phase_observation: a failed attempt is the branching of a search.
Observation(p) ==
  LET s == LastSignal
      before == IF Len(signals) > 1 THEN AnswerRate(signals[Len(signals) - 1]) ELSE AnswerRate(s) IN
  [entropy |-> Novelty(s), coherence |-> Whole - Disagreement(s), mobility |-> AnswerRate(s), queue |-> 0,
   accel |-> before - AnswerRate(s), resource |-> p.resource,
   branching |-> Rate(Attempts(s) - Cardinality(AnsweredIn(s)), Attempts(s)), evidence |-> EvidenceRate(s),
   context |-> p.context, debt |-> p.debt, disagreement |-> Disagreement(s)]

-----------------------------------------------------------------------------
(* Populations: lanes of a role and a compute tier.                        *)

PopLane(role, tier, count) == [role |-> role, tier |-> tier, count |-> count]
VerifierRoles == {"verifier", "red_team"}
TierCost      == [cheap |-> 1, standard |-> 2, deep |-> 8, exact |-> 3]

CountOf(lanes)       == SumOf([i \in DOMAIN lanes |-> lanes[i].count])
ComputeOf(lanes)     == SumOf([i \in DOMAIN lanes |-> lanes[i].count * TierCost[lanes[i].tier]])
CountOfTier(lanes, t) == SumOf([i \in DOMAIN lanes |-> IF lanes[i].tier = t THEN lanes[i].count ELSE 0])

\* The operator's envelope of a round; compute is in hundredths of a unit.
BaseBudget ==
  LET agents == Largest(1, 4 * MaxCandidates) IN
  [agents |-> agents, parallel |-> Largest(1, Least(MaxAtOnce, agents)), deep |-> Largest(1, Least(MaxAtOnce, 4)),
   exact |-> Least(2, Largest(1, MaxAtOnce)), compute |-> 100 * Largest(16, 12 * MaxCandidates)]
DrainBudget == [agents |-> 1, parallel |-> 1, deep |-> 0, exact |-> 0, compute |-> 100]

\* allocate_population: resource pressure narrows the envelope, never below one agent.
Narrowed(b, resource) ==
  LET factor == Largest(Pc(25), Whole - (75 * resource) \div 100)
      n      == Largest(1, Rounded(b.agents * factor, Whole)) IN
  [agents |-> Least(b.agents, n), parallel |-> Least(b.parallel, n), deep |-> Least(b.deep, n),
   exact |-> Least(b.exact, n), compute |-> Largest(100, (b.compute * factor) \div Whole)]

\* x times r percent, rounded, and at least one.
Share(x, r) == Largest(1, Rounded(x * r, 100))

\* Correlated populations buy width: hundredths of the agents that go to cheap search.
CheapWidth(b, o) ==
  LET independence == Least(Whole, o.independent \div Largest(1, b.agents))
      collapse     == Largest(o.correlation, Largest(Whole - o.novelty, Whole - independence)) IN
  Least(b.agents, Largest(1, Rounded(b.agents * (Pc(45) + (35 * collapse) \div 100), Whole)))

Diverge(b, o) ==
  LET w == CheapWidth(b, o) explorers == Share(w, 70) IN
  <<PopLane("explorer", "cheap", explorers), PopLane("mutator", "cheap", Largest(1, w - explorers)),
    PopLane("critic", "standard", Least(2, b.agents - w))>>

Coordinate(b) ==
  LET total == Least(b.agents, Largest(4, Rounded(b.agents * 65, 100)))
      e == Share(total, 40) s == Share(total, 20) c == Share(total, 20) IN
  <<PopLane("explorer", "cheap", e), PopLane("synthesizer", "standard", s), PopLane("critic", "standard", c),
    PopLane("verifier", "standard", Largest(1, total - e - s - c))>>

Measure(b, hotspots) ==
  LET deep     == Least(b.deep, Largest(1, Least(hotspots, b.deep)))
      standard == Least(Largest(2, b.agents - deep), Largest(2, b.parallel)) IN
  <<IF deep > 0 THEN PopLane("verifier", "deep", deep) ELSE PopLane("verifier", "standard", Largest(1, standard \div 2)),
    PopLane("critic", "standard", Largest(1, standard \div 2)),
    PopLane("red_team", "standard", Largest(1, standard \div 3))>>

\* No crystal is handed to a search round, so nothing is replayed exactly.
Verify(b) == <<PopLane("red_team", "deep", Least(b.deep, 1))>>

Perturb(b) ==
  LET total == Least(b.agents, Largest(3, Rounded(b.agents * 50, 100))) IN
  <<PopLane("explorer", "cheap", Largest(2, total \div 2)), PopLane("mutator", "cheap", Largest(1, total \div 3)),
    PopLane("critic", "standard", 1)>>

Drain(b) == <<PopLane("memory", "cheap", 1), PopLane("verifier", "standard", Least(2, b.agents - 1))>>

Allocated(mode, b, o, hotspots) ==
  CASE mode = "diverge"    -> Diverge(b, o)
    [] mode = "coordinate" -> Coordinate(b)
    [] mode \in {"measure", "anneal"} -> Measure(b, hotspots)
    [] mode = "verify"     -> Verify(b)
    [] mode = "perturb"    -> Perturb(b)
    [] mode = "drain"      -> Drain(b)

\* _apply_role_caps: no role has two lanes in a plan; a role that was not measured has no cap.
ApplyRoleCaps(lanes, caps) ==
  LET capped == [i \in DOMAIN lanes |-> IF lanes[i].role \in DOMAIN caps
                                        THEN [lanes[i] EXCEPT !.count = Least(@, caps[lanes[i].role])] ELSE lanes[i]] IN
  Keep(capped, {l \in {capped[i] : i \in DOMAIN capped} : l.count > 0})

FitLane(acc, l) ==
  LET n == Least(Least(l.count, acc.agents),
                 Least(IF l.tier = "deep" THEN acc.deep ELSE IF l.tier = "exact" THEN acc.exact ELSE l.count,
                       acc.compute \div (100 * TierCost[l.tier]))) IN
  IF n <= 0 THEN acc
  ELSE [acc EXCEPT !.lanes = Append(@, [l EXCEPT !.count = n]), !.agents = @ - n, !.compute = @ - n * 100 * TierCost[l.tier],
                   !.deep = IF l.tier = "deep" THEN @ - n ELSE @, !.exact = IF l.tier = "exact" THEN @ - n ELSE @]

\* _fit_budget: in the order of the lanes; a plan is never empty.
FitBudget(lanes, b) ==
  LET Upto[i \in 0 .. Len(lanes)] ==
        IF i = 0 THEN [lanes |-> <<>>, agents |-> b.agents, deep |-> b.deep, exact |-> b.exact, compute |-> b.compute]
        ELSE FitLane(Upto[i - 1], lanes[i])
      fitted == Upto[Len(lanes)].lanes
  IN IF fitted = <<>> THEN <<PopLane("memory", "cheap", 1)>> ELSE fitted

-----------------------------------------------------------------------------
(* The execution report of a population.                                   *)

\* How the tasks of a kind of lane answered: not at all, all alike, or each in its own way and with
\* evidence.  Lanes that verify independently are one kind, the others the other.
Answers  == {"silent", "alike", "apart"}
NoPopulation == [kind |-> "none", search |-> "silent", verify |-> "silent"]
Reports  == {NoPopulation, [NoPopulation EXCEPT !.kind = "cancelled"]} \cup [kind : {"run"}, search : Answers, verify : Answers]

AnswerOf(r, l) == IF l.role \in VerifierRoles THEN r.verify ELSE r.search

CountWhere(r, lanes, as) == SumOf([i \in DOMAIN lanes |-> IF AnswerOf(r, lanes[i]) \in as THEN lanes[i].count ELSE 0])

\* summarize_population, with mean_pairwise_correlation and effective_independent_search: alike answers
\* share one behaviour and one candidate, the others share nothing.
Telemetry(r, lanes) ==
  LET alike    == CountWhere(r, lanes, {"alike"})
      answered == CountWhere(r, lanes, {"alike", "apart"})
      outputs  == answered - alike + (IF alike > 0 THEN 1 ELSE 0)
      mean     == Rate(alike * (alike - 1), answered * (answered - 1)) IN
  [total |-> CountOf(lanes), answered |-> answered, unique |-> outputs, correlation |-> mean,
   verified |-> SumOf([i \in DOMAIN lanes |-> IF lanes[i].role \in VerifierRoles /\ r.verify # "silent" THEN lanes[i].count ELSE 0]),
   independent |-> IF answered = 0 THEN 0 ELSE (answered * Whole * Whole) \div (Whole + (answered - 1) * mean),
   disagreement |-> IF answered < 2 THEN 0 ELSE Rate(outputs - 1, answered - 1)]

-----------------------------------------------------------------------------
(* adaptive_information: the next budget, from what the last one bought.   *)

MinValue == Pc(5)

\* marginal_information_value of a lane.
LaneValue(r, t, l) ==
  LET a           == AnswerOf(r, l)
      answered    == a # "silent"
      correlation == IF a = "alike" /\ l.count > 1 THEN Whole ELSE 0
      novelty     == IF a = "apart" THEN Whole ELSE IF a = "alike" THEN Rate(1, l.count) ELSE 0
      evidence    == IF a = "apart" THEN Whole ELSE 0
      pressure    == IF l.role \in VerifierRoles THEN t.disagreement ELSE Whole - t.correlation
      expected    == Clamp((30 * novelty + 20 * evidence + (IF answered THEN 20 * Whole ELSE 0) + 20 * pressure
                            + 10 * (Whole - evidence)) \div 100)
  IN [value |-> ((Whole - correlation) * expected) \div (Whole * TierCost[l.tier]), correlation |-> correlation]

\* _recommended_count
Recommended(r, t, l) ==
  LET v      == LaneValue(r, t, l)
      kept   == IF v.value < MinValue THEN 0
                ELSE Largest(1, Least(l.count, CeilDiv(l.count * Largest(Pc(25), Least(Whole, (v.value * Whole) \div (4 * MinValue))), Whole)))
      capped == IF v.correlation >= Pc(85) /\ l.count > 1 THEN Least(kept, 1) ELSE kept
  IN IF l.role \in VerifierRoles /\ t.disagreement >= Pc(55) THEN Largest(capped, 1) ELSE capped

\* Fault: the verifier that is reserved gets a place, but not its compute.
ReservedComputeNever(compute, reserve, base) == compute

\* evaluate_information_budget: a reserved verifier is a deep one.
ReservedCompute(compute, reserve, base) == IF reserve = 0 THEN compute ELSE Largest(compute, Least(base.compute, 800))

\* Simplification: the manifest of the last round is at hand; `swf` may also be given a report
\* without the plan it executed, and then sizes the round by independence alone.
Decision(r, lanes, base) ==
  LET t         == Telemetry(r, lanes)
      counts    == [i \in DOMAIN lanes |-> Recommended(r, t, lanes[i])]
      below     == \A i \in DOMAIN lanes : LaneValue(r, t, lanes[i]).value < MinValue
      settled   == t.answered > 0 /\ t.disagreement <= Pc(15) /\ below
      unproven  == t.disagreement >= Pc(55) /\ t.verified < 1
      collapsed == t.correlation >= Pc(85) /\ t.independent <= Largest(Whole, Largest(1, t.answered) * Pc(35))
      reserve   == IF ~settled /\ unproven /\ base.deep > 0 THEN 1 ELSE 0
      caps      == [role \in {lanes[i].role : i \in DOMAIN lanes} \cup (IF reserve = 1 THEN {"verifier"} ELSE {}) |->
                      Largest(IF role = "verifier" THEN reserve ELSE 0,
                              SumOf([i \in DOMAIN lanes |-> IF lanes[i].role = role THEN counts[i] ELSE 0]))]
      kept      == Largest(1, Least(base.agents, SumOf(counts)))
      tier(x)   == SumOf([i \in DOMAIN lanes |-> IF lanes[i].tier = x THEN counts[i] ELSE 0])
      compute   == ReservedCompute(100 * SumOf([i \in DOMAIN lanes |-> counts[i] * TierCost[lanes[i].tier]]), reserve, base)
  IN [stop |-> settled, caps |-> caps, unproven |-> unproven /\ ~settled,
      mode |-> IF settled THEN "drain" ELSE IF unproven THEN "measure" ELSE IF collapsed THEN "perturb" ELSE "none",
      budget |-> IF settled THEN DrainBudget
                 ELSE [agents |-> kept, parallel |-> Least(base.parallel, kept),
                       deep |-> Least(Least(base.deep, Largest(tier("deep"), reserve)), kept),
                       exact |-> Least(Least(base.exact, tier("exact")), kept),
                       compute |-> Least(base.compute, Largest(100, compute))]]

NoCaps == [role \in {} |-> 0]

\* The budget of the next round: without a report the operator's, after a cancelled population a drain.
RoundBudget(r, lanes) ==
  CASE r.kind = "none"      -> [stop |-> FALSE, caps |-> NoCaps, unproven |-> FALSE, mode |-> "none", budget |-> BaseBudget]
    [] r.kind = "cancelled" -> [stop |-> TRUE, caps |-> NoCaps, unproven |-> FALSE, mode |-> "drain", budget |-> DrainBudget]
    [] r.kind = "run"       -> Decision(r, lanes, BaseBudget)

\* What plan_adaptive_round takes from a report: the budget, and the correlation of the population.
Learned(r, lanes) ==
  LET t == Telemetry(r, lanes) IN
  [due |-> FALSE, ran |-> r.kind # "none", independent |-> t.independent, correlation |-> t.correlation,
   decision |-> RoundBudget(r, lanes)]
NotYet == [due |-> TRUE]

-----------------------------------------------------------------------------
(* The rounds.                                                             *)

NoPlan == [round |-> 0, posture |-> "none", strategies |-> <<>>, parallel |-> 0, phase |-> "none", mode |-> "none",
           lanes |-> <<>>, stop |-> FALSE, laws |-> {}, asked |-> FALSE, calm |-> TRUE, budget |-> BaseBudget]

SearchInit == signals = <<>> /\ learned = Learned(NoPopulation, <<>>) /\ rplan = NoPlan

\* The population of the plan has run, or not; of the plan only the phase and the strategies are used again.
PopulationRan(r) ==
  /\ learned.due /\ rplan.posture # "stop"
  /\ learned' = Learned(r, rplan.lanes)
  /\ rplan' = [NoPlan EXCEPT !.round = rplan.round, !.strategies = rplan.strategies, !.phase = rplan.phase]
  /\ UNCHANGED signals

\* A campaign has run: one row per strategy asked, and perhaps a winner among the answers.
Campaign ==
  /\ Len(signals) = rplan.round /\ ~learned.due /\ Len(signals) < MaxSearchRounds
  /\ \E rows \in [IF signals = <<>> THEN Strategies ELSE {rplan.strategies[i] : i \in DOMAIN rplan.strategies} -> Rows] :
       \E winner \in {0} \cup {k \in DOMAIN rows : rows[k].answered} :
         signals' = Append(signals, [rows |-> rows, winner |-> winner])
  /\ rplan' = [rplan EXCEPT !.strategies = <<>>]
  /\ UNCHANGED learned

\* plan_adaptive_round.  A caller may pass the phase before, or not.
PlanRound(p, remembers) ==
  LET info  == learned.decision
      s     == LastSignal
      o     == Observation(p)
      phase == Phase(IF remembers THEN rplan.phase ELSE "none", o)
      mode  == IF info.mode = "none" THEN Mode(phase, o) ELSE info.mode
      so    == [independent |-> IF learned.ran THEN learned.independent ELSE Whole * Largest(1, Cardinality(OutputsIn(s))),
                correlation |-> IF learned.ran THEN learned.correlation ELSE Whole - Novelty(s), novelty |-> Novelty(s)]
      b     == Narrowed(info.budget, p.resource)
      lanes == FitBudget(ApplyRoleCaps(Allocated(mode, b, so, IF Disagreement(s) > 0 THEN 1 ELSE 0), info.caps), b)
      next  == NextStrategies
      asks  == IF info.stop THEN <<>> ELSE IF learned.ran THEN Prefix(next, Largest(1, info.budget.agents)) ELSE next
  IN
  /\ Len(signals) > rplan.round
  /\ rplan' = [round |-> Len(signals), posture |-> IF info.stop THEN "stop" ELSE Posture(s), strategies |-> asks,
               parallel |-> IF info.stop THEN 1 ELSE Least(NextParallel(next), Least(Largest(1, CountOf(lanes)), Len(asks))),
               phase |-> phase, mode |-> mode, lanes |-> lanes, stop |-> mode = "drain", laws |-> Laws,
               asked |-> info.unproven, calm |-> p.resource = 0, budget |-> info.budget]
  /\ learned' = NotYet
  /\ UNCHANGED signals

SearchNext ==
  \/ Campaign
  \/ \E r \in Reports : PopulationRan(r)
  \/ \E p \in Pressures, m \in BOOLEAN : PlanRound(p, m)

SearchSpec == SearchInit /\ [][SearchNext]_searchVars

-----------------------------------------------------------------------------
Planned == learned.due

\* No round's plan is one its own validation would refuse (SwarmPlan.validate, RecursiveRoundPlan.validate):
\* whatever the reports said and however the budget was narrowed, a population stays in the budget of its
\* round, one that stops new work has no explorer and no mutator, a live round asks distinct strategies
\* and works on at least one; and the posture follows the law the last round gave.
PlanIsAdmissible ==
  Planned =>
    /\ rplan.lanes # <<>> /\ CountOf(rplan.lanes) <= rplan.budget.agents
    /\ CountOfTier(rplan.lanes, "deep") <= rplan.budget.deep /\ CountOfTier(rplan.lanes, "exact") <= rplan.budget.exact
    /\ 100 * ComputeOf(rplan.lanes) <= rplan.budget.compute
    /\ rplan.stop => \A i \in DOMAIN rplan.lanes : rplan.lanes[i].role \notin {"explorer", "mutator"}
    /\ rplan.posture # "stop" => rplan.strategies # <<>>
    /\ \A i, j \in DOMAIN rplan.strategies : rplan.strategies[i] = rplan.strategies[j] => i = j
    /\ rplan.parallel >= 1
    /\ rplan.posture # "stop" => \A l \in rplan.laws : l.of = {} => l.kind = rplan.posture

\* A population whose candidates disagree, and that no independent verifier answered, is followed by one
\* with a verifier in it, unless the caller states resource pressure (the verifier reserve of
\* evaluate_information_budget survives role caps and every narrowing of the budget).
DisagreementGetsAVerifier ==
  (Planned /\ rplan.asked /\ rplan.calm) => \E i \in DOMAIN rplan.lanes : rplan.lanes[i].role = "verifier"

\* Every round's plan is admissible and answers the disagreement of the round before.
PlansAreSound == PlanIsAdmissible /\ DisagreementGetsAVerifier
=============================================================================
