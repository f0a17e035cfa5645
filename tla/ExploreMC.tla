------------------------------ MODULE ExploreMC -------------------------------
(***************************************************************************)
(* Small instances of what reviews and searches beside the line: the       *)
(* annealed review, the adaptive search, the population search, the fusion *)
(* of replicas and the candidates explored from the command line.  They    *)
(* share no state, so one behaviour exercises one of them.                 *)
(***************************************************************************)
EXTENDS Annealing, SearchRound, PopulationSearch, Fusion, Candidate

VARIABLE part    \* the component exercised

\* No pressure, or every pressure at its highest.
MCPressures == {[resource |-> 0, context |-> 0, debt |-> 0], [resource |-> Whole, context |-> Whole, debt |-> Whole]}

\* Control files of a search: the independent verifier of each member.
MCVerifier == [s1 |-> [t1 |-> "p", t2 |-> "q"], s2 |-> [t1 |-> "q", t2 |-> "p"], s3 |-> [t1 |-> "p", t2 |-> "p"], s4 |-> [t1 |-> "p"]]

\* A component that is not exercised stays in one of its initial states.
ExploreInit ==
  /\ part \in {"anneal", "search", "population", "fusion", "candidate"}
  /\ AnnealInit /\ (part # "anneal" => decided[1] = {})
  /\ SearchInit
  /\ PopulationInit /\ (part # "population" => control = "s1")
  /\ FusionInit
  /\ CandidateInit

OthersStand ==
  /\ part' = part
  /\ IF part = "anneal" THEN TRUE ELSE UNCHANGED anVars
  /\ IF part = "search" THEN TRUE ELSE UNCHANGED searchVars
  /\ IF part = "population" THEN TRUE ELSE UNCHANGED popvars
  /\ IF part = "fusion" THEN TRUE ELSE UNCHANGED fusionvars
  /\ IF part = "candidate" THEN TRUE ELSE UNCHANGED candidateVars

ExploreNext ==
  \/ part = "anneal" /\ AnnealNext /\ OthersStand
  \/ part = "search" /\ SearchNext /\ OthersStand
  \/ part = "population" /\ PopulationNext /\ OthersStand
  \/ part = "fusion" /\ FusionNext /\ OthersStand
  \/ part = "candidate" /\ CandidateNext /\ OthersStand

exploreVars == <<part, anVars, searchVars, popvars, fusionvars, candidateVars>>

ExploreSpec == ExploreInit /\ [][ExploreNext]_exploreVars
===============================================================================
