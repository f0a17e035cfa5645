--------------------------- MODULE BackendLiveMC ---------------------------
(***************************************************************************)
(* Liveness of the backend in the small.  Workers report while two orders  *)
(* compete, or the process dies: both together only with one order in the  *)
(* factory, which keeps the state graph small enough for liveness.         *)
(***************************************************************************)
EXTENDS BackendMC

VARIABLE part    \* what a behaviour exercises

Orders == {w \in Works : work'[w] # "absent"}
NoReport == \A t \in Threads : thread'[t].at \notin {"patch", "members"}

LiveInit == BackendInit /\ part \in {"reports", "deaths"}
LiveNext ==
  /\ BackendNext /\ part' = part
  /\ part = "reports" => crashes' = 0 \/ Cardinality(Orders) <= 1
  /\ part = "deaths" => NoReport

LiveSpec == LiveInit /\ [][LiveNext]_<<backendVars, part>> /\ Fairness

============================================================================
