----------------------------- MODULE BackendMC -----------------------------
(* Small instances of the backend.                                         *)
EXTENDS Backend, TLC

CONSTANTS p1, p2, t1, t2, w1, w2, c1, c2

MCRepo == (c1 :> "r1") @@ (c2 :> "r2")
MCPriorities == {20}
MCWeight == (20 :> 1)

Job(cells) == [actor |-> "a", blueprint |-> "b", priority |-> 20, cells |-> cells]

\* Rivals: two actors ask for the same Cell at the same epoch.
RivalOrder == (w1 :> Job({c1})) @@ (w2 :> Job({c1}))

\* Neighbours: two orders for different Cells.
NeighbourOrder == (w1 :> Job({c1})) @@ (w2 :> Job({c2}))

\* One order for one Cell.
SoloOrder == (w1 :> Job({c1}))

\* Fan out: one order with two members.
FanOrder == (w1 :> Job({c1, c2}))

FirstEpoch == [w \in Works |-> 1]
OneProcess == [t \in Threads |-> p1]
TwoProcesses == (t1 :> p1) @@ (t2 :> p2)

\* Threads of one process are interchangeable.
ThreadSymmetry == Permutations(Threads)

============================================================================
