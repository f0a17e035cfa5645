---------------------------- MODULE AdmissionMC ----------------------------
(* Small instances of the admission store.                                 *)
EXTENDS Admission, TLC

CONSTANTS p1, p2, w1, w2, w3, c1, c2, c3

\* Two repositories; c1 and c2 share one.
MCRepo == (c1 :> "r1") @@ (c2 :> "r1") @@ (c3 :> "r2")
MCPriorities == {0, 20}
MCWeight == (0 :> 2) @@ (20 :> 1)

\* Leases: a two-member order and an order for one of the same Cells, sharing
\* an actor; together they exceed the limits below, so one must queue.
PairOrder ==
  (w1 :> [actor |-> "a", blueprint |-> "b", priority |-> 20, cells |-> {c1, c3}]) @@
  (w2 :> [actor |-> "a", blueprint |-> "b", priority |-> 0, cells |-> {c1}])

\* Capacity: w1 and w2 contend for their actor, w1 and w3 for a repository.
MixOrder ==
  (w1 :> [actor |-> "a", blueprint |-> "b", priority |-> 20, cells |-> {c1, c3}]) @@
  (w2 :> [actor |-> "a", blueprint |-> "d", priority |-> 0, cells |-> {c2}]) @@
  (w3 :> [actor |-> "e", blueprint |-> "d", priority |-> 20, cells |-> {c3}])

\* The backend processes are interchangeable.
ProcSymmetry == Permutations(Procs)

============================================================================
