--------------------------- MODULE AdmissionProofs ---------------------------
(***************************************************************************)
(* Proofs about the admission store, for any sets of processes, orders and *)
(* Cells and any limits.                                                   *)
(***************************************************************************)
EXTENDS Admission, FiniteSetTheorems, TLAPS

USE DEF NoEpoch, NoToken

\* Each disjunct of Next is one of these operations.
LEMMA NextCases ==
  ASSUME Next
  PROVE  \/ \E q \in Procs, w \in Works : SubmitAdmitted(q, w)
         \/ \E q \in Procs, w \in Works : ClaimDispatch(q, w)
         \/ \E w \in Works : SubmitQueued(w)
         \/ \E w \in Works : LeaseExpires(w)
         \/ \E q \in Procs, w \in Works : BeginDrain(q, w)
         \/ DrainEmpty
         \/ \E w \in Works : DrainBlocked(w)
         \/ \E w \in Works : DrainAdmit(w)
         \/ \E q \in Procs, w \in Works, o \in Outcomes \cap {"cancelled", "failed"} : Cancel(q, w, o)
         \/ \E q \in Procs, w \in Works, c \in CellIds, e \in Epochs, o \in Outcomes :
              Complete(q, w, c, e, o)
         \/ \E i \in intents, c \in CellIds, e \in Epochs : RecordMemberEpoch(i, c, e)
         \/ \E i \in intents : RecordDispatch(i)
         \/ \E i \in intents : ReleaseDispatch(i)
         \/ \E i \in intents : MarkUndeliverable(i)
         \/ \E i \in intents : NoteOutcome(i)
         \/ \E i \in intents : AttemptAborts(i)
         \/ \E q \in Procs : Crash(q)
  BY Zenon DEF Next, Drain, Close, Attempt

\* Every value the store holds has its type: in particular no deficit and no
\* iteration count goes below zero.
LEMMA TypeInit == Init => TypeOK
  BY NumberAssumption DEF Init, TypeOK, WorkStates, HoldingStates, TerminalStates, DispatchStates,
     Intent, Member, DispatchRow

\* The refill of _next_fair_candidate keeps the type of the credits.
LEMMA RefilledType ==
  ASSUME TypeOK PROVE Refilled \in [Priorities -> Nat]
  BY NumberAssumption DEF Refilled, TypeOK

\* So does closing the members of an order.
LEMMA ClosedType ==
  ASSUME NEW m \in [CellIds -> Member], NEW o \in TerminalStates
  PROVE  Closed(m, o) \in [CellIds -> Member]
  BY DEF Closed, Member

\* Giving a lease up keeps the type of the outbox row.
LEMMA UnleasedType ==
  ASSUME NEW row \in DispatchRow, NEW s \in DispatchStates
  PROVE  Unleased(row, s) \in DispatchRow
  BY DEF Unleased, DispatchRow

\* _worst always yields a terminal state.
LEMMA WorstType == \A S : Worst(S) \in TerminalStates
  BY DEF Worst, TerminalStates

\* Every operation of the store keeps the types.
LEMMA TypeNext == TypeOK /\ [Next]_admissionVars => TypeOK'
  <1> SUFFICES ASSUME TypeOK, [Next]_admissionVars PROVE TypeOK'
    OBVIOUS
  <1> USE DEF TypeOK
  <1>a. {"queued", "dispatching", "admitted", "bound"} \cup TerminalStates \subseteq WorkStates
    BY DEF WorkStates, HoldingStates
  <1>b. /\ {"pending", "abandoned", "delivered", "undeliverable"} \subseteq DispatchStates
        /\ \A n \in Nat : Leased(n) \in DispatchRow
    BY DEF DispatchStates, DispatchRow, Leased
  <1>c. \A w \in Works : Reserved(w) \in [CellIds -> Member]
    BY DEF Reserved, Member
  <1>d. \A i \in intents : i.proc \in Procs /\ i.work \in Works
    BY DEF Intent
  <1>1. ASSUME NEW q \in Procs, NEW w \in Works, SubmitAdmitted(q, w) PROVE TypeOK'
    BY <1>1, <1>a, <1>b, <1>c DEF SubmitAdmitted, NewRow, Holds, Intent
  <1>2. ASSUME NEW q \in Procs, NEW w \in Works, ClaimDispatch(q, w) PROVE TypeOK'
    <2>1. dispatch[w].attempt + 1 \in Nat
      BY DEF DispatchRow
    <2> QED
      BY <1>2, <1>a, <1>b, <2>1 DEF ClaimDispatch, Holds, Intent
  <1>3. ASSUME NEW w \in Works, SubmitQueued(w) PROVE TypeOK'
    BY <1>3, <1>a, <1>c DEF SubmitQueued, NewRow
  <1>4. ASSUME NEW w \in Works, LeaseExpires(w) PROVE TypeOK'
    BY <1>4 DEF LeaseExpires, DispatchRow
  <1>5. ASSUME NEW q \in Procs, NEW w \in Works, BeginDrain(q, w) PROVE TypeOK'
    BY <1>5, LimitAssumption DEF BeginDrain
  <1>6. ASSUME DrainEmpty PROVE TypeOK'
    BY <1>6 DEF DrainEmpty
  <1>7. ASSUME NEW w \in Works, DrainBlocked(w) PROVE TypeOK'
    <2>1. pass' \in Nat /\ nextSeq' \in Nat /\ seq' \in [Works -> Nat]
      BY <1>7 DEF DrainBlocked
    <2> QED
      BY <1>7, <2>1, RefilledType DEF DrainBlocked
  <1>8. ASSUME NEW w \in Works, DrainAdmit(w) PROVE TypeOK'
    <2>1. Order[w].priority \in Priorities /\ Refilled[Order[w].priority] > 0
      BY <1>8, OrderAssumption DEF DrainAdmit, IsFairCandidate
    <2>2. deficit' \in [Priorities -> Nat]
      BY <1>8, <2>1, RefilledType DEF DrainAdmit
    <2>3. dispatch' \in [Works -> DispatchRow]
      BY <1>8, <1>b, UnleasedType DEF DrainAdmit
    <2>4. pass' \in Nat
      BY <1>8 DEF DrainAdmit
    <2> QED
      BY <1>8, <1>a, <2>2, <2>3, <2>4 DEF DrainAdmit
  <1>9. ASSUME NEW q \in Procs, NEW w \in Works,
               NEW o \in Outcomes \cap {"cancelled", "failed"}, Cancel(q, w, o)
        PROVE TypeOK'
    <2>1. o \in TerminalStates
      BY DEF TerminalStates
    <2>2. member' \in [Works -> [CellIds -> Member]]
      BY <1>9, <2>1, ClosedType DEF Cancel
    <2>3. dispatch' \in [Works -> DispatchRow]
      BY <1>9, <1>b, UnleasedType DEF Cancel
    <2> QED
      BY <1>9, <1>a, <2>1, <2>2, <2>3 DEF Cancel
  <1>10. ASSUME NEW q \in Procs, NEW w \in Works, NEW c \in CellIds, NEW e \in Epochs,
                NEW o \in Outcomes, Complete(q, w, c, e, o)
         PROVE TypeOK'
    <2>1. o \in TerminalStates
      BY NumberAssumption
    <2>2. member' \in [Works -> [CellIds -> Member]]
      BY <1>10, <2>1 DEF Complete, Member
    <2>3. work' \in [Works -> WorkStates] /\ owed' \subseteq Procs \X Works
      BY <1>10, <1>a, WorstType DEF Complete
    <2> QED
      BY <1>10, <2>2, <2>3 DEF Complete
  <1>11. ASSUME NEW i \in intents, NEW c \in CellIds, NEW e \in Epochs, RecordMemberEpoch(i, c, e)
         PROVE TypeOK'
    <2>1. \A m \in Member : [m EXCEPT !.epoch = e] \in Member
      <3> HIDE DEF NoEpoch
      <3> QED BY DEF Member
    <2>2. member' \in [Works -> [CellIds -> Member]]
      BY <1>11, <1>d, <2>1 DEF RecordMemberEpoch
    <2> QED
      BY <1>11, <2>2 DEF RecordMemberEpoch
  <1>12. ASSUME NEW i \in intents, RecordDispatch(i) PROVE TypeOK'
    BY <1>12, <1>a, <1>b, <1>d, UnleasedType DEF RecordDispatch, Returns
  <1>13. ASSUME NEW i \in intents, ReleaseDispatch(i) PROVE TypeOK'
    BY <1>13, <1>a, <1>b, <1>d, UnleasedType DEF ReleaseDispatch, Returns, BackToAdmitted
  <1>14. ASSUME NEW i \in intents, MarkUndeliverable(i) PROVE TypeOK'
    BY <1>14, <1>a, <1>b, <1>d, UnleasedType DEF MarkUndeliverable, Returns, BackToAdmitted
  <1>15. ASSUME NEW i \in intents, NoteOutcome(i) PROVE TypeOK'
    BY <1>15, <1>d DEF NoteOutcome, Returns
  <1>16. ASSUME NEW i \in intents, AttemptAborts(i) PROVE TypeOK'
    BY <1>16 DEF AttemptAborts
  <1>17. ASSUME NEW q \in Procs, Crash(q) PROVE TypeOK'
    BY <1>17 DEF Crash
  <1>18. CASE UNCHANGED admissionVars
    BY <1>18 DEF admissionVars
  <1> QED
    BY <1>1, <1>2, <1>3, <1>4, <1>5, <1>6, <1>7, <1>8, <1>9, <1>10, <1>11, <1>12, <1>13, <1>14,
       <1>15, <1>16, <1>17, <1>18, NextCases, Zenon

\* Type correctness of the store under every interleaving of its operations, lease
\* expiries and process deaths.
THEOREM TypeCorrect == Spec => []TypeOK
  BY TypeInit, TypeNext, PTL DEF Spec

-----------------------------------------------------------------------------
(* The invariants of the rows and of the intents that point at them.       *)

\* Strengthening of the row properties: members exist exactly when the order
\* does, an order without an outbox row has no epoch, and only a leased row
\* carries a token, the number of its latest attempt.
RowInv(w) ==
  /\ \A c \in CellIds \ Cells(w) : member[w][c].state = "none"
  /\ \A c \in Cells(w) : member[w][c].state = "none" <=> work[w] = "absent"
  /\ dispatch[w].state = "none" =>
       dispatch[w].attempt = 0 /\ \A c \in CellIds : member[w][c].epoch = NoEpoch
  /\ dispatch[w].attempt <= MaxAttempts
  /\ dispatch[w].token = IF dispatch[w].state = "inflight" THEN dispatch[w].attempt ELSE NoToken

\* Strengthening of the intent properties: a token was issued by the row it
\* points at, and while the order is open its process excludes a second claim.
IntentInv(i) ==
  /\ i.token \in 1 .. dispatch[i.work].attempt
  /\ work[i.work] \notin TerminalStates => i.work \in inflight[i.proc]

\* The inductive invariant of the store.
StoreInv ==
  /\ TypeOK
  /\ \A w \in Works : RowInv(w)
  /\ \A i \in intents : IntentInv(i)
  /\ OpenWhileMembersHeld
  /\ OutboxMatchesState
  /\ OneDeliveryPerProcess
  /\ OneLeaseHolder
  /\ SuccessMeansAllSucceeded

\* The empty store _migrate creates satisfies the invariant.
LEMMA StoreInit == Init => StoreInv
  BY TypeInit, OrderAssumption, LimitAssumption DEF Init, StoreInv, RowInv, OpenWhileMembersHeld, OutboxMatchesState,
     OneDeliveryPerProcess, OneLeaseHolder, SuccessMeansAllSucceeded, UndeliveredStates

\* Completing a member keeps the invariant: a held sibling keeps the order open,
\* and the last member closes it with the worst outcome of all.
LEMMA CompleteInv ==
  ASSUME StoreInv, TypeOK', NEW q \in Procs, NEW w \in Works, NEW c \in CellIds,
         NEW e \in Epochs, NEW o \in Outcomes, Complete(q, w, c, e, o)
  PROVE  StoreInv'
  <1>1. UNCHANGED <<dispatch, inflight, intents>>
    BY DEF Complete
  <1>2. o \in TerminalStates /\ e # NoEpoch
    BY NumberAssumption
  <1>3. member[w][c].state = "held" /\ member[w][c].epoch = e
    BY DEF Complete
  <1>4. /\ c \in Cells(w) /\ work[w] \in HoldingStates
        /\ dispatch[w].state # "none"
    <2>1. work[w] \in UndeliveredStates \cup {"bound"} /\ c \in Cells(w)
      BY <1>3 DEF StoreInv, OpenWhileMembersHeld, RowInv
    <2>2. dispatch[w].state # "none"
      BY <1>2, <1>3 DEF StoreInv, RowInv
    <2> QED
      BY <2>1, <2>2 DEF StoreInv, OutboxMatchesState, UndeliveredStates, HoldingStates
  <1>5. \A v \in Works, d \in CellIds : member'[v][d].epoch = member[v][d].epoch
    BY DEF Complete, StoreInv, TypeOK, Member
  <1>6. \A v \in Works, d \in CellIds :
          member'[v][d].state = IF v = w /\ d = c THEN o ELSE member[v][d].state
    BY DEF Complete, StoreInv, TypeOK, Member
  <1>7. \A v \in Works, d \in CellIds : v # w => member'[v][d].state = member[v][d].state
    BY <1>6
  <1>8. \A v \in Works : v # w => work'[v] = work[v]
    BY DEF Complete, StoreInv, TypeOK
  <1>9. /\ work[w] = work'[w] \/ work'[w] \in TerminalStates
        /\ work'[w] \in UndeliveredStates \cup {"bound"} <=>
             \E d \in CellIds : member'[w][d].state = "held"
        /\ work'[w] = "success" => \A d \in Cells(w) : member'[w][d].state = "success"
    <2>1. CASE \E d \in Cells(w) \ {c} : member[w][d].state = "held"
      <3>1. PICK d \in Cells(w) \ {c} : member[w][d].state = "held"
        BY <2>1
      <3>2. d \in CellIds /\ member'[w][d].state = "held"
        BY <1>6, <3>1, OrderAssumption
      <3>3. work' = work
        BY <2>1 DEF Complete
      <3> QED
        BY <1>4, <3>2, <3>3 DEF HoldingStates, UndeliveredStates
    <2>2. CASE ~ \E d \in Cells(w) \ {c} : member[w][d].state = "held"
      <3> DEFINE ends == {o} \cup {member[w][d].state : d \in Cells(w) \ {c}}
      <3>1. work'[w] = Worst(ends)
        BY <1>4, <2>2 DEF Complete, StoreInv, TypeOK
      <3>2. \A d \in Cells(w) : member'[w][d].state \in ends
        BY <1>6, OrderAssumption
      <3> HIDE DEF ends
      <3>3. \A d \in CellIds \ {c} : member[w][d].state # "held"
        BY <2>2 DEF StoreInv, RowInv
      <3>4. \A d \in CellIds : member'[w][d].state # "held"
        BY <1>2, <1>6, <3>3 DEF TerminalStates
      <3>5. \A d \in Cells(w) : member'[w][d].state \in TerminalStates
        <4>1. work[w] # "absent"
          BY <1>4 DEF HoldingStates
        <4>2. \A d \in Cells(w) : member[w][d].state # "none"
          BY <4>1 DEF StoreInv, RowInv
        <4>3. \A d \in Cells(w) \ {c} : member[w][d].state \in TerminalStates
          BY <3>3, <4>2, OrderAssumption DEF StoreInv, TypeOK, Member
        <4> QED
          BY <1>2, <1>6, <4>3, OrderAssumption
      <3>6. Worst(ends) = "success" => ends \cap {"rejected", "failed", "cancelled", "cleaned"} = {}
        BY DEF Worst
      <3>7. Worst(ends) = "success" => \A d \in Cells(w) : member'[w][d].state = "success"
        BY <3>2, <3>5, <3>6 DEF TerminalStates
      <3> QED
        BY <3>1, <3>4, <3>7, WorstType DEF TerminalStates, UndeliveredStates
    <2> QED
      BY <2>1, <2>2
  <1>10. ASSUME NEW v \in Works PROVE RowInv(v)'
    <2>1. CASE v = w
      <3>1. work'[w] # "absent" /\ work[w] # "absent"
        BY <1>4, <1>9 DEF HoldingStates, TerminalStates
      <3>2. \A d \in Cells(w) : member'[w][d].state # "none"
        BY <1>2, <1>6, <3>1, OrderAssumption DEF StoreInv, RowInv, TerminalStates
      <3>3. \A d \in CellIds \ Cells(w) : member'[w][d].state = "none"
        BY <1>4, <1>6 DEF StoreInv, RowInv
      <3> QED
        BY <1>1, <1>4, <2>1, <3>1, <3>2, <3>3 DEF StoreInv, RowInv
    <2>2. CASE v # w
      BY <1>1, <1>5, <1>7, <1>8, <2>2, OrderAssumption DEF StoreInv, RowInv
    <2> QED
      BY <2>1, <2>2
  <1>11. \A v \in Works : work'[v] \notin TerminalStates => work'[v] = work[v]
    BY <1>8, <1>9
  <1>12. (\A i \in intents : IntentInv(i))' /\ OneDeliveryPerProcess' /\ OneLeaseHolder'
    BY <1>1, <1>11 DEF StoreInv, TypeOK, Intent, IntentInv, OneDeliveryPerProcess, OneLeaseHolder
  <1>13. OpenWhileMembersHeld'
    BY <1>7, <1>8, <1>9 DEF StoreInv, OpenWhileMembersHeld
  <1>14. OutboxMatchesState'
    BY <1>1, <1>5, <1>11, OrderAssumption
       DEF StoreInv, OutboxMatchesState, TerminalStates
  <1>15. SuccessMeansAllSucceeded'
    BY <1>7, <1>8, <1>9, OrderAssumption DEF StoreInv, SuccessMeansAllSucceeded
  <1> QED
    BY <1>10, <1>12, <1>13, <1>14, <1>15 DEF StoreInv

\* Every operation of durable_admission.py keeps the invariant.
LEMMA StoreNext == StoreInv /\ [Next]_admissionVars => StoreInv'
  <1> SUFFICES ASSUME StoreInv, [Next]_admissionVars PROVE StoreInv'
    OBVIOUS
  <1>t. TypeOK'
    BY TypeNext DEF StoreInv
  <1> USE DEF StoreInv, TypeOK, RowInv, IntentInv, OpenWhileMembersHeld, OutboxMatchesState, OneDeliveryPerProcess, OneLeaseHolder, SuccessMeansAllSucceeded, UndeliveredStates, HoldingStates, TerminalStates, WorkStates, DispatchStates, Member, DispatchRow, Intent
  <1>1. ASSUME NEW q \in Procs, NEW w \in Works, SubmitAdmitted(q, w)
        PROVE StoreInv'
    BY <1>1, <1>t, OrderAssumption, NumberAssumption, LimitAssumption, SMTT(60) DEF SubmitAdmitted, NewRow, Reserved, Leased, Holds
  <1>2. ASSUME NEW q \in Procs, NEW w \in Works, ClaimDispatch(q, w)
        PROVE StoreInv'
    BY <1>2, <1>t, OrderAssumption, NumberAssumption, LimitAssumption, SMTT(60) DEF ClaimDispatch, Claimable, Leased, Holds
  <1>3. ASSUME NEW w \in Works, SubmitQueued(w)
        PROVE StoreInv'
    BY <1>3, <1>t, OrderAssumption, NumberAssumption, LimitAssumption, SMTT(60) DEF SubmitQueued, NewRow, Reserved
  <1>4. ASSUME NEW w \in Works, LeaseExpires(w)
        PROVE StoreInv'
    BY <1>4, <1>t, OrderAssumption, NumberAssumption, LimitAssumption, SMTT(60) DEF LeaseExpires
  <1>5. ASSUME NEW q \in Procs, NEW w \in Works, BeginDrain(q, w)
        PROVE StoreInv'
    BY <1>5, <1>t, OrderAssumption, NumberAssumption, LimitAssumption, SMTT(60) DEF BeginDrain
  <1>6. ASSUME DrainEmpty
        PROVE StoreInv'
    BY <1>6, <1>t, OrderAssumption, NumberAssumption, LimitAssumption, SMTT(60) DEF DrainEmpty
  <1>7. ASSUME NEW w \in Works, DrainBlocked(w)
        PROVE StoreInv'
    BY <1>7, <1>t, OrderAssumption, NumberAssumption, LimitAssumption, SMTT(60) DEF DrainBlocked
  <1>8. ASSUME NEW w \in Works, DrainAdmit(w)
        PROVE StoreInv'
    BY <1>8, <1>t, OrderAssumption, NumberAssumption, LimitAssumption, SMTT(60) DEF DrainAdmit, IsFairCandidate, Queued, Unleased
  <1>9. ASSUME NEW q \in Procs, NEW w \in Works,
               NEW o \in Outcomes \cap {"cancelled", "failed"}, Cancel(q, w, o)
        PROVE StoreInv'
    BY <1>9, <1>t, OrderAssumption, NumberAssumption, LimitAssumption, SMTT(60) DEF Cancel, Closed, Unleased
  <1>10. ASSUME NEW q \in Procs, NEW w \in Works, NEW c \in CellIds, NEW e \in Epochs,
                NEW o \in Outcomes, Complete(q, w, c, e, o)
        PROVE StoreInv'
    BY <1>10, <1>t, CompleteInv
  <1>11. ASSUME NEW i \in intents, NEW c \in CellIds, NEW e \in Epochs, RecordMemberEpoch(i, c, e)
        PROVE StoreInv'
    BY <1>11, <1>t, OrderAssumption, NumberAssumption, LimitAssumption, SMTT(60) DEF RecordMemberEpoch, LeaseHeld
  <1>12. ASSUME NEW i \in intents, RecordDispatch(i)
        PROVE StoreInv'
    BY <1>12, <1>t, OrderAssumption, NumberAssumption, LimitAssumption, SMTT(60) DEF RecordDispatch, LeaseHeld, Returns, Unleased
  <1>13. ASSUME NEW i \in intents, ReleaseDispatch(i)
        PROVE StoreInv'
    BY <1>13, <1>t, OrderAssumption, NumberAssumption, LimitAssumption, SMTT(60) DEF ReleaseDispatch, LeaseHeld, Returns, Unleased, BackToAdmitted
  <1>14. ASSUME NEW i \in intents, MarkUndeliverable(i)
        PROVE StoreInv'
    BY <1>14, <1>t, OrderAssumption, NumberAssumption, LimitAssumption, SMTT(60) DEF MarkUndeliverable, Returns, Unleased, BackToAdmitted
  <1>15. ASSUME NEW i \in intents, NoteOutcome(i)
        PROVE StoreInv'
    BY <1>15, <1>t, OrderAssumption, NumberAssumption, LimitAssumption, SMTT(60) DEF NoteOutcome, Returns
  <1>16. ASSUME NEW i \in intents, AttemptAborts(i)
        PROVE StoreInv'
    BY <1>16, <1>t, OrderAssumption, NumberAssumption, LimitAssumption, SMTT(60) DEF AttemptAborts
  <1>17. ASSUME NEW q \in Procs, Crash(q)
        PROVE StoreInv'
    BY <1>17, <1>t, OrderAssumption, NumberAssumption, LimitAssumption, SMTT(60) DEF Crash
  <1>18. CASE UNCHANGED admissionVars
    BY <1>18 DEF admissionVars
  <1> QED
    BY <1>1, <1>2, <1>3, <1>4, <1>5, <1>6, <1>7, <1>8, <1>9, <1>10, <1>11, <1>12, <1>13, <1>14,
       <1>15, <1>16, <1>17, <1>18, NextCases, Zenon

\* The inductive invariant holds in every reachable state of the store.
THEOREM StoreCorrect == Spec => []StoreInv
  BY StoreInit, StoreNext, PTL DEF Spec

\* An order stays open until its last member has ended, and not longer: complete
\* and cancel release every unit exactly when the order closes.
THEOREM OpenWhileHeld == Spec => []OpenWhileMembersHeld
  <1>1. StoreInv => OpenWhileMembersHeld
    BY DEF StoreInv
  <1> QED
    BY <1>1, StoreCorrect, PTL

\* The admission row and the outbox row of an order agree after every
\* transaction of submit, drain, claim, delivery, cancel and complete.
THEOREM OutboxConsistent == Spec => []OutboxMatchesState
  <1>1. StoreInv => OutboxMatchesState
    BY DEF StoreInv
  <1> QED
    BY <1>1, StoreCorrect, PTL

\* _assert_lease admits one attempt at a time, and _inflight one thread per
\* process, for any number of processes, expiries and crashes.
THEOREM ExclusiveDelivery == Spec => [](OneLeaseHolder /\ OneDeliveryPerProcess)
  <1>1. StoreInv => OneLeaseHolder /\ OneDeliveryPerProcess
    BY DEF StoreInv
  <1> QED
    BY <1>1, StoreCorrect, PTL

\* complete summarises an order as success only when all its members succeeded.
THEOREM HonestSummary == Spec => []SuccessMeansAllSucceeded
  <1>1. StoreInv => SuccessMeansAllSucceeded
    BY DEF StoreInv
  <1> QED
    BY <1>1, StoreCorrect, PTL

\* complete and cancel close an order with its last member and with the worst of
\* its members' outcomes.
THEOREM OrderHonest == Spec => []OrderTellsMembers
  BY OpenWhileHeld, HonestSummary, PTL DEF OrderTellsMembers

-----------------------------------------------------------------------------
(* Capacity.                                                               *)

\* Adding the units of one order adds at most one unit per Cell of the order.
LEMMA AddUnits ==
  ASSUME NEW held, IsFiniteSet(held), NEW w, NEW cells, IsFiniteSet(cells)
  PROVE  Cardinality(held \cup ({w} \X cells)) <= Cardinality(held) + Cardinality(cells)
  <1> DEFINE new == {w} \X cells
  <1>1. IsFiniteSet(new) /\ Cardinality(new) = Cardinality({w}) * Cardinality(cells)
    BY FS_Product, FS_Singleton
  <1>2. Cardinality({w}) = 1 /\ Cardinality(cells) \in Nat
    BY FS_Singleton, FS_CardinalityType
  <1>3. Cardinality(new) = Cardinality(cells)
    BY <1>1, <1>2
  <1>4. IsFiniteSet(held \cap new)
    BY FS_Subset
  <1>5. Cardinality(held) \in Nat /\ Cardinality(held \cap new) \in Nat
    BY <1>4, FS_CardinalityType
  <1> HIDE DEF new
  <1>6. Cardinality(held \cup new) = Cardinality(held) + Cardinality(new) - Cardinality(held \cap new)
    BY <1>1, FS_Union
  <1>7. Cardinality(held \cup new) <= Cardinality(held) + Cardinality(cells)
    BY <1>2, <1>3, <1>5, <1>6
  <1> QED
    BY <1>7 DEF new

\* The limits, for any set of units: what CapacityRespected says of HeldMembers.
WithinLimits(held) ==
  /\ Cardinality(held) <= GlobalActive
  /\ \A c \in CellIds : Cardinality(OfRepo(held, Repo[c])) <= PerRepoActive
  /\ \A w \in Works :
       /\ Cardinality(OfActor(held, Order[w].actor)) <= PerActorActive
       /\ Cardinality(OfBlueprint(held, Order[w].blueprint)) <= PerBlueprintActive

\* Releasing units respects the limits.
LEMMA FewerUnits ==
  ASSUME NEW held, IsFiniteSet(held), WithinLimits(held), NEW less \in SUBSET held
  PROVE  WithinLimits(less)
  <1>1. ASSUME NEW more \in SUBSET held, NEW fewer \in SUBSET more, NEW n \in Nat,
               Cardinality(more) <= n
        PROVE  Cardinality(fewer) <= n
    <2>1. IsFiniteSet(more)
      BY FS_Subset
    <2>2. IsFiniteSet(fewer) /\ Cardinality(fewer) <= Cardinality(more)
      BY <2>1, FS_Subset
    <2>3. Cardinality(more) \in Nat /\ Cardinality(fewer) \in Nat
      BY <2>1, <2>2, FS_CardinalityType
    <2> QED
      BY <1>1, <2>2, <2>3
  <1>2. Cardinality(less) <= GlobalActive
    BY <1>1, LimitAssumption DEF WithinLimits
  <1>3. ASSUME NEW c \in CellIds PROVE Cardinality(OfRepo(less, Repo[c])) <= PerRepoActive
    <2>1. OfRepo(held, Repo[c]) \in SUBSET held /\ OfRepo(less, Repo[c]) \in SUBSET OfRepo(held, Repo[c])
      BY DEF OfRepo
    <2> QED
      BY <1>1, <2>1, LimitAssumption DEF WithinLimits
  <1>4. ASSUME NEW w \in Works
        PROVE /\ Cardinality(OfActor(less, Order[w].actor)) <= PerActorActive
              /\ Cardinality(OfBlueprint(less, Order[w].blueprint)) <= PerBlueprintActive
    <2>1. /\ OfActor(held, Order[w].actor) \in SUBSET held
          /\ OfActor(less, Order[w].actor) \in SUBSET OfActor(held, Order[w].actor)
      BY DEF OfActor
    <2>2. /\ OfBlueprint(held, Order[w].blueprint) \in SUBSET held
          /\ OfBlueprint(less, Order[w].blueprint) \in SUBSET OfBlueprint(held, Order[w].blueprint)
      BY DEF OfBlueprint
    <2> QED
      BY <1>1, <2>1, <2>2, LimitAssumption DEF WithinLimits
  <1> QED
    BY <1>2, <1>3, <1>4 DEF WithinLimits

\* An order that passes _capacity_block may hold all its units at once.
LEMMA FittingUnits ==
  ASSUME NEW held \in SUBSET (Works \X CellIds), IsFiniteSet(held), WithinLimits(held),
         NEW w \in Works, FitsBeside(w, held)
  PROVE  WithinLimits(held \cup ({w} \X Cells(w)))
  <1> DEFINE all == held \cup ({w} \X Cells(w))
  <1>f. Cells(w) \subseteq CellIds /\ IsFiniteSet(Cells(w))
    BY OrderAssumption, FS_Subset
  <1>1. Cardinality(all) <= GlobalActive
    <2>1. Cardinality(all) <= Cardinality(held) + Cardinality(Cells(w))
      BY <1>f, AddUnits
    <2>2. IsFiniteSet(all)
      BY <1>f, FS_Union, FS_Product, FS_Singleton
    <2>3. Cardinality(held) \in Nat /\ Cardinality(Cells(w)) \in Nat /\ Cardinality(all) \in Nat
      BY <1>f, <2>2, FS_CardinalityType
    <2> HIDE DEF all
    <2> QED
      BY <2>1, <2>3, LimitAssumption DEF FitsBeside
  <1>2. ASSUME NEW c \in CellIds PROVE Cardinality(OfRepo(all, Repo[c])) <= PerRepoActive
    <2> DEFINE mine == {d \in Cells(w) : Repo[d] = Repo[c]}
    <2> DEFINE theirs == OfRepo(held, Repo[c])
    <2>1. OfRepo(all, Repo[c]) = theirs \cup ({w} \X mine)
      BY <1>f DEF OfRepo
    <2>2. IsFiniteSet(mine) /\ IsFiniteSet(theirs)
      BY <1>f, FS_Subset DEF OfRepo
    <2>3. CASE mine = {}
      <3>1. OfRepo(all, Repo[c]) = theirs
        BY <2>1, <2>3
      <3> QED
        BY <3>1 DEF WithinLimits
    <2>4. CASE mine # {}
      <3>1. PICK d \in Cells(w) : Repo[d] = Repo[c]
        BY <2>4
      <3>2. Cardinality(theirs) + Cardinality(mine) <= PerRepoActive
        BY <3>1 DEF FitsBeside
      <3>3. Cardinality(theirs \cup ({w} \X mine)) <= Cardinality(theirs) + Cardinality(mine)
        BY <2>2, AddUnits
      <3>4. IsFiniteSet(theirs \cup ({w} \X mine))
        BY <2>2, FS_Union, FS_Product, FS_Singleton
      <3>5. /\ Cardinality(theirs) \in Nat /\ Cardinality(mine) \in Nat
            /\ Cardinality(theirs \cup ({w} \X mine)) \in Nat
        BY <2>2, <3>4, FS_CardinalityType
      <3> HIDE DEF mine, theirs
      <3>6. Cardinality(theirs \cup ({w} \X mine)) <= PerRepoActive
        BY <3>2, <3>3, <3>5, LimitAssumption
      <3> QED
        BY <2>1, <3>6
    <2> QED
      BY <2>3, <2>4
  <1>3. ASSUME NEW part, part \subseteq held, IsFiniteSet(part), NEW n \in Nat,
               Cardinality(part) + Cardinality(Cells(w)) <= n
        PROVE  Cardinality(part \cup ({w} \X Cells(w))) <= n
    <2>1. Cardinality(part \cup ({w} \X Cells(w))) <= Cardinality(part) + Cardinality(Cells(w))
      BY <1>3, <1>f, AddUnits
    <2>2. IsFiniteSet(part \cup ({w} \X Cells(w)))
      BY <1>3, <1>f, FS_Union, FS_Product, FS_Singleton
    <2>3. /\ Cardinality(part) \in Nat /\ Cardinality(Cells(w)) \in Nat
          /\ Cardinality(part \cup ({w} \X Cells(w))) \in Nat
      BY <1>3, <1>f, <2>2, FS_CardinalityType
    <2> QED
      BY <1>3, <2>1, <2>3
  <1>4. ASSUME NEW v \in Works PROVE Cardinality(OfActor(all, Order[v].actor)) <= PerActorActive
    <2> DEFINE theirs == OfActor(held, Order[v].actor)
    <2>1. CASE Order[v].actor # Order[w].actor
      <3>1. OfActor(all, Order[v].actor) = theirs
        BY <2>1 DEF OfActor
      <3> QED
        BY <3>1 DEF WithinLimits
    <2>2. CASE Order[v].actor = Order[w].actor
      <3>1. OfActor(all, Order[v].actor) = theirs \cup ({w} \X Cells(w))
        BY <2>2 DEF OfActor
      <3>2. theirs \subseteq held /\ IsFiniteSet(theirs)
        BY FS_Subset DEF OfActor
      <3>3. Cardinality(theirs) + Cardinality(Cells(w)) <= PerActorActive
        BY <2>2 DEF FitsBeside
      <3> HIDE DEF theirs
      <3> QED
        BY <1>3, <3>1, <3>2, <3>3, LimitAssumption
    <2> QED
      BY <2>1, <2>2
  <1>5. ASSUME NEW v \in Works
        PROVE  Cardinality(OfBlueprint(all, Order[v].blueprint)) <= PerBlueprintActive
    <2> DEFINE theirs == OfBlueprint(held, Order[v].blueprint)
    <2>1. CASE Order[v].blueprint # Order[w].blueprint
      <3>1. OfBlueprint(all, Order[v].blueprint) = theirs
        BY <2>1 DEF OfBlueprint
      <3> QED
        BY <3>1 DEF WithinLimits
    <2>2. CASE Order[v].blueprint = Order[w].blueprint
      <3>1. OfBlueprint(all, Order[v].blueprint) = theirs \cup ({w} \X Cells(w))
        BY <2>2 DEF OfBlueprint
      <3>2. theirs \subseteq held /\ IsFiniteSet(theirs)
        BY FS_Subset DEF OfBlueprint
      <3>3. Cardinality(theirs) + Cardinality(Cells(w)) <= PerBlueprintActive
        BY <2>2 DEF FitsBeside
      <3> HIDE DEF theirs
      <3> QED
        BY <1>3, <3>1, <3>2, <3>3, LimitAssumption
    <2> QED
      BY <2>1, <2>2
  <1> QED
    BY <1>1, <1>2, <1>4, <1>5 DEF WithinLimits

\* What a step does to the set of held units: it only shrinks, or one order
\* that fits is added.
LEMMA UnitsStep ==
  ASSUME StoreInv, [Next]_admissionVars
  PROVE  \/ HeldMembers' \subseteq HeldMembers
         \/ \E w \in Works : Fits(w) /\ HeldMembers' \subseteq HeldMembers \cup ({w} \X Cells(w))
  <1> USE DEF StoreInv, TypeOK
  <1>a. ASSUME \A w \in Works : work'[w] \in HoldingStates => work[w] \in HoldingStates,
               \A w \in Works, c \in CellIds : member'[w][c].state = "held" => member[w][c].state = "held"
        PROVE  HeldMembers' \subseteq HeldMembers
    BY <1>a DEF HeldMembers
  <1>b. ASSUME NEW w \in Works, Fits(w),
               \A v \in Works \ {w} : work'[v] = work[v] /\ member'[v] = member[v],
               \A c \in CellIds \ Cells(w) : member'[w][c].state # "held"
        PROVE  \E v \in Works : Fits(v) /\ HeldMembers' \subseteq HeldMembers \cup ({v} \X Cells(v))
    BY <1>b DEF HeldMembers
  <1>1. ASSUME NEW q \in Procs, NEW w \in Works, SubmitAdmitted(q, w)
        PROVE  \E v \in Works : Fits(v) /\ HeldMembers' \subseteq HeldMembers \cup ({v} \X Cells(v))
    BY <1>1, <1>b DEF SubmitAdmitted, NewRow, Reserved
  <1>2. ASSUME NEW w \in Works, DrainAdmit(w)
        PROVE  \E v \in Works : Fits(v) /\ HeldMembers' \subseteq HeldMembers \cup ({v} \X Cells(v))
    BY <1>2, <1>b DEF DrainAdmit, RowInv
  <1>3. ASSUME NEW w \in Works, SubmitQueued(w) PROVE HeldMembers' \subseteq HeldMembers
    BY <1>3 DEF SubmitQueued, NewRow, HoldingStates, HeldMembers
  <1>4. ASSUME NEW q \in Procs, NEW w \in Works, ClaimDispatch(q, w)
        PROVE  HeldMembers' \subseteq HeldMembers
    BY <1>4, <1>a DEF ClaimDispatch, Claimable, HoldingStates
  <1>5. ASSUME NEW q \in Procs, NEW w \in Works,
               NEW o \in Outcomes \cap {"cancelled", "failed"}, Cancel(q, w, o)
        PROVE  HeldMembers' \subseteq HeldMembers
    BY <1>5, <1>a DEF Cancel, Closed, HoldingStates
  <1>6. ASSUME NEW q \in Procs, NEW w \in Works, NEW c \in CellIds, NEW e \in Epochs,
               NEW o \in Outcomes, Complete(q, w, c, e, o)
        PROVE  HeldMembers' \subseteq HeldMembers
    <2>1. \A v \in Works, d \in CellIds : member'[v][d].state = "held" => member[v][d].state = "held"
      BY <1>6, NumberAssumption DEF Complete, Member
    <2>2. \A v \in Works : work'[v] \in HoldingStates => work[v] \in HoldingStates
      BY <1>6 DEF Complete
    <2> QED
      BY <1>a, <2>1, <2>2
  <1>7. ASSUME NEW i \in intents, NEW c \in CellIds, NEW e \in Epochs, RecordMemberEpoch(i, c, e)
        PROVE  HeldMembers' \subseteq HeldMembers
    BY <1>7, <1>a DEF RecordMemberEpoch, Member, Intent
  <1>8. ASSUME NEW i \in intents, RecordDispatch(i) PROVE HeldMembers' \subseteq HeldMembers
    BY <1>8, <1>a DEF RecordDispatch, HoldingStates, Intent
  <1>9. ASSUME NEW i \in intents, ReleaseDispatch(i) PROVE HeldMembers' \subseteq HeldMembers
    BY <1>9, <1>a DEF ReleaseDispatch, BackToAdmitted, HoldingStates, Intent
  <1>10. ASSUME NEW i \in intents, MarkUndeliverable(i) PROVE HeldMembers' \subseteq HeldMembers
    BY <1>10, <1>a DEF MarkUndeliverable, BackToAdmitted, HoldingStates, Intent
  <1>11. ASSUME UNCHANGED <<work, member>> PROVE HeldMembers' \subseteq HeldMembers
    BY <1>11 DEF HeldMembers
  <1>12. \/ \E w \in Works : LeaseExpires(w) \/ DrainBlocked(w)
         \/ \E q \in Procs, w \in Works : BeginDrain(q, w)
         \/ DrainEmpty
         \/ \E i \in intents : NoteOutcome(i) \/ AttemptAborts(i)
         \/ \E q \in Procs : Crash(q)
         \/ UNCHANGED admissionVars
         => UNCHANGED <<work, member>>
    BY DEF LeaseExpires, DrainBlocked, BeginDrain, DrainEmpty, NoteOutcome, AttemptAborts, Crash,
       admissionVars
  <1> QED
    BY <1>1, <1>2, <1>3, <1>4, <1>5, <1>6, <1>7, <1>8, <1>9, <1>10, <1>11, <1>12, NextCases, Zenon

\* No interleaving of any number of processes makes open orders hold more units
\* than the global, repository, actor or blueprint limit: the check and the
\* reservation of submit, and each admission of drain, are one transaction.
THEOREM CapacityCorrect == Spec => []CapacityRespected
  <1>f. IsFiniteSet(HeldMembers) /\ HeldMembers \in SUBSET (Works \X CellIds)
    <2>1. IsFiniteSet(Works \X CellIds)
      BY OrderAssumption, FS_Product
    <2> QED
      BY <2>1, FS_Subset DEF HeldMembers
  <1>d. CapacityRespected <=> WithinLimits(HeldMembers)
    BY DEF CapacityRespected, WithinLimits
  <1>1. Init => CapacityRespected
    <2> SUFFICES ASSUME Init PROVE WithinLimits({}) /\ HeldMembers = {}
      BY <1>d
    <2>1. HeldMembers = {}
      BY DEF Init, HeldMembers, HoldingStates
    <2>2. \A S : /\ OfRepo({}, S) = {} /\ OfActor({}, S) = {} /\ OfBlueprint({}, S) = {}
      BY DEF OfRepo, OfActor, OfBlueprint
    <2> QED
      BY <2>1, <2>2, FS_EmptySet, LimitAssumption DEF WithinLimits
  <1>2. StoreInv /\ CapacityRespected /\ [Next]_admissionVars => CapacityRespected'
    <2> SUFFICES ASSUME StoreInv, CapacityRespected, [Next]_admissionVars
                 PROVE  WithinLimits(HeldMembers')
      BY DEF CapacityRespected, WithinLimits, OfRepo, OfActor, OfBlueprint
    <2>1. CASE HeldMembers' \subseteq HeldMembers
      BY <1>d, <1>f, <2>1, FewerUnits
    <2>2. ASSUME NEW w \in Works, Fits(w), HeldMembers' \subseteq HeldMembers \cup ({w} \X Cells(w))
          PROVE  WithinLimits(HeldMembers')
      <3>1. WithinLimits(HeldMembers \cup ({w} \X Cells(w)))
        BY <1>d, <1>f, <2>2, FittingUnits DEF Fits
      <3>2. IsFiniteSet(HeldMembers \cup ({w} \X Cells(w)))
        <4>1. IsFiniteSet({w} \X Cells(w))
          BY OrderAssumption, FS_Subset, FS_Product, FS_Singleton
        <4> QED
          BY <1>f, <4>1, FS_Union
      <3> QED
        BY <2>2, <3>1, <3>2, FewerUnits
    <2> QED
      BY <2>1, <2>2, UnitsStep
  <1> QED
    BY <1>1, <1>2, StoreCorrect, PTL DEF Spec

-----------------------------------------------------------------------------
(* Closed orders.                                                          *)

\* A delivery, a drain or a completion that runs after an order was closed
\* changes neither its outcome nor the outcome of any of its members.
THEOREM ClosedStaysClosed == Spec => ClosedIsFinal
  <1> DEFINE Final == \A w \in Works : work[w] \in TerminalStates =>
               work'[w] = work[w] /\ \A c \in CellIds : member'[w][c].state = member[w][c].state
  <1>1. StoreInv /\ [Next]_admissionVars => [Final]_admissionVars
    <2> SUFFICES ASSUME StoreInv, Next PROVE Final
      OBVIOUS
    <2> USE DEF StoreInv, TypeOK
    <2>a. {"absent", "queued", "admitted", "dispatching", "bound"} \cap TerminalStates = {}
      BY DEF TerminalStates
    <2>b. \A w \in Works : work[w] \in TerminalStates => \A c \in CellIds : member[w][c].state # "held"
      BY DEF OpenWhileMembersHeld, UndeliveredStates, TerminalStates
    <2>1. ASSUME NEW q \in Procs, NEW w \in Works, SubmitAdmitted(q, w) PROVE Final
      BY <2>1, <2>a DEF SubmitAdmitted, NewRow
    <2>2. ASSUME NEW q \in Procs, NEW w \in Works, ClaimDispatch(q, w) PROVE Final
      BY <2>2, <2>a DEF ClaimDispatch, Claimable
    <2>3. ASSUME NEW w \in Works, SubmitQueued(w) PROVE Final
      BY <2>3, <2>a DEF SubmitQueued, NewRow
    <2>4. ASSUME NEW w \in Works, DrainAdmit(w) PROVE Final
      BY <2>4, <2>a DEF DrainAdmit, IsFairCandidate, Queued
    <2>5. ASSUME NEW q \in Procs, NEW w \in Works,
                 NEW o \in Outcomes \cap {"cancelled", "failed"}, Cancel(q, w, o)
          PROVE Final
      BY <2>5, <2>a DEF Cancel, UndeliveredStates
    <2>6. ASSUME NEW q \in Procs, NEW w \in Works, NEW c \in CellIds, NEW e \in Epochs,
                 NEW o \in Outcomes, Complete(q, w, c, e, o)
          PROVE Final
      <3>1. work[w] \notin TerminalStates
        BY <2>6, <2>b DEF Complete
      <3> QED
        BY <2>6, <3>1 DEF Complete
    <2>7. ASSUME NEW i \in intents, NEW c \in CellIds, NEW e \in Epochs, RecordMemberEpoch(i, c, e)
          PROVE Final
      BY <2>7 DEF RecordMemberEpoch, Member, Intent
    <2>8. ASSUME NEW i \in intents, RecordDispatch(i) PROVE Final
      BY <2>8, <2>a DEF RecordDispatch, Intent
    <2>9. ASSUME NEW i \in intents, ReleaseDispatch(i) PROVE Final
      BY <2>9, <2>a DEF ReleaseDispatch, BackToAdmitted, Intent
    <2>10. ASSUME NEW i \in intents, MarkUndeliverable(i) PROVE Final
      BY <2>10, <2>a DEF MarkUndeliverable, BackToAdmitted, Intent
    <2>11. ASSUME UNCHANGED <<work, member>> PROVE Final
      BY <2>11
    <2>12. \/ \E w \in Works : LeaseExpires(w) \/ DrainBlocked(w)
           \/ \E q \in Procs, w \in Works : BeginDrain(q, w)
           \/ DrainEmpty
           \/ \E i \in intents : NoteOutcome(i) \/ AttemptAborts(i)
           \/ \E q \in Procs : Crash(q)
           => UNCHANGED <<work, member>>
      BY DEF LeaseExpires, DrainBlocked, BeginDrain, DrainEmpty, NoteOutcome, AttemptAborts, Crash
    <2> HIDE DEF Final
    <2> QED
      BY <2>1, <2>2, <2>3, <2>4, <2>5, <2>6, <2>7, <2>8, <2>9, <2>10, <2>11, <2>12, NextCases, Zenon
  <1> QED
    BY <1>1, StoreCorrect, PTL DEF Spec, ClosedIsFinal

=============================================================================
