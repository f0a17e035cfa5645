------------------------------ MODULE Admission ------------------------------
(***************************************************************************)
(* The durable admission store: swfactory/durable_admission.py.            *)
(*                                                                         *)
(* A work order reserves one capacity unit per member Cell, waits in a     *)
(* weighted queue when a limit is reached, and is handed to Airflow        *)
(* through a dispatch outbox whose intents are leased to delivery          *)
(* attempts.  Every operation below is one SQLite write transaction        *)
(* (BEGIN IMMEDIATE), hence one step; drain is the only transaction with a *)
(* loop, and its iterations are steps taken while the transaction is open  *)
(* (pass > 0), during which no other transaction can start.                *)
(*                                                                         *)
(* The state of the store is shared by the backend processes Procs; the    *)
(* _inflight table is private to each process and lost when it dies.       *)
(*                                                                         *)
(* Simplifications: a lease clock is a Boolean that may turn FALSE at any  *)
(* time; a lease token is the number of the attempt it was minted for (the *)
(* code hashes work id, attempt and time); admission_throttles is left out *)
(* because no code of the repository ever writes a row to it; rejected     *)
(* submissions leave no row and therefore no step.                         *)
(***************************************************************************)
EXTENDS Naturals, FiniteSets

CONSTANTS
  Procs,          \* backend processes that may have the store open
  Works,          \* work order identities
  CellIds,        \* Factory Cell identities
  Order,          \* [Works -> [actor, blueprint, priority, cells]]: the immutable order
  Repo,           \* [CellIds -> repository]: part of the Cell identity
  Priorities,     \* priority classes; a smaller number is more urgent
  Weight,         \* [Priorities -> quantum of the deficit round robin]
  Epochs,         \* Cell epochs
  Outcomes,       \* terminal states callers report
  GlobalActive, PerRepoActive, PerActorActive, PerBlueprintActive, QueueSize,
  MaxAttempts     \* MAX_DISPATCH_ATTEMPTS

VARIABLES
  work,      \* work[w]: state of the admission row, "absent" before submission
  member,    \* member[w][c]: the capacity unit of order w for Cell c
  dispatch,  \* dispatch[w]: the outbox row of w
  seq,       \* seq[w]: queue sequence number
  nextSeq,   \* the sequence counter of admission_meta
  deficit,   \* deficit[p]: credit of priority class p
  inflight,  \* inflight[q]: orders process q believes it is delivering
  intents,   \* DispatchIntents held by live threads
  owed,      \* <<q, w>>: process q closed w and has not started the drain that follows
  pass       \* iterations left in the open drain transaction, 0 when none is open

admissionVars ==
  <<work, member, dispatch, seq, nextSeq, deficit, inflight, intents, owed, pass>>

HoldingStates    == {"admitted", "dispatching", "bound"}
TerminalStates   == {"success", "failed", "cancelled", "rejected", "cleaned"}
WorkStates       == {"absent", "queued"} \cup HoldingStates \cup TerminalStates
UndeliveredStates == {"queued", "admitted", "dispatching"}
DispatchStates   == {"none", "pending", "inflight", "delivered", "abandoned", "undeliverable"}

NoEpoch == 0
NoToken == 0

Cells(w) == Order[w].cells
Intent   == [proc : Procs, work : Works, token : Nat]
Member   == [epoch : Epochs \cup {NoEpoch}, state : {"none", "held"} \cup TerminalStates]
DispatchRow == [state : DispatchStates, attempt : Nat, token : Nat, lease : BOOLEAN]

ASSUME LimitAssumption ==
  /\ GlobalActive \in Nat /\ PerRepoActive \in Nat
  /\ PerActorActive \in Nat /\ PerBlueprintActive \in Nat /\ QueueSize \in Nat
  /\ MaxAttempts \in Nat \ {0}

ASSUME OrderAssumption ==
  /\ IsFiniteSet(Works) /\ IsFiniteSet(CellIds)
  /\ \A w \in Works : Cells(w) \subseteq CellIds /\ Cells(w) # {}
  /\ \A w \in Works : Order[w].priority \in Priorities

ASSUME NumberAssumption ==
  /\ Priorities \subseteq Nat
  /\ Weight \in [Priorities -> Nat]
  /\ Epochs \subseteq Nat \ {0}
  /\ Outcomes \subseteq TerminalStates

-----------------------------------------------------------------------------
(* Capacity.                                                               *)

\* _held_members: the units counted against every limit.
HeldMembers ==
  {m \in Works \X CellIds : work[m[1]] \in HoldingStates /\ member[m[1]][m[2]].state = "held"}

\* The units of held that belong to one repository, actor or blueprint.
OfRepo(held, r)      == {m \in held : Repo[m[2]] = r}
OfActor(held, a)     == {m \in held : Order[m[1]].actor = a}
OfBlueprint(held, b) == {m \in held : Order[m[1]].blueprint = b}

\* Fault: the repository dimension is forgotten.
FitsBesideAnyRepo(w, held) ==
  LET wanted == Cardinality(Cells(w))
  IN  /\ Cardinality(held) + wanted <= GlobalActive
      /\ Cardinality(OfActor(held, Order[w].actor)) + wanted <= PerActorActive
      /\ Cardinality(OfBlueprint(held, Order[w].blueprint)) + wanted <= PerBlueprintActive

\* _checks and _first_block: the order w fits next to the units already held.
FitsBeside(w, held) ==
  LET wanted == Cardinality(Cells(w))
  IN  /\ Cardinality(held) + wanted <= GlobalActive
      /\ \A c \in Cells(w) :
           Cardinality(OfRepo(held, Repo[c]))
             + Cardinality({d \in Cells(w) : Repo[d] = Repo[c]}) <= PerRepoActive
      /\ Cardinality(OfActor(held, Order[w].actor)) + wanted <= PerActorActive
      /\ Cardinality(OfBlueprint(held, Order[w].blueprint)) + wanted <= PerBlueprintActive

Fits(w)       == FitsBeside(w, HeldMembers)
Impossible(w) == ~FitsBeside(w, {})

Queued == {w \in Works : work[w] = "queued"}

\* _worst over TERMINAL_PRECEDENCE.
Worst(outcomes) ==
  IF "rejected" \in outcomes THEN "rejected"
  ELSE IF "failed" \in outcomes THEN "failed"
  ELSE IF "cancelled" \in outcomes THEN "cancelled"
  ELSE IF "cleaned" \in outcomes THEN "cleaned"
  ELSE "success"

-----------------------------------------------------------------------------
(* Initial state: an empty store opened by idle processes.                 *)

Init ==
  /\ work = [w \in Works |-> "absent"]
  /\ member = [w \in Works |-> [c \in CellIds |-> [epoch |-> NoEpoch, state |-> "none"]]]
  /\ dispatch = [w \in Works |->
                   [state |-> "none", attempt |-> 0, token |-> NoToken, lease |-> FALSE]]
  /\ seq = [w \in Works |-> 0]
  /\ nextSeq = 0
  /\ deficit = [p \in Priorities |-> 0]
  /\ inflight = [q \in Procs |-> {}]
  /\ intents = {}
  /\ owed = {}
  /\ pass = 0

-----------------------------------------------------------------------------
(* Claiming a dispatch intent.                                             *)

\* Fault: the budget is compared one too late.
ClaimableOnceMore(q, w) ==
  /\ dispatch[w].state \in {"pending", "inflight"}
  /\ work[w] \in {"admitted", "dispatching"}
  /\ w \notin inflight[q]
  /\ ~(work[w] = "dispatching" /\ dispatch[w].lease)
  /\ dispatch[w].attempt <= MaxAttempts

\* The early returns of _claim, read before the attempt is counted.
Claimable(q, w) ==
  /\ dispatch[w].state \in {"pending", "inflight"}
  /\ work[w] \in {"admitted", "dispatching"}
  /\ w \notin inflight[q]
  /\ ~(work[w] = "dispatching" /\ dispatch[w].lease)
  /\ dispatch[w].attempt < MaxAttempts

\* The row a claim leaves behind: one more attempt, under a fresh token and lease.
Leased(attempt) ==
  [state |-> "inflight", attempt |-> attempt, token |-> attempt, lease |-> TRUE]

\* The row after the lease is given up.
Unleased(row, state) == [row EXCEPT !.state = state, !.token = NoToken, !.lease = FALSE]

\* Thread-side result of a claim: the intent, and the process-local exclusion.
Holds(q, w, attempt) ==
  /\ inflight' = [inflight EXCEPT ![q] = @ \cup {w}]
  /\ intents' = intents \cup {[proc |-> q, work |-> w, token |-> attempt]}

\* claim_dispatch (and _deliver): take exclusive, time-limited ownership.
ClaimDispatch(q, w) ==
  /\ pass = 0
  /\ Claimable(q, w)
  /\ LET attempt == dispatch[w].attempt + 1
     IN  /\ dispatch' = [dispatch EXCEPT ![w] = Leased(attempt)]
         /\ Holds(q, w, attempt)
  /\ work' = [work EXCEPT ![w] = "dispatching"]
  /\ UNCHANGED <<member, seq, nextSeq, deficit, owed, pass>>

-----------------------------------------------------------------------------
(* submit: reserve and claim in one transaction, or wait in the queue.     *)

Reserved(w) ==
  [c \in CellIds |-> IF c \in Cells(w) THEN [epoch |-> NoEpoch, state |-> "held"]
                                       ELSE [epoch |-> NoEpoch, state |-> "none"]]

NewRow(w) ==
  /\ pass = 0
  /\ work[w] = "absent"
  /\ ~Impossible(w)
  /\ nextSeq' = nextSeq + 1
  /\ seq' = [seq EXCEPT ![w] = nextSeq + 1]
  /\ member' = [member EXCEPT ![w] = Reserved(w)]
  /\ UNCHANGED <<deficit, owed, pass>>

SubmitAdmitted(q, w) ==
  /\ NewRow(w)
  /\ Fits(w)
  /\ work' = [work EXCEPT ![w] = "dispatching"]
  /\ dispatch' = [dispatch EXCEPT ![w] = Leased(1)]
  /\ Holds(q, w, 1)

SubmitQueued(w) ==
  /\ NewRow(w)
  /\ ~Fits(w)
  /\ Cardinality(Queued) < QueueSize
  /\ work' = [work EXCEPT ![w] = "queued"]
  /\ UNCHANGED <<dispatch, inflight, intents>>

-----------------------------------------------------------------------------
(* drain: weighted deficit round robin over the queued orders.             *)

\* cancel and complete call drain after their own transaction has committed.
BeginDrain(q, w) ==
  /\ pass = 0
  /\ <<q, w>> \in owed
  /\ owed' = owed \ {<<q, w>>}
  /\ pass' = GlobalActive
  /\ UNCHANGED <<work, member, dispatch, seq, nextSeq, deficit, inflight, intents>>

Available == {Order[w].priority : w \in Queued}

\* The refill of _next_fair_candidate, only when no waiting class has credit.
Refilled ==
  IF \E p \in Available : deficit[p] > 0
    THEN deficit
    ELSE [p \in Priorities |-> IF p \in Available THEN deficit[p] + Weight[p] ELSE deficit[p]]

\* _next_fair_candidate: most urgent class with credit, first in sequence.
IsFairCandidate(w) ==
  /\ w \in Queued
  /\ Refilled[Order[w].priority] > 0
  /\ \A v \in Queued :
       Refilled[Order[v].priority] > 0 =>
         \/ Order[w].priority < Order[v].priority
         \/ Order[w].priority = Order[v].priority /\ seq[w] <= seq[v]

\* Nothing is waiting: the loop breaks and the transaction commits.
DrainEmpty ==
  /\ pass > 0
  /\ Queued = {}
  /\ pass' = 0
  /\ UNCHANGED <<work, member, dispatch, seq, nextSeq, deficit, inflight, intents, owed>>

\* The candidate does not fit.  Alone it ends the pass; otherwise its sequence
\* number is moved behind every other one and the loop goes on.
DrainBlocked(w) ==
  /\ pass > 0
  /\ IsFairCandidate(w)
  /\ ~Fits(w)
  /\ deficit' = Refilled
  /\ IF Queued = {w}
       THEN /\ pass' = 0
            /\ UNCHANGED <<seq, nextSeq>>
       ELSE /\ pass' = pass - 1
            /\ nextSeq' = nextSeq + 1
            /\ seq' = [seq EXCEPT ![w] = nextSeq + 1]
  /\ UNCHANGED <<work, member, dispatch, inflight, intents, owed>>

\* The candidate fits: it holds its units and its outbox row is opened.
DrainAdmit(w) ==
  /\ pass > 0
  /\ IsFairCandidate(w)
  /\ Fits(w)
  /\ work' = [work EXCEPT ![w] = "admitted"]
  /\ dispatch' = [dispatch EXCEPT ![w] = Unleased(@, "pending")]
  /\ deficit' = [Refilled EXCEPT ![Order[w].priority] = @ - 1]
  /\ pass' = pass - 1
  /\ UNCHANGED <<member, seq, nextSeq, inflight, intents, owed>>

-----------------------------------------------------------------------------
(* Closing a reservation.                                                  *)

\* Every unit of the order that is still held ends with the order.
Closed(members, outcome) ==
  [c \in CellIds |-> IF members[c].state = "held"
                       THEN [members[c] EXCEPT !.state = outcome] ELSE members[c]]

\* cancel: close an undelivered order and release every unit it still holds.
Cancel(q, w, outcome) ==
  /\ pass = 0
  /\ work[w] \in UndeliveredStates
  /\ work' = [work EXCEPT ![w] = outcome]
  /\ member' = [member EXCEPT ![w] = Closed(@, outcome)]
  /\ dispatch' = [dispatch EXCEPT ![w] =
                    IF @.state \in {"none", "delivered"} THEN @ ELSE Unleased(@, "abandoned")]
  /\ inflight' = [inflight EXCEPT ![q] = @ \ {w}]
  /\ owed' = owed \cup {<<q, w>>}
  /\ UNCHANGED <<seq, nextSeq, deficit, intents, pass>>

\* Fault: the first terminal member closes the whole order.
CompleteAtFirst(q, w, c, epoch, outcome) ==
  /\ pass = 0
  /\ member[w][c].state = "held"
  /\ member[w][c].epoch = epoch
  /\ member' = [member EXCEPT ![w][c].state = outcome]
  /\ work' = [work EXCEPT ![w] = outcome]
  /\ owed' = owed \cup {<<q, w>>}
  /\ UNCHANGED <<dispatch, seq, nextSeq, deficit, inflight, intents, pass>>

\* complete: release one member's unit; the last one closes the order.
Complete(q, w, c, epoch, outcome) ==
  /\ pass = 0
  /\ member[w][c].state = "held"
  /\ member[w][c].epoch = epoch
  /\ member' = [member EXCEPT ![w][c].state = outcome]
  /\ IF \E d \in Cells(w) \ {c} : member[w][d].state = "held"
       THEN UNCHANGED <<work, owed>>
       ELSE /\ work' = [work EXCEPT ![w] =
                          IF @ \in HoldingStates
                            THEN Worst({outcome} \cup {member[w][d].state : d \in Cells(w) \ {c}})
                            ELSE @]
            /\ owed' = owed \cup {<<q, w>>}
  /\ UNCHANGED <<dispatch, seq, nextSeq, deficit, inflight, intents, pass>>

-----------------------------------------------------------------------------
(* The operations of a delivery attempt.                                   *)

\* _assert_lease: this attempt still owns the intent.
LeaseHeld(i) ==
  /\ dispatch[i.work].state = "inflight"
  /\ dispatch[i.work].token = i.token

\* The thread returns: its intent is gone, and so is the exclusion it kept.
Returns(i) ==
  /\ intents' = intents \ {i}
  /\ inflight' = [inflight EXCEPT ![i.proc] = @ \ {i.work}]

\* record_member_epoch: which Cell epoch the order owns.
RecordMemberEpoch(i, c, epoch) ==
  /\ pass = 0
  /\ LeaseHeld(i)
  /\ c \in Cells(i.work)
  /\ member' = [member EXCEPT ![i.work][c] = [@ EXCEPT !.epoch = epoch]]
  /\ UNCHANGED <<work, dispatch, seq, nextSeq, deficit, inflight, intents, owed, pass>>

\* Fault: the run is recorded although a member never bound its epoch.
RecordDispatchUnbound(i) ==
  /\ pass = 0
  /\ LeaseHeld(i)
  /\ dispatch' = [dispatch EXCEPT ![i.work] = Unleased(@, "delivered")]
  /\ work' = [work EXCEPT ![i.work] = IF @ = "dispatching" THEN "bound" ELSE @]
  /\ Returns(i)
  /\ UNCHANGED <<member, seq, nextSeq, deficit, owed, pass>>

\* record_dispatch: the run exists and every member is bound to it.
RecordDispatch(i) ==
  /\ pass = 0
  /\ LeaseHeld(i)
  /\ \A c \in Cells(i.work) : member[i.work][c].epoch # NoEpoch
  /\ dispatch' = [dispatch EXCEPT ![i.work] = Unleased(@, "delivered")]
  /\ work' = [work EXCEPT ![i.work] = IF @ = "dispatching" THEN "bound" ELSE @]
  /\ Returns(i)
  /\ UNCHANGED <<member, seq, nextSeq, deficit, owed, pass>>

\* Fault: the row is put back whatever became of it meanwhile.
BackRegardless(w) == work' = [work EXCEPT ![w] = "admitted"]

\* The work row goes back to admitted unless it has been closed meanwhile.
BackToAdmitted(w) ==
  work' = [work EXCEPT ![w] = IF @ = "dispatching" THEN "admitted" ELSE @]

\* release_dispatch: hand the intent back; the reservation is kept.
ReleaseDispatch(i) ==
  /\ pass = 0
  /\ LeaseHeld(i)
  /\ dispatch' = [dispatch EXCEPT ![i.work] = Unleased(@, "pending")]
  /\ BackToAdmitted(i.work)
  /\ Returns(i)
  /\ UNCHANGED <<member, seq, nextSeq, deficit, owed, pass>>

\* mark_undeliverable: the budget is spent and the remote outcome unproven.
\* Unlike its siblings it does not assert the lease.
MarkUndeliverable(i) ==
  /\ pass = 0
  /\ dispatch' = [dispatch EXCEPT ![i.work] =
                    IF @.state = "delivered" THEN @ ELSE Unleased(@, "undeliverable")]
  /\ BackToAdmitted(i.work)
  /\ Returns(i)
  /\ UNCHANGED <<member, seq, nextSeq, deficit, owed, pass>>

\* note_outcome: an attempt that lost its lease only leaves a note and returns.
NoteOutcome(i) ==
  /\ pass = 0
  /\ Returns(i)
  /\ UNCHANGED <<work, member, dispatch, seq, nextSeq, deficit, owed, pass>>

\* An exception escapes the delivery: no operation of the store is called, so
\* the process keeps the order in _inflight.
AttemptAborts(i) ==
  /\ intents' = intents \ {i}
  /\ UNCHANGED <<work, member, dispatch, seq, nextSeq, deficit, inflight, owed, pass>>

-----------------------------------------------------------------------------
(* Time and failure.                                                       *)

LeaseExpires(w) ==
  /\ dispatch[w].lease
  /\ dispatch' = [dispatch EXCEPT ![w].lease = FALSE]
  /\ UNCHANGED <<work, member, seq, nextSeq, deficit, inflight, intents, owed, pass>>

\* A process dies (and may be started again): its threads, its _inflight table
\* and the drains it owed are gone.  A drain transaction it had open is rolled
\* back, which is the same as dying before BeginDrain, so pass = 0 here.
Crash(q) ==
  /\ pass = 0
  /\ inflight' = [inflight EXCEPT ![q] = {}]
  /\ intents' = {i \in intents : i.proc # q}
  /\ owed' = {o \in owed : o[1] # q}
  /\ UNCHANGED <<work, member, dispatch, seq, nextSeq, deficit, pass>>

-----------------------------------------------------------------------------
(* Specification: the store under any interleaving of callers.  Which of   *)
(* its operations a delivery attempt calls, and when, is the business of   *)
(* backend/service.py (module Backend); here it may be any of them.        *)

Attempt(i) ==
  \/ \E c \in CellIds, e \in Epochs : RecordMemberEpoch(i, c, e)
  \/ RecordDispatch(i)
  \/ ReleaseDispatch(i)
  \/ MarkUndeliverable(i)
  \/ NoteOutcome(i)
  \/ AttemptAborts(i)

Drain ==
  \/ \E q \in Procs, w \in Works : BeginDrain(q, w)
  \/ DrainEmpty
  \/ \E w \in Works : DrainBlocked(w) \/ DrainAdmit(w)

\* The callers of cancel withdraw ("cancelled") or compensate ("failed").
Close ==
  \E q \in Procs, w \in Works, outcome \in Outcomes :
    \/ outcome \in {"cancelled", "failed"} /\ Cancel(q, w, outcome)
    \/ \E c \in CellIds, e \in Epochs : Complete(q, w, c, e, outcome)

Next ==
  \/ \E q \in Procs, w \in Works : SubmitAdmitted(q, w) \/ ClaimDispatch(q, w)
  \/ \E w \in Works : SubmitQueued(w) \/ LeaseExpires(w)
  \/ Drain
  \/ Close
  \/ \E i \in intents : Attempt(i)
  \/ \E q \in Procs : Crash(q)

Spec == Init /\ [][Next]_admissionVars

-----------------------------------------------------------------------------
(* Properties.                                                             *)

TypeOK ==
  /\ work \in [Works -> WorkStates]
  /\ member \in [Works -> [CellIds -> Member]]
  /\ dispatch \in [Works -> DispatchRow]
  /\ seq \in [Works -> Nat]
  /\ nextSeq \in Nat
  /\ deficit \in [Priorities -> Nat]
  /\ inflight \in [Procs -> SUBSET Works]
  /\ intents \subseteq Intent
  /\ owed \subseteq Procs \X Works
  /\ pass \in Nat

\* No interleaving of submissions, drains, closings and crashes lets the units
\* held by open orders exceed the global, repository, actor or blueprint limit
\* that _capacity_block checks: every reservation is counted per member Cell.
CapacityRespected ==
  /\ Cardinality(HeldMembers) <= GlobalActive
  /\ \A c \in CellIds : Cardinality(OfRepo(HeldMembers, Repo[c])) <= PerRepoActive
  /\ \A w \in Works :
       /\ Cardinality(OfActor(HeldMembers, Order[w].actor)) <= PerActorActive
       /\ Cardinality(OfBlueprint(HeldMembers, Order[w].blueprint)) <= PerBlueprintActive

\* An order is open exactly while at least one of its members holds a unit: the
\* first terminal sibling does not close it (the strand the module docstring
\* describes), and no closed order keeps a unit that nothing will ask back.
OpenWhileMembersHeld ==
  \A w \in Works :
    work[w] \in UndeliveredStates \cup {"bound"} <=> \E c \in CellIds : member[w][c].state = "held"

\* The admission row and the outbox row never disagree about who has to act: a
\* queued order has no intent, an admitted one waits or is marked undeliverable,
\* a dispatching one is leased, a bound one was delivered with every epoch known.
OutboxMatchesState ==
  \A w \in Works :
    /\ work[w] \in {"absent", "queued"} => dispatch[w].state = "none"
    /\ work[w] = "admitted" => dispatch[w].state \in {"pending", "undeliverable"}
    /\ work[w] = "dispatching" =>
         dispatch[w].state = "inflight" /\ dispatch[w].token = dispatch[w].attempt
    /\ work[w] = "bound" =>
         /\ dispatch[w].state = "delivered"
         /\ \A c \in Cells(w) : member[w][c].epoch # NoEpoch

\* While an order is open, one process never delivers it from two threads at
\* once, whatever its lease clock says: _inflight, which several operations
\* clear, still excludes the second thread.
OneDeliveryPerProcess ==
  \A i, j \in intents :
    (i.proc = j.proc /\ i.work = j.work /\ work[i.work] \notin TerminalStates) => i = j

\* Across processes at most one attempt passes _assert_lease, and no attempt
\* number is ever issued beyond the budget or to two threads.
OneLeaseHolder ==
  /\ \A i, j \in intents : (i.work = j.work /\ i.token = j.token) => i = j
  /\ \A w \in Works : dispatch[w].attempt <= MaxAttempts

\* A multi-member order is never summarised better than its members ended.
SuccessMeansAllSucceeded ==
  \A w \in Works : work[w] = "success" => \A c \in Cells(w) : member[w][c].state = "success"

\* However the ends of its members interleave, an order tells them: it is open while
\* one of them holds a unit, closed with the last, and a success only if all were.
OrderTellsMembers == OpenWhileMembersHeld /\ SuccessMeansAllSucceeded

\* A closed order is never revived: a delivery that returns after the order was
\* cancelled or completed changes neither its outcome nor its members' outcomes.
ClosedIsFinal ==
  [][\A w \in Works : work[w] \in TerminalStates =>
       work'[w] = work[w] /\ \A c \in CellIds : member'[w][c].state = member[w][c].state]_admissionVars

=============================================================================
