---------------------------- MODULE WebhookInbox ----------------------------
(***************************************************************************)
(* The durable webhook inbox of swfactory/dispatch.py: the receiver saves  *)
(* a delivery before it answers GitHub, and a pool of dispatch workers     *)
(* hands each saved delivery to the factory.                               *)
(*                                                                         *)
(* Every method of DeliveryInbox is one SQLite write transaction and one   *)
(* action here.  A worker's HTTP call lies between two of them, so the     *)
(* lease of a claim may run out, and the delivery be claimed again, while  *)
(* the first worker is still calling.                                      *)
(*                                                                         *)
(* The factory is external.  In legacy mode it is Airflow, called with a   *)
(* run id derived from the delivery; in managed mode it is the backend,    *)
(* whose work id contains the epoch the Cell would next be activated at    *)
(* (service._work_id), and not the delivery.                               *)
(*                                                                         *)
(* Simplifications: claim takes any due row, where the code takes the one  *)
(* with the earliest next_attempt_at; the answers to a redelivery (the     *)
(* saved receipt), to a reused id (409) and to a full inbox (503) change   *)
(* no state, so they are no steps.                                         *)
(***************************************************************************)
EXTENDS Naturals, FiniteSets

CONSTANTS
  Deliveries,     \* X-GitHub-Delivery identities
  Bodies,         \* what a delivery may say: event, body and repository
  Workers,        \* dispatch threads, of one receiver process or of several
  MaxPending,     \* DeliveryInbox.max_pending
  MaxAttempts,    \* Dispatcher.max_attempts
  MaxTotal,       \* bound on total_attempts, which limits how often an operator retries
  Managed,        \* TRUE: work orders to the backend; FALSE: runs posted to Airflow
  MaxEpoch,       \* bound on epoch: a Cell is activated, finished and activated again
  NoDelivery, NoBody

ASSUME InboxAssumption ==
  /\ MaxPending \in Nat \ {0} /\ MaxAttempts \in Nat \ {0} /\ MaxTotal \in Nat /\ MaxEpoch \in Nat
  /\ MaxAttempts <= MaxTotal
  /\ IsFiniteSet(Deliveries)
  /\ Managed \in BOOLEAN
  /\ NoDelivery \notin Deliveries /\ NoBody \notin Bodies

VARIABLES
  row,       \* row[d]: the row of delivery d
  expired,   \* claims <<d, token>> whose lease_until has passed
  worker,    \* worker[k]: local variables of dispatch_one
  runs,      \* what the factory accepted
  epoch      \* epoch[d]: 1 + the pieces of work of d that finished, the Cell epoch of a managed order

inboxVars == <<row, expired, worker, runs, epoch>>

RowStates   == {"absent", "pending", "dispatching", "dispatched", "dead"}
Outstanding == {d \in Deliveries : row[d].state \in {"pending", "dispatching", "dead"}}

\* lease_token is a fresh uuid per claim; the lifetime attempt number is as fresh.
Row == [state : RowStates, body : Bodies \cup {NoBody}, due : BOOLEAN,
        attempts : 0 .. MaxAttempts, total : 0 .. MaxTotal, token : 0 .. MaxTotal]

\* The Delivery that claim returned, and what the call made of it.
Worker == [at : {"idle", "call", "complete", "fail"}, delivery : Deliveries \cup {NoDelivery},
           body : Bodies \cup {NoBody}, token : 0 .. MaxTotal, attempts : 0 .. MaxAttempts,
           retryable : BOOLEAN]

IdleWorker == [at |-> "idle", delivery |-> NoDelivery, body |-> NoBody, token |-> 0,
               attempts |-> 0, retryable |-> FALSE]

NoRow == [state |-> "absent", body |-> NoBody, due |-> FALSE, attempts |-> 0, total |-> 0, token |-> 0]
SavedRow(b) ==
  [state |-> "pending", body |-> b, due |-> TRUE, attempts |-> 0, total |-> 0, token |-> 0]

\* A row whose lease_token and lease_until are cleared.
Freed(r, state, due) ==
  [state |-> state, body |-> r.body, due |-> due, attempts |-> r.attempts, total |-> r.total, token |-> 0]

InboxInit ==
  /\ row = [d \in Deliveries |-> NoRow]
  /\ expired = {}
  /\ worker = [k \in Workers |-> IdleWorker]
  /\ runs = {}
  /\ epoch = [d \in Deliveries |-> 1]

-----------------------------------------------------------------------------
(* DeliveryInbox.                                                          *)

\* enqueue: a new identity is saved while the inbox has room for it.
Enqueue(d, b) ==
  /\ row[d].state = "absent"
  /\ Cardinality(Outstanding) < MaxPending
  /\ row' = [row EXCEPT ![d] = SavedRow(b)]
  /\ UNCHANGED <<expired, worker, runs, epoch>>

\* Fault: a claimed row is taken over without looking at the lease.
LapsedAtOnce(d) == row[d].state = "dispatching"

\* Claimed, and lease_until has passed.
Lapsed(d) == row[d].state = "dispatching" /\ <<d, row[d].token>> \in expired

\* claim's first statement: rows whose attempts are spent, and nobody's any more.
Exhausted ==
  {d \in Deliveries : row[d].attempts >= MaxAttempts /\ (row[d].state = "pending" \/ Lapsed(d))}

Swept == [d \in Deliveries |-> IF d \in Exhausted
                                 THEN Freed(row[d], "dead", row[d].due) ELSE row[d]]

\* Fault: a lease that ran out is not reclaimed.
CandidatesPendingOnly == {d \in Deliveries \ Exhausted : row[d].state = "pending" /\ row[d].due}

\* claim's SELECT, after that statement.
Candidates ==
  {d \in Deliveries \ Exhausted : (row[d].state = "pending" /\ row[d].due) \/ Lapsed(d)}

\* Fault: taking over a lease that ran out is not counted as an attempt.
ClaimUncounted(k, d) ==
  LET total == IF Lapsed(d) THEN row[d].total ELSE row[d].total + 1
  IN  /\ worker[k].at = "idle"
      /\ d \in Candidates
      /\ row' = [Swept EXCEPT ![d] =
                   [state |-> "dispatching", body |-> row[d].body, due |-> row[d].due,
                    attempts |-> row[d].attempts + 1, total |-> total, token |-> total]]
      /\ worker' = [worker EXCEPT ![k] =
                      [at |-> "call", delivery |-> d, body |-> row[d].body, token |-> total,
                       attempts |-> row[d].attempts + 1, retryable |-> FALSE]]
      /\ UNCHANGED <<expired, runs, epoch>>

Claim(k, d) ==
  LET total == row[d].total + 1
  IN  /\ worker[k].at = "idle"
      /\ d \in Candidates
      /\ row' = [Swept EXCEPT ![d] =
                   [state |-> "dispatching", body |-> row[d].body, due |-> row[d].due,
                    attempts |-> row[d].attempts + 1, total |-> total, token |-> total]]
      /\ worker' = [worker EXCEPT ![k] =
                      [at |-> "call", delivery |-> d, body |-> row[d].body, token |-> total,
                       attempts |-> row[d].attempts + 1, retryable |-> FALSE]]
      /\ UNCHANGED <<expired, runs, epoch>>

\* Nothing is due; the first statement has its effect all the same.
ClaimNothing(k) ==
  /\ worker[k].at = "idle"
  /\ Candidates = {} /\ Exhausted # {}
  /\ row' = Swept
  /\ UNCHANGED <<expired, worker, runs, epoch>>

\* complete and fail are fenced: state='dispatching' AND lease_token=?.
Fenced(k) ==
  LET d == worker[k].delivery
  IN  row[d].state = "dispatching" /\ row[d].token = worker[k].token

\* Fault: a call that failed is recorded as a hand-over.
CompleteEither(k) ==
  LET d == worker[k].delivery
  IN  /\ worker[k].at \in {"complete", "fail"}
      /\ row' = IF Fenced(k) THEN [row EXCEPT ![d] = Freed(@, "dispatched", FALSE)] ELSE row
      /\ worker' = [worker EXCEPT ![k] = IdleWorker]
      /\ UNCHANGED <<expired, runs, epoch>>

Complete(k) ==
  LET d == worker[k].delivery
  IN  /\ worker[k].at = "complete"
      /\ row' = IF Fenced(k) THEN [row EXCEPT ![d] = Freed(@, "dispatched", FALSE)] ELSE row
      /\ worker' = [worker EXCEPT ![k] = IdleWorker]
      /\ UNCHANGED <<expired, runs, epoch>>

\* fail: back to pending, not due before the backoff ends, or dead.
Fail(k) ==
  LET d == worker[k].delivery
      again == worker[k].retryable /\ worker[k].attempts < MaxAttempts
  IN  /\ worker[k].at = "fail"
      /\ row' = IF Fenced(k)
                  THEN [row EXCEPT ![d] = Freed(@, IF again THEN "pending" ELSE "dead", FALSE)]
                  ELSE row
      /\ worker' = [worker EXCEPT ![k] = IdleWorker]
      /\ UNCHANGED <<expired, runs, epoch>>

\* retry: an operator reopens a dead delivery.  (The bound: it could still be
\* claimed MaxAttempts times.)
Retry(d) ==
  /\ row[d].state = "dead"
  /\ row[d].total + MaxAttempts <= MaxTotal
  /\ row' = [row EXCEPT ![d] = Freed([@ EXCEPT !.attempts = 0], "pending", TRUE)]
  /\ UNCHANGED <<expired, worker, runs, epoch>>

-----------------------------------------------------------------------------
(* Dispatcher.dispatch_one, the call between claim and its receipt.        *)

\* The identity the work is submitted under.
RunId(k) == <<worker[k].delivery, IF Managed THEN epoch[worker[k].delivery] ELSE 0>>

Taken(k) == {r \in runs : r.id = RunId(k)}

\* The request is applied: a run or an order of this identity exists from here on.
Posted(k) ==
  IF Taken(k) = {} THEN runs \cup {[id |-> RunId(k), body |-> worker[k].body]} ELSE runs

\* Success: the run was created, or one of this identity and configuration is there.
Accepted(k) ==
  /\ worker[k].at = "call"
  /\ \A r \in Taken(k) : r.body = worker[k].body
  /\ runs' = Posted(k)
  /\ worker' = [worker EXCEPT ![k] = [@ EXCEPT !.at = "complete"]]
  /\ UNCHANGED <<row, expired, epoch>>

\* A transport error, a timeout, 408, 429, 5xx or an unreadable answer: the
\* request may or may not have been applied.
Ambiguous(k) ==
  /\ worker[k].at = "call"
  /\ runs' \in {runs, Posted(k)}
  /\ worker' = [worker EXCEPT ![k] = [@ EXCEPT !.at = "fail", !.retryable = TRUE]]
  /\ UNCHANGED <<row, expired, epoch>>

\* Any other refusal, or an identity that is taken by something else.
Refused(k) ==
  /\ worker[k].at = "call"
  /\ worker' = [worker EXCEPT ![k] = [@ EXCEPT !.at = "fail", !.retryable = FALSE]]
  /\ UNCHANGED <<row, expired, runs, epoch>>

\* The process dies, or the database cannot be written: the claim is abandoned.
Abandon(k) ==
  /\ worker[k].at # "idle"
  /\ worker' = [worker EXCEPT ![k] = IdleWorker]
  /\ UNCHANGED <<row, expired, runs, epoch>>

-----------------------------------------------------------------------------
(* The clock, and the factory.                                             *)

LeaseRunsOut(d) ==
  /\ row[d].state = "dispatching" /\ <<d, row[d].token>> \notin expired
  /\ expired' = expired \cup {<<d, row[d].token>>}
  /\ UNCHANGED <<row, worker, runs, epoch>>

BackoffEnds(d) ==
  /\ row[d].state = "pending" /\ ~row[d].due
  /\ row' = [row EXCEPT ![d] = [@ EXCEPT !.due = TRUE]]
  /\ UNCHANGED <<expired, worker, runs, epoch>>

\* The accepted work finishes.  A finished run keeps its id in Airflow; the Cell of
\* a finished managed order gives the same request the next epoch.
WorkEnds(d) ==
  /\ epoch[d] < MaxEpoch
  /\ \E r \in runs : r.id = <<d, IF Managed THEN epoch[d] ELSE 0>>
  /\ epoch' = [epoch EXCEPT ![d] = @ + 1]
  /\ UNCHANGED <<row, expired, worker, runs>>

-----------------------------------------------------------------------------

Dispatch(k) ==
  \/ \E d \in Deliveries : Claim(k, d)
  \/ ClaimNothing(k)
  \/ Accepted(k) \/ Ambiguous(k) \/ Refused(k)
  \/ Complete(k) \/ Fail(k)

InboxNext ==
  \/ \E d \in Deliveries, b \in Bodies : Enqueue(d, b)
  \/ \E k \in Workers : Dispatch(k) \/ Abandon(k)
  \/ \E d \in Deliveries : Retry(d) \/ LeaseRunsOut(d) \/ BackoffEnds(d) \/ WorkEnds(d)

InboxSpec == InboxInit /\ [][InboxNext]_inboxVars

\* Workers loop, an HTTP call ends in some way, leases and backoffs run out.
\* Nothing is assumed of the answers, of crashes or of the operator.
FairInboxSpec ==
  /\ InboxSpec
  /\ \A k \in Workers : WF_inboxVars(Dispatch(k))
  /\ \A d \in Deliveries : WF_inboxVars(LeaseRunsOut(d)) /\ WF_inboxVars(BackoffEnds(d))

-----------------------------------------------------------------------------
(* Properties.                                                             *)

\* Among the types: no row is claimed more often than max_attempts between two
\* explicit retries.
InboxTypeOK ==
  /\ row \in [Deliveries -> Row]
  /\ expired \subseteq Deliveries \X (0 .. MaxTotal)
  /\ worker \in [Workers -> Worker]
  /\ runs \subseteq [id : Deliveries \X Nat, body : Bodies]
  /\ epoch \in [Deliveries -> Nat]

\* "dispatched: Airflow returned matching run evidence": a delivery that is
\* marked dispatched was accepted, with the content that was saved.
DispatchedWasAccepted ==
  \A d \in Deliveries : row[d].state = "dispatched" =>
    \E r \in runs : r.id[1] = d /\ r.body = row[d].body

\* What makes the fencing work.  A row can be claimed as often as its budget says;
\* claims are numbered, and so are the leases that ran out; a busy worker has a
\* claim of its own on a saved row, has the row while its lease runs, and goes on
\* to complete only what was accepted.
BudgetInv ==
  \A d \in Deliveries : row[d].state \in {"absent", "pending", "dispatching"} =>
    row[d].total + MaxAttempts <= MaxTotal + row[d].attempts
NumberedInv ==
  /\ \A d \in Deliveries : row[d].token <= row[d].total
  /\ \A d \in Deliveries, n \in 0 .. MaxTotal : <<d, n>> \in expired => n <= row[d].total
ClaimInv ==
  \A k \in Workers : worker[k].at # "idle" =>
    LET d == worker[k].delivery
    IN  /\ d \in Deliveries
        /\ worker[k].token \in 1 .. row[d].total
        /\ row[d].state # "absent" /\ worker[k].body = row[d].body
        /\ <<d, worker[k].token>> \notin expired => Fenced(k)
        /\ worker[k].at = "complete" => \E r \in runs : r.id[1] = d /\ r.body = worker[k].body
OwnClaimInv ==
  \A k, j \in Workers :
    (/\ worker[k].at # "idle" /\ worker[j].at # "idle"
     /\ worker[k].delivery = worker[j].delivery /\ worker[k].token = worker[j].token) => k = j
SavedInv == \A d \in Deliveries : row[d].state # "absent" => row[d].body \in Bodies
FreshInv == \A d \in Deliveries : row[d].state = "absent" => row[d].total = 0

\* The inductive invariant of the proofs: its parts relate rows, leases, workers
\* and accepted work.
InboxInv ==
  InboxTypeOK /\ BudgetInv /\ NumberedInv /\ SavedInv /\ FreshInv /\ ClaimInv /\ OwnClaimInv
  /\ DispatchedWasAccepted

\* "SQLite leases prevent double claims across threads and processes": while the
\* lease of a claim runs, no other worker has a running lease on the delivery.
OneRunningLease ==
  \A k, j \in Workers :
    (/\ worker[k].at # "idle" /\ <<worker[k].delivery, worker[k].token>> \notin expired
     /\ worker[j].at # "idle" /\ <<worker[j].delivery, worker[j].token>> \notin expired
     /\ worker[k].delivery = worker[j].delivery) => k = j

\* A managed order is named by its Cell's epoch, so an attempt that comes after the work of an earlier one
\* has finished makes a second order (the doc promises one).  The attempts on record bound them: lost
\* answers, lapsed leases, crashes and operators' retries never make more orders than claims.
OrdersWithinAttempts ==
  \A d \in Deliveries : Cardinality({r \in runs : r.id[1] = d}) <= row[d].total

\* InboxFull: what was acknowledged and is not handed over never exceeds max_pending.
OutstandingBounded == Cardinality(Outstanding) <= MaxPending

\* "Receipts are retained": a dispatched receipt never changes again, whatever a
\* worker that lost its claim still reports.
DispatchedIsFinal ==
  [][\A d \in Deliveries : row[d].state = "dispatched" => row'[d] = row[d]]_inboxVars

\* "A crash consumes an attempt, and an expired final attempt becomes dead instead
\* of looping forever": every saved delivery is handed over or shown as dead.
DeliveryEnds ==
  \A d \in Deliveries :
    row[d].state \in {"pending", "dispatching"} ~> row[d].state \in {"dispatched", "dead"}

=============================================================================
