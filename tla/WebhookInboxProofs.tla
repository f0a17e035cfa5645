------------------------- MODULE WebhookInboxProofs -------------------------
(***************************************************************************)
(* Proofs about the webhook inbox, for any deliveries, contents and number *)
(* of workers, and any limits.                                             *)
(***************************************************************************)
EXTENDS WebhookInbox, FiniteSetTheorems, TLAPS

\* Each disjunct of InboxNext is one of these operations.
LEMMA InboxNextCases ==
  ASSUME InboxNext
  PROVE  \/ \E d \in Deliveries, b \in Bodies : Enqueue(d, b)
         \/ \E k \in Workers, d \in Deliveries : Claim(k, d)
         \/ \E k \in Workers : ClaimNothing(k)
         \/ \E k \in Workers : Accepted(k)
         \/ \E k \in Workers : Ambiguous(k)
         \/ \E k \in Workers : Refused(k)
         \/ \E k \in Workers : Complete(k)
         \/ \E k \in Workers : Fail(k)
         \/ \E k \in Workers : Abandon(k)
         \/ \E d \in Deliveries : Retry(d)
         \/ \E d \in Deliveries : LeaseRunsOut(d)
         \/ \E d \in Deliveries : BackoffEnds(d)
         \/ \E d \in Deliveries : WorkEnds(d)
  BY Zenon DEF InboxNext, Dispatch

\* The empty inbox satisfies the invariant.
LEMMA InboxInvInit == InboxInit => InboxInv
  BY InboxAssumption
  DEF InboxInit, InboxInv, InboxTypeOK, BudgetInv, NumberedInv, SavedInv, FreshInv, ClaimInv, OwnClaimInv,
      DispatchedWasAccepted, NoRow, IdleWorker, Row, Worker, RowStates

\* Clearing the lease keeps the type of a row and what identifies the delivery.
LEMMA FreedRow ==
  ASSUME NEW r \in Row, NEW s \in RowStates, NEW due \in BOOLEAN
  PROVE  /\ Freed(r, s, due) \in Row
         /\ Freed(r, s, due).state = s /\ Freed(r, s, due).token = 0
         /\ Freed(r, s, due).total = r.total /\ Freed(r, s, due).attempts = r.attempts
         /\ Freed(r, s, due).body = r.body /\ Freed(r, s, due).due = due
  <1>1. 0 \in 0 .. MaxTotal
    BY InboxAssumption
  <1> QED
    BY <1>1 DEF Row, Freed

\* claim's first statement touches only rows whose lease ran out or that nobody has.
LEMMA SweptRows ==
  ASSUME InboxInv
  PROVE  /\ Swept \in [Deliveries -> Row]
         /\ \A e \in Deliveries :
              /\ Swept[e].total = row[e].total /\ Swept[e].attempts = row[e].attempts
              /\ Swept[e].body = row[e].body
              /\ Swept[e].token \in {0, row[e].token}
              /\ Swept[e].state \in {"dead", row[e].state}
              /\ row[e].state \in {"absent", "dead", "dispatched"} => Swept[e].state = row[e].state
              /\ row[e].state # "absent" => Swept[e].state # "absent"
              /\ (row[e].state = "dispatching" /\ ~Lapsed(e)) => Swept[e] = row[e]
              /\ e \notin Exhausted => Swept[e] = row[e]
  <1>1. ASSUME NEW e \in Deliveries
        PROVE  /\ row[e] \in Row
               /\ Swept[e] = IF e \in Exhausted THEN Freed(row[e], "dead", row[e].due) ELSE row[e]
    BY DEF InboxInv, InboxTypeOK, Swept
  <1>2. ASSUME NEW e \in Deliveries PROVE row[e].due \in BOOLEAN /\ "dead" \in RowStates
    BY <1>1 DEF Row, RowStates
  <1>3. ASSUME NEW e \in Deliveries, e \in Exhausted
        PROVE  (row[e].state = "pending" \/ Lapsed(e)) /\ row[e].state \in {"pending", "dispatching"}
    BY <1>3 DEF Exhausted, Lapsed
  <1>4. Swept \in [Deliveries -> Row]
    BY <1>1, <1>2, FreedRow DEF Swept
  <1> QED
    BY <1>1, <1>2, <1>3, <1>4, FreedRow

\* enqueue saves a delivery nobody works on.
LEMMA EnqueueInv ==
  ASSUME InboxInv, NEW d \in Deliveries, NEW b \in Bodies, Enqueue(d, b) PROVE InboxInv'
  <1> USE DEF InboxInv
  <1> DEFINE new == SavedRow(b)
  <1>1. /\ row' = [row EXCEPT ![d] = new] /\ row[d].state = "absent"
        /\ UNCHANGED <<expired, worker, runs, epoch>>
    BY DEF Enqueue
  <1>2. /\ new.state = "pending" /\ new.body = b /\ new.attempts = 0
        /\ new.total = 0 /\ new.token = 0
    BY DEF SavedRow
  <1>3. new \in Row
    BY InboxAssumption DEF Row, RowStates, SavedRow
  <1> HIDE DEF new
  <1>4. /\ row'[d] = new
        /\ \A e \in Deliveries : e # d => row'[e] = row[e]
    BY <1>1 DEF InboxTypeOK
  <1>5. InboxTypeOK'
    BY <1>1, <1>3 DEF InboxTypeOK
  <1>6. row[d].total = 0
    BY <1>1 DEF FreshInv
  <1>7. BudgetInv'
    BY <1>2, <1>4, InboxAssumption DEF BudgetInv
  <1>8. NumberedInv'
    BY <1>1, <1>2, <1>4, <1>6 DEF NumberedInv
  <1>9. SavedInv'
    BY <1>2, <1>4 DEF SavedInv
  <1>10. FreshInv'
    BY <1>2, <1>4 DEF FreshInv
  <1>11. ClaimInv'
    BY <1>1, <1>4 DEF ClaimInv, Fenced
  <1>12. OwnClaimInv'
    BY <1>1 DEF OwnClaimInv
  <1>13. DispatchedWasAccepted'
    BY <1>1, <1>2, <1>4 DEF DispatchedWasAccepted
  <1> QED
    BY <1>5, <1>7, <1>8, <1>9, <1>10, <1>11, <1>12, <1>13


\* claim: nobody has a running lease on a row that can be claimed, and the number
\* of the new claim is new.
LEMMA ClaimKeeps ==
  ASSUME InboxInv, NEW k \in Workers, NEW d \in Deliveries, Claim(k, d) PROVE InboxInv'
  <1> USE DEF InboxInv
  <1> DEFINE total == row[d].total + 1
             new == [state |-> "dispatching", body |-> row[d].body, due |-> row[d].due,
                     attempts |-> row[d].attempts + 1, total |-> total, token |-> total]
             wk == [at |-> "call", delivery |-> d, body |-> row[d].body, token |-> total,
                    attempts |-> row[d].attempts + 1, retryable |-> FALSE]
  <1>1. /\ d \notin Exhausted
        /\ row[d].state = "pending" \/ Lapsed(d)
        /\ worker[k].at = "idle"
        /\ worker' = [worker EXCEPT ![k] = wk]
        /\ UNCHANGED <<expired, runs, epoch>>
    BY DEF Claim, Candidates
  <1>2. Swept[d] = row[d] /\ Swept \in [Deliveries -> Row]
    BY <1>1, SweptRows
  <1>3. row' = [Swept EXCEPT ![d] = new]
    BY DEF Claim
  <1>4. /\ row[d] \in Row /\ row[d].state \in {"pending", "dispatching"}
        /\ row[d].attempts \in Nat /\ row[d].total \in Nat
    BY <1>1, InboxAssumption DEF InboxTypeOK, Row, Lapsed
  <1>5. row[d].attempts < MaxAttempts
    BY <1>1, <1>4, InboxAssumption DEF Exhausted
  <1>6. total \in 1 .. MaxTotal /\ row[d].attempts + 1 \in 0 .. MaxAttempts
    BY <1>4, <1>5, InboxAssumption DEF BudgetInv
  <1>7. new \in Row
    BY <1>4, <1>6 DEF Row, RowStates
  <1>8. /\ new.state = "dispatching" /\ new.total = total /\ new.token = total
        /\ new.attempts = row[d].attempts + 1 /\ new.body = row[d].body
    OBVIOUS
  <1>9. wk \in Worker
    BY <1>4, <1>6 DEF Worker, Row
  <1>10. /\ wk.at = "call" /\ wk.delivery = d /\ wk.body = row[d].body /\ wk.token = total
    OBVIOUS
  <1> HIDE DEF new, wk, total
  <1>11. /\ row'[d] = new
         /\ \A e \in Deliveries : e # d => row'[e] = Swept[e]
    BY <1>2, <1>3
  <1>12. /\ worker'[k] = wk
         /\ \A j \in Workers : j # k => worker'[j] = worker[j]
    BY <1>1 DEF InboxTypeOK
  <1>13. total = row[d].total + 1
    BY DEF total
  <1>14. InboxTypeOK'
    BY <1>1, <1>2, <1>3, <1>7, <1>9 DEF InboxTypeOK
  <1>15. BudgetInv'
    <2>1. new.total + MaxAttempts <= MaxTotal + new.attempts
      BY <1>4, <1>8, <1>13, InboxAssumption DEF BudgetInv
    <2>2. ASSUME NEW e \in Deliveries, e # d, row'[e].state \in {"absent", "pending", "dispatching"}
          PROVE  row'[e].total + MaxAttempts <= MaxTotal + row'[e].attempts
      BY <1>11, <2>2, SweptRows DEF BudgetInv
    <2> QED
      BY <1>11, <2>1, <2>2 DEF BudgetInv
  <1>16. \A e \in Deliveries : row[e].total <= row'[e].total
    BY <1>4, <1>8, <1>11, <1>13, SweptRows DEF InboxTypeOK, Row
  <1>17. NumberedInv'
    <2>1. ASSUME NEW e \in Deliveries PROVE row'[e].token <= row'[e].total
      <3>1. CASE e = d
        BY <1>4, <1>8, <1>11, <1>13, <3>1
      <3>2. CASE e # d
        BY <1>11, <3>2, SweptRows DEF NumberedInv, InboxTypeOK, Row
      <3> QED
        BY <3>1, <3>2
    <2>2. ASSUME NEW e \in Deliveries, NEW n \in 0 .. MaxTotal, <<e, n>> \in expired
          PROVE  n <= row'[e].total
      <3>1. n <= row[e].total /\ row[e].total <= row'[e].total
        BY <1>16, <2>2 DEF NumberedInv
      <3>2. row[e].total \in Nat /\ row'[e].total \in Nat
        BY <1>14 DEF InboxTypeOK, Row
      <3> QED
        BY <3>1, <3>2
    <2> QED
      BY <1>1, <2>1, <2>2 DEF NumberedInv
  <1>18. SavedInv'
    BY <1>4, <1>8, <1>11, SweptRows DEF SavedInv
  <1>19. FreshInv'
    BY <1>8, <1>11, SweptRows DEF FreshInv
  <1>20. ASSUME NEW j \in Workers, j # k, worker[j].at # "idle"
         PROVE  /\ worker[j].delivery \in Deliveries
                /\ worker[j].token \in 1 .. row'[worker[j].delivery].total
                /\ worker[j].token \in 1 .. row[worker[j].delivery].total
                /\ row'[worker[j].delivery].state # "absent"
                /\ worker[j].body = row'[worker[j].delivery].body
                /\ <<worker[j].delivery, worker[j].token>> \notin expired =>
                     row'[worker[j].delivery] = row[worker[j].delivery]
    <2> DEFINE e == worker[j].delivery
    <2>1. /\ e \in Deliveries /\ worker[j].token \in 1 .. row[e].total
          /\ row[e].state # "absent" /\ worker[j].body = row[e].body
          /\ <<e, worker[j].token>> \notin expired => row[e].state = "dispatching" /\ row[e].token = worker[j].token
      BY <1>20 DEF ClaimInv, Fenced
    <2>2. row[e].total \in Nat /\ row'[e].total \in Nat
      BY <1>14, <2>1 DEF InboxTypeOK, Row
    <2>3. worker[j].token \in 1 .. row'[e].total
      BY <1>16, <2>1, <2>2
    <2>4. row'[e].state # "absent" /\ row'[e].body = row[e].body
      BY <1>8, <1>11, <2>1, SweptRows
    <2>5. ASSUME <<e, worker[j].token>> \notin expired PROVE row'[e] = row[e]
      <3>1. row[e].state = "dispatching" /\ ~Lapsed(e)
        BY <2>1, <2>5 DEF Lapsed
      <3>2. e # d
        BY <1>1, <3>1
      <3> QED
        BY <1>11, <2>1, <3>1, <3>2, SweptRows
    <2> QED
      BY <2>1, <2>3, <2>4, <2>5
  <1>21. ASSUME NEW j \in Workers, worker'[j].at # "idle"
         PROVE  /\ worker'[j].delivery \in Deliveries
                /\ worker'[j].token \in 1 .. row'[worker'[j].delivery].total
                /\ row'[worker'[j].delivery].state # "absent"
                /\ worker'[j].body = row'[worker'[j].delivery].body
                /\ <<worker'[j].delivery, worker'[j].token>> \notin expired' => Fenced(j)'
                /\ worker'[j].at = "complete" =>
                     \E r \in runs' : r.id[1] = worker'[j].delivery /\ r.body = worker'[j].body
    <2>1. CASE j = k
      BY <1>4, <1>8, <1>10, <1>11, <1>12, <1>13, <2>1 DEF Fenced
    <2>2. CASE j # k
      <3>1. worker'[j] = worker[j] /\ worker[j].at # "idle"
        BY <1>12, <1>21, <2>2
      <3>2. <<worker[j].delivery, worker[j].token>> \notin expired => Fenced(j)'
        BY <1>20, <2>2, <3>1 DEF ClaimInv, Fenced
      <3> QED
        BY <1>1, <1>20, <2>2, <3>1, <3>2 DEF ClaimInv
    <2> QED
      BY <2>1, <2>2
  <1>22. ClaimInv'
    BY <1>21 DEF ClaimInv
  <1>23. OwnClaimInv'
    <2>1. ASSUME NEW j \in Workers, j # k, worker[j].at # "idle", worker[j].delivery = d
          PROVE  worker[j].token # total
      <3>1. worker[j].token \in 1 .. row[d].total
        BY <1>20, <2>1
      <3> QED
        BY <1>4, <1>13, <3>1
    <2>2. ASSUME NEW i \in Workers, NEW j \in Workers, worker'[i].at # "idle", worker'[j].at # "idle",
                 worker'[i].delivery = worker'[j].delivery, worker'[i].token = worker'[j].token
          PROVE  i = j
      <3>1. CASE i # k /\ j # k
        BY <1>12, <2>2, <3>1 DEF OwnClaimInv
      <3>2. CASE i = k /\ j # k
        BY <1>10, <1>12, <2>1, <2>2, <3>2
      <3>3. CASE i # k /\ j = k
        BY <1>10, <1>12, <2>1, <2>2, <3>3
      <3> QED
        BY <3>1, <3>2, <3>3
    <2> QED
      BY <2>2 DEF OwnClaimInv
  <1>24. DispatchedWasAccepted'
    BY <1>1, <1>8, <1>11, SweptRows DEF DispatchedWasAccepted
  <1> QED
    BY <1>14, <1>15, <1>17, <1>18, <1>19, <1>22, <1>23, <1>24

\* claim with nothing to claim only marks spent rows dead.
LEMMA ClaimNothingKeeps ==
  ASSUME InboxInv, NEW k \in Workers, ClaimNothing(k) PROVE InboxInv'
  <1> USE DEF InboxInv
  <1>1. row' = Swept /\ UNCHANGED <<expired, worker, runs, epoch>>
    BY DEF ClaimNothing
  <1>2. InboxTypeOK'
    BY <1>1, SweptRows DEF InboxTypeOK
  <1>3. BudgetInv'
    BY <1>1, SweptRows DEF BudgetInv
  <1>4. NumberedInv'
    <2>1. ASSUME NEW e \in Deliveries PROVE Swept[e].token <= Swept[e].total
      BY SweptRows DEF NumberedInv, InboxTypeOK, Row
    <2> QED
      BY <1>1, <2>1, SweptRows DEF NumberedInv
  <1>5. SavedInv' /\ FreshInv'
    BY <1>1, SweptRows DEF SavedInv, FreshInv
  <1>6. ClaimInv'
    <2>1. ASSUME NEW j \in Workers, worker[j].at # "idle",
                 <<worker[j].delivery, worker[j].token>> \notin expired
          PROVE  Swept[worker[j].delivery] = row[worker[j].delivery]
      BY <2>1, SweptRows DEF ClaimInv, Fenced, Lapsed
    <2> QED
      BY <1>1, <2>1, SweptRows DEF ClaimInv, Fenced
  <1>7. OwnClaimInv'
    BY <1>1 DEF OwnClaimInv
  <1>8. DispatchedWasAccepted'
    BY <1>1, SweptRows DEF DispatchedWasAccepted
  <1> QED
    BY <1>2, <1>3, <1>4, <1>5, <1>6, <1>7, <1>8

\* A row changes hands only when nobody has a running lease on it: workers keep
\* their claims or give them up, and none that keeps a running one notices.
LEMMA RowKeeps ==
  ASSUME InboxInv, NEW d \in Deliveries, NEW r \in Row,
         row' = [row EXCEPT ![d] = r], UNCHANGED <<expired, runs, epoch>>,
         row[d].state # "absent", r.state # "absent", r.body = row[d].body, r.total = row[d].total,
         r.state \in {"pending", "dispatching"} => r.total + MaxAttempts <= MaxTotal + r.attempts,
         r.token \in {0, row[d].token},
         r.state = "dispatched" => \E x \in runs : x.id[1] = d /\ x.body = r.body,
         worker' \in [Workers -> Worker],
         \A j \in Workers : worker'[j].at # "idle" => worker'[j] = worker[j],
         \A j \in Workers : (/\ worker'[j].at # "idle" /\ worker[j].delivery = d
                             /\ <<d, worker[j].token>> \notin expired)
                               => r.state = row[d].state /\ r.token = row[d].token
  PROVE  InboxInv'
  <1> USE DEF InboxInv
  <1>1. row'[d] = r /\ \A e \in Deliveries : e # d => row'[e] = row[e]
    BY DEF InboxTypeOK
  <1>2. InboxTypeOK'
    BY DEF InboxTypeOK
  <1>3. BudgetInv'
    BY <1>1 DEF BudgetInv
  <1>4. NumberedInv'
    <2>1. r.token <= r.total
      BY DEF NumberedInv, InboxTypeOK, Row
    <2> QED
      BY <1>1, <2>1 DEF NumberedInv
  <1>5. SavedInv' /\ FreshInv'
    BY <1>1 DEF SavedInv, FreshInv
  <1>6. ClaimInv'
    BY <1>1 DEF ClaimInv, Fenced
  <1>7. OwnClaimInv'
    BY DEF OwnClaimInv
  <1>8. DispatchedWasAccepted'
    BY <1>1 DEF DispatchedWasAccepted
  <1> QED
    BY <1>2, <1>3, <1>4, <1>5, <1>6, <1>7, <1>8

\* A worker that gives its claim up without writing: it died, or it was fenced off.
LEMMA LeaveKeeps ==
  ASSUME InboxInv, NEW k \in Workers, worker' = [worker EXCEPT ![k] = IdleWorker],
         UNCHANGED <<row, expired, runs, epoch>>
  PROVE  InboxInv'
  <1> USE DEF InboxInv
  <1>1. IdleWorker \in Worker /\ IdleWorker.at = "idle"
    BY InboxAssumption DEF IdleWorker, Worker
  <1>2. /\ worker'[k].at = "idle"
        /\ \A j \in Workers : j # k => worker'[j] = worker[j]
    BY <1>1 DEF InboxTypeOK
  <1>3. InboxTypeOK'
    BY <1>1 DEF InboxTypeOK
  <1>4. BudgetInv' /\ NumberedInv' /\ SavedInv' /\ FreshInv' /\ DispatchedWasAccepted'
    BY DEF BudgetInv, NumberedInv, SavedInv, FreshInv, DispatchedWasAccepted
  <1>5. ClaimInv'
    BY <1>2 DEF ClaimInv, Fenced
  <1>6. OwnClaimInv'
    BY <1>2 DEF OwnClaimInv
  <1> QED
    BY <1>3, <1>4, <1>5, <1>6

\* complete and fail write only under the claim that still has the row, so no other
\* worker has a running lease on it.
LEMMA ReceiptKeeps ==
  ASSUME InboxInv, NEW k \in Workers, NEW s \in {"pending", "dead", "dispatched"},
         worker[k].at # "idle", Fenced(k),
         s = "dispatched" => worker[k].at = "complete",
         row' = [row EXCEPT ![worker[k].delivery] = Freed(row[worker[k].delivery], s, FALSE)],
         worker' = [worker EXCEPT ![k] = IdleWorker], UNCHANGED <<expired, runs, epoch>>
  PROVE  InboxInv'
  <1> DEFINE d == worker[k].delivery  r == Freed(row[d], s, FALSE)
  <1>1. /\ d \in Deliveries /\ row[d] \in Row /\ row[d].state = "dispatching"
        /\ row[d].token = worker[k].token /\ worker[k].body = row[d].body
        /\ s = "dispatched" => \E x \in runs : x.id[1] = d /\ x.body = worker[k].body
    <2>1. d \in Deliveries /\ worker[k].body = row[d].body
      BY DEF InboxInv, ClaimInv
    <2>2. row[d] \in Row
      BY <2>1 DEF InboxInv, InboxTypeOK
    <2>3. s = "dispatched" => \E x \in runs : x.id[1] = d /\ x.body = worker[k].body
      BY DEF InboxInv, ClaimInv
    <2> QED
      BY <2>1, <2>2, <2>3 DEF Fenced
  <1>2. /\ r \in Row /\ r.state = s /\ r.token = 0 /\ r.total = row[d].total
        /\ r.attempts = row[d].attempts /\ r.body = row[d].body
    <2>1. s \in RowStates /\ FALSE \in BOOLEAN
      BY DEF RowStates
    <2> HIDE DEF d
    <2> QED
      BY <1>1, <2>1, FreedRow
  <1>3. IdleWorker \in Worker /\ IdleWorker.at = "idle"
    BY InboxAssumption DEF IdleWorker, Worker
  <1>4. /\ worker' \in [Workers -> Worker]
        /\ \A j \in Workers : worker'[j].at # "idle" => j # k /\ worker'[j] = worker[j]
    BY <1>3 DEF InboxInv, InboxTypeOK
  <1>5. ASSUME NEW j \in Workers, worker'[j].at # "idle", worker[j].delivery = d,
               <<d, worker[j].token>> \notin expired
        PROVE  FALSE
    <2>1. row[d].token = worker[j].token /\ worker[j].at # "idle" /\ j # k
      BY <1>4, <1>5 DEF InboxInv, ClaimInv, Fenced
    <2> QED
      BY <1>1, <1>5, <2>1 DEF InboxInv, OwnClaimInv
  <1>6. r.state \in {"pending", "dispatching"} => r.total + MaxAttempts <= MaxTotal + r.attempts
    BY <1>1, <1>2 DEF InboxInv, BudgetInv
  <1> HIDE DEF r, d
  <1>7. row' = [row EXCEPT ![d] = r]
    BY DEF r, d
  <1>8. r.state = "dispatched" => \E x \in runs : x.id[1] = d /\ x.body = r.body
    BY <1>1, <1>2
  <1>9. /\ row[d].state # "absent" /\ r.state # "absent" /\ r.token \in {0, row[d].token}
        /\ \A j \in Workers : worker'[j].at # "idle" => worker'[j] = worker[j]
        /\ \A j \in Workers : (/\ worker'[j].at # "idle" /\ worker[j].delivery = d
                                /\ <<d, worker[j].token>> \notin expired)
                                  => r.state = row[d].state /\ r.token = row[d].token
    BY <1>1, <1>2, <1>4, <1>5
  <1> QED
    BY <1>1, <1>2, <1>4, <1>6, <1>7, <1>8, <1>9, RowKeeps

\* complete.
LEMMA CompleteKeeps ==
  ASSUME InboxInv, NEW k \in Workers, Complete(k) PROVE InboxInv'
  <1>1. CASE Fenced(k)
    <2>1. /\ worker[k].at = "complete" /\ worker[k].at # "idle"
          /\ row' = [row EXCEPT ![worker[k].delivery] = Freed(@, "dispatched", FALSE)]
          /\ worker' = [worker EXCEPT ![k] = IdleWorker] /\ UNCHANGED <<expired, runs, epoch>>
      BY <1>1 DEF Complete
    <2>2. worker[k].delivery \in Deliveries
      BY <2>1 DEF InboxInv, ClaimInv
    <2>3. row' = [row EXCEPT ![worker[k].delivery] = Freed(row[worker[k].delivery], "dispatched", FALSE)]
      BY <2>1, <2>2 DEF InboxInv, InboxTypeOK
    <2> QED
      BY <1>1, <2>1, <2>3, ReceiptKeeps
  <1>2. CASE ~Fenced(k)
    BY <1>2, LeaveKeeps DEF Complete
  <1> QED
    BY <1>1, <1>2

\* fail.
LEMMA FailKeeps ==
  ASSUME InboxInv, NEW k \in Workers, Fail(k) PROVE InboxInv'
  <1>1. CASE Fenced(k)
    <2>1. PICK s \in {"pending", "dead"} :
            /\ worker[k].at = "fail" /\ worker[k].at # "idle"
            /\ row' = [row EXCEPT ![worker[k].delivery] = Freed(@, s, FALSE)]
            /\ worker' = [worker EXCEPT ![k] = IdleWorker] /\ UNCHANGED <<expired, runs, epoch>>
      BY <1>1 DEF Fail
    <2>2. worker[k].delivery \in Deliveries
      BY <2>1 DEF InboxInv, ClaimInv
    <2>3. row' = [row EXCEPT ![worker[k].delivery] = Freed(row[worker[k].delivery], s, FALSE)]
      BY <2>1, <2>2 DEF InboxInv, InboxTypeOK
    <2>4. s \in {"pending", "dead", "dispatched"} /\ s # "dispatched"
      OBVIOUS
    <2> QED
      BY <1>1, <2>1, <2>3, <2>4, ReceiptKeeps
  <1>2. CASE ~Fenced(k)
    BY <1>2, LeaveKeeps DEF Fail
  <1> QED
    BY <1>1, <1>2

\* A row of nobody is changed by no worker.
LEMMA UnclaimedRow ==
  ASSUME InboxInv, NEW d \in Deliveries, row[d].state # "dispatching", NEW j \in Workers,
         worker[j].at # "idle", worker[j].delivery = d
  PROVE  <<d, worker[j].token>> \in expired
  BY DEF InboxInv, ClaimInv, Fenced

\* retry: a dead row has no claim whose lease runs.
LEMMA RetryKeeps ==
  ASSUME InboxInv, NEW d \in Deliveries, Retry(d) PROVE InboxInv'
  <1> DEFINE z == [row[d] EXCEPT !.attempts = 0]  r == Freed(z, "pending", TRUE)
  <1>1. /\ row[d] \in Row /\ worker \in [Workers -> Worker]
        /\ row[d].total \in Nat
    BY InboxAssumption DEF InboxInv, InboxTypeOK, Row
  <1>2. z \in Row /\ z.total = row[d].total /\ z.body = row[d].body /\ z.attempts = 0
    <2>1. 0 \in 0 .. MaxAttempts
      BY InboxAssumption
    <2> QED
      BY <1>1, <2>1 DEF Row
  <1>3. /\ row[d].state = "dead" /\ row[d].total + MaxAttempts <= MaxTotal
        /\ UNCHANGED <<expired, worker, runs, epoch>>
    BY DEF Retry
  <1>4. row' = [row EXCEPT ![d] = r]
    BY DEF Retry, InboxInv, InboxTypeOK
  <1> HIDE DEF z
  <1>5. /\ r \in Row /\ r.state = "pending" /\ r.token = 0 /\ r.total = row[d].total
        /\ r.attempts = 0 /\ r.body = row[d].body
    BY <1>2, FreedRow DEF RowStates
  <1> HIDE DEF r
  <1>6. r.total + MaxAttempts <= MaxTotal + r.attempts
    BY <1>1, <1>3, <1>5, InboxAssumption
  <1>7. \A j \in Workers : ~(/\ worker[j].at # "idle" /\ worker[j].delivery = d
                             /\ <<d, worker[j].token>> \notin expired)
    BY <1>3, UnclaimedRow
  <1> QED
    BY <1>1, <1>3, <1>4, <1>5, <1>6, <1>7, RowKeeps

\* The end of a backoff only makes a row due.
LEMMA BackoffKeeps ==
  ASSUME InboxInv, NEW d \in Deliveries, BackoffEnds(d) PROVE InboxInv'
  <1> DEFINE r == [row[d] EXCEPT !.due = TRUE]
  <1>1. /\ row[d] \in Row /\ worker \in [Workers -> Worker]
    BY DEF InboxInv, InboxTypeOK
  <1>2. /\ r \in Row /\ r.state = row[d].state /\ r.token = row[d].token /\ r.total = row[d].total
        /\ r.attempts = row[d].attempts /\ r.body = row[d].body
    BY <1>1 DEF Row
  <1>3. /\ row[d].state = "pending" /\ UNCHANGED <<expired, worker, runs, epoch>>
        /\ row' = [row EXCEPT ![d] = r]
    BY DEF BackoffEnds, InboxInv, InboxTypeOK
  <1> HIDE DEF r
  <1>4. r.total + MaxAttempts <= MaxTotal + r.attempts
    BY <1>2, <1>3 DEF InboxInv, BudgetInv
  <1> QED
    BY <1>1, <1>2, <1>3, <1>4, RowKeeps

\* An answer: what was accepted stays accepted, and the worker keeps its claim.
LEMMA AnswerKeeps ==
  ASSUME InboxInv, NEW k \in Workers, NEW w \in Worker, worker[k].at = "call",
         w.at \in {"complete", "fail"}, w.delivery = worker[k].delivery, w.body = worker[k].body,
         w.token = worker[k].token, w.attempts = worker[k].attempts,
         runs' \in {runs, Posted(k)},
         w.at = "complete" => \E x \in runs' : x.id[1] = w.delivery /\ x.body = w.body,
         worker' = [worker EXCEPT ![k] = w], UNCHANGED <<row, expired, epoch>>
  PROVE  InboxInv'
  <1> USE DEF InboxInv
  <1>1. /\ worker'[k] = w
        /\ \A j \in Workers : j # k => worker'[j] = worker[j]
    BY DEF InboxTypeOK
  <1>2. worker[k].delivery \in Deliveries /\ worker[k].body \in Bodies
    BY DEF ClaimInv, SavedInv
  <1>3. runs \subseteq runs' /\ runs' \subseteq [id : Deliveries \X Nat, body : Bodies]
    BY <1>2 DEF Posted, RunId, InboxTypeOK
  <1>4. InboxTypeOK'
    BY <1>3 DEF InboxTypeOK
  <1>5. BudgetInv' /\ NumberedInv' /\ SavedInv' /\ FreshInv'
    BY DEF BudgetInv, NumberedInv, SavedInv, FreshInv
  <1>6. ClaimInv'
    <2>1. ASSUME NEW j \in Workers, worker'[j].at # "idle"
          PROVE  /\ worker'[j].delivery \in Deliveries
                 /\ worker'[j].token \in 1 .. row[worker'[j].delivery].total
                 /\ row[worker'[j].delivery].state # "absent"
                 /\ worker'[j].body = row[worker'[j].delivery].body
                 /\ <<worker'[j].delivery, worker'[j].token>> \notin expired => Fenced(j)'
                 /\ worker'[j].at = "complete" =>
                      \E x \in runs' : x.id[1] = worker'[j].delivery /\ x.body = worker'[j].body
      <3>1. CASE j = k
        BY <1>1, <3>1 DEF ClaimInv, Fenced
      <3>2. CASE j # k
        BY <1>1, <1>3, <2>1, <3>2 DEF ClaimInv, Fenced
      <3> QED
        BY <3>1, <3>2
    <2> QED
      BY <2>1 DEF ClaimInv
  <1>7. OwnClaimInv'
    BY <1>1 DEF OwnClaimInv
  <1>8. DispatchedWasAccepted'
    BY <1>3 DEF DispatchedWasAccepted
  <1> QED
    BY <1>4, <1>5, <1>6, <1>7, <1>8

\* Moving a worker on keeps its type and its claim.
LEMMA WorkerMoves ==
  ASSUME NEW w \in Worker, NEW at \in {"complete", "fail"}, NEW again \in BOOLEAN
  PROVE  /\ [w EXCEPT !.at = at] \in Worker /\ [w EXCEPT !.at = at].at = at
         /\ [w EXCEPT !.at = at].delivery = w.delivery /\ [w EXCEPT !.at = at].body = w.body
         /\ [w EXCEPT !.at = at].token = w.token /\ [w EXCEPT !.at = at].attempts = w.attempts
         /\ [w EXCEPT !.at = at, !.retryable = again] \in Worker
         /\ [w EXCEPT !.at = at, !.retryable = again].at = at
         /\ [w EXCEPT !.at = at, !.retryable = again].delivery = w.delivery
         /\ [w EXCEPT !.at = at, !.retryable = again].body = w.body
         /\ [w EXCEPT !.at = at, !.retryable = again].token = w.token
         /\ [w EXCEPT !.at = at, !.retryable = again].attempts = w.attempts
  BY DEF Worker

\* The factory accepted the delivery.
LEMMA AcceptedKeeps ==
  ASSUME InboxInv, NEW k \in Workers, Accepted(k) PROVE InboxInv'
  <1> DEFINE w == [worker[k] EXCEPT !.at = "complete"]
  <1>1. worker[k] \in Worker /\ worker[k].at = "call"
    BY DEF InboxInv, InboxTypeOK, Accepted
  <1>2. /\ w \in Worker /\ w.at = "complete" /\ w.delivery = worker[k].delivery
        /\ w.body = worker[k].body /\ w.token = worker[k].token /\ w.attempts = worker[k].attempts
    BY <1>1, WorkerMoves
  <1>3. runs' = Posted(k) /\ worker' = [worker EXCEPT ![k] = w] /\ UNCHANGED <<row, expired, epoch>>
    BY DEF Accepted, InboxInv, InboxTypeOK
  <1>4. \E x \in runs' : x.id[1] = worker[k].delivery /\ x.body = worker[k].body
    <2> DEFINE new == [id |-> RunId(k), body |-> worker[k].body]
    <2>1. RunId(k)[1] = worker[k].delivery
      BY DEF RunId
    <2>2. CASE Taken(k) = {}
      <3>1. new \in runs' /\ new.id[1] = worker[k].delivery /\ new.body = worker[k].body
        BY <1>3, <2>1, <2>2 DEF Posted
      <3> QED
        BY <3>1
    <2>3. CASE Taken(k) # {}
      <3>1. PICK x \in runs : x.id = RunId(k) /\ x.body = worker[k].body
        BY <2>3 DEF Accepted, Taken
      <3>2. x \in runs'
        BY <1>3, <2>3 DEF Posted
      <3> QED
        BY <2>1, <3>1, <3>2
    <2> QED
      BY <2>2, <2>3
  <1> HIDE DEF w
  <1> QED
    BY <1>1, <1>2, <1>3, <1>4, AnswerKeeps

\* No usable answer.
LEMMA AmbiguousKeeps ==
  ASSUME InboxInv, NEW k \in Workers, Ambiguous(k) PROVE InboxInv'
  <1> DEFINE w == [worker[k] EXCEPT !.at = "fail", !.retryable = TRUE]
  <1>1. worker[k] \in Worker /\ worker[k].at = "call"
    BY DEF InboxInv, InboxTypeOK, Ambiguous
  <1>2. /\ w \in Worker /\ w.at = "fail" /\ w.delivery = worker[k].delivery
        /\ w.body = worker[k].body /\ w.token = worker[k].token /\ w.attempts = worker[k].attempts
    BY <1>1, WorkerMoves
  <1>3. /\ runs' \in {runs, Posted(k)} /\ worker' = [worker EXCEPT ![k] = w]
        /\ UNCHANGED <<row, expired, epoch>>
    BY DEF Ambiguous, InboxInv, InboxTypeOK
  <1> HIDE DEF w
  <1> QED
    BY <1>1, <1>2, <1>3, AnswerKeeps

\* A refusal.
LEMMA RefusedKeeps ==
  ASSUME InboxInv, NEW k \in Workers, Refused(k) PROVE InboxInv'
  <1> DEFINE w == [worker[k] EXCEPT !.at = "fail", !.retryable = FALSE]
  <1>1. worker[k] \in Worker /\ worker[k].at = "call"
    BY DEF InboxInv, InboxTypeOK, Refused
  <1>2. /\ w \in Worker /\ w.at = "fail" /\ w.delivery = worker[k].delivery
        /\ w.body = worker[k].body /\ w.token = worker[k].token /\ w.attempts = worker[k].attempts
    BY <1>1, WorkerMoves
  <1>3. /\ runs' \in {runs, Posted(k)} /\ worker' = [worker EXCEPT ![k] = w]
        /\ UNCHANGED <<row, expired, epoch>>
    BY DEF Refused, InboxInv, InboxTypeOK
  <1> HIDE DEF w
  <1> QED
    BY <1>1, <1>2, <1>3, AnswerKeeps

\* A lease that runs out frees nobody's row for anyone else.
LEMMA LeaseKeeps ==
  ASSUME InboxInv, NEW d \in Deliveries, LeaseRunsOut(d) PROVE InboxInv'
  <1> USE DEF InboxInv
  <1>1. /\ row[d].state = "dispatching" /\ expired' = expired \cup {<<d, row[d].token>>}
        /\ UNCHANGED <<row, worker, runs, epoch>>
    BY DEF LeaseRunsOut
  <1>2. row[d].token \in 0 .. MaxTotal
    BY DEF InboxTypeOK, Row
  <1>3. InboxTypeOK'
    BY <1>1, <1>2 DEF InboxTypeOK
  <1>4. BudgetInv' /\ SavedInv' /\ FreshInv' /\ OwnClaimInv' /\ DispatchedWasAccepted'
    BY <1>1 DEF BudgetInv, SavedInv, FreshInv, OwnClaimInv, DispatchedWasAccepted
  <1>5. NumberedInv'
    BY <1>1 DEF NumberedInv
  <1>6. ClaimInv'
    BY <1>1 DEF ClaimInv, Fenced
  <1> QED
    BY <1>3, <1>4, <1>5, <1>6

\* Every step of the inbox keeps the invariant.
LEMMA InboxInvNext ==
  ASSUME InboxInv, [InboxNext]_inboxVars PROVE InboxInv'
  <1>1. CASE InboxNext
    <2>1. ASSUME NEW k \in Workers, Abandon(k) PROVE InboxInv'
      BY <2>1, LeaveKeeps DEF Abandon
    <2>2. ASSUME NEW d \in Deliveries, WorkEnds(d) PROVE InboxInv'
      <3>1. /\ UNCHANGED <<row, expired, worker, runs>> /\ epoch' \in [Deliveries -> Nat]
        BY <2>2 DEF WorkEnds, InboxInv, InboxTypeOK
      <3> QED
        BY <3>1 DEF InboxInv, InboxTypeOK, BudgetInv, NumberedInv, SavedInv, FreshInv, ClaimInv, Fenced,
                    OwnClaimInv, DispatchedWasAccepted
    <2> QED
      BY <1>1, <2>1, <2>2, InboxNextCases, EnqueueInv, ClaimKeeps, ClaimNothingKeeps, AcceptedKeeps,
         AmbiguousKeeps, RefusedKeeps, CompleteKeeps, FailKeeps, RetryKeeps, LeaseKeeps, BackoffKeeps
  <1>2. CASE UNCHANGED inboxVars
    BY <1>2 DEF inboxVars, InboxInv, InboxTypeOK, BudgetInv, NumberedInv, SavedInv, FreshInv, ClaimInv,
                Fenced, OwnClaimInv, DispatchedWasAccepted
  <1> QED
    BY <1>1, <1>2

\* The invariant of the inbox: claims are numbered and owned, and budgets kept.
THEOREM InboxCorrect == InboxSpec => []InboxInv
  BY InboxInvInit, InboxInvNext, PTL DEF InboxSpec

\* No delivery is claimed more than max_attempts times between two explicit retries.
THEOREM InboxTypeCorrect == InboxSpec => []InboxTypeOK
  <1>1. InboxInv => InboxTypeOK
    BY DEF InboxInv
  <1> QED
    BY <1>1, InboxCorrect, PTL

\* SQLite leases prevent double claims, across any number of workers.
THEOREM LeasesExclusive == InboxSpec => []OneRunningLease
  <1>1. InboxInv => OneRunningLease
    BY DEF InboxInv, ClaimInv, OwnClaimInv, Fenced, OneRunningLease
  <1> QED
    BY <1>1, InboxCorrect, PTL

\* A delivery that is marked dispatched was accepted with the saved content.
THEOREM ReceiptsHonest == InboxSpec => []DispatchedWasAccepted
  <1>1. InboxInv => DispatchedWasAccepted
    BY DEF InboxInv
  <1> QED
    BY <1>1, InboxCorrect, PTL

\* claim leaves dispatched rows alone, and so does every other step: workers that
\* lost their claim are fenced off.
LEMMA DispatchedStep ==
  ASSUME InboxInv, InboxNext, NEW d \in Deliveries, row[d].state = "dispatched" PROVE row'[d] = row[d]
  <1>1. row \in [Deliveries -> Row]
    BY DEF InboxInv, InboxTypeOK
  <1>2. ASSUME NEW e \in Deliveries, NEW b \in Bodies, Enqueue(e, b) PROVE row'[d] = row[d]
    BY <1>1, <1>2 DEF Enqueue
  <1>3. Swept[d] = row[d] /\ Swept \in [Deliveries -> Row]
    BY SweptRows DEF Exhausted, Lapsed
  <1>4. ASSUME NEW k \in Workers, NEW e \in Deliveries, Claim(k, e) PROVE row'[d] = row[d]
    BY <1>3, <1>4 DEF Claim, Candidates, Lapsed
  <1>5. ASSUME NEW k \in Workers, Complete(k) PROVE row'[d] = row[d]
    BY <1>1, <1>5 DEF Complete, Fenced
  <1>6. ASSUME NEW k \in Workers, Fail(k) PROVE row'[d] = row[d]
    BY <1>1, <1>6 DEF Fail, Fenced
  <1>7. ASSUME NEW e \in Deliveries, Retry(e) \/ BackoffEnds(e) PROVE row'[d] = row[d]
    BY <1>1, <1>7 DEF Retry, BackoffEnds
  <1>8. ASSUME NEW k \in Workers, ClaimNothing(k) PROVE row'[d] = row[d]
    BY <1>3, <1>8 DEF ClaimNothing
  <1> QED
    BY <1>2, <1>4, <1>5, <1>6, <1>7, <1>8, InboxNextCases
    DEF Accepted, Ambiguous, Refused, Abandon, LeaseRunsOut, WorkEnds

\* A dispatched receipt never changes again.
THEOREM ReceiptsFinal == InboxSpec => DispatchedIsFinal
  <1>1. InboxInv /\ [InboxNext]_inboxVars
          => [\A d \in Deliveries : row[d].state = "dispatched" => row'[d] = row[d]]_inboxVars
    BY DispatchedStep
  <1> QED
    BY <1>1, InboxCorrect, PTL DEF InboxSpec, DispatchedIsFinal

\* Only enqueue makes a delivery outstanding.
LEMMA OutstandingStep ==
  ASSUME InboxInv, InboxNext,
         ~(\E d \in Deliveries, b \in Bodies : Enqueue(d, b))
  PROVE  Outstanding' \subseteq Outstanding
  <1>1. row \in [Deliveries -> Row]
    BY DEF InboxInv, InboxTypeOK
  <1>2. SUFFICES ASSUME NEW e \in Deliveries, row[e].state \in {"absent", "dispatched"}
                 PROVE  row'[e].state = row[e].state
    BY <1>1 DEF Outstanding, Row, RowStates
  <1>3. Swept[e] = row[e] /\ Swept \in [Deliveries -> Row]
    BY <1>2, SweptRows DEF Exhausted, Lapsed
  <1>4. ASSUME NEW k \in Workers, NEW d \in Deliveries, Claim(k, d) PROVE row'[e] = row[e]
    BY <1>2, <1>3, <1>4 DEF Claim, Candidates, Lapsed
  <1>5. ASSUME NEW k \in Workers, Complete(k) \/ Fail(k) PROVE row'[e] = row[e]
    BY <1>1, <1>2, <1>5 DEF Complete, Fail, Fenced
  <1>6. ASSUME NEW d \in Deliveries, Retry(d) \/ BackoffEnds(d) PROVE row'[e] = row[e]
    BY <1>1, <1>2, <1>6 DEF Retry, BackoffEnds
  <1>7. ASSUME NEW k \in Workers, ClaimNothing(k) PROVE row'[e] = row[e]
    BY <1>3, <1>7 DEF ClaimNothing
  <1> QED
    BY <1>4, <1>5, <1>6, <1>7, InboxNextCases
    DEF Accepted, Ambiguous, Refused, Abandon, LeaseRunsOut, WorkEnds

\* What was acknowledged and is not handed over never exceeds max_pending.
THEOREM InboxBounded == InboxSpec => []OutstandingBounded
  <1>0. IsFiniteSet(Outstanding) /\ Cardinality(Outstanding) \in Nat
    BY InboxAssumption, FS_Subset, FS_CardinalityType DEF Outstanding
  <1>1. InboxInit => OutstandingBounded
    <2>1. InboxInit => Outstanding = {}
      BY DEF InboxInit, Outstanding, NoRow
    <2> QED
      BY <2>1, FS_EmptySet, InboxAssumption DEF OutstandingBounded
  <1>2. ASSUME InboxInv, OutstandingBounded, [InboxNext]_inboxVars PROVE OutstandingBounded'
    <2>1. ASSUME Outstanding' \subseteq Outstanding PROVE OutstandingBounded'
      <3>1. IsFiniteSet(Outstanding') /\ Cardinality(Outstanding') <= Cardinality(Outstanding)
        BY <1>0, <2>1, FS_Subset
      <3>2. Cardinality(Outstanding') \in Nat
        BY <3>1, FS_CardinalityType
      <3> QED
        BY <1>0, <1>2, <3>1, <3>2, InboxAssumption DEF OutstandingBounded
    <2>2. ASSUME NEW d \in Deliveries, NEW b \in Bodies, Enqueue(d, b) PROVE OutstandingBounded'
      <3>1. Outstanding' = Outstanding \cup {d}
        BY <1>2, <2>2 DEF Outstanding, Enqueue, SavedRow, InboxInv, InboxTypeOK
      <3>2. Cardinality(Outstanding') <= Cardinality(Outstanding) + 1
        BY <1>0, <3>1, FS_AddElement
      <3>3. IsFiniteSet(Outstanding') /\ Cardinality(Outstanding') \in Nat
        BY <1>0, <3>1, FS_AddElement, FS_CardinalityType
      <3> QED
        BY <1>0, <2>2, <3>2, <3>3, InboxAssumption DEF Enqueue, OutstandingBounded
    <2>3. CASE UNCHANGED inboxVars
      BY <2>1, <2>3 DEF inboxVars, Outstanding
    <2> QED
      BY <1>2, <2>1, <2>2, <2>3, OutstandingStep
  <1> QED
    BY <1>1, <1>2, InboxCorrect, PTL DEF InboxSpec

\* The accepted work of a delivery, and the workers that are in the call for it.
OrdersOf(accepted, d) == {r \in accepted : r.id[1] = d}
CallersOf(wk, d) == {k \in Workers : wk[k].at = "call" /\ wk[k].delivery = d}

\* Every attempt on record pays for one order: for one that exists, or for one that its call may still make.
Paid(accepted, wk, d, n) ==
  /\ IsFiniteSet(OrdersOf(accepted, d)) /\ IsFiniteSet(CallersOf(wk, d))
  /\ Cardinality(OrdersOf(accepted, d)) + Cardinality(CallersOf(wk, d)) <= n
AttemptsPay == \A d \in Deliveries : Paid(runs, worker, d, row[d].total)

\* A step that adds no order and no caller.
LEMMA PaidStays ==
  ASSUME NEW R, NEW W, NEW X, NEW d, NEW n \in Nat, NEW m \in Nat, Paid(R, W, d, n), n <= m,
         CallersOf(X, d) \subseteq CallersOf(W, d)
  PROVE  Paid(R, X, d, m)
  <1>1. IsFiniteSet(CallersOf(X, d)) /\ Cardinality(CallersOf(X, d)) <= Cardinality(CallersOf(W, d))
    BY FS_Subset DEF Paid
  <1>2. /\ Cardinality(CallersOf(X, d)) \in Nat /\ Cardinality(CallersOf(W, d)) \in Nat
        /\ Cardinality(OrdersOf(R, d)) \in Nat
    BY <1>1, FS_CardinalityType DEF Paid
  <1> QED
    BY <1>1, <1>2 DEF Paid

\* claim adds a caller, and counts the attempt.
LEMMA PaidByClaim ==
  ASSUME NEW R, NEW W, NEW X, NEW d, NEW k, NEW n \in Nat, Paid(R, W, d, n),
         CallersOf(X, d) = CallersOf(W, d) \cup {k}
  PROVE  Paid(R, X, d, n + 1)
  <1>1. /\ IsFiniteSet(CallersOf(X, d))
        /\ Cardinality(CallersOf(X, d)) = IF k \in CallersOf(W, d) THEN Cardinality(CallersOf(W, d))
                                          ELSE Cardinality(CallersOf(W, d)) + 1
    BY FS_AddElement DEF Paid
  <1>2. Cardinality(CallersOf(W, d)) \in Nat /\ Cardinality(OrdersOf(R, d)) \in Nat
    BY FS_CardinalityType DEF Paid
  <1> QED
    BY <1>1, <1>2 DEF Paid

\* A call that ends makes at most one order.
LEMMA PaidByCall ==
  ASSUME NEW R, NEW S, NEW W, NEW X, NEW d, NEW k, NEW r, NEW n \in Nat, Paid(R, W, d, n),
         OrdersOf(S, d) \in {OrdersOf(R, d), OrdersOf(R, d) \cup {r}},
         k \in CallersOf(W, d), CallersOf(X, d) = CallersOf(W, d) \ {k}
  PROVE  Paid(S, X, d, n)
  <1>1. /\ IsFiniteSet(CallersOf(X, d))
        /\ Cardinality(CallersOf(X, d)) = Cardinality(CallersOf(W, d)) - 1
    BY FS_RemoveElement DEF Paid
  <1>2. Cardinality(CallersOf(W, d)) \in Nat /\ Cardinality(OrdersOf(R, d)) \in Nat
    BY FS_CardinalityType DEF Paid
  <1>3. /\ IsFiniteSet(OrdersOf(S, d))
        /\ Cardinality(OrdersOf(S, d)) \in {Cardinality(OrdersOf(R, d)), Cardinality(OrdersOf(R, d)) + 1}
    BY FS_AddElement DEF Paid
  <1> QED
    BY <1>1, <1>2, <1>3 DEF Paid

\* Every step of the inbox leaves as many attempts on record as there are orders and calls.
LEMMA AttemptsPayNext ==
  ASSUME InboxInv, AttemptsPay, InboxNext PROVE AttemptsPay'
  <1>1. /\ row \in [Deliveries -> Row] /\ worker \in [Workers -> Worker]
        /\ runs \subseteq [id : Deliveries \X Nat, body : Bodies] /\ epoch \in [Deliveries -> Nat]
    BY DEF InboxInv, InboxTypeOK
  <1>2. ASSUME NEW d \in Deliveries PROVE row[d].total \in Nat /\ Paid(runs, worker, d, row[d].total)
    BY <1>1, InboxAssumption DEF AttemptsPay, Row
  <1>3. ASSUME NEW k \in Workers, NEW e \in Deliveries, Claim(k, e) PROVE AttemptsPay'
    <2>1. /\ worker[k].at = "idle" /\ runs' = runs /\ e \notin Exhausted
          /\ worker'[k].at = "call" /\ worker'[k].delivery = e
          /\ \A j \in Workers : j # k => worker'[j] = worker[j]
      BY <1>1, <1>3 DEF Claim, Candidates
    <2>2. Swept \in [Deliveries -> Row] /\ Swept[e] = row[e]
      BY <2>1, SweptRows
    <2>3. row'[e].total = row[e].total + 1 /\ \A d \in Deliveries : d # e => row'[d].total = row[d].total
      BY <1>3, <2>2, SweptRows DEF Claim
    <2>4. CallersOf(worker', e) = CallersOf(worker, e) \cup {k}
      BY <2>1 DEF CallersOf
    <2>5. ASSUME NEW d \in Deliveries, d # e PROVE CallersOf(worker', d) \subseteq CallersOf(worker, d)
      BY <2>1, <2>5 DEF CallersOf
    <2>6. Paid(runs', worker', e, row'[e].total)
      <3>1. row[e].total \in Nat /\ Paid(runs, worker, e, row[e].total)
        BY <1>2
      <3>2. Paid(runs, worker', e, row[e].total + 1)
        BY <3>1, <2>4, PaidByClaim
      <3> QED
        BY <2>1, <2>3, <3>2
    <2>7. ASSUME NEW d \in Deliveries, d # e PROVE Paid(runs', worker', d, row'[d].total)
      BY <1>2, <2>1, <2>3, <2>5, <2>7, PaidStays
    <2> QED
      BY <2>6, <2>7 DEF AttemptsPay
  <1>4. ASSUME NEW k \in Workers, worker[k].at = "call", runs' \in {runs, Posted(k)}, worker'[k].at # "call",
               \A j \in Workers : j # k => worker'[j] = worker[j], row' = row
        PROVE  AttemptsPay'
    <2> DEFINE e == worker[k].delivery
               new == [id |-> RunId(k), body |-> worker[k].body]
    <2>1. e \in Deliveries /\ k \in CallersOf(worker, e)
      BY <1>4 DEF InboxInv, ClaimInv, CallersOf
    <2>2. new.id[1] = e
      BY DEF RunId
    <2>3. OrdersOf(runs', e) \in {OrdersOf(runs, e), OrdersOf(runs, e) \cup {new}}
      BY <1>4, <2>2 DEF OrdersOf, Posted
    <2>4. ASSUME NEW d \in Deliveries, d # e PROVE OrdersOf(runs', d) = OrdersOf(runs, d)
      BY <1>4, <2>2, <2>4 DEF OrdersOf, Posted
    <2>5. CallersOf(worker', e) = CallersOf(worker, e) \ {k}
      BY <1>4 DEF CallersOf
    <2>6. ASSUME NEW d \in Deliveries, d # e PROVE CallersOf(worker', d) \subseteq CallersOf(worker, d)
      BY <1>4, <2>6 DEF CallersOf
    <2> HIDE DEF e, new
    <2>7. Paid(runs', worker', e, row'[e].total)
      BY <1>2, <1>4, <2>1, <2>3, <2>5, PaidByCall
    <2>8. ASSUME NEW d \in Deliveries, d # e PROVE Paid(runs', worker', d, row'[d].total)
      <3>1. Paid(runs, worker', d, row[d].total)
        BY <1>2, <2>6, <2>8, PaidStays
      <3> QED
        BY <1>4, <2>4, <2>8, <3>1 DEF Paid
    <2> QED
      BY <2>7, <2>8 DEF AttemptsPay
  <1>5. ASSUME NEW k \in Workers, Accepted(k) \/ Ambiguous(k) \/ Refused(k) PROVE AttemptsPay'
    <2>1. worker[k].at = "call" /\ runs' \in {runs, Posted(k)} /\ row' = row
      BY <1>5 DEF Accepted, Ambiguous, Refused
    <2>2. worker'[k].at # "call" /\ \A j \in Workers : j # k => worker'[j] = worker[j]
      BY <1>1, <1>5 DEF Accepted, Ambiguous, Refused, Worker
    <2> QED
      BY <1>4, <2>1, <2>2
  <1>6. ASSUME runs' = runs, \A d \in Deliveries : row'[d].total = row[d].total,
               \A j \in Workers : worker'[j] = worker[j] \/ worker'[j].at # "call"
        PROVE  AttemptsPay'
    <2>1. ASSUME NEW d \in Deliveries PROVE CallersOf(worker', d) \subseteq CallersOf(worker, d)
      BY <1>6 DEF CallersOf
    <2> QED
      BY <1>2, <1>6, <2>1, PaidStays DEF AttemptsPay
  <1>7. ASSUME NEW k \in Workers, ClaimNothing(k) PROVE AttemptsPay'
    BY <1>6, <1>7, SweptRows DEF ClaimNothing
  <1>8. ASSUME NEW k \in Workers, Complete(k) \/ Fail(k) \/ Abandon(k) PROVE AttemptsPay'
    <2>1. runs' = runs /\ \A j \in Workers : worker'[j] = worker[j] \/ worker'[j].at # "call"
      <3>1. runs' = runs /\ worker' = [worker EXCEPT ![k] = IdleWorker]
        BY <1>8 DEF Complete, Fail, Abandon
      <3>2. IdleWorker.at = "idle"
        BY DEF IdleWorker
      <3> QED
        BY <1>1, <3>1, <3>2
    <2>2. \A d \in Deliveries : row'[d].total = row[d].total
      BY <1>1, <1>8 DEF Complete, Fail, Abandon, Freed
    <2> QED
      BY <1>6, <2>1, <2>2
  <1>9. ASSUME NEW e \in Deliveries, NEW b \in Bodies, Enqueue(e, b) PROVE AttemptsPay'
    <2>1. row[e].total = 0
      BY <1>9 DEF InboxInv, FreshInv, Enqueue
    <2> QED
      BY <1>1, <1>6, <1>9, <2>1 DEF Enqueue, SavedRow
  <1>10. ASSUME NEW e \in Deliveries, Retry(e) \/ BackoffEnds(e) PROVE AttemptsPay'
    <2>1. \A d \in Deliveries : row'[d].total = row[d].total
      BY <1>1, <1>10 DEF Retry, BackoffEnds, Freed, Row
    <2> QED
      BY <1>6, <1>10, <2>1 DEF Retry, BackoffEnds
  <1>11. ASSUME NEW e \in Deliveries, LeaseRunsOut(e) \/ WorkEnds(e) PROVE AttemptsPay'
    BY <1>6, <1>11 DEF LeaseRunsOut, WorkEnds
  <1> QED
    BY <1>3, <1>5, <1>7, <1>8, <1>9, <1>10, <1>11, InboxNextCases

\* A delivery never has more orders than attempts on record, in either mode: what lost answers, lapsed
\* leases, crashes and retries can cost is bounded by what claim counts.
THEOREM OrdersBounded == InboxSpec => []OrdersWithinAttempts
  <1>1. InboxInit => AttemptsPay
    <2> SUFFICES ASSUME InboxInit, NEW d \in Deliveries PROVE Paid(runs, worker, d, row[d].total)
      BY DEF AttemptsPay
    <2>1. OrdersOf(runs, d) = {} /\ CallersOf(worker, d) = {} /\ row[d].total = 0
      BY DEF InboxInit, OrdersOf, CallersOf, IdleWorker, NoRow
    <2> QED
      BY <2>1, FS_EmptySet DEF Paid
  <1>2. ASSUME InboxInv, AttemptsPay, [InboxNext]_inboxVars PROVE AttemptsPay'
    <2>1. CASE UNCHANGED inboxVars
      BY <1>2, <2>1 DEF inboxVars, AttemptsPay
    <2> QED
      BY <1>2, <2>1, AttemptsPayNext
  <1>3. InboxInv /\ AttemptsPay => OrdersWithinAttempts
    <2> SUFFICES ASSUME InboxInv, AttemptsPay, NEW d \in Deliveries
                 PROVE  Cardinality({r \in runs : r.id[1] = d}) <= row[d].total
      BY DEF OrdersWithinAttempts
    <2>1. Paid(runs, worker, d, row[d].total) /\ row[d].total \in Nat
      BY InboxAssumption DEF AttemptsPay, InboxInv, InboxTypeOK, Row
    <2>2. Cardinality(OrdersOf(runs, d)) \in Nat /\ Cardinality(CallersOf(worker, d)) \in Nat
      BY <2>1, FS_CardinalityType DEF Paid
    <2>3. Cardinality(OrdersOf(runs, d)) <= row[d].total
      BY <2>1, <2>2 DEF Paid
    <2> QED
      BY <2>3 DEF OrdersOf
  <1> QED
    BY <1>1, <1>2, <1>3, InboxCorrect, PTL DEF InboxSpec

=============================================================================
