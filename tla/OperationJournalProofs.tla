----------------------- MODULE OperationJournalProofs -----------------------
(***************************************************************************)
(* Proofs about the operation journal, for any number of workers in any     *)
(* number of processes, any retry budget and any caller policy.            *)
(***************************************************************************)
EXTENDS OperationJournal, TLAPS

USE DEF NoOwner, NoResult, NoDigest

\* The row: its owner and its receipt against the claims, the leases and the effects.
RowInv ==
  /\ row.owner # NoOwner => row.owner \in 1 .. claims
  /\ (row.owner # NoOwner /\ ~row.lease) => row.owner \in lapsed
  /\ row.lease => row.owner # NoOwner /\ row.owner \notin lapsed
  /\ row.state = "absent" => row.attempts = 0 /\ row.result = NoResult
  /\ row.state = "committed" => row.owner = NoOwner /\ row.result # NoResult
  /\ row.result # NoResult => row.result \in applied
  /\ row.result # NoResult => row.state = "committed" \/ reopened
  /\ transit \subseteq 1 .. claims
  /\ applied \subseteq 1 .. claims
  /\ lapsed \subseteq 1 .. claims

\* One worker: what it has read, claimed and observed, against the row.
CallInv(w) ==
  /\ call[w].at \notin {"idle", "begin"} => row.state # "absent"
  /\ call[w].at \in Running => call[w].mine \in 1 .. claims
  /\ call[w].at \in Running => row.owner = call[w].mine \/ call[w].mine \in lapsed \/ row.result # NoResult
  /\ call[w].at = "commit" => call[w].mine \in applied
  /\ call[w].at = "adopt" => call[w].saw.status = "committed"
  /\ call[w].saw.status = "committed" => call[w].saw.result \in applied
  /\ call[w].at \in {"displace", "expire"} => call[w].incumbent \in lapsed
  /\ call[w].at = "take" => call[w].attempts < MaxAttempts

\* No two running workers hold the same claim.
OwnClaims ==
  \A w, v \in Workers :
    (w # v /\ call[w].at \in Running /\ call[v].at \in Running) => call[w].mine # call[v].mine

\* The inductive invariant of the journal.
JournalInv ==
  /\ TypeOK
  /\ RowInv
  /\ \A w \in Workers : CallInv(w)
  /\ OneIntentPerKey
  /\ OwnClaims

\* Moving a worker on, or out of its call, keeps the type of its variables.
LEMMA MovedType ==
  ASSUME NEW c \in Call, NEW place \in Places
  PROVE  /\ Moved(c, place) \in Call
         /\ Moved(c, place).at = place
         /\ place # "idle" => Moved(c, place) = [c EXCEPT !.at = place]
         /\ place = "idle" => Moved(c, place) = Idle
  BY JournalAssumption DEF Moved, Call, Idle, Outcome, Statuses, Places

\* Remembering whether the row was there keeps the type, too.
LEMMA ExistedType ==
  ASSUME NEW c \in Call, NEW b \in BOOLEAN
  PROVE  /\ [c EXCEPT !.existed = b] \in Call
         /\ \A f \in {"at", "incumbent", "attempts", "saw", "mine"} : [c EXCEPT !.existed = b][f] = c[f]
  BY DEF Call

\* The empty journal satisfies the invariant.
LEMMA JournalInit == Init => JournalInv
  <1> SUFFICES ASSUME Init PROVE JournalInv
    OBVIOUS
  <1> USE DEF Init
  <1>1. row \in Row
    BY JournalAssumption DEF Row, RowStates
  <1>2. Idle \in Call
    BY JournalAssumption DEF Idle, Call, Outcome, Statuses, Places
  <1>3. TypeOK
    <2>1. claims \in 0 .. MaxClaims
      BY JournalAssumption
    <2>2. reopened \in BOOLEAN
      OBVIOUS
    <2>3. call \in [Workers -> Call]
      BY <1>2
    <2> QED BY <1>1, <2>1, <2>2, <2>3 DEF TypeOK
  <1>4. RowInv
    BY DEF RowInv
  <1>5. \A w \in Workers : call[w].at = "idle" /\ call[w].saw.status # "committed"
    BY DEF Idle
  <1> QED
    BY <1>3, <1>4, <1>5 DEF JournalInv, CallInv, OneIntentPerKey, OwnClaims, Running

\* Every transaction of the journal and every step of the provider keeps the types.
LEMMA TypeNext == TypeOK /\ RowInv /\ (\A w \in Workers : CallInv(w)) /\ [Next]_journalVars => TypeOK'
  <1> SUFFICES ASSUME TypeOK, RowInv, \A w \in Workers : CallInv(w), [Next]_journalVars PROVE TypeOK'
    OBVIOUS
  <1> USE DEF TypeOK
  <1>a. \A c \in Call, p \in Places : Moved(c, p) \in Call
    BY MovedType
  <1>b. \A w \in Workers, p \in Places : Goto(w, p) => call' \in [Workers -> Call]
    BY <1>a DEF Goto
  <1>c. Disowned(row) \in Row
    BY DEF Disowned, Row, RowStates
  <1>d. \A a \in Tokens : Committed(a) \in Row
    BY <1>c DEF Committed, Row, RowStates
  <1>e. \A s \in RowStates : [row EXCEPT !.state = s] \in Row /\ [Disowned(row) EXCEPT !.state = s] \in Row
    BY <1>c DEF Row
  <1>f. {"intent", "in_doubt", "reconciling", "exhausted", "refused"} \subseteq RowStates
    BY DEF RowStates
  <1>1. ASSUME NEW w \in Workers, Enter(w) PROVE TypeOK'
    <2>1. [Moved(call[w], "begin") EXCEPT !.existed = row.state # "absent"] \in Call
      BY <1>a, ExistedType DEF Places
    <2> QED BY <1>1, <2>1 DEF Enter, history
  <1>2. ASSUME NEW w \in Workers, Begin(w) PROVE TypeOK'
    <2>1. row' \in Row
      BY <1>2, <1>f, JournalAssumption DEF Begin, history, Row
    <2> QED BY <1>2, <1>b, <2>1 DEF Begin, history, Places
  <1>3. ASSUME NEW w \in Workers, NEW f \in BOOLEAN, Read(w, f) PROVE TypeOK'
    <2>1. [Moved(call[w], "displace") EXCEPT !.incumbent = row.owner] \in Call
      BY <1>a DEF Places, Call, Row
    <2> QED BY <1>3, <1>b, <2>1 DEF Read, history, Places
  <1>4. ASSUME NEW w \in Workers, Displace(w) PROVE TypeOK'
    <2>1. [Moved(call[w], "observe") EXCEPT !.existed = TRUE] \in Call
      BY <1>a, ExistedType DEF Places
    <2> QED BY <1>4, <1>e, <1>f, <2>1 DEF Displace, history
  <1>5. ASSUME NEW w \in Workers, Watch(w) PROVE TypeOK'
    BY <1>5, <1>b DEF Watch, history, Places
  <1>6. ASSUME NEW w \in Workers, NEW o \in Reports, Reconcile(w, o) PROVE TypeOK'
    <2>1. o \in Outcome
      BY DEF Reports, Outcome, Statuses
    <2>2. \A p \in {"record", "note"} : [Moved(call[w], p) EXCEPT !.saw = o] \in Call
      BY <1>a, <2>1 DEF Places, Call
    <2>3. call' \in [Workers -> Call]
      BY <1>6, <2>2 DEF Reconcile, history
    <2> QED BY <1>6, <2>3 DEF Reconcile, history
  <1>7. ASSUME NEW w \in Workers, CannotReconcile(w) PROVE TypeOK'
    BY <1>7, <1>b DEF CannotReconcile, history, Places
  <1>8. ASSUME NEW w \in Workers, MarkObservation(w) PROVE TypeOK'
    BY <1>8, <1>b, <1>e, <1>f DEF MarkObservation, history, Places
  <1>9. ASSUME NEW w \in Workers, Adopt(w) PROVE TypeOK'
    <2>1. call[w].saw.result \in Tokens
      BY <1>9 DEF Adopt, history, CallInv
    <2> QED BY <1>9, <1>b, <1>d, <2>1 DEF Adopt, history, Places
  <1>10. ASSUME NEW w \in Workers, ReadForClaim(w) PROVE TypeOK'
    <2>1. [Moved(call[w], "expire") EXCEPT !.incumbent = row.owner] \in Call
      BY <1>a DEF Places, Call, Row
    <2>2. [Moved(call[w], "take") EXCEPT !.attempts = row.attempts] \in Call
      BY <1>a DEF Places, Call, Row
    <2> QED BY <1>10, <1>b, <2>1, <2>2 DEF history, ReadForClaim, Places
  <1>10a. ASSUME NEW w \in Workers, ExpireClaim(w) \/ ClaimLost(w) PROVE TypeOK'
    BY <1>10a, <1>b, <1>e, <1>f DEF history, ExpireClaim, ClaimLost, Places
  <1>10b. ASSUME NEW w \in Workers, ExhaustClaim(w) PROVE TypeOK'
    <2>1. reopened' \in BOOLEAN
      BY <1>10b DEF ExhaustClaim
    <2> QED BY <1>10b, <1>b, <1>e, <1>f, <2>1 DEF ExhaustClaim, Places
  <1>11. ASSUME NEW w \in Workers, StartAttempt(w) PROVE TypeOK'
    <2>1. claims + 1 \in Tokens /\ claims + 1 \in 0 .. MaxClaims
      BY <1>11, JournalAssumption DEF StartAttempt, Tokens
    <2>0. call[w].attempts + 1 \in 0 .. MaxAttempts
      BY <1>11, JournalAssumption DEF StartAttempt, CallInv, Call
    <2>2. row' \in Row
      BY <1>11, <1>f, <2>0, <2>1 DEF StartAttempt, Claimed, Row
    <2>3. [Moved(call[w], "call") EXCEPT !.mine = claims + 1] \in Call
      BY <1>a, <2>1 DEF Places, Call
    <2> QED BY <1>11, <2>1, <2>2, <2>3 DEF StartAttempt
  <1>12. ASSUME NEW w \in Workers, CallReturns(w) \/ CallRaises(w) \/ Dies(w) PROVE TypeOK'
    BY <1>12, <1>b DEF history, CallReturns, CallRaises, Dies, Places
  <1>13. ASSUME NEW w \in Workers, MarkInDoubt(w) PROVE TypeOK'
    BY <1>13, <1>b, <1>e, <1>f DEF history, MarkInDoubt, Places
  <1>14. ASSUME NEW w \in Workers, Commit(w) PROVE TypeOK'
    <2>1. call[w].mine \in Tokens
      BY <1>14 DEF Commit, CallInv
    <2> QED BY <1>14, <1>b, <1>d, <2>1 DEF history, Commit, Places
  <1>15. ASSUME NEW a \in transit, Apply(a) \/ Lose(a) PROVE TypeOK'
    BY <1>15 DEF Apply, history, Lose
  <1>16. ASSUME LeaseExpires PROVE TypeOK'
    <2>1. row.owner \in Tokens
      BY <1>16 DEF LeaseExpires, RowInv, Row
    <2> QED BY <1>16, <2>1 DEF LeaseExpires, Row
  <1>17. CASE UNCHANGED journalVars
    BY <1>17 DEF journalVars
  <1> QED
    BY <1>1, <1>2, <1>3, <1>4, <1>5, <1>6, <1>7, <1>8, <1>9, <1>10, <1>10a, <1>10b, <1>11, <1>12, <1>13, <1>14, <1>15,
       <1>16, <1>17, Zenon DEF Next, Work

\* Every transaction of the journal and every step of the provider keeps the
\* invariant.
LEMMA JournalNext == JournalInv /\ [Next]_journalVars => JournalInv'
  <1> SUFFICES ASSUME JournalInv, [Next]_journalVars PROVE JournalInv'
    OBVIOUS
  <1>t. TypeOK'
    BY TypeNext DEF JournalInv
  <1>m. \A c \in Call, p \in Places :
          /\ Moved(c, p) \in Call /\ Moved(c, p).at = p
          /\ p # "idle" => Moved(c, p) = [c EXCEPT !.at = p]
          /\ p = "idle" => Moved(c, p) = Idle
    BY MovedType
  <1> USE DEF JournalInv, TypeOK, RowInv, CallInv, OneIntentPerKey, OwnClaims, Running, history
  <1>1. ASSUME NEW w \in Workers, Enter(w) PROVE JournalInv'
    BY <1>1, <1>t, <1>m, JournalAssumption, SMTT(30) DEF Enter, Goto, Places, Call, Row, Tokens, Idle, Disowned, Committed, Reports
  <1>2. ASSUME NEW w \in Workers, Begin(w) PROVE JournalInv'
    <2>1. CASE row.state = "absent"
      <3>1. row' = [row EXCEPT !.state = "intent", !.digest = Digest[w]] /\ Goto(w, "read")
        BY <1>2, <2>1 DEF Begin, Row
      <3>2. \A v \in Workers : call[v].at \in {"idle", "begin"}
        BY <2>1
      <3> QED
        BY <1>2, <1>t, <1>m, <2>1, <3>1, <3>2 DEF Begin, Goto, Places, Call, Row
    <2>2. CASE row.state # "absent"
      <3>1. UNCHANGED row
        BY <1>2, <2>2 DEF Begin
      <3>2. CASE row.digest = Digest[w]
        <4>1. Goto(w, "read")
          BY <1>2, <3>1, <3>2 DEF Begin
        <4> QED
          BY <1>2, <1>t, <1>m, <2>2, <3>1, <3>2, <4>1 DEF Begin, Goto, Places, Call
      <3>3. CASE row.digest # Digest[w]
        <4>1. Goto(w, "idle")
          BY <1>2, <3>1, <3>3 DEF Begin
        <4> QED
          BY <1>2, <1>t, <1>m, <3>1, <4>1 DEF Begin, Goto, Places, Call, Idle
      <3> QED BY <3>2, <3>3
    <2> QED BY <2>1, <2>2
  <1>3. ASSUME NEW w \in Workers, NEW f \in BOOLEAN, Read(w, f) PROVE JournalInv'
    <2>1. CASE Goto(w, "idle")
      BY <1>3, <1>t, <1>m, <2>1 DEF Read, Goto, Places, Call, Idle
    <2>2. ASSUME NEW p \in {"observe", "claim"}, Goto(w, p) PROVE JournalInv'
      BY <1>3, <1>t, <1>m, <2>2 DEF Read, Goto, Places, Call
    <2>3. CASE /\ row.owner # NoOwner /\ ~row.lease
               /\ call' = [call EXCEPT ![w] = [Moved(@, "displace") EXCEPT !.incumbent = row.owner]]
      BY <1>3, <1>t, <1>m, <2>3 DEF Read, Places, Call, Row, Tokens
    <2> QED BY <1>3, <2>1, <2>2, <2>3 DEF Read
  <1>4. ASSUME NEW w \in Workers, Displace(w) PROVE JournalInv'
    BY <1>4, <1>t, <1>m, JournalAssumption, SMTT(30) DEF Displace, Goto, Places, Call, Row, Tokens, Idle, Disowned, Committed, Reports
  <1>5. ASSUME NEW w \in Workers, Watch(w) PROVE JournalInv'
    BY <1>5, <1>t, <1>m, JournalAssumption, SMTT(30) DEF Watch, Goto, Places, Call, Row, Tokens, Idle, Disowned, Committed, Reports
  <1>6. ASSUME NEW w \in Workers, NEW o \in Reports, Reconcile(w, o) PROVE JournalInv'
    BY <1>6, <1>t, <1>m, JournalAssumption, SMTT(30) DEF Reconcile, Goto, Places, Call, Row, Tokens, Idle, Disowned, Committed, Reports
  <1>7. ASSUME NEW w \in Workers, CannotReconcile(w) PROVE JournalInv'
    BY <1>7, <1>t, <1>m, JournalAssumption, SMTT(30) DEF CannotReconcile, Goto, Places, Call, Row, Tokens, Idle, Disowned, Committed, Reports
  <1>8. ASSUME NEW w \in Workers, MarkObservation(w) PROVE JournalInv'
    <2>1. /\ row'.owner = row.owner /\ row'.lease = row.lease /\ row'.attempts = row.attempts
          /\ row'.result = row.result /\ row'.digest = row.digest
          /\ UNCHANGED <<transit, applied, claims, lapsed, reopened>>
          /\ row.state # "absent" /\ row'.state # "absent"
          /\ row'.state = "committed" <=> row.state = "committed"
      BY <1>8 DEF MarkObservation, Row, RowStates
    <2>p. call[w].at \in {"record", "note"}
      BY <1>8 DEF MarkObservation
    <2>2. CASE Goto(w, "idle")
      BY <1>t, <1>m, <2>1, <2>p, <2>2 DEF Goto, Places, Call, Idle
    <2>3. CASE Goto(w, "adopt") /\ call[w].saw.status = "committed"
      BY <1>t, <1>m, <2>1, <2>p, <2>3 DEF Goto, Places, Call
    <2>4. CASE Goto(w, "claim") /\ call[w].at = "record"
      BY <1>t, <1>m, <2>1, <2>p, <2>4 DEF Goto, Places, Call
    <2> QED BY <1>8, <2>2, <2>3, <2>4 DEF MarkObservation
  <1>9. ASSUME NEW w \in Workers, Adopt(w) PROVE JournalInv'
    BY <1>9, <1>t, <1>m, JournalAssumption, SMTT(30) DEF Adopt, Goto, Places, Call, Row, Tokens, Idle, Disowned, Committed, Reports
  <1>10. ASSUME NEW w \in Workers, ReadForClaim(w) PROVE JournalInv'
    <2>1. CASE Goto(w, "idle")
      BY <1>10, <1>t, <1>m, <2>1 DEF ReadForClaim, Goto, Places, Call, Idle
    <2>2. CASE Goto(w, "exhaust")
      BY <1>10, <1>t, <1>m, <2>2 DEF ReadForClaim, Goto, Places, Call
    <2>3. CASE /\ row.owner # NoOwner /\ ~row.lease
               /\ call' = [call EXCEPT ![w] = [Moved(@, "expire") EXCEPT !.incumbent = row.owner]]
      BY <1>10, <1>t, <1>m, <2>3 DEF ReadForClaim, Places, Call, Row
    <2>4. CASE /\ row.attempts < MaxAttempts
               /\ call' = [call EXCEPT ![w] = [Moved(@, "take") EXCEPT !.attempts = row.attempts]]
      BY <1>10, <1>t, <1>m, <2>4 DEF ReadForClaim, Places, Call, Row
    <2> QED BY <1>10, <2>1, <2>2, <2>3, <2>4 DEF ReadForClaim
  <1>10a. ASSUME NEW w \in Workers, ExpireClaim(w) PROVE JournalInv'
    BY <1>10a, <1>t, <1>m, JournalAssumption, SMTT(30) DEF ExpireClaim, Goto, Places, Call, Row, Tokens, Idle
  <1>10b. ASSUME NEW w \in Workers, ClaimLost(w) PROVE JournalInv'
    BY <1>10b, <1>t, <1>m, JournalAssumption, SMTT(30) DEF ClaimLost, Goto, Places, Call, Row, Tokens, Idle
  <1>10c. ASSUME NEW w \in Workers, ExhaustClaim(w) PROVE JournalInv'
    <2>1. /\ row'.owner = row.owner /\ row'.lease = row.lease /\ row'.attempts = row.attempts
          /\ row'.result = row.result /\ row'.digest = row.digest /\ row'.state = "exhausted"
          /\ UNCHANGED <<transit, applied, claims, lapsed>>
      BY <1>10c DEF ExhaustClaim, Row
    <2>2. row.result # NoResult => reopened'
      BY <1>10c DEF ExhaustClaim
    <2>3. RowInv'
      BY <1>10c, <2>1, <2>2 DEF ExhaustClaim
    <2>4. call[w].at = "exhaust" /\ Goto(w, "idle")
      BY <1>10c DEF ExhaustClaim
    <2>5. call' = [call EXCEPT ![w] = Idle]
      BY <2>4 DEF Goto, Moved
    <2>6. \A v \in Workers : CallInv(v)'
      BY <2>1, <2>4, <2>5 DEF Idle
    <2>7. OneIntentPerKey' /\ OwnClaims'
      BY <2>1, <2>4, <2>5 DEF Idle
    <2> QED BY <1>t, <2>3, <2>6, <2>7
  <1>11. ASSUME NEW w \in Workers, StartAttempt(w) PROVE JournalInv'
    BY <1>11, <1>t, <1>m, JournalAssumption, SMTT(60) DEF StartAttempt, Claimed, Goto, Places, Call, Row, Tokens, Idle
  <1>12. ASSUME NEW w \in Workers, CallReturns(w) PROVE JournalInv'
    BY <1>12, <1>t, <1>m, JournalAssumption, SMTT(30) DEF CallReturns, Goto, Places, Call, Row, Tokens, Idle, Disowned, Committed, Reports
  <1>13. ASSUME NEW w \in Workers, CallRaises(w) PROVE JournalInv'
    BY <1>13, <1>t, <1>m, JournalAssumption, SMTT(30) DEF CallRaises, Goto, Places, Call, Row, Tokens, Idle, Disowned, Committed, Reports
  <1>14. ASSUME NEW w \in Workers, Dies(w) PROVE JournalInv'
    BY <1>14, <1>t, <1>m, JournalAssumption, SMTT(30) DEF Dies, Goto, Places, Call, Row, Tokens, Idle, Disowned, Committed, Reports
  <1>15. ASSUME NEW w \in Workers, MarkInDoubt(w) PROVE JournalInv'
    BY <1>15, <1>t, <1>m, JournalAssumption, SMTT(30) DEF MarkInDoubt, Goto, Places, Call, Row, Tokens, Idle, Disowned, Committed, Reports
  <1>16. ASSUME NEW w \in Workers, Commit(w) PROVE JournalInv'
    BY <1>16, <1>t, <1>m, JournalAssumption, SMTT(30) DEF Commit, Goto, Places, Call, Row, Tokens, Idle, Disowned, Committed, Reports
  <1>17. ASSUME NEW a \in transit, Apply(a) PROVE JournalInv'
    BY <1>17, <1>t DEF Apply
  <1>18. ASSUME NEW a \in transit, Lose(a) PROVE JournalInv'
    BY <1>18, <1>t DEF Lose
  <1>19. ASSUME LeaseExpires PROVE JournalInv'
    BY <1>19, <1>t DEF LeaseExpires, Row
  <1>20. CASE UNCHANGED journalVars
    BY <1>20 DEF journalVars
  <1> QED
    BY <1>1, <1>2, <1>3, <1>4, <1>5, <1>6, <1>7, <1>8, <1>9, <1>10, <1>10a, <1>10b, <1>10c, <1>11, <1>12, <1>13, <1>14, <1>15, <1>16, <1>17, <1>18, <1>19, <1>20, Zenon DEF Next, Work

\* The inductive invariant holds in every reachable state of the journal.
THEOREM JournalCorrect == Spec => []JournalInv
  BY JournalInit, JournalNext, PTL DEF Spec

\* execute never sends a request for content other than the one its key is bound
\* to, and two provider calls overlap only once one of them has outlived its lease
\* or a receipt is stored, in however many processes they run.
THEOREM ExclusiveAttempts == Spec => [](OneIntentPerKey /\ CallsOverlapOnlyInDoubt)
  <1>1. JournalInv => OneIntentPerKey /\ CallsOverlapOnlyInDoubt
    BY DEF JournalInv, CallInv, OwnClaims, CallsOverlapOnlyInDoubt
  <1> QED
    BY <1>1, JournalCorrect, PTL

\* The journal implements the receipt: commit, with or without an owner, writes a
\* result the provider applied, and writes it once as long as no other process
\* declares the committed row exhausted.
THEOREM ReceiptRefinement == Spec => ReceiptWrittenOnce
  <1>1. Init => Promise!Init
    BY DEF Init, Promise!Init, Promise!NoReceipt
  <1>2. JournalInv /\ [Next]_journalVars => [Promise!Next]_<<applied, row.result, reopened>>
    <2> SUFFICES ASSUME JournalInv, [Next]_journalVars
                 PROVE  Promise!Next \/ UNCHANGED <<applied, row.result, reopened>>
      OBVIOUS
    <2> USE DEF JournalInv, TypeOK
    <2>1. ASSUME NEW w \in Workers, Adopt(w)
          PROVE  Promise!Next \/ UNCHANGED <<applied, row.result, reopened>>
      <3>1. CASE row.state = "committed"
        BY <2>1, <3>1 DEF Adopt, history
      <3>2. CASE row.state # "committed"
        <4>1. (row.result = NoResult \/ reopened) /\ call[w].saw.result \in applied
          BY <2>1, <3>2 DEF Adopt, RowInv, CallInv
        <4>2. row'.result = call[w].saw.result /\ UNCHANGED <<applied, reopened>>
          BY <2>1, <3>2 DEF Adopt, history, Committed, Disowned, Row
        <4> QED
          BY <4>1, <4>2 DEF Promise!Next, Promise!Record, Promise!NoReceipt
      <3> QED
        BY <3>1, <3>2
    <2>2. ASSUME NEW w \in Workers, Commit(w)
          PROVE  Promise!Next \/ UNCHANGED <<applied, row.result, reopened>>
      <3>1. CASE row.state = "committed" \/ row.owner # call[w].mine
        BY <2>2, <3>1 DEF Commit, history
      <3>2. CASE row.state # "committed" /\ row.owner = call[w].mine
        <4>1. (row.result = NoResult \/ reopened) /\ call[w].mine \in applied
          BY <2>2, <3>2 DEF Commit, RowInv, CallInv
        <4>2. row'.result = call[w].mine /\ UNCHANGED <<applied, reopened>>
          BY <2>2, <3>2 DEF Commit, history, Committed, Disowned, Row
        <4> QED
          BY <4>1, <4>2 DEF Promise!Next, Promise!Record, Promise!NoReceipt
      <3> QED
        BY <3>1, <3>2
    <2>3. ASSUME NEW a \in transit, Apply(a)
          PROVE  Promise!Next
      BY <2>3 DEF Apply, history, Promise!Next, Promise!Apply
    <2>4. ASSUME NEW w \in Workers,
                 \/ Enter(w) \/ Begin(w) \/ Displace(w) \/ Watch(w) \/ CannotReconcile(w)
                 \/ MarkObservation(w) \/ ReadForClaim(w) \/ ExpireClaim(w) \/ ClaimLost(w) \/ StartAttempt(w) \/ CallReturns(w)
                 \/ CallRaises(w) \/ Dies(w) \/ MarkInDoubt(w)
                 \/ \E f \in BOOLEAN : Read(w, f)
                 \/ \E o \in Reports : Reconcile(w, o)
          PROVE  UNCHANGED <<applied, row.result, reopened>>
      BY <2>4 DEF Enter, Begin, Displace, Watch, CannotReconcile, MarkObservation, ReadForClaim, ExpireClaim,
         ClaimLost, StartAttempt, Claimed, history, CallReturns, CallRaises, Dies, MarkInDoubt, Read, Reconcile, Disowned, Row
    <2>5. ASSUME LeaseExpires \/ (\E a \in transit : Lose(a)) \/ UNCHANGED journalVars
          PROVE  UNCHANGED <<applied, row.result, reopened>>
      BY <2>5 DEF LeaseExpires, Lose, journalVars, history, Row
    <2>6. ASSUME NEW w \in Workers, ExhaustClaim(w)
          PROVE  Promise!Next \/ UNCHANGED <<applied, row.result, reopened>>
      <3>1. UNCHANGED <<applied, row.result>>
        BY <2>6 DEF ExhaustClaim, Row
      <3>2. CASE row.state = "committed"
        <4>1. row.result # NoResult /\ reopened' = TRUE
          BY <2>6, <3>2 DEF ExhaustClaim, RowInv
        <4> QED
          BY <3>1, <4>1 DEF Promise!Next, Promise!Reopen, Promise!NoReceipt
      <3>3. CASE row.state # "committed"
        BY <2>6, <3>1, <3>3 DEF ExhaustClaim
      <3> QED
        BY <3>2, <3>3
    <2> QED
      BY <2>1, <2>2, <2>3, <2>4, <2>5, <2>6, Zenon DEF Next, Work
  <1> QED
    BY <1>1, <1>2, JournalCorrect, PTL DEF Spec, ReceiptWrittenOnce, Promise!Spec

\* start_attempt and mark_in_doubt together never take the row from an owner whose
\* lease runs: a follower acts on the owner it read, whose lease never comes back.
THEOREM OwnerSafe == Spec => LiveOwnerKept
  <1> DEFINE Kept == (row.owner # NoOwner /\ row.lease /\ row'.owner # row.owner) =>
               \/ row'.state = "committed"
               \/ \E w \in Workers : call[w].mine = row.owner /\ call[w].at = "doubt" /\ call'[w].at = "idle"
  <1>1. JournalInv /\ [Next]_journalVars => [Kept]_journalVars
    <2> SUFFICES ASSUME JournalInv, Next, row.owner # NoOwner, row.lease, row'.owner # row.owner
                 PROVE  \/ row'.state = "committed"
                        \/ \E w \in Workers : call[w].mine = row.owner /\ call[w].at = "doubt"
                                              /\ call'[w].at = "idle"
      OBVIOUS
    <2> USE DEF JournalInv, TypeOK
    <2>1. ASSUME NEW w \in Workers, Displace(w) PROVE FALSE
      BY <2>1 DEF Displace, CallInv, RowInv, Disowned, Row
    <2>2. ASSUME NEW w \in Workers, Adopt(w) \/ Commit(w) PROVE row'.state = "committed"
      BY <2>2 DEF Adopt, Commit, Committed, Disowned, Row
    <2>3. ASSUME NEW w \in Workers, MarkInDoubt(w)
          PROVE  call[w].mine = row.owner /\ call[w].at = "doubt" /\ call'[w].at = "idle"
      BY <2>3 DEF MarkInDoubt, Goto, Moved, Idle
    <2>4. ASSUME NEW w \in Workers,
                 \/ Enter(w) \/ Begin(w) \/ Watch(w) \/ CannotReconcile(w)
                 \/ MarkObservation(w) \/ ReadForClaim(w) \/ ExpireClaim(w) \/ ClaimLost(w) \/ ExhaustClaim(w) \/ StartAttempt(w) \/ CallReturns(w)
                 \/ CallRaises(w) \/ Dies(w)
                 \/ \E f \in BOOLEAN : Read(w, f)
                 \/ \E o \in Reports : Reconcile(w, o)
          PROVE  FALSE
      BY <2>4 DEF Enter, Begin, Watch, CannotReconcile, MarkObservation, ReadForClaim, ExpireClaim,
         ClaimLost, ExhaustClaim, StartAttempt, Claimed, CallReturns, CallRaises, Dies, Read, Reconcile, Row
    <2>5. ASSUME LeaseExpires \/ \E a \in transit : Apply(a) \/ Lose(a) PROVE FALSE
      BY <2>5 DEF LeaseExpires, Apply, Lose, Row
    <2> QED
      BY <2>1, <2>2, <2>3, <2>4, <2>5, Zenon DEF Next, Work
  <1> QED
    BY <1>1, JournalCorrect, PTL DEF Spec, LiveOwnerKept

\* Within one process: the lock is held by one worker, and what it read is what the
\* row still says.
LockInv ==
  OneJournal =>
    /\ ~reopened
    /\ claims = row.attempts
    /\ \A w, v \in Workers : (call[w].at \in Locked /\ call[v].at \in Locked) => w = v
    /\ \A w \in Workers : call[w].at \in {"exhaust", "take"} => row.state # "committed"
    /\ \A w \in Workers : call[w].at = "take" => call[w].attempts = row.attempts

\* The RLock keeps LockInv: a method that waits for it runs when nobody holds it.
LEMMA LockNext == JournalInv /\ LockInv /\ [Next]_journalVars => LockInv'
  <1> SUFFICES ASSUME JournalInv, LockInv, [Next]_journalVars, OneJournal
               PROVE  /\ ~reopened'
                      /\ claims' = row'.attempts
                      /\ \A w, v \in Workers : (call'[w].at \in Locked /\ call'[v].at \in Locked) => w = v
                      /\ \A w \in Workers : call'[w].at \in {"exhaust", "take"} => row'.state # "committed"
                      /\ \A w \in Workers : call'[w].at = "take" => call'[w].attempts = row'.attempts
    BY DEF LockInv, OneJournal
  <1> DEFINE Kept == /\ ~reopened'
                     /\ claims' = row'.attempts
                     /\ \A w, v \in Workers : (call'[w].at \in Locked /\ call'[v].at \in Locked) => w = v
                     /\ \A w \in Workers : call'[w].at \in {"exhaust", "take"} => row'.state # "committed"
                     /\ \A w \in Workers : call'[w].at = "take" => call'[w].attempts = row'.attempts
  <1>i. /\ ~reopened /\ claims = row.attempts
        /\ \A w, v \in Workers : (call[w].at \in Locked /\ call[v].at \in Locked) => w = v
        /\ \A w \in Workers : call[w].at \in {"exhaust", "take"} => row.state # "committed"
        /\ \A w \in Workers : call[w].at = "take" => call[w].attempts = row.attempts
    BY DEF LockInv
  <1>t. row \in Row /\ call \in [Workers -> Call]
    BY DEF JournalInv, TypeOK
  <1>f. \A w \in Workers : LockFree(w) => \A v \in Workers \ {w} : call[v].at \notin Locked
    BY DEF LockFree, OneJournal
  <1>m. \A c \in Call, p \in Places : Moved(c, p).at = p
    BY MovedType
  <1>k. ASSUME NEW w \in Workers, \A v \in Workers \ {w} : call[v].at \notin Locked, call[w].at \notin Locked \/ call'[w].at \notin Locked,
               \A v \in Workers \ {w} : call'[v] = call[v], call'[w].at \notin Locked,
               UNCHANGED <<claims, reopened, row.attempts>>
        PROVE  Kept
    BY <1>i, <1>k DEF Locked
  <1>g. ASSUME NEW w \in Workers, NEW p \in Places, Goto(w, p)
        PROVE  call'[w].at = p /\ \A v \in Workers \ {w} : call'[v] = call[v]
    BY <1>g, <1>t, <1>m DEF Goto
  <1>1. ASSUME NEW w \in Workers, Enter(w) PROVE Kept
    BY <1>1, <1>f, <1>k, <1>t, <1>m DEF Enter, history, Locked, Places, Call
  <1>2. ASSUME NEW w \in Workers, Begin(w) PROVE Kept
    <2>1. \E p \in {"read", "idle"} : Goto(w, p)
      BY <1>2 DEF Begin
    <2>2. row'.attempts = row.attempts
      BY <1>2, <1>t DEF Begin, Row
    <2> QED BY <1>2, <1>f, <1>g, <1>k, <2>1, <2>2 DEF Begin, history, Locked, Places
  <1>3. ASSUME NEW w \in Workers, NEW o \in BOOLEAN, Read(w, o) PROVE Kept
    <2>1. call'[w].at \in {"idle", "displace", "observe", "claim"} /\ \A v \in Workers \ {w} : call'[v] = call[v]
      <3>1. CASE \E p \in {"idle", "observe", "claim"} : Goto(w, p)
        BY <1>g, <3>1 DEF Places
      <3>2. CASE call' = [call EXCEPT ![w] = [Moved(@, "displace") EXCEPT !.incumbent = row.owner]]
        <4>1. Moved(call[w], "displace") \in Call /\ Moved(call[w], "displace").at = "displace"
          BY <1>t, MovedType DEF Places
        <4> QED BY <1>t, <3>2, <4>1 DEF Call
      <3> QED BY <1>3, <3>1, <3>2 DEF Read
    <2> QED BY <1>3, <1>f, <1>k, <2>1 DEF Read, history, Locked
  <1>4. ASSUME NEW w \in Workers, Displace(w) PROVE Kept
    <2>1. call'[w].at = "observe" /\ \A v \in Workers \ {w} : call'[v] = call[v]
      BY <1>4, <1>t, <1>m DEF Displace, Places, Call
    <2>2. row'.attempts = row.attempts
      BY <1>4, <1>t DEF Displace, Disowned, Row
    <2> QED BY <1>4, <1>f, <1>k, <2>1, <2>2 DEF Displace, history, Locked
  <1>5. ASSUME NEW w \in Workers, Watch(w) PROVE Kept
    BY <1>5, <1>f, <1>g, <1>k DEF Watch, history, Locked, Places
  <1>6. ASSUME NEW w \in Workers, MarkObservation(w) \/ Adopt(w) \/ MarkInDoubt(w) \/ Commit(w) PROVE Kept
    <2>1. \E p \in {"adopt", "claim", "idle"} : Goto(w, p)
      BY <1>6 DEF MarkObservation, Adopt, MarkInDoubt, Commit
    <2>2. row'.attempts = row.attempts
      BY <1>6, <1>t DEF MarkObservation, Adopt, MarkInDoubt, Commit, Committed, Disowned, Row
    <2>3. LockFree(w) /\ UNCHANGED <<claims, reopened>>
      BY <1>6 DEF MarkObservation, Adopt, MarkInDoubt, Commit, history
    <2> QED BY <1>f, <1>g, <1>k, <2>1, <2>2, <2>3 DEF Locked, Places
  <1>7. ASSUME NEW w \in Workers, ExpireClaim(w) \/ ClaimLost(w) PROVE Kept
    <2>1. call[w].at \in Locked /\ Goto(w, "idle") /\ UNCHANGED <<claims, reopened>>
      BY <1>7 DEF ExpireClaim, ClaimLost, Locked, history
    <2>2. row'.attempts = row.attempts
      BY <1>7, <1>t DEF ExpireClaim, ClaimLost, Row
    <2> QED BY <1>i, <1>g, <1>k, <2>1, <2>2 DEF Locked, Places
  <1>8. ASSUME NEW w \in Workers, ExhaustClaim(w) PROVE Kept
    <2>1. call[w].at \in Locked /\ Goto(w, "idle") /\ claims' = claims
      BY <1>8 DEF ExhaustClaim, Locked
    <2>2. row'.attempts = row.attempts
      BY <1>8, <1>t DEF ExhaustClaim, Row
    <2>3. reopened' = reopened
      BY <1>8, <1>i DEF ExhaustClaim, JournalInv, TypeOK
    <2> QED BY <1>i, <1>g, <1>k, <2>1, <2>2, <2>3 DEF Locked, Places
  <1>9. ASSUME NEW w \in Workers, StartAttempt(w) PROVE Kept
    <2>1. call[w].at = "take" /\ call'[w].at = "call" /\ \A v \in Workers \ {w} : call'[v] = call[v]
      BY <1>9, <1>t, <1>m DEF StartAttempt, Places, Call
    <2>2. row'.attempts = row.attempts + 1 /\ claims' = claims + 1 /\ reopened' = reopened
      BY <1>9, <1>t, <1>i DEF StartAttempt, Claimed, Row
    <2>3. \A v \in Workers \ {w} : call[v].at \notin Locked
      BY <1>i, <2>1 DEF Locked
    <2> QED BY <1>i, <2>1, <2>2, <2>3 DEF Locked
  <1>10. ASSUME NEW w \in Workers, ReadForClaim(w) PROVE Kept
    <2>1. \A v \in Workers \ {w} : call[v].at \notin Locked
      BY <1>10, <1>f DEF ReadForClaim
    <2>2. UNCHANGED <<row, claims, reopened>>
      BY <1>10 DEF ReadForClaim, history
    <2>3. CASE Goto(w, "idle")
      BY <1>i, <1>g, <2>1, <2>2, <2>3 DEF Locked, Places
    <2>4. CASE row.state # "committed" /\ Goto(w, "exhaust")
      BY <1>i, <1>g, <2>1, <2>2, <2>4 DEF Locked, Places
    <2>5. CASE call' = [call EXCEPT ![w] = [Moved(@, "expire") EXCEPT !.incumbent = row.owner]]
      <3>1. call'[w].at = "expire" /\ \A v \in Workers \ {w} : call'[v] = call[v]
        BY <1>t, <1>m, <2>5 DEF Places, Call
      <3> QED BY <1>i, <2>1, <2>2, <3>1 DEF Locked
    <2>6. CASE /\ row.state # "committed"
               /\ call' = [call EXCEPT ![w] = [Moved(@, "take") EXCEPT !.attempts = row.attempts]]
      <3>1. call'[w].at = "take" /\ call'[w].attempts = row.attempts /\ \A v \in Workers \ {w} : call'[v] = call[v]
        <4>1. Moved(call[w], "take") \in Call /\ Moved(call[w], "take").at = "take"
          BY <1>t, MovedType DEF Places
        <4> QED BY <1>t, <2>6, <4>1 DEF Call
      <3> QED BY <1>i, <2>1, <2>2, <2>6, <3>1 DEF Locked
    <2> QED BY <1>10, <2>3, <2>4, <2>5, <2>6 DEF ReadForClaim
  <1>h. ASSUME NEW w \in Workers, call'[w].at \notin Locked, \A v \in Workers \ {w} : call'[v] = call[v],
               UNCHANGED <<row, claims, reopened>>
        PROVE  Kept
    BY <1>i, <1>h DEF Locked
  <1>11. ASSUME NEW w \in Workers, NEW o \in Reports, Reconcile(w, o) PROVE Kept
    <2>1. call'[w].at \in {"record", "note"} /\ \A v \in Workers \ {w} : call'[v] = call[v]
      <3>1. \A p \in {"record", "note"} : Moved(call[w], p) \in Call /\ Moved(call[w], p).at = p
        BY <1>t, MovedType DEF Places
      <3> QED BY <1>11, <1>t, <3>1 DEF Reconcile, Call
    <2> QED BY <1>11, <1>h, <2>1 DEF Reconcile, history, Locked
  <1>12. ASSUME NEW w \in Workers, CannotReconcile(w) \/ CallReturns(w) \/ CallRaises(w) \/ Dies(w) PROVE Kept
    BY <1>12, <1>g, <1>h DEF CannotReconcile, CallReturns, CallRaises, Dies, history, Locked, Places
  <1>13. ASSUME LeaseExpires \/ \E a \in transit : Apply(a) \/ Lose(a) PROVE Kept
    <2>1. UNCHANGED <<call, claims, reopened>> /\ row'.attempts = row.attempts /\ row'.state = row.state
      BY <1>13, <1>t DEF LeaseExpires, Apply, Lose, history, Row
    <2> QED BY <1>i, <2>1
  <1>14. CASE UNCHANGED journalVars
    BY <1>i, <1>14 DEF journalVars
  <1> QED
    BY <1>1, <1>2, <1>3, <1>4, <1>5, <1>6, <1>7, <1>8, <1>9, <1>10, <1>11, <1>12, <1>13, <1>14, Zenon DEF Next, Work

\* With one backend process the claim of start_attempt is atomic: no committed row is
\* ever declared exhausted, so the receipt is written once, and the provider is asked
\* at most max_attempts times.
THEOREM OneProcessSound == Spec => []OneProcessKeepsBudget
  <1>1. Init => LockInv
    BY DEF Init, LockInv, Locked, Idle
  <1>2. JournalInv /\ LockInv => OneProcessKeepsBudget
    BY JournalAssumption DEF JournalInv, TypeOK, LockInv, OneProcessKeepsBudget, Row
  <1> QED
    BY <1>1, <1>2, JournalCorrect, LockNext, PTL DEF Spec

=============================================================================
