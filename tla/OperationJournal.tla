-------------------------- MODULE OperationJournal --------------------------
(***************************************************************************)
(* swfactory/idempotency.py: one row of the operation journal, the workers *)
(* that execute the external effect it stands for, and the provider.       *)
(*                                                                         *)
(* A worker is a thread of any backend process that calls                  *)
(* OperationJournal.execute (or observe) for the same operation key; a     *)
(* process has one journal object, whose RLock its threads share.  The     *)
(* connection opens a transaction at its first write, so a method's SELECT *)
(* is outside of it.  begin writes first, and the UPDATE of the other      *)
(* methods repeats the conditions they read, so each of them is one step;  *)
(* start_attempt acts on what it read, and is two: the SELECT and, with    *)
(* the RLock still held, the UPDATE.  Between two steps, and during the    *)
(* provider call, other workers run.  A worker may die between any two     *)
(* steps.  Rows of different keys never meet in one statement, so one key  *)
(* is enough.                                                              *)
(*                                                                         *)
(* The provider is external: a request may be applied late, after its      *)
(* sender has given up or died, or never.  A reconciler reads what the     *)
(* provider has applied so far, or fails to find out.                      *)
(*                                                                         *)
(* Left out: next_attempt_at (a display of the backoff that execute never  *)
(* reads) and the legacy columns that are NULL in rows of older versions.  *)
(***************************************************************************)
EXTENDS Naturals

CONSTANTS
  Workers,
  Journals,       \* journal objects: backend processes
  JournalOf,      \* [Workers -> Journals]: the process a worker is a thread of
  Digests,        \* request contents
  Digest,         \* [Workers -> Digests]: the content each worker asks for under the key
  ReplaySafe,     \* the caller marks the operation replay-safe
  Reconcilers,    \* the workers that pass a reconciler
  MaxAttempts,    \* RetryBudget.max_attempts
  MaxClaims       \* bound: attempts ever claimed, by all processes together

ASSUME JournalAssumption ==
  /\ Digest \in [Workers -> Digests] /\ JournalOf \in [Workers -> Journals]
  /\ ReplaySafe \in BOOLEAN /\ Reconcilers \subseteq Workers
  /\ MaxAttempts \in Nat \ {0} /\ MaxClaims \in Nat

VARIABLES
  row,        \* the durable row
  call,       \* call[w]: the local variables of w's call of execute or observe
  transit,    \* requests on their way to the provider, by the token of their claim
  applied,    \* requests the provider applied
  claims,     \* claims made so far: the source of fresh owner tokens (uuid4)
  lapsed,     \* history: claims whose lease ran out before they gave the row back
  reopened    \* history: a committed row was declared exhausted

journalVars == <<row, call, transit, applied, claims, lapsed, reopened>>
history     == <<claims, lapsed, reopened>>

NoOwner  == 0
NoResult == 0
NoDigest == "none"
Tokens   == 1 .. MaxClaims
RowStates == {"absent", "intent", "in_doubt", "reconciling", "committed", "exhausted", "refused"}
Statuses  == {"committed", "definitely_absent", "ambiguous", "divergent", "refused"}
Places    == {"idle", "begin", "read", "displace", "observe", "watch", "record", "note", "adopt",
              "claim", "expire", "exhaust", "take", "call", "doubt", "commit"}

\* The places in the middle of start_attempt, with the journal's RLock held.
Locked == {"expire", "exhaust", "take"}

\* A journal method waits until no other thread of its process is in another one.
LockFree(w) == \A v \in Workers \ {w} : JournalOf[v] = JournalOf[w] => call[v].at \notin Locked

Row == [state : RowStates, owner : {NoOwner} \cup Tokens, lease : BOOLEAN,
        attempts : 0 .. MaxAttempts, result : {NoResult} \cup Tokens,
        digest : Digests \cup {NoDigest}]

Outcome == [status : Statuses, result : {NoResult} \cup Tokens]

Call == [at        : Places,                   \* where the worker is
         existed   : BOOLEAN,                  \* the first read found the row
         incumbent : {NoOwner} \cup Tokens,    \* the expired owner a read found
         attempts  : 0 .. MaxAttempts,         \* the counter start_attempt read
         saw       : Outcome,                  \* what the reconciler returned
         mine      : {NoOwner} \cup Tokens]    \* the owner token of its claim

Idle == [at |-> "idle", existed |-> FALSE, incumbent |-> NoOwner, attempts |-> 0,
         saw |-> [status |-> "ambiguous", result |-> NoResult], mine |-> NoOwner]

-----------------------------------------------------------------------------

\* _migrate: the table exists, the key does not.
Init ==
  /\ row = [state |-> "absent", owner |-> NoOwner, lease |-> FALSE, attempts |-> 0,
            result |-> NoResult, digest |-> NoDigest]
  /\ call = [w \in Workers |-> Idle]
  /\ transit = {}
  /\ applied = {}
  /\ claims = 0 /\ lapsed = {} /\ reopened = FALSE

\* Leaving a call, by return or exception, drops its local variables.
Moved(c, place) == IF place = "idle" THEN Idle ELSE [c EXCEPT !.at = place]

Goto(w, place) == call' = [call EXCEPT ![w] = Moved(@, place)]

\* The reservation columns of a row nobody owns.
Disowned(r) == [r EXCEPT !.owner = NoOwner, !.lease = FALSE]

-----------------------------------------------------------------------------
(* execute, up to the claim.                                               *)

\* The first get, outside any transaction; a row bound to other content raises.
Enter(w) ==
  /\ call[w].at = "idle" /\ LockFree(w)
  /\ row.state # "absent" => row.digest = Digest[w]
  /\ call' = [call EXCEPT ![w] = [Moved(@, "begin") EXCEPT !.existed = row.state # "absent"]]
  /\ UNCHANGED <<row, transit, applied, history>>

\* begin: INSERT OR IGNORE, then _assert_identity on whatever row is stored.
Begin(w) ==
  /\ call[w].at = "begin" /\ LockFree(w)
  /\ IF row.state = "absent"
       THEN row' = [row EXCEPT !.state = "intent", !.digest = Digest[w]]
       ELSE UNCHANGED row
  /\ Goto(w, IF row'.digest = Digest[w] THEN "read" ELSE "idle")
  /\ UNCHANGED <<transit, applied, history>>

\* The second get decides: replay, wait for the owner, displace an expired
\* one, look at the provider first, or go straight to the claim.
Read(w, observeFirst) ==
  /\ call[w].at = "read" /\ LockFree(w)
  /\ \/ /\ row.state = "committed" \/ (row.owner # NoOwner /\ row.lease)
        /\ Goto(w, "idle")
     \/ /\ row.state # "committed" /\ row.owner # NoOwner /\ ~row.lease
        /\ call' = [call EXCEPT ![w] = [Moved(@, "displace") EXCEPT !.incumbent = row.owner]]
     \/ /\ row.state # "committed" /\ row.owner = NoOwner
        /\ Goto(w, IF call[w].existed \/ observeFirst THEN "observe" ELSE "claim")
  /\ UNCHANGED <<row, transit, applied, history>>

\* mark_in_doubt(owner=incumbent): nothing happens if the owner has changed.
Displace(w) ==
  /\ call[w].at = "displace" /\ LockFree(w)
  /\ row' = IF row.state # "committed" /\ row.owner = call[w].incumbent
              THEN [Disowned(row) EXCEPT !.state = "in_doubt"] ELSE row
  /\ call' = [call EXCEPT ![w] = [Moved(@, "observe") EXCEPT !.existed = TRUE]]
  /\ UNCHANGED <<transit, applied, history>>

-----------------------------------------------------------------------------
(* Looking at the provider.                                                *)

\* observe(): maintenance looks at the provider without meaning to execute.
Watch(w) ==
  /\ call[w].at = "idle" /\ LockFree(w)
  /\ row.state \notin {"absent", "committed"}
  /\ Goto(w, "watch")
  /\ UNCHANGED <<row, transit, applied, history>>

\* What a truthful reconciler may report: the effect it finds, a proof that there
\* is none yet, or that it could not decide.
Reports ==
  {[status |-> "committed", result |-> a] : a \in applied}
    \cup (IF applied = {} THEN {[status |-> "definitely_absent", result |-> NoResult]} ELSE {})
    \cup {[status |-> s, result |-> NoResult] : s \in {"ambiguous", "divergent", "refused"}}

\* reconcile(): a provider read, outside any transaction.
Reconcile(w, outcome) ==
  /\ call[w].at \in {"observe", "watch"}
  /\ outcome \in Reports
  /\ call' = [call EXCEPT ![w] =
                [Moved(@, IF @.at = "observe" THEN "record" ELSE "note") EXCEPT !.saw = outcome]]
  /\ UNCHANGED <<row, transit, applied, history>>

\* execute without a reconciler: raises OperationInDoubt.
CannotReconcile(w) ==
  /\ call[w].at = "observe"
  /\ Goto(w, "idle")
  /\ UNCHANGED <<row, transit, applied, history>>

\* mark_observation, and what execute (record) or observe (note) does next.
MarkObservation(w) ==
  /\ call[w].at \in {"record", "note"} /\ LockFree(w)
  /\ row' = IF row.state = "committed" THEN row
            ELSE [row EXCEPT !.state = IF call[w].saw.status = "refused" THEN "refused" ELSE "reconciling"]
  /\ Goto(w, IF call[w].saw.status = "committed" THEN "adopt"
             ELSE IF call[w].at = "record" /\ call[w].saw.status = "definitely_absent" /\ ReplaySafe THEN "claim"
             ELSE "idle")
  /\ UNCHANGED <<transit, applied, history>>

\* The row a commit leaves behind.
Committed(result) == [Disowned(row) EXCEPT !.state = "committed", !.result = result]

\* Fault: a stored receipt is overwritten by what was observed.
AdoptAgain(w) ==
  /\ call[w].at = "adopt" /\ LockFree(w)
  /\ row' = Committed(call[w].saw.result)
  /\ Goto(w, "idle")
  /\ UNCHANGED <<transit, applied, history>>

\* commit without an owner: the observed effect becomes the receipt.  A receipt
\* that is already there stays; a different one raises.
Adopt(w) ==
  /\ call[w].at = "adopt" /\ LockFree(w)
  /\ row' = IF row.state = "committed" THEN row ELSE Committed(call[w].saw.result)
  /\ Goto(w, "idle")
  /\ UNCHANGED <<transit, applied, history>>

-----------------------------------------------------------------------------
(* The attempt.                                                            *)

\* start_attempt, the SELECT: a committed row or a live owner raises at once; an
\* expired owner, a spent budget and a free row are remembered for the UPDATE.
ReadForClaim(w) ==
  /\ call[w].at = "claim" /\ LockFree(w)
  /\ \/ /\ row.state = "committed" \/ (row.owner # NoOwner /\ row.lease)
        /\ Goto(w, "idle")
     \/ /\ row.state # "committed" /\ row.owner # NoOwner /\ ~row.lease
        /\ call' = [call EXCEPT ![w] = [Moved(@, "expire") EXCEPT !.incumbent = row.owner]]
     \/ /\ row.state # "committed" /\ row.owner = NoOwner /\ row.attempts >= MaxAttempts
        /\ Goto(w, "exhaust")
     \/ /\ row.state # "committed" /\ row.owner = NoOwner /\ row.attempts < MaxAttempts
        /\ call' = [call EXCEPT ![w] = [Moved(@, "take") EXCEPT !.attempts = row.attempts]]
  /\ UNCHANGED <<row, transit, applied, history>>

\* The UPDATE that declares an expired owner in doubt, if it still is the owner.
ExpireClaim(w) ==
  /\ call[w].at = "expire"
  /\ row' = IF row.owner = call[w].incumbent THEN [row EXCEPT !.state = "in_doubt"] ELSE row
  /\ Goto(w, "idle")
  /\ UNCHANGED <<transit, applied, history>>

\* The UPDATE of a spent budget has no condition but the key: whatever another
\* process wrote since the SELECT, the row says exhausted.
ExhaustClaim(w) ==
  /\ call[w].at = "exhaust"
  /\ row' = [row EXCEPT !.state = "exhausted"]
  /\ reopened' = (reopened \/ row.state = "committed")
  /\ Goto(w, "idle")
  /\ UNCHANGED <<transit, applied, claims, lapsed>>

\* The row of a claim, with the counter that was read and a fresh owner.
Claimed(w) == [row EXCEPT !.attempts = call[w].attempts + 1, !.state = "intent", !.owner = claims + 1,
                          !.lease = TRUE]

\* Fault: the UPDATE trusts the SELECT and does not ask for a free row again.
StartAttemptUnguarded(w) ==
  /\ call[w].at = "take" /\ claims < MaxClaims
  /\ row' = Claimed(w)
  /\ call' = [call EXCEPT ![w] = [Moved(@, "call") EXCEPT !.mine = claims + 1]]
  /\ claims' = claims + 1
  /\ transit' = transit \cup {claims + 1}
  /\ UNCHANGED <<applied, lapsed, reopened>>

\* The UPDATE that claims the one live attempt if the row still is free, after
\* which fn sends the request.
StartAttempt(w) ==
  /\ call[w].at = "take" /\ claims < MaxClaims
  /\ row.state # "committed" /\ row.owner = NoOwner
  /\ row' = Claimed(w)
  /\ call' = [call EXCEPT ![w] = [Moved(@, "call") EXCEPT !.mine = claims + 1]]
  /\ claims' = claims + 1
  /\ transit' = transit \cup {claims + 1}
  /\ UNCHANGED <<applied, lapsed, reopened>>

\* rowcount # 1: somebody else's claim or receipt came first.
ClaimLost(w) ==
  /\ call[w].at = "take"
  /\ row.state = "committed" \/ row.owner # NoOwner
  /\ Goto(w, "idle")
  /\ UNCHANGED <<row, transit, applied, history>>

\* fn returns the receipt of an applied request.
CallReturns(w) ==
  /\ call[w].at = "call"
  /\ call[w].mine \in applied
  /\ Goto(w, "commit")
  /\ UNCHANGED <<row, transit, applied, history>>

\* fn raises: a timeout says nothing about the provider.
CallRaises(w) ==
  /\ call[w].at = "call"
  /\ Goto(w, "doubt")
  /\ UNCHANGED <<row, transit, applied, history>>

\* mark_in_doubt(owner) and schedule_retry, then the exception travels on.
MarkInDoubt(w) ==
  /\ call[w].at = "doubt" /\ LockFree(w)
  /\ row' = IF row.state # "committed" /\ row.owner = call[w].mine
              THEN [Disowned(row) EXCEPT !.state = "in_doubt"] ELSE row
  /\ Goto(w, "idle")
  /\ UNCHANGED <<transit, applied, history>>

\* commit(owner): refused when the attempt was displaced, or when a different
\* receipt is stored already.
Commit(w) ==
  /\ call[w].at = "commit" /\ LockFree(w)
  /\ row' = IF row.state # "committed" /\ row.owner = call[w].mine THEN Committed(call[w].mine) ELSE row
  /\ Goto(w, "idle")
  /\ UNCHANGED <<transit, applied, history>>

-----------------------------------------------------------------------------
(* The provider, the clock and process deaths.                             *)

Apply(a) ==
  /\ a \in transit
  /\ transit' = transit \ {a}
  /\ applied' = applied \cup {a}
  /\ UNCHANGED <<row, call, history>>

Lose(a) ==
  /\ a \in transit
  /\ transit' = transit \ {a}
  /\ UNCHANGED <<row, call, applied, history>>

\* attempt_lease_until has passed.
LeaseExpires ==
  /\ row.lease
  /\ row' = [row EXCEPT !.lease = FALSE]
  /\ lapsed' = lapsed \cup {row.owner}
  /\ UNCHANGED <<call, transit, applied, claims, reopened>>

Dies(w) ==
  /\ call[w].at # "idle"
  /\ Goto(w, "idle")
  /\ UNCHANGED <<row, transit, applied, history>>

-----------------------------------------------------------------------------

\* The steps a worker takes by itself.
Work(w) ==
  \/ Enter(w) \/ Begin(w) \/ Displace(w)
  \/ \E observeFirst \in BOOLEAN : Read(w, observeFirst)
  \/ w \in Reconcilers /\ \E outcome \in Reports : Reconcile(w, outcome)
  \/ w \notin Reconcilers /\ CannotReconcile(w)
  \/ MarkObservation(w) \/ Adopt(w)
  \/ ReadForClaim(w) \/ ExpireClaim(w) \/ ExhaustClaim(w) \/ StartAttempt(w) \/ ClaimLost(w)
  \/ CallReturns(w) \/ MarkInDoubt(w) \/ Commit(w)

Next ==
  \/ \E w \in Workers : Work(w) \/ CallRaises(w) \/ Dies(w) \/ (w \in Reconcilers /\ Watch(w))
  \/ \E a \in transit : Apply(a) \/ Lose(a)
  \/ LeaseExpires

Spec == Init /\ [][Next]_journalVars

-----------------------------------------------------------------------------
(* Properties.                                                             *)

TypeOK ==
  /\ row \in Row
  /\ call \in [Workers -> Call]
  /\ transit \subseteq Tokens
  /\ applied \subseteq Tokens
  /\ claims \in 0 .. MaxClaims
  /\ lapsed \subseteq Tokens
  /\ reopened \in BOOLEAN

\* Two workers that race to create the same key with different content: from the
\* second get on, only workers whose content is the one the row is bound to are
\* left, so no request is ever sent for content the receipt does not describe.
OneIntentPerKey ==
  \A w \in Workers :
    call[w].at \in Places \ {"idle", "begin", "watch", "note", "adopt"} => row.digest = Digest[w]

Running == {"call", "doubt", "commit"}

\* execute: "A follower never interprets an in-flight owner's temporary absence
\* from the provider as permission to start another effect."  Two workers, of one
\* process or of two, are in the provider call at once only if one of them has
\* outlived its lease, or if a receipt was stored behind its back.
CallsOverlapOnlyInDoubt ==
  \A w, v \in Workers :
    (w # v /\ call[w].at \in Running /\ call[v].at \in Running) =>
      call[w].mine \in lapsed \/ call[v].mine \in lapsed \/ row.result # NoResult

\* start_attempt's docstring: "An unexpired owner is never displaced".  A live
\* owner loses the row only by its own report or to a committed receipt, whatever
\* a follower, of this process or another, read before.
LiveOwnerKept ==
  [][(row.owner # NoOwner /\ row.lease /\ row'.owner # row.owner) =>
       \/ row'.state = "committed"
       \/ \E w \in Workers : call[w].mine = row.owner /\ call[w].at = "doubt" /\ call'[w].at = "idle"]_journalVars

\* All workers are threads of one process.
OneJournal == \A w, v \in Workers : JournalOf[w] = JournalOf[v]

\* What the RLock is for: within one process no committed row is declared
\* exhausted, and the provider is asked at most max_attempts times.  Two processes
\* break both.
OneProcessKeepsBudget ==
  OneJournal => ~reopened /\ claims <= MaxAttempts

\* The journal implements the promise of module Receipt: the receipt names an
\* effect the provider applied, and it is written once unless a committed row was
\* declared exhausted in between.
Promise == INSTANCE Receipt WITH receipt <- row.result, Attempts <- Tokens
ReceiptWrittenOnce == Promise!Spec

=============================================================================
