----------------------------- MODULE Publication -----------------------------
(***************************************************************************)
(* How a managed Cell changes GitHub: swfactory/core_capabilities.py (the  *)
(* fenced effect), credential_lease.py (the credential), backend/          *)
(* scm_service.py and autonomous_service.py (publish and merge), scm.py    *)
(* (clone, compare-and-swap push, pull request), cells.py (epoch and       *)
(* timeline) and lifecycle_evidence.py (the hash-chained record).          *)
(*                                                                         *)
(* One Cell, its backend with several request threads, the branch of the   *)
(* work on GitHub, and a direct run of another factory instance that works *)
(* the same issue.  A patch is reduced to its content identity, a commit   *)
(* to the content, the instance that made it and a number that stands for  *)
(* its sha.  The interleavings inside the operation journal are those of   *)
(* OperationJournal; here one execute reads its row in one step.           *)
(***************************************************************************)
EXTENDS Integers, Sequences, FiniteSets, SequencesExt

CONSTANTS
  Requests,      \* request threads of the backend
  Patches,       \* contents a delivery may publish
  MaxEpoch,      \* bound on the activations of the Cell
  MaxTries,      \* RetryBudget.max_attempts
  MaxStarts,     \* bound on the calls
  MaxEvents      \* bound on what others do to the branch and its pull request, and on crashes

ASSUME PublicationAssumption ==
  /\ "autonomous_merge" \notin Patches
  /\ MaxEpoch \in Nat \ {0} /\ {MaxTries, MaxStarts, MaxEvents} \subseteq Nat

VARIABLES
  cell,        \* the Cell row
  timeline,    \* external_mutation events of the Cell, in order
  rows,        \* operation journal, by operation key
  leases,      \* credential lease of the latest call of each thread
  calls,       \* the thread's call
  ref,         \* the branch on GitHub
  prs,         \* its pull requests
  gates,       \* autonomy store: inputs each gate of an epoch was approved for
  sealed,      \* autonomy store: the publication receipt of an epoch
  chain,       \* evidence/events.jsonl: the position each record took for its predecessor
  dispatcher,  \* activation of the Cell: where, and the tail it read
  rival,       \* the direct run of another instance
  counts       \* bounds

pubVars == <<cell, timeline, rows, leases, calls, ref, prs, gates, sealed, chain, dispatcher, rival, counts>>

NoRef    == [by |-> "nobody", content |-> "none", sha |-> 0]
Epochs   == 1 .. MaxEpoch
Keys     == Patches \cup {"autonomous_merge"}
NoRow    == [state |-> "absent", cell |-> "this", epoch |-> 0, owner |-> "nobody", expired |-> FALSE, attempts |-> 0, sha |-> 0]
NoLease  == [epoch |-> 0, attempt |-> 0, live |-> FALSE]
NoCall   == [at |-> "idle", key |-> "none", epoch |-> 0, goal |-> "none", read |-> 0, saw |-> NoRef, tail |-> 0]
NoSeal   == [content |-> "none", sha |-> 0]

PublicationInit ==
  /\ cell = [epoch |-> 1, state |-> "running", policy |-> TRUE]
  /\ timeline = <<>> /\ rows = [k \in Keys |-> NoRow] /\ leases = [q \in Requests |-> NoLease]
  /\ calls = [q \in Requests |-> NoCall]
  /\ ref = NoRef /\ prs = <<>> /\ chain = <<>>
  /\ gates = [e \in Epochs |-> [intent |-> 0, plan |-> 0]] /\ sealed = [e \in Epochs |-> NoSeal]
  /\ dispatcher = [at |-> "idle", tail |-> 0] /\ rival = [at |-> "idle", saw |-> NoRef]
  /\ counts = [starts |-> 0, events |-> 0]

Goes(q, place) == calls' = [calls EXCEPT ![q].at = place]
Leaves(q)      == calls' = [calls EXCEPT ![q] = NoCall]
Hangs(q)       == leases' = [leases EXCEPT ![q].live = FALSE]

-----------------------------------------------------------------------------
(* What GitHub shows.                                                      *)

OpenPrs    == {i \in DOMAIN prs : prs[i].state = "open"}
Content(i) == IF prs[i].state = "open" THEN ref.content ELSE prs[i].content

\* observe_publication: the open pull request, else a merged, else a closed one, else the bare branch.
\* Simplification: the list of pull requests and the diff (or the branch and its compare) are one read.
Observed ==
  LET Of(s) == {i \in DOMAIN prs : prs[i].state = s}
      Of3   == IF Of("open") # {} THEN Of("open") ELSE IF Of("merged") # {} THEN Of("merged") ELSE Of("closed")
  IN  IF Of3 # {} THEN LET i == CHOOSE j \in Of3 : \A k \in Of3 : k <= j
                       IN [state |-> prs[i].state, content |-> Content(i), base |-> prs[i].base,
                           sha |-> IF prs[i].state = "open" THEN ref.sha ELSE prs[i].sha]
      ELSE IF ref # NoRef THEN [state |-> "branch_only", content |-> ref.content, base |-> "main", sha |-> ref.sha]
      ELSE [state |-> "nothing", content |-> "none", base |-> "main", sha |-> 0]

\* Fault: the branch is the publication.
JudgeBranch(content) ==
  IF Observed.state = "nothing" THEN "definitely_absent"
  ELSE IF Observed.content # content \/ Observed.base # "main" THEN "divergent" ELSE "committed"

\* publish.judge: one verdict from the remote alone.
Judge(content) ==
  IF Observed.state = "nothing" THEN "definitely_absent"
  ELSE IF Observed.content # content \/ Observed.base # "main" THEN "divergent"
  ELSE IF Observed.state = "branch_only" THEN "definitely_absent"
  ELSE "committed"

\* merge.inspect: the pull request still is what was sealed, and nobody objects.
Inspect(epoch) ==
  LET seal == sealed[epoch]
      mine == {i \in DOMAIN prs : prs[i].sha = seal.sha \/ (prs[i].state = "open" /\ ref.sha = seal.sha)}
  IN  IF \E i \in mine : prs[i].state = "merged" THEN "merged"
      ELSE IF \E i \in mine : prs[i].state = "open" /\ prs[i].base = "main" /\ ~prs[i].blocked THEN "ready"
      ELSE "refused"

-----------------------------------------------------------------------------
(* The Cell: activation, policy, binding, end.                             *)

\* CellStore.patch to a terminal state: the leases of the epoch are revoked before the write commits.
End ==
  /\ cell.state = "running"
  /\ cell' = [cell EXCEPT !.state = "ended"]
  /\ leases' = [q \in Requests |-> IF leases[q].epoch = cell.epoch THEN [leases[q] EXCEPT !.live = FALSE] ELSE leases[q]]
  /\ UNCHANGED <<timeline, rows, calls, ref, prs, gates, sealed, chain, dispatcher, rival, counts>>

\* Fault: the new epoch begins with the old leases alive.
ActivateOnly ==
  /\ cell.state = "ended" /\ dispatcher.at = "idle" /\ cell.epoch < MaxEpoch
  /\ cell' = [epoch |-> cell.epoch + 1, state |-> "dispatching", policy |-> FALSE]
  /\ dispatcher' = [at |-> "policy", tail |-> 0]
  /\ UNCHANGED <<timeline, rows, leases, calls, ref, prs, gates, sealed, chain, rival, counts>>

\* CellStore.activate of a finished Cell; its lock keeps every reader of the epoch out meanwhile.
Activate ==
  /\ cell.state = "ended" /\ dispatcher.at = "idle" /\ cell.epoch < MaxEpoch
  /\ cell' = [epoch |-> cell.epoch + 1, state |-> "dispatching", policy |-> FALSE]
  /\ leases' = [q \in Requests |-> IF leases[q].epoch = cell.epoch THEN [leases[q] EXCEPT !.live = FALSE] ELSE leases[q]]
  /\ dispatcher' = [at |-> "policy", tail |-> 0]
  /\ UNCHANGED <<timeline, rows, calls, ref, prs, gates, sealed, chain, rival, counts>>

\* The rest of CoreCapabilityRuntime.activate and bind_airflow: each patch, then its evidence.
Dispatch ==
  /\ dispatcher.at # "idle"
  /\ CASE dispatcher.at = "policy"  -> /\ cell' = [cell EXCEPT !.policy = TRUE]
                                       /\ dispatcher' = [at |-> "policyTail", tail |-> 0] /\ UNCHANGED chain
       [] dispatcher.at \in {"policyTail", "bindTail"} ->
            /\ dispatcher' = [at |-> IF dispatcher.at = "bindTail" THEN "bindWrite" ELSE "policyWrite",
                              tail |-> Len(chain)]
            /\ UNCHANGED <<cell, chain>>
       [] dispatcher.at \in {"policyWrite", "bindWrite"} ->
            /\ chain' = Append(chain, [key |-> dispatcher.at, previous |-> dispatcher.tail])
            /\ dispatcher' = [at |-> IF dispatcher.at = "bindWrite" THEN "idle" ELSE "bind", tail |-> 0]
            /\ UNCHANGED cell
       [] dispatcher.at = "bind" -> /\ cell' = [cell EXCEPT !.state = IF @ = "dispatching" THEN "running" ELSE @]
                                    /\ dispatcher' = [at |-> "bindTail", tail |-> 0] /\ UNCHANGED chain
  /\ UNCHANGED <<timeline, rows, leases, calls, ref, prs, gates, sealed, rival, counts>>

\* approve: a gate of the epoch is answered once; the plan needs the intent of the same inputs.
PolicyGate(gate, inputs) ==
  /\ cell.state = "running" /\ cell.policy
  /\ gates[cell.epoch][gate] = 0
  /\ gate = "plan" => gates[cell.epoch].intent = inputs
  /\ gates' = [gates EXCEPT ![cell.epoch][gate] = inputs]
  /\ UNCHANGED <<cell, timeline, rows, leases, calls, ref, prs, sealed, chain, dispatcher, rival, counts>>

-----------------------------------------------------------------------------
(* One call of publish or merge, up to the credential.                     *)

\* fenced and authority: the Cell is live, at the caller's epoch, with its policy; publish has its gates and
\* contradicts no sealed publication, merge has a sealed one.
Start(q, key) ==
  /\ calls[q].at = "idle" /\ counts.starts < MaxStarts
  /\ cell.state = "running" /\ cell.policy
  /\ IF key = "autonomous_merge" THEN sealed[cell.epoch] # NoSeal /\ Inspect(cell.epoch) # "refused"
     ELSE /\ gates[cell.epoch].intent = 1 /\ gates[cell.epoch].plan = 1
          /\ sealed[cell.epoch].content \in {"none", key}
  /\ calls' = [calls EXCEPT ![q] = [NoCall EXCEPT !.at = "check", !.key = key, !.epoch = cell.epoch]]
  /\ counts' = [counts EXCEPT !.starts = @ + 1]
  /\ UNCHANGED <<cell, timeline, rows, leases, ref, prs, gates, sealed, chain, dispatcher, rival>>

\* execute_external: epoch and policy again; a new effect of a finished Cell is refused, a replay is not.
Check(q) ==
  LET c == calls[q] IN
  /\ c.at = "check"
  /\ IF cell.epoch = c.epoch /\ cell.policy /\ (cell.state # "ended" \/ rows[c.key].state = "committed")
     THEN Goes(q, "execute") ELSE Leaves(q)
  /\ UNCHANGED <<cell, timeline, rows, leases, ref, prs, gates, sealed, chain, dispatcher, rival, counts>>

\* A row belongs to the Cell and the epoch of the first request that used its key.
Binds(row, epoch) == row.cell = "this" /\ row.epoch = epoch

\* OperationJournal.execute up to the first provider call: a row of another epoch is a conflict.
Execute(q) ==
  LET c == calls[q]  r == rows[c.key] IN
  /\ c.at = "execute"
  /\ \/ /\ r.state = "absent"
        /\ rows' = [rows EXCEPT ![c.key] = [NoRow EXCEPT !.state = "intent", !.epoch = c.epoch]]
        /\ Goes(q, "claim")
     \/ /\ r.state # "absent" /\ (~Binds(r, c.epoch) \/ (r.owner # "nobody" /\ ~r.expired /\ r.state # "committed"))
        /\ Leaves(q) /\ UNCHANGED rows
     \/ /\ Binds(r, c.epoch) /\ r.state = "committed"
        /\ Goes(q, "record") /\ UNCHANGED rows
     \/ /\ Binds(r, c.epoch) /\ r.state \in {"intent", "in_doubt"} /\ (r.owner = "nobody" \/ r.expired)
        /\ rows' = [rows EXCEPT ![c.key].state = "in_doubt", ![c.key].owner = "nobody", ![c.key].expired = FALSE]
        /\ calls' = [calls EXCEPT ![q].at = "mint", ![q].goal = "read"]
  /\ UNCHANGED <<cell, timeline, leases, ref, prs, gates, sealed, chain, dispatcher, rival, counts>>

\* start_attempt
Claim(q) ==
  LET c == calls[q]  r == rows[c.key] IN
  /\ c.at = "claim"
  /\ IF r.state # "committed" /\ r.owner = "nobody" /\ r.attempts < MaxTries
     THEN /\ rows' = [rows EXCEPT ![c.key] = [r EXCEPT !.state = "intent", !.owner = q, !.attempts = @ + 1]]
          /\ calls' = [calls EXCEPT ![q].at = "mint", ![q].goal = "write"]
     ELSE Leaves(q) /\ UNCHANGED rows
  /\ UNCHANGED <<cell, timeline, leases, ref, prs, gates, sealed, chain, dispatcher, rival, counts>>

\* What an exception does on its way out: lease revoked; an owned attempt in doubt.
Raise(q) ==
  LET c == calls[q] IN
  /\ Hangs(q) /\ Leaves(q)
  /\ rows' = IF rows[c.key].owner = q /\ rows[c.key].state # "committed"
             THEN [rows EXCEPT ![c.key].owner = "nobody", ![c.key].expired = FALSE, ![c.key].state = "in_doubt"]
             ELSE rows

\* leased: earlier attempts are revoked, then mint reads the epoch of the Cell.
Mint(q) ==
  LET c == calls[q]
      n == IF rows[c.key].attempts = 0 THEN 1 ELSE rows[c.key].attempts IN
  /\ c.at = "mint"
  /\ IF cell.epoch # c.epoch THEN Raise(q)
     ELSE /\ leases' = [p \in Requests |-> IF leases[p].epoch = c.epoch /\ leases[p].attempt < n
                                            THEN [leases[p] EXCEPT !.live = FALSE] ELSE leases[p]]
          /\ Goes(q, "insert") /\ UNCHANGED rows
  /\ UNCHANGED <<cell, timeline, ref, prs, gates, sealed, chain, dispatcher, rival, counts>>

\* mint: the row is written; whatever happened to the Cell since is not looked at.
Insert(q) ==
  LET c == calls[q]
      n == IF rows[c.key].attempts = 0 THEN 1 ELSE rows[c.key].attempts IN
  /\ c.at = "insert"
  /\ leases' = [leases EXCEPT ![q] = [epoch |-> c.epoch, attempt |-> n, live |-> TRUE]]
  /\ Goes(q, "readEpoch")
  /\ UNCHANGED <<cell, timeline, rows, ref, prs, gates, sealed, chain, dispatcher, rival, counts>>

\* redeem: the epoch is read before the transaction.
ReadEpoch(q) ==
  /\ calls[q].at = "readEpoch"
  /\ calls' = [calls EXCEPT ![q].at = "redeem", ![q].read = cell.epoch]
  /\ UNCHANGED <<cell, timeline, rows, leases, ref, prs, gates, sealed, chain, dispatcher, rival, counts>>

\* redeem: revoked, or issued for another epoch than the one read, is denied; otherwise the credential is out.
Redeem(q) ==
  /\ calls[q].at = "redeem"
  /\ IF leases[q].live /\ calls[q].read = calls[q].epoch THEN Goes(q, calls[q].goal) /\ UNCHANGED <<leases, rows>> ELSE Raise(q)
  /\ UNCHANGED <<cell, timeline, ref, prs, gates, sealed, chain, dispatcher, rival, counts>>

-----------------------------------------------------------------------------
(* With a credential.                                                      *)

\* reconcile: the remote decides an operation in doubt.
ReconcilePublication(q) ==
  LET c == calls[q]
      v == IF c.key # "autonomous_merge" THEN Judge(c.key)
           ELSE CASE Inspect(c.epoch) = "merged" -> "committed"
                  [] Inspect(c.epoch) = "ready" -> "definitely_absent"
                  [] OTHER -> "ambiguous" IN
  /\ c.at = "read"
  /\ Hangs(q)
  /\ CASE v = "committed" -> /\ rows' = [rows EXCEPT ![c.key].state = "committed", ![c.key].owner = "nobody",
                                                     ![c.key].sha = Observed.sha]
                             /\ Goes(q, "record")
       [] v = "definitely_absent" -> Goes(q, "claim") /\ UNCHANGED rows
       [] OTHER -> Leaves(q) /\ UNCHANGED rows
  /\ UNCHANGED <<cell, timeline, ref, prs, gates, sealed, chain, dispatcher, rival, counts>>

\* The receipt that proves the publication: the head it was read at.
Receives(q) == calls' = [calls EXCEPT ![q].at = "settle", ![q].saw = [NoRef EXCEPT !.sha = Observed.sha]]

\* create.apply: look again under the write lease.
Preflight(q) ==
  LET c == calls[q] IN
  /\ c.at = "write" /\ c.key # "autonomous_merge"
  /\ CASE Judge(c.key) = "committed" -> Receives(q) /\ UNCHANGED <<leases, rows>>
       [] Judge(c.key) = "definitely_absent" -> Goes(q, "clone") /\ UNCHANGED <<leases, rows>>
       [] OTHER -> Raise(q)
  /\ UNCHANGED <<cell, timeline, ref, prs, gates, sealed, chain, dispatcher, rival, counts>>

\* _apply_and_push: a branch that another instance made is not ours to replace.
ForeignHead(head, instance) == head # NoRef /\ head.by # instance

\* _apply_and_push up to the push: clone, apply, read the remote head and whose commit it is.
Clone(q) ==
  /\ calls[q].at = "clone"
  /\ IF ForeignHead(ref, "home") THEN Raise(q)
     ELSE calls' = [calls EXCEPT ![q].at = "push", ![q].saw = ref] /\ UNCHANGED <<leases, rows>>
  /\ UNCHANGED <<cell, timeline, ref, prs, gates, sealed, chain, dispatcher, rival, counts>>

\* --force-with-lease, or a plain push of a branch that was not there.
PushWins(saw) == ref = saw

\* A push that GitHub takes: the open pull requests show the new head.
Moves(commit) ==
  /\ ref' = commit
  /\ prs' = [i \in DOMAIN prs |-> IF prs[i].state = "open" THEN [prs[i] EXCEPT !.shown = @ \cup {commit.content}] ELSE prs[i]]

CommitOf(content, instance) == [by |-> instance, content |-> content, sha |-> ref.sha + 1]

Push(q) ==
  /\ calls[q].at = "push"
  /\ IF PushWins(calls[q].saw)
     THEN Moves(CommitOf(calls[q].key, "home")) /\ Goes(q, "open") /\ UNCHANGED <<leases, rows>>
     ELSE Raise(q) /\ UNCHANGED <<ref, prs>>
  /\ UNCHANGED <<cell, timeline, gates, sealed, chain, dispatcher, rival, counts>>

\* gh pr edit of the open pull request, else gh pr create.
Opened == IF OpenPrs # {} THEN prs
          ELSE Append(prs, [state |-> "open", content |-> "none", sha |-> 0, base |-> "main", blocked |-> FALSE,
                           shown |-> {ref.content}])

OpenPr(q) ==
  /\ calls[q].at = "open"
  /\ prs' = Opened
  /\ Goes(q, "verify")
  /\ UNCHANGED <<cell, timeline, rows, leases, ref, gates, sealed, chain, dispatcher, rival, counts>>

\* The receipt is read back before the lease ends.
Verify(q) ==
  /\ calls[q].at = "verify"
  /\ IF Judge(calls[q].key) = "committed" THEN Receives(q) /\ UNCHANGED <<leases, rows>> ELSE Raise(q)
  /\ UNCHANGED <<cell, timeline, ref, prs, gates, sealed, chain, dispatcher, rival, counts>>

\* merge.apply: look again.
MergeInspect(q) ==
  LET c == calls[q] IN
  /\ c.at = "write" /\ c.key = "autonomous_merge"
  /\ CASE Inspect(c.epoch) = "merged" -> Goes(q, "settle") /\ UNCHANGED <<leases, rows>>
       [] Inspect(c.epoch) = "ready" -> Goes(q, "merge") /\ UNCHANGED <<leases, rows>>
       [] OTHER -> Raise(q)
  /\ UNCHANGED <<cell, timeline, ref, prs, gates, sealed, chain, dispatcher, rival, counts>>

\* Fault: the pull request is merged whatever its head is now.
MergeableNow(epoch) == {i \in OpenPrs : TRUE}

\* GitHub merges only the sha it is given.
Mergeable(epoch) == {i \in OpenPrs : ref.sha = sealed[epoch].sha}

\* merge_verified
Merge(q) ==
  LET c == calls[q] IN
  /\ c.at = "merge"
  /\ IF Mergeable(c.epoch) = {} THEN Raise(q) /\ UNCHANGED prs
     ELSE \E i \in Mergeable(c.epoch) :
            /\ prs' = [prs EXCEPT ![i].state = "merged", ![i].content = ref.content, ![i].sha = ref.sha]
            /\ Goes(q, "settle") /\ UNCHANGED <<leases, rows>>
  /\ UNCHANGED <<cell, timeline, ref, gates, sealed, chain, dispatcher, rival, counts>>

\* commit(owner): refused when the attempt was displaced; the lease ends either way.
Settle(q) ==
  LET c == calls[q] IN
  /\ c.at = "settle"
  /\ Hangs(q)
  /\ IF rows[c.key].state = "committed" \/ rows[c.key].owner = q
     THEN /\ rows' = [rows EXCEPT ![c.key].state = "committed", ![c.key].owner = "nobody",
                                  ![c.key].sha = IF rows[c.key].state = "committed" THEN @ ELSE c.saw.sha]
          /\ Goes(q, "record")
     ELSE Leaves(q) /\ UNCHANGED rows
  /\ UNCHANGED <<cell, timeline, ref, prs, gates, sealed, chain, dispatcher, rival, counts>>

\* Any remote call may fail, its effect done or not.
Fail(q) ==
  /\ calls[q].at \in {"read", "write", "clone", "push", "open", "verify", "merge"}
  /\ Raise(q)
  /\ UNCHANGED <<cell, timeline, ref, prs, gates, sealed, chain, dispatcher, rival, counts>>

-----------------------------------------------------------------------------
(* Records of the effect.                                                  *)

\* CellStore._append
Appends(epoch) == cell.epoch = epoch

\* _cell_effect_once: an event of this key is enough.
Record(q) ==
  LET c == calls[q] IN
  /\ c.at = "record"
  /\ IF \E i \in DOMAIN timeline : timeline[i].key = c.key
     THEN Goes(q, "tail") /\ UNCHANGED timeline
     ELSE IF Appends(c.epoch)
     THEN timeline' = Append(timeline, [key |-> c.key, epoch |-> c.epoch]) /\ Goes(q, "tail")
     ELSE Leaves(q) /\ UNCHANGED timeline
  /\ UNCHANGED <<cell, rows, leases, ref, prs, gates, sealed, chain, dispatcher, rival, counts>>

\* _mutation_evidence_once: a record of this key is enough, else the tail of the file is read ...
ReadTail(q) ==
  LET c == calls[q] IN
  /\ c.at = "tail"
  /\ IF \E i \in DOMAIN chain : chain[i].key = c.key THEN Goes(q, "remember")
     ELSE calls' = [calls EXCEPT ![q].at = "append", ![q].tail = Len(chain)]
  /\ UNCHANGED <<cell, timeline, rows, leases, ref, prs, gates, sealed, chain, dispatcher, rival, counts>>

\* ... and the record that names it as predecessor is appended.
AppendEvidence(q) ==
  /\ calls[q].at = "append"
  /\ chain' = Append(chain, [key |-> calls[q].key, previous |-> calls[q].tail])
  /\ Goes(q, "remember")
  /\ UNCHANGED <<cell, timeline, rows, leases, ref, prs, gates, sealed, dispatcher, rival, counts>>

\* remember_publication: INSERT OR IGNORE of the receipt; a merge returns.
Remember(q) ==
  LET c == calls[q] IN
  /\ c.at = "remember"
  /\ sealed' = IF c.key # "autonomous_merge" /\ sealed[c.epoch] = NoSeal
               THEN [sealed EXCEPT ![c.epoch] = [content |-> c.key, sha |-> rows[c.key].sha]] ELSE sealed
  /\ Leaves(q)
  /\ UNCHANGED <<cell, timeline, rows, leases, ref, prs, gates, chain, dispatcher, rival, counts>>

-----------------------------------------------------------------------------
(* Everybody else.                                                         *)

\* The attempt of a dead or slow owner passes its lease.
AttemptExpires(k) ==
  /\ rows[k].owner # "nobody" /\ ~rows[k].expired
  /\ rows' = [rows EXCEPT ![k].expired = TRUE]
  /\ UNCHANGED <<cell, timeline, leases, calls, ref, prs, gates, sealed, chain, dispatcher, rival, counts>>

\* The backend dies: threads are gone, rows and leases stay.
Restart ==
  /\ counts.events < MaxEvents
  /\ calls' = [q \in Requests |-> NoCall]
  /\ dispatcher' = IF dispatcher.at = "idle" THEN dispatcher ELSE [at |-> "policy", tail |-> 0]
  /\ counts' = [counts EXCEPT !.events = @ + 1]
  /\ UNCHANGED <<cell, timeline, rows, leases, ref, prs, gates, sealed, chain, rival>>

\* Another Cell of this backend merges its own pull request: the journal, and the merge's key, are shared.
OtherCellMerges ==
  /\ counts.events < MaxEvents /\ rows["autonomous_merge"].state = "absent"
  /\ rows' = [rows EXCEPT !["autonomous_merge"] = [NoRow EXCEPT !.state = "committed", !.cell = "other", !.epoch = 1, !.attempts = 1]]
  /\ counts' = [counts EXCEPT !.events = @ + 1]
  /\ UNCHANGED <<cell, timeline, leases, calls, ref, prs, gates, sealed, chain, dispatcher, rival>>

\* GitHubScm.publish of a direct run of another instance: the same steps without Cell or journal.
Rival ==
  \/ /\ rival.at = "idle" /\ counts.events < MaxEvents
     /\ rival' = IF ForeignHead(ref, "rival") THEN rival ELSE [at |-> "push", saw |-> ref]
     /\ counts' = [counts EXCEPT !.events = @ + 1] /\ UNCHANGED <<ref, prs>>
  \/ /\ rival.at = "push"
     /\ IF PushWins(rival.saw) THEN Moves(CommitOf("rivals", "rival")) /\ rival' = [at |-> "open", saw |-> NoRef]
        ELSE rival' = [at |-> "idle", saw |-> NoRef] /\ UNCHANGED <<ref, prs>>
     /\ UNCHANGED counts
  \/ /\ rival.at = "open"
     /\ prs' = Opened /\ rival' = [at |-> "idle", saw |-> NoRef] /\ UNCHANGED <<ref, counts>>

RivalStep == Rival /\ UNCHANGED <<cell, timeline, rows, leases, calls, gates, sealed, chain, dispatcher>>

\* A person closes the pull request, objects to it, or pushes a commit of the bot's trailer to the branch.
Person ==
  /\ counts.events < MaxEvents
  /\ counts' = [counts EXCEPT !.events = @ + 1]
  /\ \/ \E i \in OpenPrs : prs' = [prs EXCEPT ![i].state = "closed", ![i].content = ref.content, ![i].sha = ref.sha]
        /\ UNCHANGED ref
     \/ \E i \in OpenPrs : prs' = [prs EXCEPT ![i].blocked = TRUE] /\ UNCHANGED ref
     \/ ref # NoRef /\ Moves(CommitOf("edited", ref.by))
  /\ UNCHANGED <<cell, timeline, rows, leases, calls, gates, sealed, chain, dispatcher, rival>>

CallStep(q) ==
  \/ \E k \in Keys : Start(q, k)
  \/ Check(q) \/ Execute(q) \/ Claim(q) \/ Mint(q) \/ Insert(q) \/ ReadEpoch(q) \/ Redeem(q)
  \/ ReconcilePublication(q) \/ Preflight(q) \/ Clone(q) \/ Push(q) \/ OpenPr(q) \/ Verify(q)
  \/ MergeInspect(q) \/ Merge(q) \/ Settle(q) \/ Fail(q)
  \/ Record(q) \/ ReadTail(q) \/ AppendEvidence(q) \/ Remember(q)

PublicationNext ==
  \/ End \/ Activate \/ Dispatch \/ Restart \/ OtherCellMerges \/ RivalStep \/ Person
  \/ \E g \in {"intent", "plan"} : PolicyGate(g, 1)
  \/ \E q \in Requests : CallStep(q)
  \/ \E k \in Keys : AttemptExpires(k)

PublicationSpec == PublicationInit /\ [][PublicationNext]_pubVars

-----------------------------------------------------------------------------
(* Properties.                                                             *)

\* redeem hands a credential out only while the epoch it was minted for is the current one, although it
\* reads the epoch before its transaction and although mint writes a lease after it looked at the Cell:
\* an activation in either gap leaves a lease that is revoked or refused.
CredentialForCurrentEpoch ==
  \A q \in Requests : calls[q].at = "redeem" /\ calls'[q].at \in {"read", "write"} => cell.epoch = calls[q].epoch

\* _apply_and_push never replaces a commit of another instance, whoever pushes between the read of the
\* remote head and the push.
OtherInstancesBranchKept == ref # NoRef => ref'.by = ref.by

\* What an operation may touch is fenced: its credential by the epoch, the branch by the instance.
PublicationFenced == [][CredentialForCurrentEpoch /\ OtherInstancesBranchKept]_pubVars

\* A committed publication was shown by a pull request against the base branch: no crash between push and
\* gh pr create, no displaced attempt and no reconcile lets a bare branch or foreign content pass for it.
CommittedWasShown ==
  \A k \in Patches : rows[k].state = "committed" => \E i \in DOMAIN prs : k \in prs[i].shown /\ prs[i].base = "main"

\* What the factory merged is what one epoch sealed, to the sha, whatever was pushed between the last
\* inspection and the merge.
MergedIsSealed ==
  \A i \in DOMAIN prs : prs[i].state = "merged" =>
    \E e \in Epochs : sealed[e] = [content |-> prs[i].content, sha |-> prs[i].sha]

=============================================================================
