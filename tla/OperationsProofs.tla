-------------------------- MODULE OperationsProofs --------------------------
(***************************************************************************)
(* Proofs about the operations around a run: the webhook receiver,         *)
(* publication and promotion, the sandboxes and their sweep, incidents and *)
(* restores.  The components share no state; each has its section.         *)
(***************************************************************************)
EXTENDS Incidents, Restore, Receiver, Promotion, Publication, ExternalCall, Smolvm, Sweep,
        FiniteSetTheorems, WellFoundedInduction, TLAPS

------------------------------------------------------------------------------
\* The webhook receiver.

\* Rows of the durable inbox, and what a request thread is doing.
InboxRow == [post : Posts, outstanding : BOOLEAN]
Handling ==
    {Free} \cup [at : {"get", "submit"}, post : Posts] \cup [at : {"commit"}, post : Posts, fresh : BOOLEAN]

\* The types of the receiver; the inbox is a finite table.
ReceiverTypeOK ==
    /\ mode \in [inbox : BOOLEAN, managed : BOOLEAN]
    /\ inbox \subseteq InboxRow /\ IsFiniteSet(inbox)
    /\ orders \subseteq Posts
    /\ thread \in [Threads -> Handling]

\* A handler takes the path its server was started with.
PathFollowsMode ==
    \A t \in Threads : /\ thread[t].at \in {"get", "commit"} => mode.inbox
                       /\ thread[t].at = "submit" => ~mode.inbox

\* What was acknowledged is in the inbox, or was handed to the receiving side.
Acknowledged ==
    \A r \in replies : r.status = 202 =>
        IF mode.inbox THEN \E s \in inbox : s.post = r.post ELSE r.post \in orders

\* A delivery id has one row.
OneRowPerId == \A r, s \in inbox : r.post.id = s.post.id => r = s
\* The bound on outstanding rows is a bound.
WithinBound == Cardinality(Outstanding) <= MaxSaved

\* The inductive invariant of the receiver.
ReceiverInv == ReceiverTypeOK /\ PathFollowsMode /\ Acknowledged /\ OneRowPerId /\ WithinBound

\* The receiver starts with an empty inbox and free threads.
LEMMA ReceiverStart == ReceiverInit => ReceiverInv
  <1> SUFFICES ASSUME ReceiverInit PROVE ReceiverInv
    OBVIOUS
  <1> USE DEF ReceiverInit
  <1>1. ReceiverTypeOK
    BY FS_EmptySet DEF ReceiverTypeOK, Handling
  <1>2. PathFollowsMode /\ Acknowledged /\ OneRowPerId
    BY DEF PathFollowsMode, Acknowledged, OneRowPerId, Free
  <1>3. Outstanding = {}
    BY DEF Outstanding
  <1>4. WithinBound
    BY <1>3, FS_EmptySet, ReceiverAssumption DEF WithinBound
  <1> QED BY <1>1, <1>2, <1>4 DEF ReceiverInv

\* A reply frees the thread and records one answer.
LEMMA ReplyFrees ==
  ASSUME thread \in [Threads -> Handling], PathFollowsMode, NEW t \in Threads, NEW p, NEW s, Reply(t, p, s), mode' = mode
  PROVE  /\ thread' \in [Threads -> Handling] /\ PathFollowsMode'
         /\ replies' = replies \cup {[post |-> p, status |-> s]}
  BY DEF Reply, Handling, PathFollowsMode, Free

\* A table that does not change keeps its bound.
LEMMA InboxStands == WithinBound /\ inbox' = inbox => WithinBound'
  BY DEF WithinBound, Outstanding

\* Every step of the receiver keeps its invariant.
LEMMA ReceiverStep == ReceiverInv /\ [ReceiverNext]_receiverVars => ReceiverInv'
  <1> SUFFICES ASSUME ReceiverInv, [ReceiverNext]_receiverVars PROVE ReceiverInv'
    OBVIOUS
  <1> USE DEF ReceiverInv
  <1>1. ASSUME NEW t \in Threads, NEW post \in Posts, Receive(t, post) PROVE ReceiverInv'
    <2>1. UNCHANGED <<mode, targets, inbox, orders>>
      BY <1>1 DEF Receive
    <2>2. ASSUME NEW s \in {400, 401, 200}, Reply(t, post, s) PROVE ReceiverInv'
      <3>1. s # 202
        OBVIOUS
      <3>2. Acknowledged'
        BY <2>1, <2>2, <3>1 DEF Acknowledged, Reply
      <3> QED BY <2>1, <2>2, <3>2, ReplyFrees, InboxStands DEF ReceiverTypeOK, OneRowPerId
    <2>3. CASE /\ thread' = [thread EXCEPT ![t] = [at |-> IF mode.inbox THEN "get" ELSE "submit", post |-> post]]
               /\ UNCHANGED replies
      <3>1. thread' \in [Threads -> Handling]
        BY <2>3 DEF ReceiverTypeOK, Handling
      <3>2. PathFollowsMode'
        BY <2>1, <2>3 DEF ReceiverTypeOK, PathFollowsMode
      <3> QED BY <2>1, <2>3, <3>1, <3>2, InboxStands DEF ReceiverTypeOK, Acknowledged, OneRowPerId
    <2> QED BY <1>1, <2>2, <2>3 DEF Receive
  <1>2. ASSUME NEW t \in Threads, thread[t].at \in {"get", "submit", "commit"}
        PROVE  thread[t].post \in Posts
    BY <1>2 DEF ReceiverTypeOK, Handling, Free
  <1>3. ASSUME NEW t \in Threads, LookUp(t) PROVE ReceiverInv'
    <2> DEFINE p == thread[t].post
    <2>1. p \in Posts /\ thread[t].at = "get" /\ UNCHANGED <<mode, targets, inbox, orders, used>>
      BY <1>2, <1>3 DEF LookUp
    <2>2. CASE Reply(t, p, 422)
      <3>1. Acknowledged'
        BY <2>1, <2>2 DEF Acknowledged, Reply
      <3> QED BY <2>1, <2>2, <3>1, ReplyFrees, InboxStands DEF ReceiverTypeOK, OneRowPerId
    <2>3. CASE /\ thread' = [thread EXCEPT ![t] = [at |-> "commit", post |-> p, fresh |-> Saved(p.id) = {}]]
               /\ UNCHANGED replies
      <3>1. thread' \in [Threads -> Handling]
        BY <2>1, <2>3 DEF ReceiverTypeOK, Handling
      <3>2. PathFollowsMode'
        BY <2>1, <2>3 DEF ReceiverTypeOK, PathFollowsMode
      <3> QED BY <2>1, <2>3, <3>1, <3>2, InboxStands DEF ReceiverTypeOK, Acknowledged, OneRowPerId
    <2> QED BY <1>3, <2>2, <2>3 DEF LookUp
  <1>4. ASSUME NEW t \in Threads, SavePost(t) PROVE ReceiverInv'
    <2> DEFINE p == thread[t].post
               row == [post |-> p, outstanding |-> TRUE]
               new == Saved(p.id) = {} /\ Cardinality(Outstanding) < MaxSaved
               answer == IF Saved(p.id) # {}
                            THEN IF \E r \in Saved(p.id) : r.post = p THEN 202 ELSE 409
                            ELSE IF Cardinality(Outstanding) < MaxSaved THEN 202 ELSE 503
    <2>1. /\ p \in Posts /\ thread[t].at = "commit" /\ UNCHANGED <<mode, targets, orders, used>>
          /\ inbox' = IF new THEN inbox \cup {row} ELSE inbox
          /\ Reply(t, p, answer)
      BY <1>2, <1>4 DEF SavePost
    <2>2. row \in InboxRow
      BY <2>1 DEF InboxRow
    <2>3. ReceiverTypeOK' /\ PathFollowsMode'
      <3>1. inbox \subseteq InboxRow /\ IsFiniteSet(inbox) /\ thread \in [Threads -> Handling]
        BY DEF ReceiverTypeOK
      <3>2. thread' \in [Threads -> Handling] /\ PathFollowsMode'
        BY <2>1, <3>1, ReplyFrees
      <3> HIDE DEF row, new
      <3>3. IsFiniteSet(inbox \cup {row})
        BY <3>1, FS_AddElement
      <3>4. inbox' \subseteq InboxRow /\ IsFiniteSet(inbox')
        BY <2>1, <2>2, <3>1, <3>3
      <3> QED BY <2>1, <3>2, <3>4 DEF ReceiverTypeOK
    <2>4. Acknowledged'
      <3>1. mode.inbox
        BY <2>1 DEF PathFollowsMode
      <3>2. ASSUME answer = 202 PROVE \E s \in inbox' : s.post = p
        <4>1. CASE Saved(p.id) = {}
          <5>1. new /\ row \in inbox' /\ row.post = p
            BY <2>1, <3>2, <4>1
          <5> QED BY <5>1
        <4>2. CASE Saved(p.id) # {}
          <5>1. PICK r \in Saved(p.id) : r.post = p
            BY <3>2, <4>2
          <5>2. r \in inbox'
            BY <2>1, <5>1 DEF Saved
          <5> QED BY <5>1, <5>2
        <4> QED BY <4>1, <4>2
      <3>3. replies' = replies \cup {[post |-> p, status |-> answer]}
        BY <2>1 DEF Reply
      <3>4. inbox \subseteq inbox'
        BY <2>1
      <3> HIDE DEF answer, p
      <3> QED BY <2>1, <3>1, <3>2, <3>3, <3>4 DEF Acknowledged
    <2>5. OneRowPerId'
      <3>1. CASE new
        <4>1. inbox' = inbox \cup {row} /\ row.post = p /\ \A r \in inbox : r.post.id # p.id
          BY <2>1, <3>1 DEF Saved
        <4> HIDE DEF row, p
        <4> QED BY <4>1 DEF OneRowPerId
      <3>2. CASE ~new
        BY <2>1, <3>2 DEF OneRowPerId
      <3> QED BY <3>1, <3>2
    <2>6. WithinBound'
      <3>1. CASE new
        <4>1. Outstanding' = Outstanding \cup {row}
          BY <2>1, <3>1 DEF Outstanding
        <4>2. IsFiniteSet(Outstanding)
          BY FS_Subset DEF Outstanding, ReceiverTypeOK
        <4>3. Cardinality(Outstanding) \in Nat /\ Cardinality(Outstanding) < MaxSaved
          BY <3>1, <4>2, FS_CardinalityType
        <4> HIDE DEF row, new, p
        <4>4. \/ Cardinality(Outstanding \cup {row}) = Cardinality(Outstanding)
              \/ Cardinality(Outstanding \cup {row}) = Cardinality(Outstanding) + 1
          BY <4>2, FS_AddElement
        <4>5. Cardinality(Outstanding \cup {row}) <= MaxSaved
          BY <4>3, <4>4, ReceiverAssumption
        <4> QED BY <4>1, <4>5 DEF WithinBound
      <3>2. CASE ~new
        BY <2>1, <3>2, InboxStands
      <3> QED BY <3>1, <3>2
    <2> QED BY <2>3, <2>4, <2>5, <2>6
  <1>5. ASSUME NEW t \in Threads, Submit(t) PROVE ReceiverInv'
    <2> DEFINE p == thread[t].post
    <2>1. p \in Posts /\ thread[t].at = "submit" /\ ~mode.inbox /\ UNCHANGED <<mode, targets, inbox, used>>
      BY <1>2, <1>5 DEF Submit, PathFollowsMode
    <2>2. PICK s : Reply(t, p, s) /\ (orders' = orders \cup {p} \/ (orders' = orders /\ s # 202))
      BY <1>5 DEF Submit
    <2>3. thread' \in [Threads -> Handling] /\ PathFollowsMode' /\ replies' = replies \cup {[post |-> p, status |-> s]}
      BY <2>1, <2>2, ReplyFrees DEF ReceiverTypeOK
    <2>4. ReceiverTypeOK'
      BY <2>1, <2>2, <2>3 DEF ReceiverTypeOK
    <2>5. Acknowledged'
      BY <2>1, <2>2, <2>3 DEF Acknowledged
    <2> QED BY <2>1, <2>3, <2>4, <2>5, InboxStands DEF OneRowPerId
  <1>6. ASSUME NEW t \in Threads, Disconnect(t) PROVE ReceiverInv'
    <2>1. thread' \in [Threads -> Handling] /\ PathFollowsMode'
      BY <1>6 DEF Disconnect, Handling, Free, PathFollowsMode, ReceiverTypeOK
    <2> QED BY <1>6, <2>1, InboxStands DEF Disconnect, ReceiverTypeOK, Acknowledged, OneRowPerId
  <1>7. ASSUME NEW r \in inbox, HandOver(r) PROVE ReceiverInv'
    <2> DEFINE done == [r EXCEPT !.outstanding = FALSE]
    <2>1. /\ inbox' = (inbox \ {r}) \cup {done} /\ orders' = orders \cup {r.post}
          /\ UNCHANGED <<mode, targets, thread, replies, used>>
      BY <1>7 DEF HandOver
    <2>2. done \in InboxRow /\ done.post = r.post /\ ~done.outstanding /\ r.post \in Posts
      BY DEF ReceiverTypeOK, InboxRow
    <2> HIDE DEF done
    <2>3. ReceiverTypeOK'
      <3>1. IsFiniteSet(inbox')
        BY <2>1, FS_RemoveElement, FS_AddElement DEF ReceiverTypeOK
      <3> QED BY <2>1, <2>2, <3>1 DEF ReceiverTypeOK
    <2>4. PathFollowsMode'
      BY <2>1 DEF PathFollowsMode
    <2>5. \A s \in inbox : \E u \in inbox' : u.post = s.post
      BY <2>1, <2>2
    <2>6. Acknowledged'
      BY <2>1, <2>5 DEF Acknowledged
    <2>7. OneRowPerId'
      BY <2>1, <2>2 DEF OneRowPerId
    <2>8. WithinBound'
      <3>1. Outstanding' \subseteq Outstanding
        BY <2>1, <2>2 DEF Outstanding
      <3>2. IsFiniteSet(Outstanding)
        BY FS_Subset DEF Outstanding, ReceiverTypeOK
      <3> QED BY <3>1, <3>2, FS_Subset, FS_CardinalityType, ReceiverAssumption DEF WithinBound
    <2> QED BY <2>3, <2>4, <2>6, <2>7, <2>8
  <1>8. ASSUME NEW b \in Blueprints, NEW repos \in SUBSET Repos, EditBlueprint(b, repos) PROVE ReceiverInv'
    BY <1>8, InboxStands DEF EditBlueprint, ReceiverTypeOK, PathFollowsMode, Acknowledged, OneRowPerId
  <1>9. CASE UNCHANGED receiverVars
    BY <1>9, InboxStands DEF receiverVars, ReceiverTypeOK, PathFollowsMode, Acknowledged, OneRowPerId
  <1> QED
    BY <1>1, <1>3, <1>4, <1>5, <1>6, <1>7, <1>8, <1>9 DEF ReceiverNext

\* Whatever handler threads race and however blueprints are edited, a post answered with 202 is kept, for
\* every set of posts and threads and every bound of the inbox.
THEOREM ReceiverKeeps == ReceiverSpec => []AcknowledgedIsKept
  <1>1. ReceiverInv => AcknowledgedIsKept
    <2> SUFFICES ASSUME ReceiverInv PROVE AcknowledgedIsKept
      OBVIOUS
    <2>1. ASSUME NEW r \in replies, r.status = 202, mode.inbox PROVE {s.post : s \in Saved(r.post.id)} = {r.post}
      <3>1. PICK s \in inbox : s.post = r.post
        BY <2>1 DEF ReceiverInv, Acknowledged
      <3>2. Saved(r.post.id) = {s}
        BY <3>1 DEF ReceiverInv, OneRowPerId, Saved
      <3> QED BY <3>1, <3>2
    <2> QED BY <2>1 DEF ReceiverInv, Acknowledged, OneRowPerId, WithinBound, AcknowledgedIsKept
  <1> QED
    BY <1>1, ReceiverStart, ReceiverStep, PTL DEF ReceiverSpec

------------------------------------------------------------------------------
\* Publication by a Cell.

\* A set of numbers that is not empty has a least element.
LEMMA LeastNat ==
  ASSUME NEW T \in SUBSET Nat, T # {}
  PROVE  \E x \in T : \A y \in T : x <= y
  <1>1. PICK x \in T : \A y \in T : ~ (<<y, x>> \in OpToRel(<, Nat))
    BY NatLessThanWellFounded, WFMin
  <1>2. ASSUME NEW y \in T PROVE x <= y
    <2>1. <<y, x>> \notin OpToRel(<, Nat)
      BY <1>1
    <2>2. <<y, x>> \in Nat \X Nat /\ ~(y < x)
      BY <2>1 DEF OpToRel
    <2> QED BY <2>2
  <1> QED BY <1>2

\* A set of numbers up to n that is not empty has a greatest element.
LEMMA GreatestBelow ==
  ASSUME NEW n \in Nat, NEW T \in SUBSET (1 .. n), T # {}
  PROVE  \E x \in T : \A y \in T : y <= x
  <1> DEFINE D == {d \in Nat : \E t \in T : d = n - t}
  <1>0. \A t \in T : t \in Int /\ t <= n /\ n - t \in Nat
    OBVIOUS
  <1>1. D \in SUBSET Nat /\ D # {}
    <2>1. PICK t \in T : TRUE
      OBVIOUS
    <2>2. n - t \in D
      BY <1>0, <2>1
    <2> QED BY <2>2
  <1>2. PICK d \in D : \A e \in D : d <= e
    <2> HIDE DEF D
    <2> QED BY <1>1, LeastNat
  <1>3. PICK x \in T : d = n - x
    OBVIOUS
  <1>4. ASSUME NEW y \in T PROVE y <= x
    <2>1. n - y \in D
      BY <1>0
    <2>2. d <= n - y
      BY <1>2, <2>1
    <2> QED BY <1>0, <1>3, <2>2
  <1> QED BY <1>4

-----------------------------------------------------------------------------
\* The values of the branch and of the pull requests on it.
Refs == [by : {"nobody", "home", "rival"}, content : Patches \cup {"none", "edited", "rivals"}, sha : Nat]
PrSet == [state : {"open", "closed", "merged"}, content : Patches \cup {"none", "edited", "rivals"}, sha : Nat,
          base : {"main"}, blocked : BOOLEAN, shown : SUBSET (Patches \cup {"none", "edited", "rivals"})]
\* The fields of a journal row and of a request thread.
RowFields == {"state", "cell", "epoch", "owner", "expired", "attempts", "sha"}
CallFields == {"at", "key", "epoch", "goal", "read", "saw", "tail"}

\* A pull request against main has shown the content.
Shown(k, ps) == \E i \in DOMAIN ps : k \in ps[i].shown /\ ps[i].base = "main"

\* The sha is, or was, that of a commit of the content.
Names(k, s, rf) == s \in Nat /\ s <= rf.sha /\ (s = rf.sha => rf.content = k)

\* An open pull request has shown what its branch holds; a closed or merged one names its own commit.
PrSound(p, rf) ==
  /\ p.state = "open" => rf.content \in p.shown
  /\ p.state # "open" => p.content \in p.shown /\ Names(p.content, p.sha, rf)

\* A committed row has been shown, and names a commit of its content.
PublishedRow(k, r, rf, ps) == r.state = "committed" => Shown(k, ps) /\ Names(k, r.sha, rf)

\* What a request thread may rely on, at each place of its call.
CallSound(c, l, e, rf, ps, rw, sl) ==
  /\ DOMAIN c = CallFields /\ c.goal \in {"none", "read", "write"}
  /\ c.at = "redeem" => c.goal \in {"read", "write"}
  /\ c.at \in {"mint", "insert", "readEpoch"} => c.goal \in {"read", "write"}
  /\ c.at # "idle" => c.epoch \in Epochs /\ c.key \in Keys
  /\ c.at \in {"readEpoch", "redeem"} => l.epoch = c.epoch
  /\ c.at = "redeem" /\ c.read = c.epoch /\ l.live => e = c.epoch
  /\ c.at = "push" => c.saw = NoRef \/ c.saw.by = "home"
  /\ c.at \in {"clone", "push", "open", "verify"} => c.key \in Patches
  /\ c.at = "settle" /\ c.key \in Patches => Shown(c.key, ps) /\ Names(c.key, c.saw.sha, rf)
  /\ c.at \in {"record", "tail", "append", "remember"} /\ c.key \in Patches => rw[c.key].state = "committed"
  /\ c.at = "merge" => c.key = "autonomous_merge"
  /\ c.at # "idle" /\ c.key = "autonomous_merge" => sl[c.epoch] # NoSeal

\* Every request thread may rely on what its place promises.
CallsSound ==
  /\ DOMAIN calls = Requests
  /\ \A q \in Requests : CallSound(calls[q], leases[q], cell.epoch, ref, prs, rows, sealed)

\* The types of the journal, the leases, the branch, the pull requests and the seals.
WorldOK ==
  /\ DOMAIN cell = {"epoch", "state", "policy"} /\ cell.epoch \in Epochs
  /\ ref \in Refs /\ prs \in Seq(PrSet)
  /\ DOMAIN rows = Keys /\ \A k \in Keys : DOMAIN rows[k] = RowFields
  /\ DOMAIN leases = Requests /\ \A q \in Requests : DOMAIN leases[q] = {"epoch", "attempt", "live"}
  /\ sealed \in [Epochs -> [content : Patches \cup {"none"}, sha : Nat]]

\* The commits that pull requests, journal rows and seals name.
CommitsKnown ==
  /\ \A i \in DOMAIN prs : PrSound(prs[i], ref)
  /\ \A k \in Patches : PublishedRow(k, rows[k], ref, prs)
  /\ \A e \in Epochs : sealed[e] # NoSeal => Names(sealed[e].content, sealed[e].sha, ref)

\* Another instance that is about to push saw no branch, or one of its own.
RivalSound == rival.at = "push" => rival.saw = NoRef \/ rival.saw.by = "rival"

\* What was merged is what an epoch really sealed.
MergedReally ==
  \A i \in DOMAIN prs : prs[i].state = "merged" =>
    \E e \in Epochs : sealed[e] # NoSeal /\ sealed[e] = [content |-> prs[i].content, sha |-> prs[i].sha]

\* The inductive invariant of a publication.
PubInv == WorldOK /\ CallsSound /\ CommitsKnown /\ RivalSound /\ MergedReally

-----------------------------------------------------------------------------
\* The branch names its own commit.
LEMMA CommitOfRef ==
  ASSUME NEW rf \in Refs
  PROVE  Names(rf.content, rf.sha, rf)
  BY DEF Names, Refs

\* What the branch shows is shown by a pull request, under a sha that names it.
LEMMA ObservedKnown ==
  ASSUME WorldOK, CommitsKnown
  PROVE  /\ Observed.sha \in Nat
         /\ Observed.state \notin {"nothing", "branch_only"} => Shown(Observed.content, prs) /\ Names(Observed.content, Observed.sha, ref)
  <1> DEFINE Of(s) == {i \in DOMAIN prs : prs[i].state = s}
             Of3   == IF Of("open") # {} THEN Of("open") ELSE IF Of("merged") # {} THEN Of("merged") ELSE Of("closed")
             n == CHOOSE j \in Of3 : \A k \in Of3 : k <= j
  <1>0. ref \in Refs /\ prs \in Seq(PrSet) /\ DOMAIN prs = 1 .. Len(prs) /\ Len(prs) \in Nat
    BY DEF WorldOK
  <1>1. Of3 \subseteq DOMAIN prs
    OBVIOUS
  <1>2. ASSUME Of3 # {} PROVE n \in DOMAIN prs
    <2> HIDE DEF Of3
    <2>1. \E j \in Of3 : \A k \in Of3 : k <= j
      BY <1>0, <1>1, <1>2, GreatestBelow
    <2> QED BY <1>1, <2>1
  <1> HIDE DEF Of3, n
  <1>3. CASE Of3 # {}
    <2> DEFINE c == IF prs[n].state = "open" THEN ref.content ELSE prs[n].content
               s == IF prs[n].state = "open" THEN ref.sha ELSE prs[n].sha
    <2>1. Observed = [state |-> prs[n].state, content |-> c, base |-> prs[n].base, sha |-> s]
      BY <1>3 DEF Observed, Content, Of3, n
    <2>2. prs[n] \in PrSet /\ PrSound(prs[n], ref)
      BY <1>0, <1>2, <1>3 DEF CommitsKnown
    <2>3. prs[n].base = "main" /\ c \in prs[n].shown /\ Names(c, s, ref)
      BY <1>0, <2>2, CommitOfRef DEF PrSound, PrSet
    <2>4. s \in Nat /\ Shown(c, prs)
      BY <1>2, <1>3, <2>3 DEF Names, Shown
    <2> HIDE DEF c, s
    <2> QED BY <2>1, <2>3, <2>4
  <1>4. CASE Of3 = {} /\ ref # NoRef
    <2>1. Observed = [state |-> "branch_only", content |-> ref.content, base |-> "main", sha |-> ref.sha]
      BY <1>4 DEF Observed, Of3
    <2> QED BY <1>0, <2>1 DEF Refs
  <1>5. CASE Of3 = {} /\ ref = NoRef
    <2>1. Observed = [state |-> "nothing", content |-> "none", base |-> "main", sha |-> 0]
      BY <1>5 DEF Observed, Of3
    <2> QED BY <2>1
  <1> QED BY <1>3, <1>4, <1>5

\* reconcile answers "committed" only for content that a pull request has shown.
LEMMA Judged ==
  ASSUME WorldOK, CommitsKnown, NEW k, Judge(k) = "committed"
  PROVE  Shown(k, prs) /\ Names(k, Observed.sha, ref)
  <1>1. Observed.content = k /\ Observed.state \notin {"nothing", "branch_only"}
    BY DEF Judge
  <1> QED BY <1>1, ObservedKnown

\* A call stays sound while the world only moves forward.
LEMMA CallKept ==
  ASSUME NEW c, NEW l, NEW e, NEW rf, NEW ps, NEW rw, NEW sl, NEW l2, NEW e2, NEW rf2, NEW ps2, NEW rw2, NEW sl2,
         CallSound(c, l, e, rf, ps, rw, sl),
         \A k : Shown(k, ps) => Shown(k, ps2),
         \A k, s : Names(k, s, rf) => Names(k, s, rf2),
         \A k \in Patches : rw[k].state = "committed" => rw2[k].state = "committed",
         \A x \in Epochs : sl[x] # NoSeal => sl2[x] # NoSeal,
         l2.epoch = l.epoch, l2.live => l.live, l2.live /\ l.epoch = e => e2 = e
  PROVE  CallSound(c, l2, e2, rf2, ps2, rw2, sl2)
  BY DEF CallSound

\* A run starts with no row, no branch and no pull request.
LEMMA PublicationStart == PublicationInit => PubInv
  <1> SUFFICES ASSUME PublicationInit PROVE PubInv
    OBVIOUS
  <1>1. /\ cell = [epoch |-> 1, state |-> "running", policy |-> TRUE]
        /\ rows = [k \in Keys |-> NoRow] /\ leases = [q \in Requests |-> NoLease] /\ calls = [q \in Requests |-> NoCall]
        /\ ref = NoRef /\ prs = <<>> /\ sealed = [e \in Epochs |-> NoSeal] /\ rival = [at |-> "idle", saw |-> NoRef]
    BY DEF PublicationInit
  <1>2. DOMAIN cell = {"epoch", "state", "policy"} /\ cell.epoch \in Epochs
    BY <1>1, PublicationAssumption DEF Epochs
  <1>3. ref \in Refs /\ prs \in Seq(PrSet) /\ DOMAIN prs = {}
    BY <1>1 DEF NoRef, Refs
  <1>4. DOMAIN rows = Keys /\ (\A k \in Keys : DOMAIN rows[k] = RowFields /\ rows[k].state = "absent") /\ Patches \subseteq Keys
    BY <1>1 DEF NoRow, RowFields, Keys
  <1>5. DOMAIN leases = Requests /\ \A q \in Requests : DOMAIN leases[q] = {"epoch", "attempt", "live"}
    BY <1>1 DEF NoLease
  <1>6. sealed \in [Epochs -> [content : Patches \cup {"none"}, sha : Nat]] /\ \A e \in Epochs : sealed[e] = NoSeal
    BY <1>1 DEF NoSeal
  <1>7. DOMAIN NoCall = CallFields /\ NoCall.at = "idle" /\ NoCall.goal = "none"
    BY DEF NoCall, CallFields
  <1>8. CallsSound
    BY <1>1, <1>7 DEF CallsSound, CallSound
  <1>9. CommitsKnown
    BY <1>3, <1>4, <1>6 DEF CommitsKnown, PublishedRow
  <1>10. rival.at = "idle"
    BY <1>1
  <1> QED BY <1>2, <1>3, <1>4, <1>5, <1>6, <1>8, <1>9, <1>10 DEF PubInv, WorldOK, RivalSound, MergedReally

\* An idle thread is sound in any world.
LEMMA IdleSound == \A l, e, rf, ps, rw, sl : CallSound(NoCall, l, e, rf, ps, rw, sl)
  <1>1. DOMAIN NoCall = CallFields /\ NoCall.at = "idle" /\ NoCall.goal = "none"
    BY DEF NoCall, CallFields
  <1> QED BY <1>1 DEF CallSound

\* The fields of a call that goes on to another place.
LEMMA CallGoes ==
  ASSUME NEW c, DOMAIN c = CallFields, NEW p
  PROVE  /\ DOMAIN [c EXCEPT !.at = p] = CallFields /\ [c EXCEPT !.at = p].at = p /\ [c EXCEPT !.at = p].key = c.key
         /\ [c EXCEPT !.at = p].epoch = c.epoch /\ [c EXCEPT !.at = p].goal = c.goal /\ [c EXCEPT !.at = p].read = c.read
         /\ [c EXCEPT !.at = p].saw = c.saw
  BY DEF CallFields

\* A step of one thread on the journal: no committed row is lost, and a new one is shown.
LEMMA JournalStep ==
  ASSUME PubInv, UNCHANGED <<cell, ref, prs, sealed, rival>>, NEW q \in Requests, NEW c,
         calls' = [calls EXCEPT ![q] = c], leases' = leases \/ Hangs(q),
         DOMAIN rows' = Keys, \A k \in Keys : DOMAIN rows'[k] = RowFields,
         \A k \in Patches : /\ rows[k].state = "committed" => rows'[k].state = "committed"
                            /\ PublishedRow(k, rows'[k], ref, prs),
         CallSound(c, leases'[q], cell.epoch, ref, prs, rows', sealed)
  PROVE  PubInv'
  <1>1. WorldOK /\ CallsSound /\ CommitsKnown /\ RivalSound /\ MergedReally
    BY DEF PubInv
  <1>2. DOMAIN leases' = Requests /\ \A p \in Requests : /\ DOMAIN leases'[p] = {"epoch", "attempt", "live"}
                                                       /\ leases'[p].epoch = leases[p].epoch /\ (leases'[p].live => leases[p].live)
    <2>1. CASE leases' = leases
      BY <1>1, <2>1 DEF WorldOK
    <2>2. CASE Hangs(q)
      <3>1. leases' = [leases EXCEPT ![q] = [leases[q] EXCEPT !.live = FALSE]]
        BY <2>2 DEF Hangs
      <3>2. DOMAIN leases = Requests /\ \A p \in Requests : DOMAIN leases[p] = {"epoch", "attempt", "live"}
        BY <1>1 DEF WorldOK
      <3>3. /\ [leases[q] EXCEPT !.live = FALSE].epoch = leases[q].epoch /\ ~[leases[q] EXCEPT !.live = FALSE].live
            /\ DOMAIN [leases[q] EXCEPT !.live = FALSE] = {"epoch", "attempt", "live"}
        BY <3>2
      <3> QED BY <3>1, <3>2, <3>3
    <2> QED BY <2>1, <2>2
  <1>3. WorldOK'
    BY <1>1, <1>2 DEF WorldOK
  <1>4. CallsSound'
    <2>1. DOMAIN calls' = Requests /\ calls'[q] = c /\ \A p \in Requests \ {q} : calls'[p] = calls[p]
      BY <1>1 DEF CallsSound
    <2>2. ASSUME NEW p \in Requests, p # q
          PROVE  CallSound(calls[p], leases'[p], cell.epoch, ref, prs, rows', sealed)
      <3>1. CallSound(calls[p], leases[p], cell.epoch, ref, prs, rows, sealed)
        BY <1>1 DEF CallsSound
      <3> QED BY <1>2, <3>1, CallKept
    <2> QED BY <2>1, <2>2 DEF CallsSound
  <1>5. CommitsKnown'
    BY <1>1 DEF CommitsKnown
  <1> QED BY <1>1, <1>3, <1>4, <1>5 DEF PubInv, RivalSound, MergedReally

\* A step of one thread that leaves the journal alone.
LEMMA QuietStep ==
  ASSUME PubInv, UNCHANGED <<cell, ref, prs, sealed, rival, rows>>, NEW q \in Requests, NEW c,
         calls' = [calls EXCEPT ![q] = c], leases' = leases \/ Hangs(q),
         CallSound(c, leases'[q], cell.epoch, ref, prs, rows, sealed)
  PROVE  PubInv'
  <1>1. DOMAIN rows' = Keys /\ \A k \in Keys : DOMAIN rows'[k] = RowFields
    BY DEF PubInv, WorldOK
  <1>2. \A k \in Patches : PublishedRow(k, rows'[k], ref, prs)
    BY DEF PubInv, CommitsKnown
  <1> QED BY <1>1, <1>2, JournalStep

\* What an exception leaves behind.
LEMMA RaiseStep ==
  ASSUME PubInv, UNCHANGED <<cell, ref, prs, sealed, rival>>, NEW q \in Requests, calls[q].at # "idle", Raise(q)
  PROVE  PubInv'
  <1> DEFINE k == calls[q].key
             r == [rows[k] EXCEPT !.owner = "nobody", !.expired = FALSE, !.state = "in_doubt"]
  <1>1. DOMAIN rows = Keys /\ \A j \in Keys : DOMAIN rows[j] = RowFields
    BY DEF PubInv, WorldOK
  <1>2. k \in Keys
    BY DEF PubInv, CallsSound, CallSound
  <1>3. calls' = [calls EXCEPT ![q] = NoCall] /\ Hangs(q)
        /\ (rows' = rows \/ (rows[k].state # "committed" /\ rows' = [rows EXCEPT ![k] = r]))
    BY <1>1, <1>2 DEF Raise, Leaves
  <1>4. DOMAIN r = RowFields /\ r.state = "in_doubt"
    BY <1>1, <1>2 DEF RowFields
  <1> HIDE DEF r, k
  <1>5. DOMAIN rows' = Keys /\ \A j \in Keys : DOMAIN rows'[j] = RowFields
    BY <1>1, <1>2, <1>3, <1>4
  <1>6. ASSUME NEW j \in Patches
        PROVE  /\ rows[j].state = "committed" => rows'[j].state = "committed"
               /\ PublishedRow(j, rows'[j], ref, prs)
    <2>1. j \in Keys /\ PublishedRow(j, rows[j], ref, prs)
      BY DEF PubInv, CommitsKnown, Keys
    <2> QED BY <1>1, <1>3, <1>4, <2>1 DEF PublishedRow
  <1> QED BY <1>3, <1>5, <1>6, IdleSound, JournalStep

\* A step on GitHub: contents stay shown, shas keep naming what they named.
LEMMA RemoteStep ==
  ASSUME PubInv, ref' \in Refs, prs' \in Seq(PrSet), \A k : Shown(k, prs) => Shown(k, prs'),
         \A k, s : Names(k, s, ref) => Names(k, s, ref'), \A i \in DOMAIN prs' : PrSound(prs'[i], ref'),
         MergedReally', RivalSound', UNCHANGED <<cell, rows, leases, sealed>>, DOMAIN calls' = Requests,
         \A p \in Requests : calls'[p] = calls[p] \/ CallSound(calls'[p], leases[p], cell.epoch, ref', prs', rows, sealed)
  PROVE  PubInv'
  <1>1. WorldOK /\ CallsSound /\ CommitsKnown
    BY DEF PubInv
  <1>2. WorldOK'
    BY <1>1 DEF WorldOK
  <1>3. CommitsKnown'
    BY <1>1 DEF CommitsKnown, PublishedRow
  <1>4. CallsSound'
    <2> SUFFICES ASSUME NEW p \in Requests PROVE CallSound(calls'[p], leases[p], cell.epoch, ref', prs', rows, sealed)
      BY DEF CallsSound
    <2>1. CallSound(calls[p], leases[p], cell.epoch, ref, prs, rows, sealed)
      BY <1>1 DEF CallsSound
    <2>2. CallSound(calls[p], leases[p], cell.epoch, ref', prs', rows, sealed)
      BY <2>1, CallKept
    <2> QED BY <2>2
  <1> QED BY <1>2, <1>3, <1>4 DEF PubInv

\* A push that GitHub takes.
LEMMA MovesForward ==
  ASSUME PubInv, NEW commit \in Refs, commit.sha = ref.sha + 1, Moves(commit)
  PROVE  /\ ref' \in Refs /\ prs' \in Seq(PrSet) /\ DOMAIN prs' = DOMAIN prs
         /\ \A k : Shown(k, prs) => Shown(k, prs')
         /\ \A k, s : Names(k, s, ref) => Names(k, s, ref')
         /\ \A i \in DOMAIN prs' : PrSound(prs'[i], ref')
         /\ \A i \in DOMAIN prs : prs[i].state # "open" => prs'[i] = prs[i]
         /\ \A i \in DOMAIN prs : prs[i].state = "open" => prs'[i].state = "open"
  <1>1. ref \in Refs /\ prs \in Seq(PrSet) /\ \A i \in DOMAIN prs : prs[i] \in PrSet /\ PrSound(prs[i], ref)
    BY DEF PubInv, WorldOK, CommitsKnown
  <1> DEFINE upd(i) == [prs[i] EXCEPT !.shown = prs[i].shown \cup {commit.content}]
  <1>2. ref' = commit /\ prs' = [i \in DOMAIN prs |-> IF prs[i].state = "open" THEN upd(i) ELSE prs[i]]
    BY DEF Moves
  <1>3. ASSUME NEW i \in DOMAIN prs
        PROVE  /\ upd(i) \in PrSet /\ upd(i).state = prs[i].state /\ upd(i).shown = prs[i].shown \cup {commit.content}
               /\ upd(i).base = prs[i].base
    <2>1. prs[i] \in PrSet /\ commit.content \in Patches \cup {"none", "edited", "rivals"}
      BY <1>1 DEF Refs
    <2>2. prs[i].shown \cup {commit.content} \in SUBSET (Patches \cup {"none", "edited", "rivals"})
      BY <2>1 DEF PrSet
    <2> QED BY <2>1, <2>2 DEF PrSet
  <1> HIDE DEF upd
  <1>4. DOMAIN prs' = DOMAIN prs /\ \A i \in DOMAIN prs : prs'[i] = (IF prs[i].state = "open" THEN upd(i) ELSE prs[i])
    BY <1>2
  <1>5. prs' \in Seq(PrSet)
    <2>1. DOMAIN prs = 1 .. Len(prs) /\ Len(prs) \in Nat
      BY <1>1
    <2>2. prs' \in [1 .. Len(prs) -> PrSet]
      BY <1>1, <1>2, <1>3, <2>1
    <2> QED BY <2>1, <2>2
  <1>6. ASSUME NEW k, Shown(k, prs) PROVE Shown(k, prs')
    BY <1>3, <1>4, <1>6 DEF Shown
  <1>7. ASSUME NEW k, NEW s, Names(k, s, ref) PROVE Names(k, s, ref')
    BY <1>1, <1>2, <1>7 DEF Names, Refs
  <1>8. ASSUME NEW i \in DOMAIN prs' PROVE PrSound(prs'[i], ref')
    BY <1>1, <1>2, <1>3, <1>4, <1>7 DEF PrSound
  <1> QED BY <1>2, <1>3, <1>4, <1>5, <1>6, <1>7, <1>8

\* gh pr edit or gh pr create.
LEMMA OpensForward ==
  ASSUME PubInv, UNCHANGED ref, prs' = Opened
  PROVE  /\ prs' \in Seq(PrSet) /\ \A k : Shown(k, prs) => Shown(k, prs')
         /\ \A i \in DOMAIN prs' : PrSound(prs'[i], ref')
         /\ \A i \in DOMAIN prs' : prs'[i].state = "merged" => i \in DOMAIN prs /\ prs'[i] = prs[i]
  <1> DEFINE new == [state |-> "open", content |-> "none", sha |-> 0, base |-> "main", blocked |-> FALSE, shown |-> {ref.content}]
  <1>1. ref \in Refs /\ prs \in Seq(PrSet) /\ \A i \in DOMAIN prs : prs[i] \in PrSet /\ PrSound(prs[i], ref)
    BY DEF PubInv, WorldOK, CommitsKnown
  <1>2. prs' = prs \/ prs' = Append(prs, new)
    BY DEF Opened
  <1>3. FALSE \in BOOLEAN /\ {ref.content} \in SUBSET (Patches \cup {"none", "edited", "rivals"})
    BY <1>1 DEF Refs
  <1>4. new \in PrSet /\ new.state = "open" /\ PrSound(new, ref)
    BY <1>3 DEF PrSet, PrSound
  <1> HIDE DEF new
  <1>5. CASE prs' = Append(prs, new)
    <2>1. prs' \in Seq(PrSet) /\ DOMAIN prs' = DOMAIN prs \cup {Len(prs) + 1} /\ prs'[Len(prs) + 1] = new
          /\ \A i \in DOMAIN prs : prs'[i] = prs[i]
      BY <1>1, <1>4, <1>5
    <2> QED BY <1>1, <1>4, <2>1 DEF Shown
  <1> QED BY <1>1, <1>2, <1>5

\* One open pull request is merged, closed or objected to.
LEMMA OneForward ==
  ASSUME PubInv, UNCHANGED ref, NEW i \in OpenPrs, NEW st \in {"merged", "closed"},
         \/ prs' = [prs EXCEPT ![i].state = st, ![i].content = ref.content, ![i].sha = ref.sha]
         \/ prs' = [prs EXCEPT ![i].blocked = TRUE]
  PROVE  /\ prs' \in Seq(PrSet) /\ DOMAIN prs' = DOMAIN prs /\ i \in DOMAIN prs
         /\ \A k : Shown(k, prs) => Shown(k, prs')
         /\ \A j \in DOMAIN prs' : PrSound(prs'[j], ref')
         /\ \A j \in DOMAIN prs \ {i} : prs'[j] = prs[j]
         /\ \/ prs'[i].state = "open"
            \/ prs'[i].state = st /\ prs'[i].content = ref.content /\ prs'[i].sha = ref.sha
  <1>1. ref \in Refs /\ prs \in Seq(PrSet) /\ \A j \in DOMAIN prs : prs[j] \in PrSet /\ PrSound(prs[j], ref)
    BY DEF PubInv, WorldOK, CommitsKnown
  <1>2. i \in DOMAIN prs /\ prs[i].state = "open" /\ prs[i] \in PrSet /\ PrSound(prs[i], ref)
    BY <1>1 DEF OpenPrs
  <1> DEFINE a == [prs[i] EXCEPT !.state = st, !.content = ref.content, !.sha = ref.sha]
             b == [prs[i] EXCEPT !.blocked = TRUE]
  <1>3. prs' = [prs EXCEPT ![i] = a] \/ prs' = [prs EXCEPT ![i] = b]
    BY <1>1, <1>2
  <1>4. a \in PrSet /\ a.state = st /\ a.content = ref.content /\ a.sha = ref.sha /\ a.shown = prs[i].shown /\ a.base = prs[i].base
    BY <1>1, <1>2 DEF PrSet, Refs
  <1>5. b \in PrSet /\ b.state = "open" /\ b.shown = prs[i].shown /\ b.base = prs[i].base
    <2>1. TRUE \in BOOLEAN
      OBVIOUS
    <2> QED BY <1>2, <2>1 DEF PrSet
  <1>6. PrSound(a, ref) /\ PrSound(b, ref)
    BY <1>1, <1>2, <1>4, <1>5, CommitOfRef DEF PrSound
  <1> HIDE DEF a, b
  <1>7. PICK d \in {a, b} : prs' = [prs EXCEPT ![i] = d]
    BY <1>3
  <1>8. d \in PrSet /\ d.shown = prs[i].shown /\ d.base = prs[i].base /\ PrSound(d, ref)
    BY <1>4, <1>5, <1>6, <1>7
  <1>9. prs' \in Seq(PrSet) /\ DOMAIN prs' = DOMAIN prs /\ prs'[i] = d /\ \A j \in DOMAIN prs \ {i} : prs'[j] = prs[j]
    BY <1>1, <1>2, <1>7, <1>8
  <1>10. \A k : Shown(k, prs) => Shown(k, prs')
    BY <1>2, <1>8, <1>9 DEF Shown
  <1> QED BY <1>1, <1>2, <1>4, <1>5, <1>7, <1>8, <1>9, <1>10

\* A row that is new to the journal, or goes on without being committed.
LEMMA OpenRow ==
  ASSUME PubInv, UNCHANGED <<cell, ref, prs, sealed, rival, leases>>, NEW q \in Requests, NEW c,
         calls' = [calls EXCEPT ![q] = c], NEW k \in Keys, NEW r, rows' = [rows EXCEPT ![k] = r], DOMAIN r = RowFields,
         rows[k].state # "committed", r.state # "committed",
         \A w : CallSound(c, leases[q], cell.epoch, ref, prs, w, sealed)
  PROVE  PubInv'
  <1>1. DOMAIN rows = Keys /\ \A j \in Keys : DOMAIN rows[j] = RowFields
    BY DEF PubInv, WorldOK
  <1>2. ASSUME NEW j \in Patches
        PROVE  /\ rows[j].state = "committed" => rows'[j].state = "committed"
               /\ PublishedRow(j, rows'[j], ref, prs)
    <2>1. j \in Keys /\ PublishedRow(j, rows[j], ref, prs)
      BY DEF PubInv, CommitsKnown, Keys
    <2> QED BY <1>1, <2>1 DEF PublishedRow
  <1>3. CallSound(c, leases'[q], cell.epoch, ref, prs, rows', sealed)
    OBVIOUS
  <1>4. DOMAIN rows' = Keys /\ \A j \in Keys : DOMAIN rows'[j] = RowFields
    BY <1>1
  <1> QED BY <1>2, <1>3, <1>4, JournalStep

\* A row that is committed with the sha its content was seen at.
LEMMA SettledRow ==
  ASSUME PubInv, UNCHANGED <<cell, ref, prs, sealed, rival>>, NEW q \in Requests, NEW c, Hangs(q),
         calls' = [calls EXCEPT ![q] = c], NEW k \in Keys, NEW r, rows' = [rows EXCEPT ![k] = r], DOMAIN r = RowFields,
         r.state = "committed", k \in Patches => Shown(k, prs) /\ Names(k, r.sha, ref),
         \A w : w[k].state = "committed" => CallSound(c, leases'[q], cell.epoch, ref, prs, w, sealed)
  PROVE  PubInv'
  <1>1. DOMAIN rows = Keys /\ \A j \in Keys : DOMAIN rows[j] = RowFields
    BY DEF PubInv, WorldOK
  <1>2. DOMAIN rows' = Keys /\ (\A j \in Keys : DOMAIN rows'[j] = RowFields) /\ rows'[k] = r
        /\ \A j \in Keys : j # k => rows'[j] = rows[j]
    BY <1>1
  <1>3. ASSUME NEW j \in Patches
        PROVE  /\ rows[j].state = "committed" => rows'[j].state = "committed"
               /\ PublishedRow(j, rows'[j], ref, prs)
    <2>1. j \in Keys /\ PublishedRow(j, rows[j], ref, prs)
      BY DEF PubInv, CommitsKnown, Keys
    <2> QED BY <1>2, <2>1 DEF PublishedRow
  <1>4. CallSound(c, leases'[q], cell.epoch, ref, prs, rows', sealed)
    BY <1>2
  <1> QED BY <1>2, <1>3, <1>4, JournalStep

\* The receipt of a publication that was judged committed.
LEMMA ReceiptStep ==
  ASSUME PubInv, UNCHANGED <<cell, ref, prs, sealed, rival, rows, leases>>, NEW q \in Requests, calls[q].at # "idle",
         Judge(calls[q].key) = "committed", Receives(q)
  PROVE  PubInv'
  <1> DEFINE c == calls[q]
             sw == [NoRef EXCEPT !.sha = Observed.sha]
             d == [c EXCEPT !.at = "settle", !.saw = sw]
  <1>1. DOMAIN calls = Requests /\ CallSound(c, leases[q], cell.epoch, ref, prs, rows, sealed) /\ DOMAIN c = CallFields
    BY DEF PubInv, CallsSound, CallSound
  <1>2. calls' = [calls EXCEPT ![q] = d]
    BY <1>1 DEF Receives
  <1>3. sw.sha = Observed.sha
    BY DEF NoRef
  <1> HIDE DEF sw
  <1>4. DOMAIN d = CallFields /\ d.at = "settle" /\ d.goal = c.goal /\ d.key = c.key /\ d.epoch = c.epoch /\ d.saw = sw
    BY <1>1 DEF CallFields
  <1> HIDE DEF d
  <1>5. Shown(c.key, prs) /\ Names(c.key, Observed.sha, ref)
    BY Judged DEF PubInv
  <1>6. CallSound(d, leases[q], cell.epoch, ref, prs, rows, sealed)
    BY <1>1, <1>3, <1>4, <1>5 DEF CallSound
  <1> QED BY <1>2, <1>6, QuietStep

\* The steps of one request thread.
LEMMA CallStepKeeps ==
  ASSUME PubInv, NEW q \in Requests, CallStep(q)
  PROVE  PubInv'
  <1> DEFINE c == calls[q]
             At(p) == [c EXCEPT !.at = p]
  <1>1. WorldOK /\ CallsSound /\ CommitsKnown /\ RivalSound /\ MergedReally
    BY DEF PubInv
  <1>2. DOMAIN calls = Requests /\ CallSound(c, leases[q], cell.epoch, ref, prs, rows, sealed)
    BY <1>1 DEF CallsSound
  <1>3. \A p : Goes(q, p) <=> calls' = [calls EXCEPT ![q] = At(p)]
    BY DEF Goes
  <1>4. Leaves(q) <=> calls' = [calls EXCEPT ![q] = NoCall]
    BY DEF Leaves
  <1>5. DOMAIN c = CallFields
    BY <1>2 DEF CallSound
  <1>6. \A p : /\ DOMAIN At(p) = CallFields /\ At(p).at = p /\ At(p).key = c.key /\ At(p).epoch = c.epoch
              /\ At(p).goal = c.goal /\ At(p).read = c.read /\ At(p).saw = c.saw
    BY <1>5, CallGoes
  <1> HIDE DEF At
  <1>7. c.at # "idle" => c.epoch \in Epochs /\ c.key \in Keys
    BY <1>2 DEF CallSound
  <1>8. DOMAIN rows = Keys /\ \A k \in Keys : DOMAIN rows[k] = RowFields
    BY <1>1 DEF WorldOK
  <1>9. c.key \in Keys /\ c.key # "autonomous_merge" => c.key \in Patches
    BY DEF Keys
  <1>10. "autonomous_merge" \notin Patches
    BY PublicationAssumption
  <1>11. ASSUME NEW k \in Keys, Start(q, k) PROVE PubInv'
    <2> DEFINE n == [NoCall EXCEPT !.at = "check", !.key = k, !.epoch = cell.epoch]
    <2>1. n.at = "check" /\ n.key = k /\ n.epoch = cell.epoch /\ n.goal = "none" /\ DOMAIN n = CallFields
      BY DEF NoCall, CallFields
    <2>2. calls' = [calls EXCEPT ![q] = n] /\ UNCHANGED <<cell, ref, prs, sealed, rival, rows, leases>>
          /\ (k = "autonomous_merge" => sealed[cell.epoch] # NoSeal) /\ cell.epoch \in Epochs
      BY <1>1, <1>11 DEF Start, WorldOK
    <2> HIDE DEF n
    <2>3. CallSound(n, leases'[q], cell.epoch, ref, prs, rows, sealed)
      BY <2>1, <2>2 DEF CallSound
    <2> QED BY <2>2, <2>3, QuietStep
  <1>12. CASE Check(q)
    <2>1. c.at = "check" /\ UNCHANGED <<cell, ref, prs, sealed, rival, rows, leases>> /\ (Goes(q, "execute") \/ Leaves(q))
      BY <1>12 DEF Check
    <2>2. CallSound(At("execute"), leases[q], cell.epoch, ref, prs, rows, sealed)
      BY <1>2, <1>6, <2>1 DEF CallSound
    <2> QED BY <1>3, <1>4, <2>1, <2>2, IdleSound, QuietStep
  <1>13. CASE Execute(q)
    <2>1. c.at = "execute" /\ UNCHANGED <<cell, leases, ref, prs, sealed, rival>> /\ c.key \in Keys
      BY <1>7, <1>13 DEF Execute
    <2>2. CASE /\ rows[c.key].state = "absent" /\ Goes(q, "claim")
               /\ rows' = [rows EXCEPT ![c.key] = [NoRow EXCEPT !.state = "intent", !.epoch = c.epoch]]
      <3> DEFINE r == [NoRow EXCEPT !.state = "intent", !.epoch = c.epoch]
      <3>1. DOMAIN r = RowFields /\ r.state = "intent"
        BY DEF NoRow, RowFields
      <3>2. \A w : CallSound(At("claim"), leases[q], cell.epoch, ref, prs, w, sealed)
        BY <1>2, <1>6, <2>1 DEF CallSound
      <3> HIDE DEF r
      <3> QED BY <1>3, <2>1, <2>2, <3>1, <3>2, OpenRow DEF r
    <2>3. CASE Leaves(q) /\ UNCHANGED rows
      BY <1>4, <2>1, <2>3, IdleSound, QuietStep
    <2>4. CASE rows[c.key].state = "committed" /\ Goes(q, "record") /\ UNCHANGED rows
      <3>1. CallSound(At("record"), leases[q], cell.epoch, ref, prs, rows, sealed)
        BY <1>2, <1>6, <2>1, <2>4 DEF CallSound
      <3> QED BY <1>3, <2>1, <2>4, <3>1, QuietStep
    <2>5. CASE /\ rows[c.key].state \in {"intent", "in_doubt"}
               /\ rows' = [rows EXCEPT ![c.key].state = "in_doubt", ![c.key].owner = "nobody", ![c.key].expired = FALSE]
               /\ calls' = [calls EXCEPT ![q].at = "mint", ![q].goal = "read"]
      <3> DEFINE r == [rows[c.key] EXCEPT !.state = "in_doubt", !.owner = "nobody", !.expired = FALSE]
                 d == [c EXCEPT !.at = "mint", !.goal = "read"]
      <3>1. DOMAIN r = RowFields /\ r.state = "in_doubt"
        BY <1>8, <2>1 DEF RowFields
      <3>2. DOMAIN d = CallFields /\ d.at = "mint" /\ d.goal = "read" /\ d.key = c.key /\ d.epoch = c.epoch
        BY <1>5 DEF CallFields
      <3>3. rows' = [rows EXCEPT ![c.key] = r] /\ calls' = [calls EXCEPT ![q] = d]
        BY <1>2, <1>8, <2>1, <2>5
      <3> HIDE DEF r, d
      <3>4. \A w : CallSound(d, leases[q], cell.epoch, ref, prs, w, sealed)
        BY <1>2, <2>1, <3>2 DEF CallSound
      <3> QED BY <2>1, <2>5, <3>1, <3>3, <3>4, OpenRow
    <2> QED BY <1>13, <2>2, <2>3, <2>4, <2>5 DEF Execute
  <1>14. CASE Claim(q)
    <2>1. c.at = "claim" /\ UNCHANGED <<cell, leases, ref, prs, sealed, rival>> /\ c.key \in Keys
      BY <1>7, <1>14 DEF Claim
    <2>2. CASE Leaves(q) /\ UNCHANGED rows
      BY <1>4, <2>1, <2>2, IdleSound, QuietStep
    <2>3. CASE /\ rows[c.key].state # "committed"
               /\ rows' = [rows EXCEPT ![c.key] = [rows[c.key] EXCEPT !.state = "intent", !.owner = q, !.attempts = @ + 1]]
               /\ calls' = [calls EXCEPT ![q].at = "mint", ![q].goal = "write"]
      <3> DEFINE r == [rows[c.key] EXCEPT !.state = "intent", !.owner = q, !.attempts = @ + 1]
                 d == [c EXCEPT !.at = "mint", !.goal = "write"]
      <3>1. DOMAIN r = RowFields /\ r.state = "intent"
        BY <1>8, <2>1 DEF RowFields
      <3>2. DOMAIN d = CallFields /\ d.at = "mint" /\ d.goal = "write" /\ d.key = c.key /\ d.epoch = c.epoch
        BY <1>5 DEF CallFields
      <3>3. rows' = [rows EXCEPT ![c.key] = r] /\ calls' = [calls EXCEPT ![q] = d]
        BY <1>2, <1>8, <2>1, <2>3
      <3> HIDE DEF r, d
      <3>4. \A w : CallSound(d, leases[q], cell.epoch, ref, prs, w, sealed)
        BY <1>2, <2>1, <3>2 DEF CallSound
      <3> QED BY <2>1, <2>3, <3>1, <3>3, <3>4, OpenRow
    <2> QED BY <1>14, <2>2, <2>3 DEF Claim
  <1>15. CASE Mint(q)
    <2>1. c.at = "mint" /\ UNCHANGED <<cell, ref, prs, sealed, rival>>
      BY <1>15 DEF Mint
    <2>2. CASE Raise(q)
      BY <2>1, <2>2, RaiseStep
    <2>3. CASE cell.epoch = c.epoch
      <3> DEFINE n == IF rows[c.key].attempts = 0 THEN 1 ELSE rows[c.key].attempts
                 rev(p) == leases[p].epoch = c.epoch /\ leases[p].attempt < n
      <3>1. leases' = [p \in Requests |-> IF rev(p) THEN [leases[p] EXCEPT !.live = FALSE] ELSE leases[p]]
            /\ calls' = [calls EXCEPT ![q] = At("insert")] /\ UNCHANGED rows
        BY <1>3, <1>15, <2>3 DEF Mint
      <3> HIDE DEF rev
      <3>2. DOMAIN leases = Requests /\ \A p \in Requests : DOMAIN leases[p] = {"epoch", "attempt", "live"}
        BY <1>1 DEF WorldOK
      <3>3. DOMAIN leases' = Requests /\ \A p \in Requests : /\ DOMAIN leases'[p] = {"epoch", "attempt", "live"}
                                                           /\ leases'[p].epoch = leases[p].epoch /\ (leases'[p].live => leases[p].live)
        <4> SUFFICES ASSUME NEW p \in Requests
                     PROVE  /\ DOMAIN leases'[p] = {"epoch", "attempt", "live"}
                            /\ leases'[p].epoch = leases[p].epoch /\ (leases'[p].live => leases[p].live)
          BY <3>1
        <4>1. /\ [leases[p] EXCEPT !.live = FALSE].epoch = leases[p].epoch /\ ~[leases[p] EXCEPT !.live = FALSE].live
              /\ DOMAIN [leases[p] EXCEPT !.live = FALSE] = {"epoch", "attempt", "live"}
          BY <3>2
        <4> QED BY <3>1, <3>2, <4>1
      <3>4. WorldOK'
        BY <1>1, <2>1, <3>1, <3>3 DEF WorldOK
      <3>5. ASSUME NEW p \in Requests PROVE CallSound(calls'[p], leases'[p], cell.epoch, ref, prs, rows, sealed)
        <4>1. CASE p = q
          <5>1. calls'[p] = At("insert")
            BY <1>2, <3>1, <4>1
          <5> QED BY <1>2, <1>6, <2>1, <5>1 DEF CallSound
        <4>2. CASE p # q
          <5>1. calls'[p] = calls[p] /\ CallSound(calls[p], leases[p], cell.epoch, ref, prs, rows, sealed)
            BY <1>1, <3>1, <4>2 DEF CallsSound
          <5> QED BY <3>3, <5>1, CallKept
        <4> QED BY <4>1, <4>2
      <3>6. CallsSound'
        BY <1>2, <2>1, <3>1, <3>5 DEF CallsSound
      <3> QED BY <1>1, <2>1, <3>1, <3>4, <3>6 DEF PubInv, CommitsKnown, RivalSound, MergedReally
    <2> QED BY <1>15, <2>2, <2>3 DEF Mint
  <1>16. CASE Insert(q)
    <2> DEFINE n == IF rows[c.key].attempts = 0 THEN 1 ELSE rows[c.key].attempts
               l == [epoch |-> c.epoch, attempt |-> n, live |-> TRUE]
    <2>1. c.at = "insert" /\ UNCHANGED <<cell, ref, prs, sealed, rival, rows>> /\ leases' = [leases EXCEPT ![q] = l]
          /\ calls' = [calls EXCEPT ![q] = At("readEpoch")]
      BY <1>3, <1>16 DEF Insert
    <2>2. DOMAIN l = {"epoch", "attempt", "live"} /\ l.epoch = c.epoch
      OBVIOUS
    <2> HIDE DEF l
    <2>3. DOMAIN leases' = Requests /\ leases'[q] = l /\ \A p \in Requests \ {q} : leases'[p] = leases[p]
      BY <1>1, <2>1 DEF WorldOK
    <2>4. WorldOK'
      BY <1>1, <2>1, <2>2, <2>3 DEF WorldOK
    <2>5. CallSound(At("readEpoch"), l, cell.epoch, ref, prs, rows, sealed)
      BY <1>2, <1>6, <2>1, <2>2 DEF CallSound
    <2>6. CallsSound'
      BY <1>1, <1>2, <2>1, <2>3, <2>5 DEF CallsSound
    <2> QED BY <1>1, <2>1, <2>4, <2>6 DEF PubInv, CommitsKnown, RivalSound, MergedReally
  <1>17. CASE ReadEpoch(q)
    <2> DEFINE d == [c EXCEPT !.at = "redeem", !.read = cell.epoch]
    <2>1. c.at = "readEpoch" /\ UNCHANGED <<cell, ref, prs, sealed, rival, rows, leases>> /\ calls' = [calls EXCEPT ![q] = d]
      BY <1>2, <1>17 DEF ReadEpoch
    <2>2. DOMAIN d = CallFields /\ d.at = "redeem" /\ d.goal = c.goal /\ d.key = c.key /\ d.epoch = c.epoch /\ d.read = cell.epoch
      BY <1>5 DEF CallFields
    <2> HIDE DEF d
    <2>3. CallSound(d, leases[q], cell.epoch, ref, prs, rows, sealed)
      BY <1>2, <2>1, <2>2 DEF CallSound
    <2> QED BY <2>1, <2>3, QuietStep
  <1>18. CASE Redeem(q)
    <2>1. c.at = "redeem" /\ UNCHANGED <<cell, ref, prs, sealed, rival>>
      BY <1>18 DEF Redeem
    <2>2. CASE Raise(q)
      BY <2>1, <2>2, RaiseStep
    <2>3. CASE Goes(q, c.goal) /\ UNCHANGED <<leases, rows>>
      <3>1. CallSound(At(c.goal), leases[q], cell.epoch, ref, prs, rows, sealed)
        BY <1>2, <1>6, <2>1 DEF CallSound
      <3> QED BY <1>3, <2>1, <2>3, <3>1, QuietStep
    <2> QED BY <1>18, <2>2, <2>3 DEF Redeem
  <1>19. CASE ReconcilePublication(q)
    <2>1. c.at = "read" /\ Hangs(q) /\ UNCHANGED <<cell, ref, prs, sealed, rival>> /\ c.key \in Keys
      BY <1>7, <1>19 DEF ReconcilePublication
    <2>2. CASE Leaves(q) /\ UNCHANGED rows
      BY <1>4, <2>1, <2>2, IdleSound, QuietStep
    <2>3. CASE Goes(q, "claim") /\ UNCHANGED rows
      <3>1. CallSound(At("claim"), leases'[q], cell.epoch, ref, prs, rows, sealed)
        BY <1>2, <1>6, <2>1 DEF CallSound
      <3> QED BY <1>3, <2>1, <2>3, <3>1, QuietStep
    <2>4. CASE /\ c.key # "autonomous_merge" => Judge(c.key) = "committed"
               /\ rows' = [rows EXCEPT ![c.key].state = "committed", ![c.key].owner = "nobody", ![c.key].sha = Observed.sha]
               /\ Goes(q, "record")
      <3> DEFINE r == [rows[c.key] EXCEPT !.state = "committed", !.owner = "nobody", !.sha = Observed.sha]
      <3>1. rows' = [rows EXCEPT ![c.key] = r]
        BY <1>8, <2>1, <2>4
      <3>2. DOMAIN r = RowFields /\ r.state = "committed" /\ r.sha = Observed.sha
        BY <1>8, <2>1 DEF RowFields
      <3> HIDE DEF r
      <3>3. \A w : w[c.key].state = "committed" => CallSound(At("record"), leases'[q], cell.epoch, ref, prs, w, sealed)
        BY <1>2, <1>6, <2>1 DEF CallSound
      <3>4. c.key \in Patches => Shown(c.key, prs) /\ Names(c.key, r.sha, ref)
        BY <1>1, <1>10, <2>4, <3>2, Judged
      <3> QED BY <1>3, <2>1, <2>4, <3>1, <3>2, <3>3, <3>4, SettledRow
    <2> QED BY <1>19, <2>2, <2>3, <2>4 DEF ReconcilePublication
  <1>20. CASE Preflight(q)
    <2>1. c.at = "write" /\ c.key # "autonomous_merge" /\ c.key \in Patches /\ UNCHANGED <<cell, ref, prs, sealed, rival>>
      BY <1>7, <1>9, <1>20 DEF Preflight
    <2>2. CASE Raise(q)
      BY <2>1, <2>2, RaiseStep
    <2>3. CASE Goes(q, "clone") /\ UNCHANGED <<leases, rows>>
      <3>1. CallSound(At("clone"), leases[q], cell.epoch, ref, prs, rows, sealed)
        BY <1>2, <1>6, <2>1 DEF CallSound
      <3> QED BY <1>3, <2>1, <2>3, <3>1, QuietStep
    <2>4. CASE Judge(c.key) = "committed" /\ Receives(q) /\ UNCHANGED <<leases, rows>>
      BY <2>1, <2>4, ReceiptStep
    <2> QED BY <1>20, <2>2, <2>3, <2>4 DEF Preflight
  <1>21. CASE Clone(q)
    <2>1. c.at = "clone" /\ c.key \in Patches /\ UNCHANGED <<cell, ref, prs, sealed, rival>>
      BY <1>2, <1>21 DEF Clone, CallSound
    <2>2. CASE Raise(q)
      BY <2>1, <2>2, RaiseStep
    <2>3. CASE ~ForeignHead(ref, "home") /\ calls' = [calls EXCEPT ![q].at = "push", ![q].saw = ref] /\ UNCHANGED <<leases, rows>>
      <3> DEFINE d == [c EXCEPT !.at = "push", !.saw = ref]
      <3>1. calls' = [calls EXCEPT ![q] = d]
        BY <1>2, <2>3
      <3>2. DOMAIN d = CallFields /\ d.at = "push" /\ d.goal = c.goal /\ d.key = c.key /\ d.epoch = c.epoch /\ d.saw = ref
        BY <1>5 DEF CallFields
      <3> HIDE DEF d
      <3>3. CallSound(d, leases[q], cell.epoch, ref, prs, rows, sealed)
        BY <1>2, <2>1, <2>3, <3>2 DEF CallSound, ForeignHead
      <3> QED BY <2>1, <2>3, <3>1, <3>3, QuietStep
    <2> QED BY <1>21, <2>2, <2>3 DEF Clone
  <1>22. CASE Push(q)
    <2>1. c.at = "push" /\ c.key \in Patches /\ UNCHANGED <<cell, sealed, rival>> /\ ref \in Refs
      BY <1>1, <1>2, <1>22 DEF Push, CallSound, WorldOK
    <2>2. CASE Raise(q) /\ UNCHANGED <<ref, prs>>
      BY <2>1, <2>2, RaiseStep
    <2>3. CASE Moves(CommitOf(c.key, "home")) /\ Goes(q, "open") /\ UNCHANGED <<leases, rows>>
      <3> DEFINE m == CommitOf(c.key, "home")
      <3>1. m \in Refs /\ m.sha = ref.sha + 1
        BY <2>1 DEF CommitOf, Refs
      <3> HIDE DEF m
      <3>2. Moves(m)
        BY <2>3 DEF m
      <3>3. CallSound(At("open"), leases[q], cell.epoch, ref', prs', rows, sealed)
        BY <1>2, <1>6, <2>1 DEF CallSound
      <3>4. DOMAIN calls' = Requests /\ calls'[q] = At("open") /\ \A p \in Requests : p # q => calls'[p] = calls[p]
        BY <1>2, <1>3, <2>3
      <3>5. MergedReally'
        BY <1>1, <2>1, <3>1, <3>2, MovesForward DEF MergedReally
      <3>6. RivalSound'
        BY <1>1, <2>1 DEF RivalSound
      <3> QED BY <2>1, <2>3, <3>1, <3>2, <3>3, <3>4, <3>5, <3>6, MovesForward, RemoteStep
    <2> QED BY <1>22, <2>2, <2>3 DEF Push
  <1>23. CASE OpenPr(q)
    <2>1. c.at = "open" /\ c.key \in Patches /\ UNCHANGED <<cell, sealed, rival, ref, leases, rows>> /\ prs' = Opened /\ Goes(q, "verify")
      BY <1>2, <1>23 DEF OpenPr, CallSound
    <2>2. CallSound(At("verify"), leases[q], cell.epoch, ref', prs', rows, sealed)
      BY <1>2, <1>6, <2>1 DEF CallSound
    <2>3. DOMAIN calls' = Requests /\ calls'[q] = At("verify") /\ \A p \in Requests : p # q => calls'[p] = calls[p]
      BY <1>2, <1>3, <2>1
    <2>4. MergedReally'
      BY <1>1, <2>1, OpensForward DEF MergedReally
    <2>5. RivalSound' /\ ref' \in Refs
      BY <1>1, <2>1 DEF RivalSound, WorldOK
    <2> QED BY <2>1, <2>2, <2>3, <2>4, <2>5, OpensForward, RemoteStep
  <1>24. CASE Verify(q)
    <2>1. c.at = "verify" /\ c.key \in Patches /\ UNCHANGED <<cell, ref, prs, sealed, rival>>
      BY <1>2, <1>24 DEF Verify, CallSound
    <2>2. CASE Raise(q)
      BY <2>1, <2>2, RaiseStep
    <2>3. CASE Judge(c.key) = "committed" /\ Receives(q) /\ UNCHANGED <<leases, rows>>
      BY <2>1, <2>3, ReceiptStep
    <2> QED BY <1>24, <2>2, <2>3 DEF Verify
  <1>25. CASE MergeInspect(q)
    <2>1. c.at = "write" /\ c.key = "autonomous_merge" /\ UNCHANGED <<cell, ref, prs, sealed, rival>>
      BY <1>25 DEF MergeInspect
    <2>2. CASE Raise(q)
      BY <2>1, <2>2, RaiseStep
    <2>3. ASSUME NEW p \in {"settle", "merge"}, Goes(q, p), UNCHANGED <<leases, rows>> PROVE PubInv'
      <3>1. CallSound(At(p), leases[q], cell.epoch, ref, prs, rows, sealed)
        BY <1>2, <1>6, <1>10, <2>1 DEF CallSound
      <3> QED BY <1>3, <2>1, <2>3, <3>1, QuietStep
    <2> QED BY <1>25, <2>2, <2>3 DEF MergeInspect
  <1>26. CASE Merge(q)
    <2>1. c.at = "merge" /\ UNCHANGED <<cell, ref, sealed, rival>> /\ c.epoch \in Epochs
      BY <1>7, <1>26 DEF Merge
    <2>2. CASE Raise(q) /\ UNCHANGED prs
      BY <2>1, <2>2, RaiseStep
    <2>3. ASSUME NEW i \in Mergeable(c.epoch), Goes(q, "settle"), UNCHANGED <<leases, rows>>,
                 prs' = [prs EXCEPT ![i].state = "merged", ![i].content = ref.content, ![i].sha = ref.sha]
          PROVE  PubInv'
      <3>1. i \in OpenPrs /\ ref.sha = sealed[c.epoch].sha
        BY <2>3 DEF Mergeable
      <3>2. c.key = "autonomous_merge" /\ sealed[c.epoch] # NoSeal
        BY <1>2, <2>1 DEF CallSound
      <3>3. sealed[c.epoch] = [content |-> ref.content, sha |-> ref.sha]
        <4>1. sealed[c.epoch] \in [content : Patches \cup {"none"}, sha : Nat]
          BY <1>1, <2>1 DEF WorldOK
        <4>2. Names(sealed[c.epoch].content, sealed[c.epoch].sha, ref)
          BY <1>1, <2>1, <3>2 DEF CommitsKnown
        <4> QED BY <3>1, <4>1, <4>2 DEF Names
      <3>4. /\ prs' \in Seq(PrSet) /\ DOMAIN prs' = DOMAIN prs /\ i \in DOMAIN prs
            /\ \A k : Shown(k, prs) => Shown(k, prs')
            /\ \A j \in DOMAIN prs' : PrSound(prs'[j], ref')
            /\ \A j \in DOMAIN prs \ {i} : prs'[j] = prs[j]
            /\ \/ prs'[i].state = "open"
               \/ prs'[i].state = "merged" /\ prs'[i].content = ref.content /\ prs'[i].sha = ref.sha
        <4>1. "merged" \in {"merged", "closed"}
          OBVIOUS
        <4> QED BY <2>1, <2>3, <3>1, <4>1, OneForward
      <3>5. MergedReally'
        BY <1>1, <2>1, <3>2, <3>3, <3>4 DEF MergedReally
      <3>6. CallSound(At("settle"), leases[q], cell.epoch, ref', prs', rows, sealed)
        BY <1>2, <1>6, <1>10, <2>1, <3>2 DEF CallSound
      <3>7. DOMAIN calls' = Requests /\ calls'[q] = At("settle") /\ \A p \in Requests : p # q => calls'[p] = calls[p]
        BY <1>2, <1>3, <2>3
      <3>8. RivalSound' /\ ref' \in Refs
        BY <1>1, <2>1 DEF RivalSound, WorldOK
      <3> QED BY <2>1, <2>3, <3>4, <3>5, <3>6, <3>7, <3>8, RemoteStep
    <2> QED BY <1>26, <2>2, <2>3 DEF Merge
  <1>27. CASE Settle(q)
    <2>1. c.at = "settle" /\ Hangs(q) /\ UNCHANGED <<cell, ref, prs, sealed, rival>> /\ c.key \in Keys
      BY <1>7, <1>27 DEF Settle
    <2>2. CASE Leaves(q) /\ UNCHANGED rows
      BY <1>4, <2>1, <2>2, IdleSound, QuietStep
    <2> DEFINE sh == IF rows[c.key].state = "committed" THEN rows[c.key].sha ELSE c.saw.sha
               r == [rows[c.key] EXCEPT !.state = "committed", !.owner = "nobody", !.sha = sh]
    <2>3. CASE rows' = [rows EXCEPT ![c.key] = r] /\ Goes(q, "record")
      <3>1. DOMAIN r = RowFields /\ r.state = "committed" /\ r.sha = sh
        BY <1>8, <2>1 DEF RowFields
      <3>2. c.key \in Patches => Shown(c.key, prs) /\ Names(c.key, sh, ref)
        BY <1>1, <1>2, <2>1 DEF CallSound, CommitsKnown, PublishedRow
      <3>3. \A w : w[c.key].state = "committed" => CallSound(At("record"), leases'[q], cell.epoch, ref, prs, w, sealed)
        BY <1>2, <1>6, <2>1 DEF CallSound
      <3> HIDE DEF r, sh
      <3> QED BY <1>3, <2>1, <2>3, <3>1, <3>2, <3>3, SettledRow
    <2>4. \/ Leaves(q) /\ UNCHANGED rows
          \/ rows' = [rows EXCEPT ![c.key] = r] /\ Goes(q, "record")
      BY <1>8, <1>27, <2>1 DEF Settle
    <2> QED BY <2>2, <2>3, <2>4
  <1>28. CASE Fail(q)
    BY <1>28, RaiseStep DEF Fail
  <1>29. CASE Record(q)
    <2>1. c.at = "record" /\ UNCHANGED <<cell, rows, leases, ref, prs, sealed, rival>> /\ (Goes(q, "tail") \/ Leaves(q))
      BY <1>29 DEF Record
    <2>2. CallSound(At("tail"), leases[q], cell.epoch, ref, prs, rows, sealed)
      BY <1>2, <1>6, <2>1 DEF CallSound
    <2> QED BY <1>3, <1>4, <2>1, <2>2, IdleSound, QuietStep
  <1>30. CASE ReadTail(q)
    <2> DEFINE d == [c EXCEPT !.at = "append", !.tail = Len(chain)]
    <2>1. c.at = "tail" /\ UNCHANGED <<cell, rows, leases, ref, prs, sealed, rival>>
          /\ (Goes(q, "remember") \/ calls' = [calls EXCEPT ![q] = d])
      BY <1>2, <1>30 DEF ReadTail
    <2>2. CallSound(At("remember"), leases[q], cell.epoch, ref, prs, rows, sealed)
      BY <1>2, <1>6, <2>1 DEF CallSound
    <2>3. DOMAIN d = CallFields /\ d.at = "append" /\ d.goal = c.goal /\ d.key = c.key /\ d.epoch = c.epoch
      BY <1>5 DEF CallFields
    <2> HIDE DEF d
    <2>4. CallSound(d, leases[q], cell.epoch, ref, prs, rows, sealed)
      BY <1>2, <2>1, <2>3 DEF CallSound
    <2> QED BY <1>3, <2>1, <2>2, <2>4, QuietStep
  <1>31. CASE AppendEvidence(q)
    <2>1. c.at = "append" /\ UNCHANGED <<cell, rows, leases, ref, prs, sealed, rival>> /\ Goes(q, "remember")
      BY <1>31 DEF AppendEvidence
    <2>2. CallSound(At("remember"), leases[q], cell.epoch, ref, prs, rows, sealed)
      BY <1>2, <1>6, <2>1 DEF CallSound
    <2> QED BY <1>3, <2>1, <2>2, QuietStep
  <1>32. CASE Remember(q)
    <2>1. c.at = "remember" /\ UNCHANGED <<cell, rows, leases, ref, prs, rival>> /\ Leaves(q) /\ c.epoch \in Epochs /\ c.key \in Keys
      BY <1>7, <1>32 DEF Remember
    <2>2. CASE UNCHANGED sealed
      BY <1>4, <2>1, <2>2, IdleSound, QuietStep
    <2> DEFINE n == [content |-> c.key, sha |-> rows[c.key].sha]
    <2>3. CASE c.key # "autonomous_merge" /\ sealed[c.epoch] = NoSeal /\ sealed' = [sealed EXCEPT ![c.epoch] = n]
      <3>1. c.key \in Patches /\ rows[c.key].state = "committed"
        BY <1>2, <1>9, <2>1, <2>3 DEF CallSound
      <3>2. Names(c.key, rows[c.key].sha, ref)
        BY <1>1, <3>1 DEF CommitsKnown, PublishedRow
      <3>3. n \in [content : Patches \cup {"none"}, sha : Nat] /\ n.content = c.key /\ n.sha = rows[c.key].sha
        BY <3>1, <3>2 DEF Names
      <3>4. NoSeal.content = "none"
        BY DEF NoSeal
      <3> HIDE DEF n
      <3>5. sealed \in [Epochs -> [content : Patches \cup {"none"}, sha : Nat]]
        BY <1>1 DEF WorldOK
      <3>6. sealed' \in [Epochs -> [content : Patches \cup {"none"}, sha : Nat]] /\ sealed'[c.epoch] = n
            /\ \A e \in Epochs : e # c.epoch => sealed'[e] = sealed[e]
        BY <2>1, <2>3, <3>3, <3>5
      <3>7. WorldOK'
        BY <1>1, <2>1, <3>6 DEF WorldOK
      <3>8. CommitsKnown'
        BY <1>1, <2>1, <3>2, <3>3, <3>6 DEF CommitsKnown
      <3>9. MergedReally'
        <4> SUFFICES ASSUME NEW i \in DOMAIN prs, prs[i].state = "merged"
                     PROVE  \E e \in Epochs : sealed'[e] # NoSeal /\ sealed'[e] = [content |-> prs[i].content, sha |-> prs[i].sha]
          BY <2>1 DEF MergedReally
        <4>1. PICK e \in Epochs : sealed[e] # NoSeal /\ sealed[e] = [content |-> prs[i].content, sha |-> prs[i].sha]
          BY <1>1 DEF MergedReally
        <4>2. e # c.epoch
          BY <2>3, <4>1
        <4>3. sealed'[e] = sealed[e]
          BY <3>6, <4>2
        <4> QED BY <4>1, <4>3
      <3>10. \A e \in Epochs : sealed[e] # NoSeal => sealed'[e] # NoSeal
        <4> SUFFICES ASSUME NEW e \in Epochs, sealed[e] # NoSeal PROVE sealed'[e] # NoSeal
          OBVIOUS
        <4>1. e # c.epoch
          BY <2>3
        <4> QED BY <3>6, <4>1
      <3>11. CallsSound'
        <4>1. DOMAIN calls' = Requests /\ calls'[q] = NoCall /\ \A p \in Requests : p # q => calls'[p] = calls[p]
          BY <1>2, <1>4, <2>1
        <4>2. ASSUME NEW p \in Requests PROVE CallSound(calls'[p], leases[p], cell.epoch, ref, prs, rows, sealed')
          <5>1. CallSound(calls[p], leases[p], cell.epoch, ref, prs, rows, sealed)
            BY <1>1 DEF CallsSound
          <5>2. CallSound(calls[p], leases[p], cell.epoch, ref, prs, rows, sealed')
            BY <3>10, <5>1, CallKept
          <5> QED BY <4>1, <5>2, IdleSound
        <4> QED BY <2>1, <4>1, <4>2 DEF CallsSound
      <3>12. RivalSound'
        BY <1>1, <2>1 DEF RivalSound
      <3> QED BY <3>7, <3>8, <3>9, <3>11, <3>12 DEF PubInv
    <2> QED BY <1>8, <1>32, <2>2, <2>3 DEF Remember
  <1> QED BY <1>11, <1>12, <1>13, <1>14, <1>15, <1>16, <1>17, <1>18, <1>19, <1>20, <1>21, <1>22, <1>23, <1>24, <1>25,
             <1>26, <1>27, <1>28, <1>29, <1>30, <1>31, <1>32 DEF CallStep

\* Revoking the leases of the epoch that ends, or is left, breaks no call.
LEMMA RevokeStep ==
  ASSUME PubInv, UNCHANGED <<rows, calls, ref, prs, sealed, rival>>,
         leases' = [q \in Requests |-> IF leases[q].epoch = cell.epoch THEN [leases[q] EXCEPT !.live = FALSE] ELSE leases[q]],
         DOMAIN cell' = {"epoch", "state", "policy"}, cell'.epoch \in Epochs
  PROVE  PubInv'
  <1>1. WorldOK /\ CallsSound /\ CommitsKnown /\ RivalSound /\ MergedReally
    BY DEF PubInv
  <1>2. ASSUME NEW q \in Requests
        PROVE  /\ DOMAIN leases'[q] = {"epoch", "attempt", "live"} /\ leases'[q].epoch = leases[q].epoch
               /\ leases'[q].live => leases[q].live /\ leases[q].epoch # cell.epoch
    <2> DEFINE r == [leases[q] EXCEPT !.live = FALSE]
    <2>1. DOMAIN leases[q] = {"epoch", "attempt", "live"}
      BY <1>1 DEF WorldOK
    <2>2. DOMAIN r = {"epoch", "attempt", "live"} /\ r.epoch = leases[q].epoch /\ ~r.live
      BY <2>1
    <2>3. leases'[q] = IF leases[q].epoch = cell.epoch THEN r ELSE leases[q]
      OBVIOUS
    <2> HIDE DEF r
    <2> QED BY <2>1, <2>2, <2>3
  <1>3. WorldOK'
    BY <1>1, <1>2 DEF WorldOK
  <1>4. CallsSound'
    <2>1. ASSUME NEW p \in Requests PROVE CallSound(calls[p], leases'[p], cell'.epoch, ref, prs, rows, sealed)
      <3>1. CallSound(calls[p], leases[p], cell.epoch, ref, prs, rows, sealed)
        BY <1>1 DEF CallsSound
      <3>2. leases'[p].epoch = leases[p].epoch /\ (leases'[p].live => leases[p].live /\ leases[p].epoch # cell.epoch)
        BY <1>2
      <3> QED BY <3>1, <3>2, CallKept
    <2> QED BY <1>1, <2>1 DEF CallsSound
  <1> QED BY <1>1, <1>3, <1>4 DEF PubInv, CommitsKnown, RivalSound, MergedReally

\* A step of the rest of the Cell: the dispatcher and the gates.
LEMMA CellStep ==
  ASSUME PubInv, UNCHANGED <<rows, leases, calls, ref, prs, sealed, rival>>,
         DOMAIN cell' = {"epoch", "state", "policy"}, cell'.epoch = cell.epoch
  PROVE  PubInv'
  <1>1. WorldOK /\ CallsSound /\ CommitsKnown /\ RivalSound /\ MergedReally
    BY DEF PubInv
  <1>2. WorldOK'
    BY <1>1 DEF WorldOK
  <1>3. CallsSound'
    BY <1>1 DEF CallsSound
  <1> QED BY <1>1, <1>2, <1>3 DEF PubInv, CommitsKnown, RivalSound, MergedReally

\* A step on the journal by nobody's call.
LEMMA RowsStep ==
  ASSUME PubInv, UNCHANGED <<cell, leases, calls, ref, prs, sealed, rival>>, NEW k \in Keys, NEW r,
         rows' = [rows EXCEPT ![k] = r], DOMAIN r = RowFields, k \in Patches => r.state = rows[k].state /\ r.sha = rows[k].sha
  PROVE  PubInv'
  <1>1. WorldOK /\ CallsSound /\ CommitsKnown /\ RivalSound /\ MergedReally
    BY DEF PubInv
  <1>2. DOMAIN rows' = Keys /\ rows'[k] = r /\ \A j \in Keys : j # k => rows'[j] = rows[j]
    BY <1>1 DEF WorldOK
  <1>3. WorldOK'
    BY <1>1, <1>2 DEF WorldOK
  <1>4. Patches \subseteq Keys
    BY DEF Keys
  <1>5. \A j \in Patches : rows'[j].state = rows[j].state /\ rows'[j].sha = rows[j].sha
    BY <1>2, <1>4
  <1>6. CommitsKnown'
    BY <1>1, <1>5 DEF CommitsKnown, PublishedRow
  <1>7. CallsSound'
    <2>1. ASSUME NEW p \in Requests PROVE CallSound(calls[p], leases[p], cell.epoch, ref, prs, rows', sealed)
      <3>1. CallSound(calls[p], leases[p], cell.epoch, ref, prs, rows, sealed)
        BY <1>1 DEF CallsSound
      <3>2. \A j \in Patches : rows[j].state = "committed" => rows'[j].state = "committed"
        BY <1>5
      <3> QED BY <3>1, <3>2 DEF CallSound
    <2> QED BY <1>1, <2>1 DEF CallsSound
  <1> QED BY <1>1, <1>3, <1>6, <1>7 DEF PubInv, RivalSound, MergedReally

\* The dispatcher is at one of the places of an activation.
DispatcherOK == dispatcher.at \in {"idle", "policy", "policyTail", "policyWrite", "bind", "bindTail", "bindWrite"}

\* Every step keeps the dispatcher at a place of an activation.
LEMMA DispatcherStep == DispatcherOK /\ [PublicationNext]_pubVars => DispatcherOK'
  <1> SUFFICES ASSUME DispatcherOK, [PublicationNext]_pubVars PROVE DispatcherOK'
    OBVIOUS
  <1>1. CASE UNCHANGED dispatcher
    BY <1>1 DEF DispatcherOK
  <1>2. CASE Dispatch
    <2>1. dispatcher.at = "policy" => dispatcher' = [at |-> "policyTail", tail |-> 0]
      BY <1>2 DEF Dispatch
    <2>2. dispatcher.at = "policyTail" => dispatcher' = [at |-> "policyWrite", tail |-> Len(chain)]
      BY <1>2 DEF Dispatch
    <2>3. dispatcher.at = "bindTail" => dispatcher' = [at |-> "bindWrite", tail |-> Len(chain)]
      BY <1>2 DEF Dispatch
    <2>4. dispatcher.at = "policyWrite" => dispatcher' = [at |-> "bind", tail |-> 0]
      BY <1>2 DEF Dispatch
    <2>5. dispatcher.at = "bindWrite" => dispatcher' = [at |-> "idle", tail |-> 0]
      BY <1>2 DEF Dispatch
    <2>6. dispatcher.at = "bind" => dispatcher' = [at |-> "bindTail", tail |-> 0]
      BY <1>2 DEF Dispatch
    <2>7. dispatcher.at # "idle"
      BY <1>2 DEF Dispatch
    <2> QED BY <2>1, <2>2, <2>3, <2>4, <2>5, <2>6, <2>7 DEF DispatcherOK
  <1>3. CASE Activate \/ Restart
    BY <1>1, <1>3 DEF Activate, Restart, DispatcherOK
  <1>4. ASSUME NEW q \in Requests, CallStep(q) PROVE UNCHANGED dispatcher
    BY <1>4 DEF CallStep, Start, Check, Execute, Claim, Mint, Insert, ReadEpoch, Redeem, ReconcilePublication, Preflight, Clone, Push,
                OpenPr, Verify, MergeInspect, Merge, Settle, Fail, Record, ReadTail, AppendEvidence, Remember
  <1>5. CASE End \/ OtherCellMerges \/ RivalStep \/ Person \/ (\E g \in {"intent", "plan"} : PolicyGate(g, 1))
             \/ (\E k \in Keys : AttemptExpires(k)) \/ UNCHANGED pubVars
    BY <1>1, <1>5 DEF End, OtherCellMerges, RivalStep, Person, PolicyGate, AttemptExpires, pubVars
  <1> QED BY <1>1, <1>2, <1>3, <1>4, <1>5 DEF PublicationNext

\* An activation changes the Cell only, and never its epoch.
LEMMA DispatchStep ==
  ASSUME PubInv, DispatcherOK, Dispatch
  PROVE  PubInv'
  <1>1. DOMAIN cell = {"epoch", "state", "policy"}
    BY DEF PubInv, WorldOK
  <1>2. UNCHANGED <<rows, leases, calls, ref, prs, sealed, rival>>
    BY DEF Dispatch
  <1> DEFINE s == IF cell.state = "dispatching" THEN "running" ELSE cell.state
  <1>3. cell' = cell \/ cell' = [cell EXCEPT !.policy = TRUE] \/ cell' = [cell EXCEPT !.state = s]
    BY DEF Dispatch, DispatcherOK
  <1> HIDE DEF s
  <1>4. DOMAIN cell' = {"epoch", "state", "policy"} /\ cell'.epoch = cell.epoch
    BY <1>1, <1>3
  <1> QED BY <1>2, <1>4, CellStep

\* A push of another instance keeps the invariant: it replaces no commit of this one.
LEMMA RivalKeeps ==
  ASSUME PubInv, RivalStep
  PROVE  PubInv'
  <1>1. WorldOK /\ CallsSound /\ CommitsKnown /\ RivalSound /\ MergedReally
    BY DEF PubInv
  <1>2. UNCHANGED <<cell, rows, leases, calls, sealed>> /\ DOMAIN calls' = Requests /\ ref \in Refs /\ prs \in Seq(PrSet)
    BY <1>1 DEF RivalStep, CallsSound, WorldOK
  <1>3. \A p \in Requests : calls'[p] = calls[p]
    BY <1>2
  <1>4. CASE UNCHANGED <<ref, prs>> /\ RivalSound'
    <2>1. \A i \in DOMAIN prs' : PrSound(prs'[i], ref')
      BY <1>1, <1>4 DEF CommitsKnown
    <2>2. MergedReally'
      BY <1>1, <1>2, <1>4 DEF MergedReally
    <2> QED BY <1>2, <1>3, <1>4, <2>1, <2>2, RemoteStep
  <1>5. CASE Moves(CommitOf("rivals", "rival")) /\ rival' = [at |-> "open", saw |-> NoRef]
    <2> DEFINE m == CommitOf("rivals", "rival")
    <2>1. m \in Refs /\ m.sha = ref.sha + 1
      BY <1>2 DEF CommitOf, Refs
    <2> HIDE DEF m
    <2>2. Moves(m)
      BY <1>5 DEF m
    <2>3. MergedReally'
      BY <1>1, <1>2, <2>1, <2>2, MovesForward DEF MergedReally
    <2>4. rival'.at = "open"
      BY <1>5
    <2>5. RivalSound'
      BY <2>4 DEF RivalSound
    <2> QED BY <1>2, <1>3, <2>1, <2>2, <2>3, <2>5, MovesForward, RemoteStep
  <1>6. CASE prs' = Opened /\ rival' = [at |-> "idle", saw |-> NoRef] /\ UNCHANGED ref
    <2>1. MergedReally'
      BY <1>1, <1>2, <1>6, OpensForward DEF MergedReally
    <2>2. rival'.at = "idle"
      BY <1>6
    <2>3. RivalSound' /\ ref' \in Refs
      BY <1>2, <1>6, <2>2 DEF RivalSound
    <2> QED BY <1>2, <1>3, <1>6, <2>1, <2>3, OpensForward, RemoteStep
  <1>7. CASE UNCHANGED <<ref, prs>> /\ rival' = IF ForeignHead(ref, "rival") THEN rival ELSE [at |-> "push", saw |-> ref]
    <2>1. RivalSound'
      <3>1. CASE rival' = rival
        BY <1>1, <3>1 DEF RivalSound
      <3>2. CASE ~ForeignHead(ref, "rival") /\ rival' = [at |-> "push", saw |-> ref]
        BY <3>2 DEF RivalSound, ForeignHead
      <3> QED BY <1>7, <3>1, <3>2
    <2> QED BY <1>4, <1>7, <2>1
  <1>8. CASE UNCHANGED <<ref, prs>> /\ rival' = [at |-> "idle", saw |-> NoRef]
    <2>1. rival'.at = "idle"
      BY <1>8
    <2> QED BY <1>4, <1>8, <2>1 DEF RivalSound
  <1> QED BY <1>5, <1>6, <1>7, <1>8 DEF RivalStep, Rival

\* What a person does on the forge keeps the invariant.
LEMMA PersonKeeps ==
  ASSUME PubInv, Person
  PROVE  PubInv'
  <1>1. WorldOK /\ CallsSound /\ CommitsKnown /\ RivalSound /\ MergedReally
    BY DEF PubInv
  <1>2. UNCHANGED <<cell, rows, leases, calls, sealed, rival>> /\ DOMAIN calls' = Requests /\ ref \in Refs /\ prs \in Seq(PrSet)
    BY <1>1 DEF Person, CallsSound, WorldOK
  <1>3. (\A p \in Requests : calls'[p] = calls[p]) /\ RivalSound'
    BY <1>1, <1>2 DEF RivalSound
  <1>4. ASSUME NEW i \in OpenPrs, UNCHANGED ref,
               \/ prs' = [prs EXCEPT ![i].state = "closed", ![i].content = ref.content, ![i].sha = ref.sha]
               \/ prs' = [prs EXCEPT ![i].blocked = TRUE]
        PROVE  PubInv'
    <2>1. "closed" \in {"merged", "closed"}
      OBVIOUS
    <2>2. /\ prs' \in Seq(PrSet) /\ DOMAIN prs' = DOMAIN prs /\ i \in DOMAIN prs
          /\ \A k : Shown(k, prs) => Shown(k, prs')
          /\ \A j \in DOMAIN prs' : PrSound(prs'[j], ref')
          /\ \A j \in DOMAIN prs \ {i} : prs'[j] = prs[j]
          /\ \/ prs'[i].state = "open"
             \/ prs'[i].state = "closed" /\ prs'[i].content = ref.content /\ prs'[i].sha = ref.sha
      BY <1>4, <2>1, OneForward
    <2>3. MergedReally'
      BY <1>1, <1>2, <2>2 DEF MergedReally
    <2>4. ref' \in Refs /\ \A k, s : Names(k, s, ref) => Names(k, s, ref')
      BY <1>2, <1>4
    <2> QED BY <1>2, <1>3, <2>2, <2>3, <2>4, RemoteStep
  <1>5. CASE Moves(CommitOf("edited", ref.by))
    <2> DEFINE m == CommitOf("edited", ref.by)
    <2>1. m \in Refs /\ m.sha = ref.sha + 1
      BY <1>2 DEF CommitOf, Refs
    <2> HIDE DEF m
    <2>2. Moves(m)
      BY <1>5 DEF m
    <2>3. MergedReally'
      BY <1>1, <1>2, <2>1, <2>2, MovesForward DEF MergedReally
    <2> QED BY <1>2, <1>3, <2>1, <2>2, <2>3, MovesForward, RemoteStep
  <1> QED BY <1>4, <1>5 DEF Person

\* Every step of a publication keeps its invariant.
LEMMA PublicationStep == PubInv /\ DispatcherOK /\ [PublicationNext]_pubVars => PubInv'
  <1> SUFFICES ASSUME PubInv, DispatcherOK, [PublicationNext]_pubVars PROVE PubInv'
    OBVIOUS
  <1>1. WorldOK /\ CallsSound /\ CommitsKnown /\ RivalSound /\ MergedReally
    BY DEF PubInv
  <1>2. DOMAIN cell = {"epoch", "state", "policy"} /\ cell.epoch \in 1 .. MaxEpoch /\ MaxEpoch \in Nat
    BY <1>1, PublicationAssumption DEF WorldOK, Epochs
  <1>3. CASE End
    <2>1. cell' = [cell EXCEPT !.state = "ended"]
      BY <1>3 DEF End
    <2>2. DOMAIN cell' = {"epoch", "state", "policy"} /\ cell'.epoch \in Epochs
      BY <1>2, <2>1 DEF Epochs
    <2> QED BY <1>3, <2>2, RevokeStep DEF End
  <1>4. CASE Activate
    <2>1. cell' = [epoch |-> cell.epoch + 1, state |-> "dispatching", policy |-> FALSE] /\ cell.epoch < MaxEpoch
      BY <1>4 DEF Activate
    <2>2. DOMAIN cell' = {"epoch", "state", "policy"} /\ cell'.epoch \in Epochs
      BY <1>2, <2>1 DEF Epochs
    <2> QED BY <1>4, <2>2, RevokeStep DEF Activate
  <1>5. CASE Dispatch
    BY <1>5, DispatchStep
  <1>6. CASE Restart
    <2>1. calls' = [q \in Requests |-> NoCall] /\ UNCHANGED <<cell, rows, leases, ref, prs, sealed, rival>>
      BY <1>6 DEF Restart
    <2>2. CallsSound'
      BY <2>1, IdleSound DEF CallsSound
    <2>3. WorldOK'
      BY <1>1, <2>1 DEF WorldOK
    <2> QED BY <1>1, <2>1, <2>2, <2>3 DEF PubInv, CommitsKnown, RivalSound, MergedReally
  <1>7. CASE OtherCellMerges
    <2> DEFINE r == [NoRow EXCEPT !.state = "committed", !.cell = "other", !.epoch = 1, !.attempts = 1]
    <2>1. rows' = [rows EXCEPT !["autonomous_merge"] = r] /\ UNCHANGED <<cell, leases, calls, ref, prs, sealed, rival>>
      BY <1>7 DEF OtherCellMerges
    <2>2. DOMAIN r = RowFields
      BY DEF NoRow, RowFields
    <2>3. "autonomous_merge" \in Keys /\ "autonomous_merge" \notin Patches
      BY PublicationAssumption DEF Keys
    <2> HIDE DEF r
    <2> QED BY <2>1, <2>2, <2>3, RowsStep
  <1>8. CASE RivalStep
    BY <1>8, RivalKeeps
  <1>9. CASE Person
    BY <1>9, PersonKeeps
  <1>10. ASSUME NEW g \in {"intent", "plan"}, PolicyGate(g, 1) PROVE PubInv'
    BY <1>2, <1>10, CellStep DEF PolicyGate
  <1>11. ASSUME NEW q \in Requests, CallStep(q) PROVE PubInv'
    BY <1>11, CallStepKeeps
  <1>12. ASSUME NEW k \in Keys, AttemptExpires(k) PROVE PubInv'
    <2> DEFINE r == [rows[k] EXCEPT !.expired = TRUE]
    <2>1. DOMAIN rows = Keys /\ DOMAIN rows[k] = RowFields
      BY <1>1 DEF WorldOK
    <2>2. rows' = [rows EXCEPT ![k] = r] /\ UNCHANGED <<cell, leases, calls, ref, prs, sealed, rival>>
      BY <1>12, <2>1 DEF AttemptExpires
    <2>3. DOMAIN r = RowFields /\ r.state = rows[k].state /\ r.sha = rows[k].sha
      BY <2>1 DEF RowFields
    <2> HIDE DEF r
    <2> QED BY <2>2, <2>3, RowsStep
  <1>13. CASE UNCHANGED pubVars
    <2>1. UNCHANGED <<cell, rows, leases, calls, ref, prs, sealed, rival>>
      BY <1>13 DEF pubVars
    <2> QED BY <1>2, <2>1, CellStep
  <1> QED BY <1>3, <1>4, <1>5, <1>6, <1>7, <1>8, <1>9, <1>10, <1>11, <1>12, <1>13 DEF PublicationNext

\* The invariant holds for every number of epochs, attempts, restarts and requests.
THEOREM PublicationInvariant == PublicationSpec => []PubInv
  <1>1. PublicationInit => DispatcherOK
    BY DEF PublicationInit, DispatcherOK
  <1> QED BY <1>1, DispatcherStep, PublicationStart, PublicationStep, PTL DEF PublicationSpec

\* CommittedWasShown for every set of patches and every bound: a row is committed only when a pull request
\* against the base branch has shown its content.
THEOREM CommittedShown == PublicationSpec => []CommittedWasShown
  <1>1. PubInv => CommittedWasShown
    BY DEF PubInv, CommitsKnown, PublishedRow, Shown, CommittedWasShown
  <1> QED BY <1>1, PublicationInvariant, PTL

\* MergedIsSealed for every set of patches and every bound: what is merged is what one epoch sealed, to the sha.
THEOREM MergedSealed == PublicationSpec => []MergedIsSealed
  <1>1. PubInv => MergedIsSealed
    BY DEF PubInv, MergedReally, MergedIsSealed
  <1> QED BY <1>1, PublicationInvariant, PTL

\* Only a push moves the branch: of a thread, of the rival or of a person.
LEMMA BranchMoves ==
  ASSUME PubInv, [PublicationNext]_pubVars, ref # NoRef
  PROVE  ref'.by = ref.by
  <1>0. CallsSound /\ RivalSound /\ ref \in Refs
    BY DEF PubInv, WorldOK
  <1>1. CASE UNCHANGED ref
    BY <1>1
  <1>2. \A x, y : CommitOf(x, y).by = y
    BY DEF CommitOf
  <1>3. ASSUME NEW q \in Requests, Push(q) PROVE ref'.by = ref.by
    <2>1. calls[q].at = "push" /\ CallSound(calls[q], leases[q], cell.epoch, ref, prs, rows, sealed)
      BY <1>0, <1>3 DEF Push, CallsSound
    <2>2. calls[q].saw = NoRef \/ calls[q].saw.by = "home"
      BY <2>1 DEF CallSound
    <2> QED BY <1>1, <1>2, <1>3, <2>2 DEF Push, PushWins, Moves
  <1>4. CASE RivalStep
    BY <1>0, <1>1, <1>2, <1>4 DEF RivalStep, Rival, PushWins, Moves, RivalSound
  <1>5. CASE Person
    BY <1>1, <1>2, <1>5 DEF Person, Moves
  <1>6. ASSUME NEW q \in Requests, CallStep(q), ~Push(q) PROVE UNCHANGED ref
    BY <1>6 DEF CallStep, Start, Check, Execute, Claim, Mint, Insert, ReadEpoch, Redeem, ReconcilePublication, Preflight, Clone,
                OpenPr, Verify, MergeInspect, Merge, Settle, Fail, Record, ReadTail, AppendEvidence, Remember
  <1>7. CASE End \/ Activate \/ Dispatch \/ Restart \/ OtherCellMerges \/ (\E g \in {"intent", "plan"} : PolicyGate(g, 1))
             \/ (\E k \in Keys : AttemptExpires(k)) \/ UNCHANGED pubVars
    BY <1>1, <1>7 DEF End, Activate, Dispatch, Restart, OtherCellMerges, PolicyGate, AttemptExpires, pubVars
  <1> QED BY <1>1, <1>3, <1>4, <1>5, <1>6, <1>7 DEF PublicationNext

\* A thread leaves "redeem" with a credential only by Redeem.
LEMMA CredentialCurrent ==
  ASSUME PubInv, [PublicationNext]_pubVars, NEW q \in Requests, calls[q].at = "redeem", calls'[q].at \in {"read", "write"}
  PROVE  cell.epoch = calls[q].epoch
  <1>1. DOMAIN calls = Requests /\ \A p \in Requests : CallSound(calls[p], leases[p], cell.epoch, ref, prs, rows, sealed)
    BY DEF PubInv, CallsSound
  <1>2. NoCall.at = "idle"
    BY DEF NoCall
  <1>3. calls' # calls
    BY <1>1
  <1>4. ~Restart
    <2>1. Restart => calls'[q] = NoCall
      BY DEF Restart
    <2> QED BY <1>2, <2>1
  <1>5. PICK p \in Requests : CallStep(p)
    <2>1. End \/ Activate \/ Dispatch \/ OtherCellMerges \/ RivalStep \/ Person \/ (\E g \in {"intent", "plan"} : PolicyGate(g, 1))
             \/ (\E k \in Keys : AttemptExpires(k)) \/ UNCHANGED pubVars => calls' = calls
      BY DEF End, Activate, Dispatch, OtherCellMerges, RivalStep, Person, PolicyGate, AttemptExpires, pubVars
    <2> QED BY <1>3, <1>4, <2>1 DEF PublicationNext
  <1>6. \E x : calls' = [calls EXCEPT ![p] = x]
    <2>1. CASE Raise(p) \/ Leaves(p)
      BY <2>1 DEF Raise, Leaves
    <2>2. ASSUME NEW x, Goes(p, x) PROVE \E y : calls' = [calls EXCEPT ![p] = y]
      BY <2>2 DEF Goes
    <2>3. CASE Receives(p)
      BY <2>3 DEF Receives
    <2>4. CASE \E k \in Keys : Start(p, k)
      BY <2>4 DEF Start
    <2> QED BY <1>5, <2>1, <2>2, <2>3, <2>4 DEF CallStep, Check, Execute, Claim, Mint, Insert, ReadEpoch, Redeem, ReconcilePublication, Preflight, Clone, Push,
                OpenPr, Verify, MergeInspect, Merge, Settle, Fail, Record, ReadTail, AppendEvidence, Remember
  <1>7. p = q
    BY <1>1, <1>6
  <1>8. Redeem(q)
    BY <1>5, <1>7 DEF CallStep, Start, Check, Execute, Claim, Mint, Insert, ReadEpoch, ReconcilePublication, Preflight, Clone, Push,
                OpenPr, Verify, MergeInspect, Merge, Settle, Fail, Record, ReadTail, AppendEvidence, Remember
  <1>9. ~Raise(q)
    BY <1>1, <1>2 DEF Raise, Leaves
  <1>10. leases[q].live /\ calls[q].read = calls[q].epoch
    BY <1>8, <1>9 DEF Redeem
  <1> QED BY <1>1, <1>10 DEF CallSound

\* PublicationFenced for every set of patches and every bound: credentials are redeemed in the current epoch only,
\* and no push replaces a commit of another instance.
THEOREM PublicationIsFenced == PublicationSpec => PublicationFenced
  <1>1. PubInv /\ [PublicationNext]_pubVars => [CredentialForCurrentEpoch /\ OtherInstancesBranchKept]_pubVars
    BY BranchMoves, CredentialCurrent DEF CredentialForCurrentEpoch, OtherInstancesBranchKept
  <1> QED BY <1>1, PublicationInvariant, PTL DEF PublicationSpec, PublicationFenced

------------------------------------------------------------------------------
\* Promotion of the factory's own changes.

\* Every mandatory leg really ran on the tree and passed.
Tested(tree, r) == \A l \in Legs : <<tree, l>> \in r

\* The trees, the results of a leg and the types of the promotion's state.
Trees == [head : Nat, main : Nat]
Outcomes == {"success", "failure", "cancelled", "skipped", "none"}
Satisfied == {"success", "skipped"}

\* The types of the branch, the pull request, the protection settings and the CI run.
PromoTypeOK ==
  /\ main \in [n : Nat, tree : Trees, flow : Flows, tested : BOOLEAN]
  /\ pull \in [head : Nat, onto : Nat, flow : Flows, label : Labels]
  /\ status \in [Contexts -> Outcomes]
  /\ live \in [contexts : SUBSET Contexts, strict : BOOLEAN, enforce_admins : BOOLEAN]
  /\ ci.flow \in Flows /\ ci.commit \in Nat /\ ci.tree \in Trees
  /\ DOMAIN ci.results \subseteq Legs

\* A run is about the head it was started for, and what it counts as passed really ran.
CiKnown ==
  /\ ci.event = "pull_request" => /\ ci.commit <= pull.head /\ ci.tree.head = ci.commit
                                  /\ ci.commit = pull.head => ci.flow = pull.flow
  /\ \A l \in DOMAIN ci.results : ci.results[l] = "success" /\ ~ci.flow.legSoft => <<ci.tree, l>> \in ran

\* What a satisfied check says of the head and of the main it would be merged into.
StatusKnown ==
  /\ status["candidate-readiness"] \in Satisfied =>
       /\ pull.flow.release = "gated"
       /\ pull.flow = ReviewedFlow => Tested(Tree(pull.head, main.n), ran)
  /\ status["protected-paths"] \in Satisfied /\ pull.label # "person" => pull.flow = main.flow

\* Every retained manifest is about a tree that was tested.
ManifestsKnown == \A m \in manifests : Tested(m.tree, ran)

\* No merge was waived by a label or made under drifted settings.
Unwaived(ms) == \A o \in ms : ~o.waived /\ o.drift = {}
\* No merge was made under drifted settings.
Undrifted(ms) == \A o \in ms : o.drift = {}

\* The workflows on main are weakened only by a waived merge, and never release without evidence.
MainKnown ==
  /\ Unwaived(merges) => main.flow = ReviewedFlow
  /\ Undrifted(merges) => main.flow.release = "gated"

\* As long as nobody waived a check or changed the settings, what was merged and what was shipped was tested.
HistoryTested ==
  /\ Unwaived(merges) => \A m \in merges : Tested(m.tree, ran)
  /\ Undrifted(merges) => \A t \in shipped : Tested(t, ran)

\* The inductive invariant of a promotion.
PromoInv == PromoTypeOK /\ CiKnown /\ StatusKnown /\ ManifestsKnown /\ MainKnown /\ HistoryTested

\* A workflow that a change may propose differs from the reviewed one in one place.
LEMMA FlowFacts ==
  ASSUME NEW w \in Flows
  PROVE  /\ w.runsAudit \/ (w.runsGate /\ Legs \subseteq w.passes /\ ~w.legSoft /\ w.release = "gated")
         /\ w.aggregateSoft => w.release = "gated" /\ w # ReviewedFlow
         /\ w.aggregateIf # "always" => w.release = "gated" /\ w # ReviewedFlow
  <1>1. ReviewedFlow = [jobs |-> Legs, legSoft |-> FALSE, legIf |-> "guard", needs |-> Legs, aggregateSoft |-> FALSE,
                 aggregateIf |-> "always", runsGate |-> TRUE, passes |-> Legs, runsAudit |-> TRUE, release |-> "gated"]
    BY DEF ReviewedFlow
  <1> DEFINE R == ReviewedFlow
  <1>2. CASE w = R
    BY <1>1, <1>2
  <1>3. CASE w = [R EXCEPT !.jobs = Legs \ {WeakLeg}, !.needs = Legs \ {WeakLeg}, !.passes = Legs \ {WeakLeg}]
    BY <1>1, <1>3
  <1>4. CASE w = [R EXCEPT !.legSoft = TRUE] \/ w = [R EXCEPT !.legIf = "draft"] \/ w = [R EXCEPT !.needs = Legs \ {WeakLeg}]
    BY <1>1, <1>4
  <1>5. CASE w = [R EXCEPT !.aggregateSoft = TRUE]
    <2>1. w.aggregateSoft /\ ~R.aggregateSoft /\ w.runsAudit /\ w.release = "gated"
      BY <1>1, <1>5
    <2> QED BY <2>1
  <1>6. CASE w = [R EXCEPT !.aggregateIf = "guard"]
    <2>1. w.aggregateIf = "guard" /\ R.aggregateIf = "always" /\ w.runsAudit /\ w.release = "gated"
      BY <1>1, <1>6
    <2> QED BY <2>1
  <1>7. CASE w = [R EXCEPT !.runsGate = FALSE] \/ w = [R EXCEPT !.passes = Legs \ {WeakLeg}]
    BY <1>1, <1>7
  <1>8. CASE w = [R EXCEPT !.runsAudit = FALSE]
    BY <1>1, <1>8
  <1>9. CASE w = [R EXCEPT !.release = "free"]
    BY <1>1, <1>9
  <1> QED
    <2> HIDE DEF R
    <2>1. \/ w \in {R, [R EXCEPT !.jobs = Legs \ {WeakLeg}, !.needs = Legs \ {WeakLeg}, !.passes = Legs \ {WeakLeg}]}
          \/ w \in {[R EXCEPT !.legSoft = TRUE], [R EXCEPT !.legIf = "draft"], [R EXCEPT !.needs = Legs \ {WeakLeg}],
                    [R EXCEPT !.aggregateSoft = TRUE], [R EXCEPT !.aggregateIf = "guard"], [R EXCEPT !.runsGate = FALSE],
                    [R EXCEPT !.passes = Legs \ {WeakLeg}], [R EXCEPT !.runsAudit = FALSE], [R EXCEPT !.release = "free"]}
      BY Zenon DEF Flows, R
    <2> QED BY <2>1, <1>2, <1>3, <1>4, <1>5, <1>6, <1>7, <1>8, <1>9, Zenon

\* An audit without problems means a gate that runs, takes every leg, fails closed and gates the release.
LEMMA AuditClean ==
  ASSUME NEW w, AuditProblems(w) = {}
  PROVE  w.runsGate /\ Legs \subseteq w.passes /\ ~w.legSoft /\ w.release = "gated"
  <1> DEFINE a == AuditRules(w)
  <1>1. DOMAIN a = {"legsAreJobs", "legsFailClosed", "legsUnconditional", "aggregateNeeds", "aggregateFails", "aggregateAlways",
                    "aggregateGates", "aggregateAudits", "releaseGated"}
    BY DEF AuditRules
  <1>2. a["legsFailClosed"] = ~w.legSoft /\ a["aggregateGates"] = (w.runsGate /\ Legs \subseteq w.passes)
        /\ a["releaseGated"] = (w.release = "gated")
    BY DEF AuditRules
  <1> HIDE DEF a
  <1>3. \A r \in DOMAIN a : a[r]
    BY DEF AuditProblems, a
  <1>4. a["legsFailClosed"] /\ a["aggregateGates"] /\ a["releaseGated"]
    BY <1>1, <1>3
  <1> QED BY <1>2, <1>4

\* A run that candidate-readiness passes was complete, and about the live head and base.
LEMMA RunPasses ==
  ASSUME PromoTypeOK, CiKnown, ~AggregateFails(ci)
  PROVE  /\ Tested(ci.tree, ran) /\ ci.flow.release = "gated"
         /\ ci.event = "pull_request" => ci.tree = Tree(pull.head, main.n)
  <1>1. ci.flow \in Flows /\ ci.tree \in Trees /\ DOMAIN ci.results \subseteq Legs
    BY DEF PromoTypeOK
  <1>2. ci.flow.runsGate /\ Legs \subseteq ci.flow.passes /\ ~ci.flow.legSoft /\ ci.flow.release = "gated"
    BY <1>1, FlowFacts, AuditClean DEF AggregateFails
  <1> DEFINE D == DOMAIN ci.results \cap ci.flow.passes
  <1>3. GateBlockers(Restrict(ci.results, D)) = {}
    BY <1>2 DEF AggregateFails
  <1>4. DOMAIN Restrict(ci.results, D) = D /\ \A l \in D : Restrict(ci.results, D)[l] = ci.results[l]
    BY DEF Restrict
  <1>5. ASSUME NEW l \in Legs PROVE l \in DOMAIN ci.results /\ ci.results[l] = "success"
    BY <1>3, <1>4 DEF GateBlockers
  <1>6. Tested(ci.tree, ran)
    BY <1>2, <1>5 DEF CiKnown, Tested
  <1>7. ASSUME ci.event = "pull_request" PROVE ci.tree = Tree(pull.head, main.n)
    <2>1. IdentityBlockers(ci) = {}
      BY <1>2 DEF AggregateFails
    <2>2. "head" \notin IdentityBlockers(ci) /\ "base" \notin IdentityBlockers(ci)
      BY <2>1
    <2>3. ci.tree.head = pull.head /\ ci.tree.main = main.n
      BY <1>7, <2>2 DEF IdentityBlockers
    <2> QED BY <1>1, <2>3 DEF Trees, Tree
  <1> QED BY <1>2, <1>6, <1>7

\* A promotion starts from a reviewed main branch.
LEMMA PromotionStart == PromotionInit => PromoInv
  <1> SUFFICES ASSUME PromotionInit PROVE PromoInv
    OBVIOUS
  <1>1. /\ main = [n |-> 1, tree |-> Tree(0, 0), flow |-> ReviewedFlow, tested |-> TRUE]
        /\ pull = [head |-> 1, onto |-> 1, flow |-> ReviewedFlow, label |-> "none"]
        /\ ci = NoRun /\ status = [c \in Contexts |-> "none"] /\ manifests = {} /\ live = Desired
        /\ merges = {} /\ shipped = {} /\ ran = {}
    BY DEF PromotionInit
  <1>2. ReviewedFlow \in Flows /\ Tree(0, 0) \in Trees /\ ReviewedFlow.release = "gated" /\ "none" \in Labels /\ TRUE \in BOOLEAN
    BY DEF Flows, Tree, Trees, ReviewedFlow, Labels
  <1>3. /\ main \in [n : Nat, tree : Trees, flow : Flows, tested : BOOLEAN]
        /\ pull \in [head : Nat, onto : Nat, flow : Flows, label : Labels]
    BY <1>1, <1>2
  <1>4. status \in [Contexts -> Outcomes] /\ \A c \in Contexts : status[c] = "none"
    BY <1>1 DEF Outcomes
  <1>5. live \in [contexts : SUBSET Contexts, strict : BOOLEAN, enforce_admins : BOOLEAN]
    BY <1>1 DEF Desired
  <1>6. ci.flow \in Flows /\ ci.commit \in Nat /\ ci.tree \in Trees /\ DOMAIN ci.results = {} /\ ci.event = "none"
    BY <1>1, <1>2 DEF NoRun
  <1>7. main.flow = ReviewedFlow
    BY <1>1
  <1>8. status["candidate-readiness"] = "none" /\ status["protected-paths"] = "none" /\ "none" \notin Satisfied
    BY <1>4 DEF Contexts, Satisfied
  <1> QED BY <1>1, <1>2, <1>3, <1>4, <1>5, <1>6, <1>7, <1>8
          DEF PromoInv, PromoTypeOK, CiKnown, StatusKnown, ManifestsKnown, MainKnown, HistoryTested

\* Every step of a promotion keeps its invariant.
LEMMA PromotionStep == PromoInv /\ [PromotionNext]_promoVars => PromoInv'
  <1> SUFFICES ASSUME PromoInv, [PromotionNext]_promoVars PROVE PromoInv'
    OBVIOUS
  <1>1. PromoTypeOK /\ CiKnown /\ StatusKnown /\ ManifestsKnown /\ MainKnown /\ HistoryTested
    BY DEF PromoInv
  <1>2. /\ main \in [n : Nat, tree : Trees, flow : Flows, tested : BOOLEAN]
        /\ pull \in [head : Nat, onto : Nat, flow : Flows, label : Labels]
        /\ status \in [Contexts -> Outcomes]
        /\ live \in [contexts : SUBSET Contexts, strict : BOOLEAN, enforce_admins : BOOLEAN]
        /\ ci.flow \in Flows /\ ci.commit \in Nat /\ ci.tree \in Trees /\ DOMAIN ci.results \subseteq Legs
    BY <1>1 DEF PromoTypeOK
  <1>3. "none" \notin Satisfied /\ "candidate-readiness" \in Contexts /\ "protected-paths" \in Contexts
        /\ "candidate-readiness" # "protected-paths" /\ "none" \in Outcomes
    BY DEF Satisfied, Contexts, Outcomes
  <1>4. TRUE \in BOOLEAN /\ FALSE \in BOOLEAN
    OBVIOUS
  <1> DEFINE Blank == [c \in Contexts |-> "none"]
  <1>5. Blank \in [Contexts -> Outcomes] /\ Blank["candidate-readiness"] \notin Satisfied /\ Blank["protected-paths"] \notin Satisfied
    BY <1>3
  <1> HIDE DEF Blank
  <1>6. CASE UNCHANGED promoVars
    BY <1>1, <1>6 DEF promoVars, PromoInv, PromoTypeOK, CiKnown, StatusKnown, ManifestsKnown, MainKnown, HistoryTested
  <1>7. ASSUME NEW w \in Flows, NEW u \in BOOLEAN, PushHead(w, u) PROVE PromoInv'
    <2> DEFINE base == IF u THEN main.n ELSE pull.onto
    <2>1. pull' = [pull EXCEPT !.head = pull.head + 1, !.flow = w, !.onto = base] /\ status' = Blank
          /\ UNCHANGED <<main, ci, manifests, live, merges, shipped, ran, changed>>
      BY <1>7 DEF PushHead, Blank
    <2>2. base \in Nat
      BY <1>2
    <2> HIDE DEF base
    <2>a. pull.head + 1 \in Nat /\ w \in Flows
      BY <1>2
    <2> DEFINE next == pull.head + 1
    <2>b. pull' = [pull EXCEPT !.head = next, !.flow = w, !.onto = base]
      BY <2>1
    <2> HIDE DEF next
    <2>c. pull' \in [head : Nat, onto : Nat, flow : Flows, label : Labels] /\ pull'.head = next
      BY <1>2, <2>a, <2>b, <2>2 DEF next
    <2>3. pull' \in [head : Nat, onto : Nat, flow : Flows, label : Labels] /\ pull'.head = pull.head + 1
      BY <2>c DEF next
    <2>4. PromoTypeOK'
      BY <1>1, <1>2, <1>5, <2>1, <2>3 DEF PromoTypeOK
    <2>5. CiKnown'
      <3>1. ci.event = "pull_request" => ci.commit <= pull'.head /\ ci.commit # pull'.head
        BY <1>1, <1>2, <2>3 DEF CiKnown
      <3> QED BY <1>1, <2>1, <3>1 DEF CiKnown
    <2>6. StatusKnown'
      BY <1>5, <2>1 DEF StatusKnown
    <2> QED BY <1>1, <2>1, <2>4, <2>5, <2>6 DEF PromoInv, ManifestsKnown, MainKnown, HistoryTested
  <1>8. ASSUME NEW who \in Labels, ApplyLabel(who) PROVE PromoInv'
    <2>1. pull.label = "none" /\ pull' = [pull EXCEPT !.label = who]
          /\ UNCHANGED <<main, ci, status, manifests, live, merges, shipped, ran, changed>>
      BY <1>8 DEF ApplyLabel
    <2>2. pull' \in [head : Nat, onto : Nat, flow : Flows, label : Labels] /\ pull'.head = pull.head /\ pull'.flow = pull.flow
      BY <1>2, <2>1
    <2> QED BY <1>1, <2>1, <2>2 DEF PromoInv, PromoTypeOK, CiKnown, StatusKnown, ManifestsKnown, MainKnown, HistoryTested
  <1>9. CASE ProtectedPaths
    <2> DEFINE v == IF ControlPlaneArmed(pull.label) /\ pull.flow # main.flow THEN "failure" ELSE "success"
    <2>1. status' = [status EXCEPT !["protected-paths"] = v]
          /\ UNCHANGED <<main, pull, ci, manifests, live, merges, shipped, ran, changed>>
      BY <1>9 DEF ProtectedPaths
    <2>2. v \in Outcomes /\ (v \in Satisfied /\ pull.label # "person" => pull.flow = main.flow)
      BY <1>2 DEF Outcomes, Satisfied, ControlPlaneArmed, Labels
    <2> HIDE DEF v
    <2>3. status' \in [Contexts -> Outcomes] /\ status'["protected-paths"] = v
          /\ status'["candidate-readiness"] = status["candidate-readiness"]
      BY <1>2, <1>3, <2>1, <2>2
    <2> QED BY <1>1, <2>1, <2>2, <2>3 DEF PromoInv, PromoTypeOK, CiKnown, StatusKnown, ManifestsKnown, MainKnown, HistoryTested
  <1>10. ASSUME NEW e \in {"pull_request", "push"}, StartRun(e) PROVE PromoInv'
    <2>1. UNCHANGED <<pull, status, manifests, live, merges, shipped, ran, changed>>
          /\ (UNCHANGED main \/ main' = [main EXCEPT !.tested = TRUE])
      BY <1>10 DEF StartRun
    <2>2. main' \in [n : Nat, tree : Trees, flow : Flows, tested : BOOLEAN] /\ main'.n = main.n /\ main'.flow = main.flow
      BY <1>2, <1>4, <2>1
    <2>3. DOMAIN ci'.results = {} /\ ci'.event = e /\ ci'.commit = (IF e = "push" THEN 100 + main.n ELSE pull.head)
          /\ ci'.tree = (IF e = "push" THEN main.tree ELSE Tree(pull.head, main.n))
          /\ ci'.flow = (IF e = "push" THEN main.flow ELSE pull.flow)
      BY <1>10 DEF StartRun
    <2>4. Tree(pull.head, main.n) \in Trees /\ Tree(pull.head, main.n).head = pull.head
      BY <1>2 DEF Tree, Trees
    <2>5. ci'.flow \in Flows /\ ci'.commit \in Nat /\ ci'.tree \in Trees
      BY <1>2, <2>3, <2>4
    <2>6. CiKnown'
      BY <1>2, <2>1, <2>3, <2>4 DEF CiKnown
    <2> QED BY <1>1, <2>1, <2>2, <2>3, <2>5, <2>6 DEF PromoInv, PromoTypeOK, StatusKnown, ManifestsKnown, MainKnown, HistoryTested
  <1>11. ASSUME NEW leg \in Legs, NEW ended \in {"success", "failure", "cancelled"}, LegEnds(leg, ended) PROVE PromoInv'
    <2> DEFINE res == [l \in DOMAIN ci.results \cup {leg} |->
                                     IF l = leg THEN JobReports(ci.flow, leg, ended) ELSE ci.results[l]]
    <2>1. ci' = [ci EXCEPT !.results = res] /\ UNCHANGED <<main, pull, status, manifests, live, merges, shipped, changed>>
          /\ ci.at = "legs"
          /\ ran' = IF ended = "success" /\ JobReports(ci.flow, leg, ended) # "skipped" THEN ran \cup {<<ci.tree, leg>>} ELSE ran
      BY <1>11 DEF LegEnds
    <2>2. DOMAIN res \subseteq Legs /\ \A l \in DOMAIN res : l # leg => l \in DOMAIN ci.results /\ res[l] = ci.results[l]
      BY <1>2
    <2>3. res[leg] = "success" /\ ~ci.flow.legSoft => <<ci.tree, leg>> \in ran'
      BY <2>1 DEF JobReports
    <2>4. ran \subseteq ran'
      BY <2>1
    <2> HIDE DEF res
    <2>5. ci'.results = res /\ ci'.flow = ci.flow /\ ci'.commit = ci.commit /\ ci'.tree = ci.tree /\ ci'.event = ci.event
      BY <2>1
    <2>6. CiKnown'
      BY <1>1, <2>1, <2>2, <2>3, <2>4, <2>5 DEF CiKnown
    <2>7. \A t : Tested(t, ran) => Tested(t, ran')
      BY <2>4 DEF Tested
    <2>8. PromoTypeOK'
      BY <1>1, <2>1, <2>2, <2>5 DEF PromoTypeOK
    <2> QED BY <1>1, <2>1, <2>6, <2>7, <2>8 DEF PromoInv, StatusKnown, ManifestsKnown, MainKnown, HistoryTested
  <1>12. CASE CandidateReadiness
    <2> DEFINE skipped == ci.flow.aggregateIf # "always" /\ \E l \in ci.flow.needs : ci.results[l] # "success"
               fails   == AggregateFails(ci)
               reports == IF skipped THEN "skipped" ELSE IF fails /\ ~ci.flow.aggregateSoft THEN "failure" ELSE "success"
    <2>1. /\ manifests' = IF skipped \/ fails THEN manifests ELSE manifests \cup {Sealed(ci)}
          /\ status' = IF ci.event = "pull_request" /\ ci.commit = pull.head
                       THEN [status EXCEPT !["candidate-readiness"] = reports] ELSE status
          /\ ci' = NoRun /\ UNCHANGED <<main, pull, live, merges, shipped, ran, changed>>
      BY <1>12 DEF CandidateReadiness
    <2>2. ~fails => /\ Tested(ci.tree, ran) /\ ci.flow.release = "gated"
                    /\ ci.event = "pull_request" => ci.tree = Tree(pull.head, main.n)
      BY <1>1, RunPasses
    <2> HIDE DEF fails
    <2>3. skipped => ci.flow.release = "gated" /\ ci.flow # ReviewedFlow
      BY <1>2, FlowFacts
    <2> HIDE DEF skipped
    <2>4. reports \in Outcomes /\ (reports \in Satisfied => skipped \/ ~fails \/ ci.flow.aggregateSoft)
      BY DEF Outcomes, Satisfied
    <2>5. ci.flow.aggregateSoft => ci.flow.release = "gated" /\ ci.flow # ReviewedFlow
      BY <1>2, FlowFacts
    <2> HIDE DEF reports
    <2>6. NoRun.flow \in Flows /\ NoRun.commit \in Nat /\ NoRun.tree \in Trees /\ DOMAIN NoRun.results = {} /\ NoRun.event = "none"
      BY DEF NoRun, Flows, Tree, Trees
    <2>7. Sealed(ci).tree = ci.tree
      BY DEF Sealed
    <2>8. ManifestsKnown'
      BY <1>1, <2>1, <2>2, <2>7 DEF ManifestsKnown
    <2>9. StatusKnown'
      <3>1. CASE UNCHANGED status
        BY <1>1, <2>1, <3>1 DEF StatusKnown
      <3>2. CASE ci.event = "pull_request" /\ ci.commit = pull.head
        <4>1. ci.flow = pull.flow
          BY <1>1, <3>2 DEF CiKnown
        <4>2. status'["candidate-readiness"] = reports /\ status'["protected-paths"] = status["protected-paths"]
          BY <1>2, <1>3, <2>1, <3>2
        <4> QED BY <1>1, <2>1, <2>2, <2>3, <2>4, <2>5, <3>2, <4>1, <4>2 DEF StatusKnown
      <3> QED BY <2>1, <3>1, <3>2
    <2>10. status' \in [Contexts -> Outcomes]
      BY <1>2, <2>1, <2>4
    <2>11. PromoTypeOK' /\ CiKnown'
      BY <1>1, <2>1, <2>6, <2>10 DEF PromoTypeOK, CiKnown
    <2> QED BY <1>1, <2>1, <2>8, <2>9, <2>11 DEF PromoInv, MainKnown, HistoryTested
  <1>13. CASE MergePull
    <2> DEFINE rec == [tree |-> Tree(pull.head, main.n), waived |-> pull.label = "person", drift |-> DiffLive(live)]
    <2>1. /\ \/ \A c \in live.contexts : status[c] \in Satisfied
             \/ ~live.enforce_admins
          /\ merges' = merges \cup {rec}
          /\ main' = [n |-> main.n + 1, tree |-> Tree(pull.head, main.n), flow |-> pull.flow, tested |-> FALSE]
          /\ status' = Blank
          /\ UNCHANGED <<ci, manifests, live, shipped, ran, changed>>
      BY <1>13 DEF MergePull, Blank, Satisfied
    <2>2. PICK forked \in {main.n, main.n + 1} :
            pull' = [head |-> pull.head + 1, onto |-> forked, flow |-> IF forked = main.n THEN main.flow ELSE pull.flow,
                label |-> IF pull.label = "person" THEN "factory" ELSE "none"]
      BY <1>13 DEF MergePull
    <2>3. Tree(pull.head, main.n) \in Trees
      BY <1>2 DEF Tree, Trees
    <2>4. main' \in [n : Nat, tree : Trees, flow : Flows, tested : BOOLEAN] /\ main'.flow = pull.flow
      BY <1>2, <1>4, <2>1, <2>3
    <2>5. pull' \in [head : Nat, onto : Nat, flow : Flows, label : Labels] /\ pull'.head = pull.head + 1
      BY <1>2, <2>2 DEF Labels
    <2>6. PromoTypeOK'
      BY <1>1, <1>5, <2>1, <2>4, <2>5 DEF PromoTypeOK
    <2>7. CiKnown'
      <3>1. ci.event = "pull_request" => ci.commit <= pull'.head /\ ci.commit # pull'.head
        BY <1>1, <1>2, <2>5 DEF CiKnown
      <3> QED BY <1>1, <2>1, <3>1 DEF CiKnown
    <2>8. StatusKnown'
      BY <1>5, <2>1 DEF StatusKnown
    <2>9. rec.tree = Tree(pull.head, main.n) /\ rec.drift = DiffLive(live) /\ (~rec.waived => pull.label # "person")
      OBVIOUS
    <2> HIDE DEF rec
    <2>10. rec.drift = {} => \A c \in Contexts : status[c] \in Satisfied
      <3> SUFFICES ASSUME DiffLive(live) = {} PROVE \A c \in Contexts : status[c] \in Satisfied
        BY <2>9
      <3>1. (live.contexts \cup Desired.contexts) \ (live.contexts \cap Desired.contexts) = {}
        BY DEF DiffLive
      <3>2. "enforce_admins" \notin DiffLive(live)
        OBVIOUS
      <3>3. live["enforce_admins"] = Desired["enforce_admins"]
        BY <3>2 DEF DiffLive
      <3>4. Desired.contexts = Contexts /\ Desired.enforce_admins
        BY DEF Desired
      <3>5. live.contexts = Contexts /\ live.enforce_admins
        BY <3>1, <3>3, <3>4
      <3> QED BY <2>1, <3>5
    <2>11. rec.drift = {} => pull.flow.release = "gated"
      BY <1>1, <1>3, <2>10 DEF StatusKnown
    <2>12. rec.drift = {} /\ ~rec.waived /\ Unwaived(merges) => pull.flow = ReviewedFlow /\ Tested(rec.tree, ran)
      BY <1>1, <1>3, <2>9, <2>10 DEF StatusKnown, MainKnown
    <2>13. Unwaived(merges') => Unwaived(merges) /\ rec.drift = {} /\ ~rec.waived
      BY <2>1 DEF Unwaived
    <2>14. Undrifted(merges') => Undrifted(merges) /\ rec.drift = {}
      BY <2>1 DEF Undrifted
    <2>15. MainKnown'
      BY <2>4, <2>11, <2>12, <2>13, <2>14 DEF MainKnown
    <2>16. HistoryTested'
      BY <1>1, <2>1, <2>12, <2>13, <2>14 DEF HistoryTested
    <2> QED BY <1>1, <2>1, <2>6, <2>7, <2>8, <2>15, <2>16 DEF PromoInv, ManifestsKnown
  <1>14. ASSUME NEW commit, NEW tree, NEW flow, TagRelease(commit, tree, flow), Undrifted(merges) => flow.release = "gated"
         PROVE  PromoInv'
    <2>1. shipped' = shipped \cup {tree} /\ UNCHANGED <<main, pull, ci, status, manifests, live, merges, ran, changed>>
      BY <1>14 DEF TagRelease
    <2>2. Undrifted(merges) => Tested(tree, ran)
      BY <1>1, <1>14 DEF TagRelease, ManifestsKnown, ReleaseRefused
    <2> QED BY <1>1, <2>1, <2>2 DEF PromoInv, PromoTypeOK, CiKnown, StatusKnown, ManifestsKnown, MainKnown, HistoryTested
  <1>15. CASE TagRelease(100 + main.n, main.tree, main.flow)
    BY <1>1, <1>14, <1>15 DEF MainKnown
  <1>16. CASE pull.flow.release = "gated" /\ TagRelease(pull.head, Tree(pull.head, pull.onto), pull.flow)
    BY <1>14, <1>16
  <1>17. ASSUME NEW s \in {Desired, [Desired EXCEPT !.contexts = {"protected-paths"}], [Desired EXCEPT !.strict = FALSE],
               [Desired EXCEPT !.enforce_admins = FALSE]}, SettingsChange(s)
         PROVE  PromoInv'
    <2>1. s \in [contexts : SUBSET Contexts, strict : BOOLEAN, enforce_admins : BOOLEAN]
      <3>1. Contexts \in SUBSET Contexts /\ {"protected-paths"} \in SUBSET Contexts
        BY DEF Contexts
      <3> DEFINE D == [contexts |-> Contexts, strict |-> TRUE, enforce_admins |-> TRUE]
      <3>2. D \in [contexts : SUBSET Contexts, strict : BOOLEAN, enforce_admins : BOOLEAN]
        BY <1>4, <3>1
      <3>3. [D EXCEPT !.contexts = {"protected-paths"}] \in [contexts : SUBSET Contexts, strict : BOOLEAN, enforce_admins : BOOLEAN]
        BY <1>4, <3>1
      <3>4. [D EXCEPT !.strict = FALSE] \in [contexts : SUBSET Contexts, strict : BOOLEAN, enforce_admins : BOOLEAN]
        BY <1>4, <3>1
      <3>5. [D EXCEPT !.enforce_admins = FALSE] \in [contexts : SUBSET Contexts, strict : BOOLEAN, enforce_admins : BOOLEAN]
        BY <1>4, <3>1
      <3> QED BY <1>17, <3>2, <3>3, <3>4, <3>5, Zenon DEF Desired
    <2>2. live' = s /\ UNCHANGED <<main, pull, ci, status, manifests, merges, shipped, ran>>
      BY <1>17 DEF SettingsChange
    <2> QED BY <1>1, <2>1, <2>2 DEF PromoInv, PromoTypeOK, CiKnown, StatusKnown, ManifestsKnown, MainKnown, HistoryTested
  <1> QED BY <1>6, <1>7, <1>8, <1>9, <1>10, <1>11, <1>12, <1>13, <1>15, <1>16, <1>17 DEF PromotionNext

\* PromotedWasTested for every set of legs and every bound: main and the releases hold only trees the required
\* legs ran on, unless a check was waived or the settings drifted.
THEOREM PromotionTested == PromotionSpec => []PromotedWasTested
  <1>1. PromoInv => PromotedWasTested
    BY DEF PromoInv, HistoryTested, PromotedWasTested, MergedWasTested, ShippedWasTested, Unwaived, Undrifted, Tested
  <1> QED BY <1>1, PromotionStart, PromotionStep, PTL DEF PromotionSpec

------------------------------------------------------------------------------
\* Calls in Docker containers.

\* The records of the append-only log.
XEvents == {"intent", "created", "start_intent", "cleaned"}
XRecord == [k : Containers, call : Calls, event : XEvents]
\* The places of a launch.
LaunchSteps == {"idle", "closed", "intended", "creating", "named", "recorded", "armed", "starting",
                "cleanup", "removed", "proving"}
Launches == [step : LaunchSteps, call : Calls \cup {"none"}, k : 0..MaxContainers, id : BOOLEAN, refused : BOOLEAN]

\* The records R hold event e of attempt k.
Logs(R, k, e) == \E r \in R : r.k = k /\ r.event = e
\* The log has an intent for the container and no cleanup.
OpenIn(R, k) == Logs(R, k, "intent") /\ ~Logs(R, k, "cleaned")

\* The types of the journal, the daemon and the worker.
XTypeOK ==
    /\ xlog \in Seq(XRecord)
    /\ box \in [Containers -> {"none", "created", "running", "exited", "gone"}]
    /\ wire \subseteq [op : {"create", "start"}, k : Containers]
    /\ launch \in Launches
    /\ proof \in [Calls -> 0..MaxContainers]

\* The attempts are numbered without a gap, and a number and a call go together.
Numbered ==
    /\ \E n \in 0..MaxContainers : \A k \in Containers : Logs(XRecords, k, "intent") <=> k <= n
    /\ \A r \in XRecords : Logs(XRecords, r.k, "intent")
    /\ \A r, s \in XRecords : r.k = s.k <=> r.call = s.call

\* What the daemon did, or may still do, was asked of it by a journalled attempt.
DaemonWasAsked ==
    /\ \A k \in Containers : box[k] # "none" => Logs(XRecords, k, "intent")
    /\ \A m \in wire : Logs(XRecords, m.k, "intent") /\ (m.op = "create" <=> box[m.k] = "none")
    /\ \A k \in harness : k \in Containers /\ box[k] # "none"

\* A cleaned attempt has no container and will get none.
CleanedIsGone ==
    /\ \A k \in Containers : Logs(XRecords, k, "cleaned") => box[k] \in {"none", "gone"}
    /\ \A m \in wire : Logs(XRecords, m.k, "cleaned") => m.op # "create"

\* At most one attempt is unresolved, and none when the run is closed.
OneUnresolved ==
    /\ \A j, k \in Containers : OpenIn(XRecords, j) /\ OpenIn(XRecords, k) => j = k
    /\ launch.step = "closed" => \A k \in Containers : ~OpenIn(XRecords, k)

\* What the worker's place in the protocol says of its container.
WorkerKnows ==
    /\ launch.step \notin {"idle", "closed"} =>
         launch.k \in Containers /\ launch.call \in Calls /\ \E r \in XRecords : r.k = launch.k /\ r.call = launch.call
    /\ launch.step \in {"intended", "creating"} => ~Logs(XRecords, launch.k, "cleaned")
    /\ launch.step = "intended" => box[launch.k] = "none" /\ \A m \in wire : m.k # launch.k
    /\ launch.step \in {"named", "recorded", "armed"} => box[launch.k] # "none"
    /\ launch.step = "removed" => box[launch.k] = "gone"
    /\ launch.refused => /\ launch.step \in {"cleanup", "proving"} /\ box[launch.k] = "none"
                         /\ \A m \in wire : m.k # launch.k
    /\ launch.step = "proving" => launch.refused /\ Logs(XRecords, launch.k, "cleaned")

\* A no-start proof names the cleaned attempt of its call, which never had a container.
ProofsHold ==
    /\ \A c \in Calls : proof[c] # 0 =>
         /\ box[proof[c]] = "none" /\ Logs(XRecords, proof[c], "cleaned")
         /\ \E r \in XRecords : r.k = proof[c] /\ r.call = c
    /\ \A c \in released : c \in Calls /\ proof[c] # 0

\* The inductive invariant of an external call.
XInv == XTypeOK /\ Numbered /\ DaemonWasAsked /\ CleanedIsGone /\ OneUnresolved /\ WorkerKnows /\ ProofsHold

\* The journal's own queries in these words.
LEMMA XQueries ==
  /\ \A k, e : XLogged(k, e) <=> Logs(XRecords, k, e)
  /\ Unresolved = {k \in Containers : OpenIn(XRecords, k)}
  BY DEF XLogged, Logs, Unresolved, OpenIn

\* A record that is appended, and what the journal then says.
LEMMA XAppended ==
  ASSUME xlog \in Seq(XRecord), NEW k \in Containers, NEW c \in Calls, NEW e \in XEvents, XAppend(k, c, e)
  PROVE  /\ xlog' \in Seq(XRecord)
         /\ XRecords' = XRecords \cup {[k |-> k, call |-> c, event |-> e]}
         /\ \A j, f : Logs(XRecords', j, f) <=> Logs(XRecords, j, f) \/ (j = k /\ f = e)
  <1> DEFINE r == [k |-> k, call |-> c, event |-> e]
  <1>1. r \in XRecord /\ r.k = k /\ r.event = e
    BY DEF XRecord
  <1>2. xlog' = Append(xlog, r)
    BY DEF XAppend
  <1> HIDE DEF r
  <1>3. xlog' \in Seq(XRecord) /\ DOMAIN xlog' = DOMAIN xlog \cup {Len(xlog) + 1}
        /\ xlog'[Len(xlog) + 1] = r /\ \A i \in DOMAIN xlog : xlog'[i] = xlog[i]
    BY <1>1, <1>2
  <1>4. XRecords' = XRecords \cup {r}
    BY <1>3 DEF XRecords
  <1>5. \A j, f : Logs(XRecords \cup {r}, j, f) <=> Logs(XRecords, j, f) \/ (j = k /\ f = e)
    BY <1>1 DEF Logs
  <1> QED BY <1>3, <1>4, <1>5 DEF r

\* Nothing is journalled, asked or proved before the first call.
LEMMA XStart == XInit => XInv
  <1> SUFFICES ASSUME XInit PROVE XInv
    OBVIOUS
  <1>1. XRecords = {}
    BY DEF XInit, XRecords
  <1>2. \A k, e : ~Logs(XRecords, k, e)
    BY <1>1 DEF Logs
  <1>3. XTypeOK
    BY ExternalAssumption DEF XInit, XTypeOK, NoLaunch, Launches, LaunchSteps
  <1>4. Numbered
    <2>1. 0 \in 0..MaxContainers /\ \A k \in Containers : ~(k <= 0)
      BY ExternalAssumption DEF Containers
    <2> QED BY <1>1, <1>2, <2>1 DEF Numbered
  <1>5. DaemonWasAsked /\ CleanedIsGone
    BY <1>2 DEF XInit, DaemonWasAsked, CleanedIsGone
  <1>6. OneUnresolved /\ WorkerKnows /\ ProofsHold
    BY <1>2 DEF XInit, OneUnresolved, OpenIn, WorkerKnows, ProofsHold, NoLaunch
  <1> QED BY <1>3, <1>4, <1>5, <1>6 DEF XInv

\* A step of the worker that leaves the journal, the daemon and the proofs alone keeps what they say.
LEMMA OnlyLaunch ==
  ASSUME XInv, UNCHANGED <<xlog, box, wire, proof, released, harness>>, launch' \in Launches, WorkerKnows',
         launch'.step = "closed" => \A k \in Containers : ~OpenIn(XRecords, k)
  PROVE  XInv'
  <1>1. XTypeOK' /\ XRecords' = XRecords
    BY DEF XInv, XTypeOK, XRecords
  <1>2. Numbered' /\ DaemonWasAsked' /\ CleanedIsGone' /\ ProofsHold'
    BY <1>1 DEF XInv, Numbered, DaemonWasAsked, CleanedIsGone, ProofsHold
  <1>3. OneUnresolved'
    BY <1>1 DEF XInv, OneUnresolved
  <1> QED BY <1>1, <1>2, <1>3 DEF XInv

\* The fields of a worker that moves on and of one that gives up.
LEMMA LaunchMoves ==
  ASSUME launch \in Launches, NEW s \in LaunchSteps, launch' = [launch EXCEPT !.step = s]
  PROVE  /\ launch' \in Launches /\ launch'.step = s /\ launch'.k = launch.k /\ launch'.call = launch.call
         /\ launch'.refused = launch.refused
  BY DEF Launches, LaunchSteps

\* A launch put together from values of its fields is a launch.
LEMMA LaunchMade ==
  ASSUME NEW s \in LaunchSteps, NEW c \in Calls \cup {"none"}, NEW k \in 0..MaxContainers, NEW i \in BOOLEAN, NEW f \in BOOLEAN
  PROVE  [step |-> s, call |-> c, k |-> k, id |-> i, refused |-> f] \in Launches
  BY DEF Launches

\* The records of the log are records.
LEMMA XRecordsTyped == xlog \in Seq(XRecord) => XRecords \subseteq XRecord
  <1> SUFFICES ASSUME xlog \in Seq(XRecord), NEW i \in DOMAIN xlog PROVE xlog[i] \in XRecord
    BY DEF XRecords
  <1> QED OBVIOUS

\* ... and of one that gives up or closes.
LEMMA LaunchEnds ==
  ASSUME NEW s \in {"idle", "closed"}, launch' = [NoLaunch EXCEPT !.step = s]
  PROVE  launch' \in Launches /\ launch'.step = s /\ ~launch'.refused /\ WorkerKnows'
  <1>1. launch' = [step |-> s, call |-> "none", k |-> 0, id |-> FALSE, refused |-> FALSE]
    BY DEF NoLaunch
  <1>2. 0 \in 0..MaxContainers /\ "none" \in Calls \cup {"none"} /\ s \in LaunchSteps
    BY ExternalAssumption DEF LaunchSteps
  <1>3. launch' \in Launches
    <2>1. FALSE \in BOOLEAN
      OBVIOUS
    <2>2. [step |-> s, call |-> "none", k |-> 0, id |-> FALSE, refused |-> FALSE] \in Launches
      BY <1>2, <2>1, LaunchMade, Zenon
    <2> QED BY <1>1, <2>2, Zenon
  <1>4. launch'.step = s /\ ~launch'.refused
    BY <1>1
  <1> QED BY <1>3, <1>4 DEF WorkerKnows

\* A worker that gives up or closes the run.
LEMMA WorkerEnds ==
  ASSUME XInv, UNCHANGED <<xlog, box, wire, proof, released, harness>>,
         launch' = NoLaunch \/ (launch' = [NoLaunch EXCEPT !.step = "closed"] /\ Unresolved = {})
  PROVE  XInv'
  <1>1. NoLaunch = [NoLaunch EXCEPT !.step = "idle"]
    BY DEF NoLaunch
  <1>2. CASE launch' = NoLaunch
    <2>1. launch' \in Launches /\ launch'.step = "idle" /\ WorkerKnows'
      BY <1>1, <1>2, LaunchEnds
    <2> QED BY <2>1, OnlyLaunch
  <1>3. CASE launch' = [NoLaunch EXCEPT !.step = "closed"] /\ Unresolved = {}
    <2>1. launch' \in Launches /\ launch'.step = "closed" /\ WorkerKnows'
      BY <1>3, LaunchEnds
    <2>2. \A k \in Containers : ~OpenIn(XRecords, k)
      BY <1>3, XQueries
    <2> QED BY <2>1, <2>2, OnlyLaunch
  <1> QED BY <1>2, <1>3

\* A worker that moves to a later step.
LEMMA WorkerGoesOn ==
  ASSUME XInv, LoseCreate \/ ReceiveIdentity \/ StartReturns
  PROVE  XInv'
  <1>1. launch \in Launches /\ WorkerKnows
    BY DEF XInv, XTypeOK
  <1>2. UNCHANGED <<xlog, box, wire, proof, released, harness>> /\ XRecords' = XRecords
    BY DEF LoseCreate, ReceiveIdentity, StartReturns, XRecords
  <1>3. CASE LoseCreate \/ StartReturns
    <2>1. launch.step \in {"creating", "starting"} /\ launch' = [launch EXCEPT !.step = "cleanup"]
      BY <1>3 DEF LoseCreate, StartReturns
    <2>2. /\ launch' \in Launches /\ launch'.step = "cleanup" /\ launch'.k = launch.k /\ launch'.call = launch.call
          /\ launch'.refused = launch.refused
      BY <1>1, <2>1, LaunchMoves DEF LaunchSteps
    <2>3. WorkerKnows'
      BY <1>1, <1>2, <2>1, <2>2 DEF WorkerKnows
    <2> QED BY <1>2, <2>2, <2>3, OnlyLaunch
  <1>4. CASE ReceiveIdentity
    <2>1. launch.step = "creating" /\ box[launch.k] # "none" /\ launch' = [launch EXCEPT !.step = "named", !.id = TRUE]
      BY <1>4 DEF ReceiveIdentity
    <2>2. /\ launch' \in Launches /\ launch'.step = "named" /\ launch'.k = launch.k /\ launch'.call = launch.call
          /\ launch'.refused = launch.refused
      BY <1>1, <2>1 DEF Launches, LaunchSteps
    <2>3. WorkerKnows'
      BY <1>1, <1>2, <2>1, <2>2 DEF WorkerKnows
    <2> QED BY <1>2, <2>2, <2>3, OnlyLaunch
  <1> QED BY <1>3, <1>4

\* Whether the worker knows the container's identity is decided.
LEMMA ReapFlag == ASSUME NEW k PROVE (k \in Unresolved => XLogged(k, "created")) \in BOOLEAN
  OBVIOUS

\* A container the sweep of the run takes in hand is one the journal knows.
LEMMA ReapKnows ==
  ASSUME XInv, NEW k \in Containers, Reap(k)
  PROVE  XInv'
  <1> DEFINE r == CHOOSE x \in XRecords : x.k = k /\ x.event = "intent"
             i == k \in Unresolved => XLogged(k, "created")
  <1>1. /\ UNCHANGED <<xlog, box, wire, proof, released, harness>> /\ XRecords' = XRecords
        /\ Listed(k) /\ launch' = [NoLaunch EXCEPT !.step = "cleanup", !.k = k, !.call = r.call, !.id = i]
    BY DEF Reap, XRecords
  <1>2. Logs(XRecords, k, "intent")
    BY <1>1 DEF XInv, DaemonWasAsked, Listed
  <1>3. r \in XRecords /\ r.k = k
    BY <1>2 DEF Logs
  <1>4. r.call \in Calls
    BY <1>3, XRecordsTyped DEF XInv, XTypeOK, XRecord
  <1>5. i \in BOOLEAN
    BY ReapFlag
  <1> HIDE DEF r, i
  <1>6. launch' = [step |-> "cleanup", call |-> r.call, k |-> k, id |-> i, refused |-> FALSE]
    BY <1>1 DEF NoLaunch
  <1>7. k \in 0..MaxContainers
    BY ExternalAssumption DEF Containers
  <1>8. /\ launch' \in Launches /\ launch'.step = "cleanup" /\ launch'.k = k /\ launch'.call = r.call
        /\ ~launch'.refused
    BY <1>4, <1>5, <1>6, <1>7 DEF Launches, LaunchSteps
  <1>9. WorkerKnows'
    BY <1>1, <1>3, <1>4, <1>8 DEF WorkerKnows
  <1> QED BY <1>1, <1>8, <1>9, OnlyLaunch

\* A record of an attempt in hand; one that says "cleaned" is written when no container is or will be there.
LEMMA InHandAppend ==
  ASSUME XInv, NEW e \in {"created", "start_intent", "cleaned"}, XAppend(launch.k, launch.call, e),
         launch.step \notin {"idle", "closed"}, launch' \in Launches, launch'.step # "closed",
         UNCHANGED <<box, wire, proof, released, harness>>,
         e = "cleaned" => box[launch.k] \in {"none", "gone"} /\ \A m \in wire : m.k = launch.k => m.op # "create",
         WorkerKnows'
  PROVE  XInv'
  <1> DEFINE k == launch.k
             rec == [k |-> launch.k, call |-> launch.call, event |-> e]
  <1>1. k \in Containers /\ launch.call \in Calls /\ e \in XEvents
    BY DEF XInv, WorkerKnows, XEvents
  <1>2. PICK r0 \in XRecords : r0.k = k /\ r0.call = launch.call
    BY DEF XInv, WorkerKnows
  <1>3. /\ xlog' \in Seq(XRecord) /\ XRecords' = XRecords \cup {rec}
        /\ \A j, f : Logs(XRecords', j, f) <=> Logs(XRecords, j, f) \/ (j = k /\ f = e)
    BY <1>1, XAppended DEF XInv, XTypeOK
  <1>12. XTypeOK /\ Numbered /\ DaemonWasAsked /\ CleanedIsGone /\ OneUnresolved /\ ProofsHold
    BY DEF XInv
  <1>13. xlog' \in Seq(XRecord) /\ UNCHANGED <<box, wire, proof>> /\ launch' \in Launches
    BY <1>3
  <1>4. rec.k = k /\ rec.call = launch.call
    OBVIOUS
  <1> HIDE DEF rec, k
  <1>5. XTypeOK'
    BY <1>12, <1>13, Zenon DEF XTypeOK
  <1>6. \A j : Logs(XRecords', j, "intent") <=> Logs(XRecords, j, "intent")
    <2>1. e # "intent"
      OBVIOUS
    <2>2. \A j : Logs(XRecords', j, "intent") <=> Logs(XRecords, j, "intent") \/ (j = k /\ "intent" = e)
      BY <1>3
    <2> QED BY <2>1, <2>2, Zenon
  <1>7. Numbered'
    <2>1. \E n \in 0..MaxContainers : \A j \in Containers : Logs(XRecords', j, "intent") <=> j <= n
      BY <1>6 DEF XInv, Numbered
    <2>2. \A r \in XRecords' : Logs(XRecords', r.k, "intent")
      BY <1>2, <1>3, <1>4, <1>6 DEF XInv, Numbered
    <2>3. \A r, s \in XRecords' : r.k = s.k <=> r.call = s.call
      BY <1>2, <1>3, <1>4 DEF XInv, Numbered
    <2> QED BY <2>1, <2>2, <2>3 DEF Numbered
  <1>8. DaemonWasAsked'
    BY <1>6, <1>12, <1>13, Zenon DEF DaemonWasAsked
  <1>9. CleanedIsGone'
    <2>1. \A j : Logs(XRecords', j, "cleaned") <=> Logs(XRecords, j, "cleaned") \/ (j = k /\ e = "cleaned")
      BY <1>3
    <2>2. e = "cleaned" => box[k] \in {"none", "gone"} /\ \A m \in wire : m.k = k => m.op # "create"
      BY DEF k
    <2> QED BY <1>12, <1>13, <2>1, <2>2 DEF CleanedIsGone
  <1>10. OneUnresolved'
    <2>1. ASSUME NEW j, OpenIn(XRecords', j) PROVE OpenIn(XRecords, j)
      <3>1. Logs(XRecords, j, "cleaned") => Logs(XRecords', j, "cleaned")
        BY <1>3
      <3> QED BY <1>6, <2>1, <3>1, Zenon DEF OpenIn
    <2> QED BY <1>12, <2>1 DEF OneUnresolved
  <1>11. ProofsHold'
    <2>1. XRecords \subseteq XRecords' /\ \A j, f : Logs(XRecords, j, f) => Logs(XRecords', j, f)
      BY <1>3
    <2> QED BY <2>1 DEF XInv, ProofsHold
  <1> QED BY <1>5, <1>7, <1>8, <1>9, <1>10, <1>11 DEF XInv

\* The worker's records of the attempt in hand.
LEMMA WorkerWrites ==
  ASSUME XInv, RecordCreated \/ Arm \/ CleanupAbsent \/ CleanupConfirm
  PROVE  XInv'
  <1>1. launch \in Launches /\ WorkerKnows
    BY DEF XInv, XTypeOK
  <1>2. UNCHANGED <<box, wire, proof, released, harness>>
    BY DEF RecordCreated, Arm, CleanupAbsent, CleanupConfirm
  <1>3. launch.step \notin {"idle", "closed"} /\ launch.k \in Containers /\ launch.call \in Calls
    BY <1>1 DEF RecordCreated, Arm, CleanupAbsent, CleanupConfirm, WorkerKnows
  <1>4. ASSUME NEW e \in XEvents, XAppend(launch.k, launch.call, e)
        PROVE  /\ \A j, f : Logs(XRecords', j, f) <=> Logs(XRecords, j, f) \/ (j = launch.k /\ f = e)
               /\ XRecords \subseteq XRecords'
    BY <1>3, <1>4, XAppended DEF XInv, XTypeOK
  <1>5. ASSUME NEW s \in LaunchSteps, launch' = [launch EXCEPT !.step = s]
        PROVE  /\ launch' \in Launches /\ launch'.step = s /\ launch'.k = launch.k /\ launch'.call = launch.call
               /\ launch'.refused = launch.refused
    BY <1>1, <1>5, LaunchMoves
  <1>6. CASE RecordCreated
    <2>1. launch.step = "named" /\ XAppend(launch.k, launch.call, "created") /\ launch' = [launch EXCEPT !.step = "recorded"]
      BY <1>6 DEF RecordCreated
    <2>2. /\ launch' \in Launches /\ launch'.step = "recorded" /\ launch'.k = launch.k /\ launch'.call = launch.call
          /\ launch'.refused = launch.refused
      BY <1>5, <2>1 DEF LaunchSteps
    <2>3. XRecords \subseteq XRecords'
      BY <1>4, <2>1 DEF XEvents
    <2>4. WorkerKnows'
      BY <1>1, <1>2, <2>1, <2>2, <2>3 DEF WorkerKnows
    <2> QED BY <1>2, <1>3, <2>1, <2>2, <2>4, InHandAppend
  <1>7. CASE Arm
    <2>1. CASE box[launch.k] = "created"
      <3>1. launch.step = "recorded" /\ XAppend(launch.k, launch.call, "start_intent") /\ launch' = [launch EXCEPT !.step = "armed"]
        BY <1>7, <2>1 DEF Arm
      <3>2. /\ launch' \in Launches /\ launch'.step = "armed" /\ launch'.k = launch.k /\ launch'.call = launch.call
            /\ launch'.refused = launch.refused
        BY <1>5, <3>1 DEF LaunchSteps
      <3>3. XRecords \subseteq XRecords'
        BY <1>4, <3>1 DEF XEvents
      <3>4. WorkerKnows'
        BY <1>1, <1>2, <3>1, <3>2, <3>3 DEF WorkerKnows
      <3> QED BY <1>2, <1>3, <3>1, <3>2, <3>4, InHandAppend
    <2>2. CASE box[launch.k] # "created"
      <3>1. launch.step = "recorded" /\ UNCHANGED xlog /\ launch' = [launch EXCEPT !.step = "cleanup"]
        BY <1>7, <2>2 DEF Arm
      <3>2. /\ launch' \in Launches /\ launch'.step = "cleanup" /\ launch'.k = launch.k /\ launch'.call = launch.call
            /\ launch'.refused = launch.refused
        BY <1>5, <3>1 DEF LaunchSteps
      <3>3. XRecords' = XRecords
        BY <3>1 DEF XRecords
      <3>4. WorkerKnows'
        BY <1>1, <1>2, <3>1, <3>2, <3>3 DEF WorkerKnows
      <3> QED BY <1>2, <3>1, <3>2, <3>4, OnlyLaunch
    <2> QED BY <2>1, <2>2
  <1>8. CASE CleanupAbsent
    <2>1. CASE launch.refused
      <3>1. launch.step = "cleanup" /\ XAppend(launch.k, launch.call, "cleaned") /\ launch' = [launch EXCEPT !.step = "proving"]
        BY <1>8, <2>1 DEF CleanupAbsent, CleanupSettlesAbsence
      <3>2. /\ launch' \in Launches /\ launch'.step = "proving" /\ launch'.k = launch.k /\ launch'.call = launch.call
            /\ launch'.refused = launch.refused
        BY <1>5, <3>1 DEF LaunchSteps
      <3>3. /\ XRecords \subseteq XRecords' /\ Logs(XRecords', launch.k, "cleaned")
        BY <1>4, <3>1 DEF XEvents
      <3>4. box[launch.k] = "none" /\ \A m \in wire : m.k # launch.k
        BY <1>1, <2>1 DEF WorkerKnows
      <3>5. WorkerKnows'
        BY <1>1, <1>2, <2>1, <3>1, <3>2, <3>3, <3>4 DEF WorkerKnows
      <3> QED BY <1>2, <1>3, <3>1, <3>2, <3>4, <3>5, InHandAppend
    <2>2. CASE ~launch.refused
      <3>1. launch' = NoLaunch /\ UNCHANGED xlog
        BY <1>8, <2>2 DEF CleanupAbsent, CleanupSettlesAbsence
      <3> QED BY <1>2, <3>1, WorkerEnds
    <2> QED BY <2>1, <2>2
  <1>9. CASE CleanupConfirm
    <2>1. launch.step = "removed" /\ XAppend(launch.k, launch.call, "cleaned") /\ launch' = NoLaunch
      BY <1>9 DEF CleanupConfirm
    <2>2. NoLaunch = [NoLaunch EXCEPT !.step = "idle"]
      BY DEF NoLaunch
    <2>3. launch' \in Launches /\ launch'.step = "idle" /\ WorkerKnows'
      BY <2>1, <2>2, LaunchEnds
    <2>4. box[launch.k] = "gone"
      BY <1>1, <2>1 DEF WorkerKnows
    <2>5. \A m \in wire : m.k = launch.k => m.op # "create"
      BY <2>4 DEF XInv, DaemonWasAsked
    <2> QED BY <1>2, <1>3, <2>1, <2>3, <2>4, <2>5, InHandAppend
  <1> QED BY <1>6, <1>7, <1>8, <1>9

\* A new attempt takes the next number; every attempt before it is cleaned.
LEMMA LaunchNew ==
  ASSUME XInv, NEW c \in Calls, Launch(c)
  PROVE  XInv'
  <1> DEFINE k == CallAttempts + 1
             rec == [k |-> k, call |-> c, event |-> "intent"]
  <1>1. PICK n \in 0..MaxContainers : \A j \in Containers : Logs(XRecords, j, "intent") <=> j <= n
    BY DEF XInv, Numbered
  <1>2. CallAttempts = n
    <2>1. {j \in Containers : XLogged(j, "intent")} = 1..n
      BY <1>1, XQueries, ExternalAssumption DEF Containers
    <2>2. Cardinality(1..n) = n
      BY <1>1, FS_Interval, ExternalAssumption
    <2> QED BY <2>1, <2>2 DEF CallAttempts
  <1>3. k = n + 1 /\ k \in Containers /\ k \in 0..MaxContainers
    BY <1>1, <1>2, ExternalAssumption DEF Launch, Containers
  <1>4. /\ XAppend(k, c, "intent")
        /\ launch' = [NoLaunch EXCEPT !.step = "intended", !.call = c, !.k = k]
        /\ Unresolved = {} /\ (\A r \in XRecords : r.call # c)
        /\ UNCHANGED <<box, wire, proof, released, harness, over>>
    BY DEF Launch, Clear
  <1>5. ~Logs(XRecords, k, "intent")
    BY <1>1, <1>3, ExternalAssumption DEF Containers
  <1>6. rec.k = k /\ rec.call = c
    OBVIOUS
  <1>7. /\ xlog' \in Seq(XRecord) /\ XRecords' = XRecords \cup {rec}
        /\ \A j, f : Logs(XRecords', j, f) <=> Logs(XRecords, j, f) \/ (j = k /\ f = "intent")
    <2>1. "intent" \in XEvents /\ xlog \in Seq(XRecord)
      BY DEF XEvents, XInv, XTypeOK
    <2> HIDE DEF k
    <2> QED BY <1>3, <1>4, <2>1, XAppended
  <1>8. \A r \in XRecords : r.k # k
    BY <1>5 DEF XInv, Numbered
  <1>9. launch' = [step |-> "intended", call |-> c, k |-> k, id |-> FALSE, refused |-> FALSE]
    BY <1>4 DEF NoLaunch
  <1> HIDE DEF k, rec
  <1>10. launch' \in Launches
    <2>1. FALSE \in BOOLEAN /\ "intended" \in LaunchSteps /\ c \in Calls \cup {"none"}
      BY DEF LaunchSteps
    <2>2. [step |-> "intended", call |-> c, k |-> k, id |-> FALSE, refused |-> FALSE] \in Launches
      BY <1>3, <2>1, LaunchMade, Zenon
    <2> QED BY <1>9, <2>2, Zenon
  <1>11. launch'.step = "intended" /\ launch'.k = k /\ launch'.call = c /\ ~launch'.refused
    BY <1>9
  <1>12. ~Logs(XRecords, k, "cleaned") /\ box[k] = "none" /\ \A m \in wire : m.k # k
    <2>1. ~Logs(XRecords, k, "cleaned")
      BY <1>8 DEF Logs
    <2>2. box[k] = "none"
      BY <1>3, <1>5 DEF XInv, DaemonWasAsked
    <2>3. \A m \in wire : m.k # k
      BY <1>5 DEF XInv, DaemonWasAsked
    <2> QED BY <2>1, <2>2, <2>3
  <1>13. XTypeOK'
    BY <1>4, <1>7, <1>10 DEF XInv, XTypeOK
  <1>14. Numbered'
    <2>1. ASSUME NEW j \in Containers PROVE Logs(XRecords', j, "intent") <=> j <= k
      <3>1. Logs(XRecords', j, "intent") <=> Logs(XRecords, j, "intent") \/ j = k
        BY <1>7
      <3>2. Logs(XRecords, j, "intent") <=> j <= n
        BY <1>1
      <3>3. j <= k <=> j <= n \/ j = k
        BY <1>3, ExternalAssumption DEF Containers
      <3> QED BY <3>1, <3>2, <3>3
    <2>2. \A r \in XRecords' : Logs(XRecords', r.k, "intent")
      BY <1>6, <1>7 DEF XInv, Numbered
    <2>3. \A r, s \in XRecords' : r.k = s.k <=> r.call = s.call
      BY <1>4, <1>6, <1>7, <1>8 DEF XInv, Numbered
    <2> QED BY <1>3, <2>1, <2>2, <2>3 DEF Numbered
  <1>15. DaemonWasAsked' /\ CleanedIsGone'
    BY <1>4, <1>7 DEF XInv, DaemonWasAsked, CleanedIsGone
  <1>16. OneUnresolved'
    <2>1. \A j \in Containers : ~OpenIn(XRecords, j)
      BY <1>4, XQueries
    <2>2. \A j \in Containers : OpenIn(XRecords', j) => j = k
      BY <1>7, <2>1 DEF OpenIn
    <2> QED BY <1>11, <2>2 DEF OneUnresolved
  <1>17. WorkerKnows'
    <2>1. launch'.k \in Containers /\ launch'.call \in Calls /\ \E r \in XRecords' : r.k = launch'.k /\ r.call = launch'.call
      BY <1>3, <1>6, <1>7, <1>11
    <2>2. ~Logs(XRecords', k, "cleaned") /\ box'[k] = "none" /\ \A m \in wire' : m.k # k
      <3>1. Logs(XRecords', k, "cleaned") <=> Logs(XRecords, k, "cleaned") \/ (k = k /\ "cleaned" = "intent")
        BY <1>7
      <3>2. "cleaned" # "intent"
        OBVIOUS
      <3> QED BY <1>4, <1>12, <3>1, <3>2
    <2> QED BY <1>11, <2>1, <2>2 DEF WorkerKnows
  <1>18. ProofsHold'
    <2>1. XRecords \subseteq XRecords' /\ \A j, f : Logs(XRecords, j, f) => Logs(XRecords', j, f)
      BY <1>7
    <2> QED BY <1>4, <2>1 DEF XInv, ProofsHold
  <1> QED BY <1>13, <1>14, <1>15, <1>16, <1>17, <1>18 DEF XInv

\* A step that leaves the journal alone keeps its numbering and its open attempts.
LEMMA JournalStands ==
  ASSUME XInv, UNCHANGED xlog, launch'.step = launch.step \/ launch'.step # "closed"
  PROVE  XRecords' = XRecords /\ Numbered' /\ OneUnresolved'
  <1>1. XRecords' = XRecords
    BY DEF XRecords
  <1>2. Numbered /\ OneUnresolved
    BY DEF XInv
  <1>3. Numbered'
    BY <1>1, <1>2 DEF Numbered
  <1>4. OneUnresolved'
    BY <1>1, <1>2 DEF OneUnresolved
  <1> QED BY <1>1, <1>3, <1>4

\* A listed container runs, exits or is removed.
LEMMA BoxMoves ==
  ASSUME XInv, NEW k \in Containers, NEW b \in {"running", "exited", "gone"}, box[k] \notin {"none", "gone"},
         box' = [box EXCEPT ![k] = b], wire' \subseteq wire, harness' \subseteq harness \cup {k},
         UNCHANGED <<xlog, proof, released>>, launch' \in Launches, launch'.step = launch.step \/ launch'.step # "closed",
         WorkerKnows'
  PROVE  XInv'
  <1>1. XRecords' = XRecords /\ Numbered' /\ OneUnresolved'
    BY JournalStands
  <1>2. XTypeOK /\ DaemonWasAsked /\ CleanedIsGone /\ ProofsHold
    BY DEF XInv
  <1>3. /\ box' \in [Containers -> {"none", "created", "running", "exited", "gone"}]
        /\ box'[k] = b /\ (\A j \in Containers : j # k => box'[j] = box[j])
        /\ \A j \in Containers : box'[j] = "none" <=> box[j] = "none"
    BY <1>2 DEF XTypeOK
  <1>4. XTypeOK'
    BY <1>2, <1>3 DEF XTypeOK
  <1>5. DaemonWasAsked'
    <2>1. \A m \in wire : m.k \in Containers
      BY <1>2 DEF XTypeOK
    <2> QED BY <1>1, <1>2, <1>3, <2>1 DEF DaemonWasAsked
  <1>6. CleanedIsGone'
    BY <1>1, <1>2, <1>3 DEF CleanedIsGone
  <1>7. ProofsHold'
    <2>1. \A c \in Calls : proof[c] # 0 => proof[c] \in Containers
      BY <1>2, ExternalAssumption DEF XTypeOK, Containers
    <2> QED BY <1>1, <1>2, <1>3, <2>1 DEF ProofsHold
  <1> QED BY <1>1, <1>4, <1>5, <1>6, <1>7 DEF XInv

\* What the daemon does with a container that is there, and docker rm -f.
LEMMA BoxSteps ==
  ASSUME XInv, CleanupRemove \/ \E k \in Containers : LandStart(k) \/ HarnessExits(k) \/ SweepContainer(k)
  PROVE  XInv'
  <1>1. XTypeOK /\ DaemonWasAsked /\ CleanedIsGone /\ WorkerKnows /\ ProofsHold /\ launch \in Launches
    BY DEF XInv, XTypeOK
  <1>2. ASSUME NEW k \in Containers, NEW b \in {"running", "exited", "gone"}, box[k] \notin {"none", "gone"},
               box' = [box EXCEPT ![k] = b], wire' \subseteq wire, UNCHANGED <<xlog, launch>>
        PROVE  WorkerKnows'
    <2>1. /\ box'[k] = b /\ (\A j \in Containers : j # k => box'[j] = box[j])
          /\ \A j \in Containers : box'[j] = "none" <=> box[j] = "none"
      BY <1>1, <1>2 DEF XTypeOK
    <2>2. XRecords' = XRecords
      BY <1>2 DEF XRecords
    <2>3. launch.refused => launch.step \in {"cleanup", "proving"}
      BY <1>1 DEF WorkerKnows
    <2> QED BY <1>1, <1>2, <2>1, <2>2, <2>3 DEF WorkerKnows
  <1>3. ASSUME NEW k \in Containers, LandStart(k) PROVE XInv'
    <2>1. /\ wire' = wire \ {[op |-> "start", k |-> k]} /\ UNCHANGED <<xlog, launch, proof, released, over>>
          /\ \/ box[k] = "created" /\ box' = [box EXCEPT ![k] = "running"] /\ harness' = harness \cup {k}
             \/ UNCHANGED <<box, harness>>
      BY <1>3 DEF LandStart
    <2>2. CASE box[k] = "created" /\ box' = [box EXCEPT ![k] = "running"] /\ harness' = harness \cup {k}
      <3>1. WorkerKnows'
        BY <1>2, <2>1, <2>2
      <3> QED BY <1>1, <2>1, <2>2, <3>1, BoxMoves
    <2>3. CASE UNCHANGED <<box, harness>>
      <3>1. XRecords' = XRecords /\ Numbered' /\ OneUnresolved'
        BY <2>1, JournalStands
      <3>2. wire' \subseteq wire /\ UNCHANGED <<xlog, launch, proof, released, box, harness>>
        BY <2>1, <2>3
      <3>3. XTypeOK' /\ DaemonWasAsked' /\ CleanedIsGone'
        BY <1>1, <3>1, <3>2 DEF XTypeOK, DaemonWasAsked, CleanedIsGone
      <3>4. WorkerKnows' /\ ProofsHold'
        BY <1>1, <3>1, <3>2 DEF WorkerKnows, ProofsHold
      <3> QED BY <3>1, <3>3, <3>4 DEF XInv
    <2> QED BY <2>1, <2>2, <2>3
  <1>4. ASSUME NEW k \in Containers, HarnessExits(k) PROVE XInv'
    <2>1. /\ box[k] = "running" /\ box' = [box EXCEPT ![k] = "exited"]
          /\ UNCHANGED <<xlog, wire, launch, proof, released, harness, over>>
      BY <1>4 DEF HarnessExits
    <2>2. WorkerKnows'
      BY <1>2, <2>1
    <2> QED BY <1>1, <2>1, <2>2, BoxMoves
  <1>5. ASSUME NEW k \in Containers, SweepContainer(k) PROVE XInv'
    <2>1. /\ box[k] \notin {"none", "gone"} /\ box' = [box EXCEPT ![k] = "gone"]
          /\ UNCHANGED <<xlog, wire, launch, proof, released, harness, over>>
      BY <1>5 DEF SweepContainer, Listed
    <2>2. WorkerKnows'
      BY <1>2, <2>1
    <2> QED BY <1>1, <2>1, <2>2, BoxMoves
  <1>6. CASE CleanupRemove
    <2>1. /\ launch.step = "cleanup" /\ box[launch.k] \notin {"none", "gone"}
          /\ UNCHANGED <<xlog, wire, proof, released, harness, over>>
          /\ \/ box' = [box EXCEPT ![launch.k] = "gone"] /\ launch' = [launch EXCEPT !.step = "removed"]
             \/ launch' = NoLaunch /\ UNCHANGED box
      BY <1>6 DEF CleanupRemove, Listed
    <2>2. launch.k \in Containers /\ ~launch.refused
      BY <1>1, <2>1 DEF WorkerKnows
    <2>3. CASE box' = [box EXCEPT ![launch.k] = "gone"] /\ launch' = [launch EXCEPT !.step = "removed"]
      <3>1. /\ launch' \in Launches /\ launch'.step = "removed" /\ launch'.k = launch.k /\ launch'.call = launch.call
            /\ launch'.refused = launch.refused
        BY <1>1, <2>3, LaunchMoves DEF LaunchSteps
      <3>2. box'[launch.k] = "gone" /\ XRecords' = XRecords
        BY <1>1, <2>1, <2>2, <2>3 DEF XTypeOK, XRecords
      <3>3. WorkerKnows'
        BY <1>1, <2>1, <2>2, <3>1, <3>2 DEF WorkerKnows
      <3> QED BY <2>1, <2>2, <2>3, <3>1, <3>3, BoxMoves
    <2>4. CASE launch' = NoLaunch /\ UNCHANGED box
      BY <2>1, <2>4, WorkerEnds
    <2> QED BY <2>1, <2>3, <2>4
  <1> QED BY <1>3, <1>4, <1>5, <1>6

\* What is sent to the daemon, and what it makes of a create.
LEMMA WireSteps ==
  ASSUME XInv, SendCreate \/ SendStart \/ \E k \in Containers : LandCreate(k) \/ RefuseCreate(k)
  PROVE  XInv'
  <1>1. XTypeOK /\ DaemonWasAsked /\ CleanedIsGone /\ WorkerKnows /\ ProofsHold /\ launch \in Launches
    BY DEF XInv, XTypeOK
  <1>2. UNCHANGED <<xlog, proof, released, harness>> /\ XRecords' = XRecords
    BY DEF SendCreate, SendStart, LandCreate, RefuseCreate, XRecords
  <1>3. ASSUME NEW op \in {"create", "start"}, NEW s \in {"creating", "starting"},
               launch.step \in {"intended", "armed"}, op = "create" <=> launch.step = "intended", 
               s = "creating" <=> launch.step = "intended", UNCHANGED box,
               wire' = wire \cup {[op |-> op, k |-> launch.k]}, launch' = [launch EXCEPT !.step = s]
        PROVE  XInv'
    <2> DEFINE m0 == [op |-> op, k |-> launch.k]
    <2>1. launch.k \in Containers /\ ~launch.refused /\ Logs(XRecords, launch.k, "intent")
      BY <1>1, <1>3 DEF WorkerKnows, XInv, Numbered
    <2>2. m0 \in [op : {"create", "start"}, k : Containers] /\ m0.op = op /\ m0.k = launch.k /\ wire' = wire \cup {m0}
      BY <1>3, <2>1
    <2> HIDE DEF m0
    <2>3. /\ launch' \in Launches /\ launch'.step = s /\ launch'.k = launch.k /\ launch'.call = launch.call
          /\ launch'.refused = launch.refused
      BY <1>1, <1>3, LaunchMoves DEF LaunchSteps
    <2>4. op = "create" <=> box[launch.k] = "none"
      BY <1>1, <1>3 DEF WorkerKnows
    <2>5. op = "create" => ~Logs(XRecords, launch.k, "cleaned")
      BY <1>1, <1>3 DEF WorkerKnows
    <2>6. XTypeOK'
      BY <1>1, <1>2, <1>3, <2>2, <2>3 DEF XTypeOK
    <2>7. DaemonWasAsked'
      BY <1>1, <1>2, <1>3, <2>1, <2>2, <2>4 DEF DaemonWasAsked
    <2>8. CleanedIsGone'
      BY <1>1, <1>2, <1>3, <2>2, <2>5 DEF CleanedIsGone
    <2>9. WorkerKnows'
      BY <1>1, <1>2, <1>3, <2>1, <2>3 DEF WorkerKnows
    <2>10. ProofsHold'
      BY <1>1, <1>2, <1>3 DEF ProofsHold
    <2>11. Numbered' /\ OneUnresolved'
      BY <1>2, <2>3, JournalStands
    <2> QED BY <2>6, <2>7, <2>8, <2>9, <2>10, <2>11 DEF XInv
  <1>4. CASE SendCreate
    BY <1>3, <1>4 DEF SendCreate
  <1>5. CASE SendStart
    BY <1>3, <1>5 DEF SendStart
  <1>6. ASSUME NEW k \in Containers, [op |-> "create", k |-> k] \in wire
        PROVE  /\ box[k] = "none" /\ Logs(XRecords, k, "intent") /\ ~Logs(XRecords, k, "cleaned")
               /\ \A m \in wire \ {[op |-> "create", k |-> k]} : m.k # k
               /\ launch.k = k => launch.step \notin {"intended", "removed", "proving"} /\ ~launch.refused
               /\ \A c \in Calls : proof[c] # k
    <2>1. box[k] = "none" /\ Logs(XRecords, k, "intent") /\ ~Logs(XRecords, k, "cleaned")
      <3> DEFINE m0 == [op |-> "create", k |-> k]
      <3>1. m0 \in wire /\ m0.op = "create" /\ m0.k = k
        BY <1>6
      <3> HIDE DEF m0
      <3> QED BY <1>1, <3>1 DEF DaemonWasAsked, CleanedIsGone
    <2>2. ASSUME NEW m \in wire, m.k = k PROVE m = [op |-> "create", k |-> k]
      <3>1. m \in [op : {"create", "start"}, k : Containers] /\ m.op = "create"
        BY <1>1, <2>1, <2>2 DEF XTypeOK, DaemonWasAsked
      <3> QED BY <2>2, <3>1
    <2>3. launch.k = k => launch.step \notin {"intended", "removed", "proving"} /\ ~launch.refused
      <3>1. \E m \in wire : m.k = k
        BY <1>6
      <3> QED BY <1>1, <2>1, <3>1 DEF WorkerKnows
    <2>4. \A c \in Calls : proof[c] # k
      BY <1>1, <2>1, ExternalAssumption DEF ProofsHold, Containers
    <2> QED BY <2>1, <2>2, <2>3, <2>4
  <1>7. ASSUME NEW k \in Containers, LandCreate(k) PROVE XInv'
    <2> DEFINE m0 == [op |-> "create", k |-> k]
    <2>1. /\ m0 \in wire /\ wire' = wire \ {m0} /\ box' = [box EXCEPT ![k] = "created"]
          /\ UNCHANGED <<xlog, launch, proof, released, harness, over>>
      BY <1>7 DEF LandCreate
    <2>2. /\ box[k] = "none" /\ Logs(XRecords, k, "intent") /\ ~Logs(XRecords, k, "cleaned")
          /\ \A m \in wire \ {m0} : m.k # k
          /\ launch.k = k => launch.step \notin {"intended", "removed", "proving"} /\ ~launch.refused
          /\ \A c \in Calls : proof[c] # k
      BY <1>6, <2>1
    <2> HIDE DEF m0
    <2>3. /\ box' \in [Containers -> {"none", "created", "running", "exited", "gone"}]
          /\ box'[k] = "created" /\ \A j \in Containers : j # k => box'[j] = box[j]
      BY <1>1, <2>1 DEF XTypeOK
    <2>4. XTypeOK'
      BY <1>1, <2>1, <2>3 DEF XTypeOK
    <2>5. DaemonWasAsked'
      <3>1. \A m \in wire : m.k \in Containers
        BY <1>1 DEF XTypeOK
      <3> QED BY <1>1, <1>2, <2>1, <2>2, <2>3, <3>1 DEF DaemonWasAsked
    <2>6. CleanedIsGone'
      BY <1>1, <1>2, <2>1, <2>2, <2>3 DEF CleanedIsGone
    <2>7. WorkerKnows'
      <3>1. launch.k # k /\ launch.k \in Containers => box'[launch.k] = box[launch.k]
        BY <2>3
      <3>2. launch.step \notin {"idle", "closed"} => launch.k \in Containers
        BY <1>1 DEF WorkerKnows
      <3>3. launch.refused => launch.step \notin {"idle", "closed"}
        BY <1>1 DEF WorkerKnows
      <3> QED BY <1>1, <1>2, <2>1, <2>2, <2>3, <3>1, <3>2, <3>3 DEF WorkerKnows
    <2>8. ProofsHold'
      <3>1. \A c \in Calls : proof[c] # 0 => proof[c] \in Containers
        BY <1>1, ExternalAssumption DEF XTypeOK, Containers
      <3> QED BY <1>1, <1>2, <2>2, <2>3, <3>1 DEF ProofsHold
    <2>9. Numbered' /\ OneUnresolved'
      BY <2>1, JournalStands
    <2> QED BY <2>4, <2>5, <2>6, <2>7, <2>8, <2>9 DEF XInv
  <1>8. ASSUME NEW k \in Containers, RefuseCreate(k) PROVE XInv'
    <2> DEFINE m0 == [op |-> "create", k |-> k]
    <2>1. /\ m0 \in wire /\ wire' = wire \ {m0} /\ UNCHANGED <<xlog, box, proof, released, harness, over>>
          /\ \/ UNCHANGED launch
             \/ /\ launch.step = "creating" /\ launch.k = k
                /\ launch' = [launch EXCEPT !.step = "cleanup", !.refused = TRUE]
      BY <1>8 DEF RefuseCreate
    <2>2. box[k] = "none" /\ \A m \in wire \ {m0} : m.k # k
      BY <1>6, <2>1
    <2> HIDE DEF m0
    <2>3. launch' \in Launches /\ launch'.step \in {launch.step, "cleanup"}
      BY <1>1, <2>1 DEF Launches, LaunchSteps
    <2>4. XTypeOK' /\ DaemonWasAsked' /\ CleanedIsGone' /\ ProofsHold'
      BY <1>1, <1>2, <2>1, <2>3 DEF XTypeOK, DaemonWasAsked, CleanedIsGone, ProofsHold
    <2>5. WorkerKnows'
      <3>1. CASE UNCHANGED launch
        BY <1>1, <1>2, <2>1, <3>1 DEF WorkerKnows
      <3>2. CASE /\ launch.step = "creating" /\ launch.k = k
                 /\ launch' = [launch EXCEPT !.step = "cleanup", !.refused = TRUE]
        <4>1. launch'.step = "cleanup" /\ launch'.k = k /\ launch'.call = launch.call
          BY <1>1, <3>2 DEF Launches
        <4>2. launch.k \in Containers /\ launch.call \in Calls /\ \E r \in XRecords : r.k = launch.k /\ r.call = launch.call
          BY <1>1, <3>2 DEF WorkerKnows
        <4> QED BY <1>2, <2>1, <2>2, <3>2, <4>1, <4>2 DEF WorkerKnows
      <3> QED BY <2>1, <3>1, <3>2
    <2>6. Numbered' /\ OneUnresolved'
      BY <2>1, <2>3, JournalStands
    <2> QED BY <2>4, <2>5, <2>6 DEF XInv
  <1> QED BY <1>4, <1>5, <1>7, <1>8

\* The proof of a refused call, and the reservation given back on it.
LEMMA ProofSteps ==
  ASSUME XInv, WriteProof \/ CellEnds \/ \E c \in Calls : Release(c)
  PROVE  XInv'
  <1>1. XTypeOK /\ DaemonWasAsked /\ CleanedIsGone /\ WorkerKnows /\ ProofsHold /\ launch \in Launches
    BY DEF XInv, XTypeOK
  <1>2. UNCHANGED <<xlog, box, wire, harness>> /\ XRecords' = XRecords
    BY DEF WriteProof, CellEnds, Release, XRecords
  <1>3. DaemonWasAsked' /\ CleanedIsGone'
    BY <1>1, <1>2 DEF DaemonWasAsked, CleanedIsGone
  <1>4. CASE WriteProof
    <2>1. launch.step = "proving" /\ proof' = [proof EXCEPT ![launch.call] = launch.k] /\ launch' = NoLaunch /\ UNCHANGED released
      BY <1>4 DEF WriteProof
    <2>2. /\ launch.k \in Containers /\ launch.call \in Calls /\ box[launch.k] = "none" /\ Logs(XRecords, launch.k, "cleaned")
          /\ \E r \in XRecords : r.k = launch.k /\ r.call = launch.call
      BY <1>1, <2>1 DEF WorkerKnows
    <2>3. NoLaunch = [NoLaunch EXCEPT !.step = "idle"]
      BY DEF NoLaunch
    <2>4. launch' \in Launches /\ launch'.step = "idle" /\ WorkerKnows'
      BY <2>1, <2>3, LaunchEnds
    <2>5. launch.k \in 0..MaxContainers /\ launch.k # 0
      BY <2>2, ExternalAssumption DEF Containers
    <2>6. /\ proof' \in [Calls -> 0..MaxContainers] /\ proof'[launch.call] = launch.k
          /\ \A c \in Calls : c # launch.call => proof'[c] = proof[c]
      BY <1>1, <2>1, <2>2, <2>5 DEF XTypeOK
    <2>7. XTypeOK'
      BY <1>1, <1>2, <2>4, <2>6 DEF XTypeOK
    <2>8. ProofsHold'
      BY <1>1, <1>2, <2>1, <2>2, <2>5, <2>6 DEF ProofsHold
    <2>9. Numbered' /\ OneUnresolved'
      BY <1>2, <2>4, JournalStands
    <2> QED BY <1>3, <2>4, <2>7, <2>8, <2>9 DEF XInv
  <1>5. CASE CellEnds \/ \E c \in Calls : Release(c)
    <2>1. UNCHANGED <<launch, proof>> /\ \A c \in released' : c \in released \/ (c \in Calls /\ proof[c] # 0)
      BY <1>5 DEF CellEnds, Release, DefinitelyAbsent
    <2>2. XTypeOK' /\ WorkerKnows' /\ ProofsHold'
      BY <1>1, <1>2, <2>1 DEF XTypeOK, WorkerKnows, ProofsHold
    <2>3. Numbered' /\ OneUnresolved'
      BY <1>2, <2>1, JournalStands
    <2> QED BY <1>3, <2>2, <2>3 DEF XInv
  <1> QED BY <1>4, <1>5

\* Every step of the worker, of the daemon and of the Cell preserves the invariant.
LEMMA XStep == XInv /\ [XNext]_xvars => XInv'
  <1> SUFFICES ASSUME XInv, [XNext]_xvars PROVE XInv'
    OBVIOUS
  <1>1. ASSUME NEW c \in Calls, Launch(c) PROVE XInv'
    BY <1>1, LaunchNew
  <1>2. ASSUME NEW k \in Containers, Reap(k) PROVE XInv'
    BY <1>2, ReapKnows
  <1>3. CASE LoseCreate \/ ReceiveIdentity \/ StartReturns
    BY <1>3, WorkerGoesOn
  <1>4. CASE CleanupForeign \/ WorkerKilled \/ CloseRun
    <2>1. UNCHANGED <<xlog, box, wire, proof, released, harness>>
      BY <1>4 DEF CleanupForeign, WorkerKilled, CloseRun
    <2>2. launch' = NoLaunch \/ (launch' = [NoLaunch EXCEPT !.step = "closed"] /\ Unresolved = {})
      BY <1>4 DEF CleanupForeign, WorkerKilled, CloseRun, Clear
    <2> QED BY <2>1, <2>2, WorkerEnds
  <1>5. CASE RecordCreated \/ Arm \/ CleanupAbsent \/ CleanupConfirm
    BY <1>5, WorkerWrites
  <1>6. CASE CleanupRemove \/ \E k \in Containers : LandStart(k) \/ HarnessExits(k) \/ SweepContainer(k)
    BY <1>6, BoxSteps
  <1>7. CASE SendCreate \/ SendStart \/ \E k \in Containers : LandCreate(k) \/ RefuseCreate(k)
    BY <1>7, WireSteps
  <1>8. CASE WriteProof \/ CellEnds \/ \E c \in Calls : Release(c)
    BY <1>8, ProofSteps
  <1>9. CASE UNCHANGED xvars
    <2>1. UNCHANGED <<xlog, box, wire, launch, proof, released, harness>> /\ XRecords' = XRecords
      BY <1>9 DEF xvars, XRecords
    <2>2. WorkerKnows'
      BY <2>1 DEF XInv, WorkerKnows
    <2> QED BY <2>1, <2>2, OnlyLaunch DEF XInv, XTypeOK, OneUnresolved
  <1> QED
    BY <1>1, <1>2, <1>3, <1>4, <1>5, <1>6, <1>7, <1>8, <1>9 DEF XNext, WorkerStep, DaemonStep

\* Wherever the worker is killed, whatever the daemon still carries out and whoever sweeps: a reservation that
\* was given back is of a call that never runs, a harness is alone, and a closed run left nothing behind.
THEOREM ExternalAccounted == XSpec => []ContainersAccountedFor
  <1>1. XInv => ContainersAccountedFor
    <2> SUFFICES ASSUME XInv PROVE ContainersAccountedFor
      OBVIOUS
    <2>1. XTypeOK /\ Numbered /\ DaemonWasAsked /\ CleanedIsGone /\ OneUnresolved /\ ProofsHold
      BY DEF XInv
    <2>2. NoStartProofHolds
      <3> SUFFICES ASSUME NEW c \in released, NEW k \in OfCall(c)
                   PROVE  k \notin harness /\ ~Listed(k) /\ ~\E m \in wire : m.k = k
        BY DEF NoStartProofHolds
      <3>1. PICK r \in XRecords : r.call = c /\ r.k = k
        BY DEF OfCall
      <3>2. c \in Calls /\ proof[c] # 0
        BY <2>1 DEF ProofsHold
      <3>3. PICK s \in XRecords : s.k = proof[c] /\ s.call = c
        BY <2>1, <3>2 DEF ProofsHold
      <3>4. k = proof[c]
        BY <2>1, <3>1, <3>3 DEF Numbered
      <3>5. box[k] = "none" /\ Logs(XRecords, k, "cleaned")
        BY <2>1, <3>2, <3>4 DEF ProofsHold
      <3>6. \A m \in wire : m.k # k
        BY <2>1, <3>5 DEF DaemonWasAsked, CleanedIsGone
      <3> QED BY <2>1, <3>5, <3>6 DEF DaemonWasAsked, Listed
    <2>3. ASSUME NEW k \in Containers, Listed(k) PROVE OpenIn(XRecords, k)
      BY <2>1, <2>3 DEF DaemonWasAsked, CleanedIsGone, Listed, OpenIn
    <2>4. ASSUME NEW m \in wire, m.op = "create" PROVE m.k \in Containers /\ OpenIn(XRecords, m.k) /\ box[m.k] = "none"
      BY <2>1, <2>4 DEF XTypeOK, DaemonWasAsked, CleanedIsGone, OpenIn
    <2>5. HarnessAlone
      <3> SUFFICES ASSUME NEW k \in Containers, box[k] = "running"
                   PROVE  (\A j \in Containers \ {k} : ~Listed(j)) /\ ~\E m \in wire : m.op = "create"
        BY DEF HarnessAlone
      <3>1. OpenIn(XRecords, k)
        BY <2>3 DEF Listed
      <3>2. \A j \in Containers \ {k} : ~Listed(j)
        BY <2>1, <2>3, <3>1 DEF OneUnresolved
      <3>3. \A m \in wire : m.op # "create"
        BY <2>1, <2>4, <3>1 DEF OneUnresolved
      <3> QED BY <3>2, <3>3
    <2>6. ClosedRunIsGone
      BY <2>1, <2>3, <2>4 DEF ClosedRunIsGone, OneUnresolved
    <2> QED BY <2>2, <2>5, <2>6 DEF ContainersAccountedFor
  <1> QED
    BY <1>1, XStart, XStep, PTL DEF XSpec

------------------------------------------------------------------------------
\* Machines of the microVM daemon.

\* The phases of a machine's receipt.
SmolPhases == {"none", "pending", "ready", "collision", "terminated", "deleted"}

Records == [phase : SmolPhases, inflight : BOOLEAN, pid : Nat]

\* The types of the records and of the incarnations; nothing ran in an incarnation that has not been.
SmolTypeOK ==
    /\ vrec \in Records /\ cancel.rec \in Records
    /\ boot \in Nat /\ unique \in BOOLEAN /\ seen \in Nat
    /\ vrec.pid <= boot /\ seen <= boot /\ cancel.rec.pid <= boot
    /\ touched \subseteq Nat /\ \A b \in touched : b <= boot

\* What the record may say while the worker operates: the fence, or what a destroy beside it left.
StepFollowsPhase ==
    /\ step \in {"posting", "creating", "booting", "started", "holding", "fencing", "ready", "running",
                 "destroying", "deleting", "confirming", "destroyed"} => vrec.phase # "none"
    /\ step \in {"fencing", "ready", "running"} =>
         vrec.phase \in {"ready", "terminated", "deleted"} /\ (vrec.phase = "ready" => vrec.pid = seen)
    /\ step \in {"ready", "running"} /\ vrec.phase = "ready" => vrec.inflight
    /\ step \in {"deleting", "confirming"} => vrec.phase \notin {"pending", "collision"}
    /\ step \in {"fencing", "ready"} => "exec" \notin sent
    /\ cancel.step # "off" \/ handle # "none" => vrec.phase # "none"

\* A create that may still be carried out belongs to a record that is pending, and its machine is not there.
CreateInDoubt == unique =>
    /\ "create" \in sent => vrec.phase = "pending" /\ vm = "absent"
    /\ vrec.phase = "none" => vm = "absent"
    /\ step = "posting" => vm = "absent" /\ "create" \notin sent /\ vrec.phase = "pending"
    /\ cancel.step # "off" \/ step \in {"booting", "started", "deleting", "confirming"}
         => "create" \notin sent /\ step # "posting"
    /\ vrec.phase = "deleted" => vm = "absent"

\* No command runs before the machine is recorded as ready.
UntouchedBeforeReady ==
    vrec.phase \in {"none", "pending", "collision"} \/ step \in {"posting", "creating", "booting", "started"}
      => touched = {} /\ "exec" \notin sent

\* A command that is lost leaves the fence up in the incarnation of the record.
FenceHolds ==
    /\ vrec.phase = "ready" /\ ("exec" \in sent \/ vrec.pid \in touched) => vrec.inflight
    /\ step \in {"fencing", "ready", "running"} => boot \notin touched /\ seen \notin touched
    /\ ~mixed

\* The inductive invariant of the machine of a run.
SmolInv == SmolTypeOK /\ StepFollowsPhase /\ CreateInDoubt /\ UntouchedBeforeReady /\ FenceHolds

\* The invariant holds before the first request.
LEMMA SmolStart == SmolInit => SmolInv
  <1> SUFFICES ASSUME SmolInit PROVE SmolInv
    OBVIOUS
  <1>1. /\ vrec = Unborn /\ cancel = NoCancel /\ handle = "none" /\ seen = 0 /\ boot = 0 /\ touched = {} 
        /\ sent = {} /\ step = "idle" /\ mixed = FALSE
        /\ unique \in BOOLEAN /\ (unique => vm = "absent")
    BY DEF SmolInit
  <1>2. SmolTypeOK
    BY <1>1 DEF SmolTypeOK, Records, NoCancel, Unborn, SmolPhases
  <1> QED
    BY <1>1, <1>2 DEF NoCancel, Unborn, SmolInv, StepFollowsPhase, CreateInDoubt, UntouchedBeforeReady, FenceHolds

\* Every step of the worker, the daemon and the machine preserves the invariant.
LEMMA SmolStep == SmolInv /\ [SmolNext]_smolvars => SmolInv'
  <1> SUFFICES ASSUME SmolInv, [SmolNext]_smolvars PROVE SmolInv'
    OBVIOUS
  <1> USE DEF SmolInv
  <1>1. CASE Provision
    <2>1. SmolTypeOK'
      BY <1>1 DEF Provision, Answers200, SmolTypeOK, Records, SmolPhases
    <2>2. StepFollowsPhase'
      BY <1>1 DEF Provision, Answers200, SmolTypeOK, Records, SmolPhases, StepFollowsPhase, CreateInDoubt, UntouchedBeforeReady, FenceHolds
    <2>3. CreateInDoubt'
      BY <1>1 DEF Provision, Answers200, SmolTypeOK, Records, SmolPhases, StepFollowsPhase, CreateInDoubt
    <2>4. UntouchedBeforeReady' /\ FenceHolds'
      BY <1>1 DEF Provision, Answers200, SmolTypeOK, Records, SmolPhases, StepFollowsPhase, UntouchedBeforeReady, FenceHolds
    <2> QED BY <2>1, <2>2, <2>3, <2>4
  <1>2. CASE PostCreate
    <2>1. SmolTypeOK'
      BY <1>2 DEF PostCreate, SmolTypeOK, Records, SmolPhases
    <2>2. StepFollowsPhase'
      BY <1>2 DEF PostCreate, SmolTypeOK, Records, SmolPhases, StepFollowsPhase, CreateInDoubt, UntouchedBeforeReady, FenceHolds
    <2>3. CreateInDoubt'
      BY <1>2 DEF PostCreate, SmolTypeOK, Records, SmolPhases, StepFollowsPhase, CreateInDoubt
    <2>4. UntouchedBeforeReady' /\ FenceHolds'
      BY <1>2 DEF PostCreate, SmolTypeOK, Records, SmolPhases, StepFollowsPhase, UntouchedBeforeReady, FenceHolds
    <2> QED BY <2>1, <2>2, <2>3, <2>4
  <1>3. CASE CreateAnswered
    <2>1. SmolTypeOK'
      BY <1>3 DEF CreateAnswered, SmolTypeOK, Records, SmolPhases
    <2>2. StepFollowsPhase'
      BY <1>3 DEF CreateAnswered, SmolTypeOK, Records, SmolPhases, StepFollowsPhase, CreateInDoubt, UntouchedBeforeReady, FenceHolds
    <2>3. CreateInDoubt'
      BY <1>3 DEF CreateAnswered, SmolTypeOK, Records, SmolPhases, StepFollowsPhase, CreateInDoubt
    <2>4. UntouchedBeforeReady' /\ FenceHolds'
      BY <1>3 DEF CreateAnswered, SmolTypeOK, Records, SmolPhases, StepFollowsPhase, UntouchedBeforeReady, FenceHolds
    <2> QED BY <2>1, <2>2, <2>3, <2>4
  <1>4. CASE StartMachine
    <2>1. SmolTypeOK'
      BY <1>4 DEF StartMachine, Answers200, SmolTypeOK, Records, SmolPhases
    <2>2. StepFollowsPhase'
      BY <1>4 DEF StartMachine, Answers200, SmolTypeOK, Records, SmolPhases, StepFollowsPhase, CreateInDoubt, UntouchedBeforeReady, FenceHolds
    <2>3. CreateInDoubt'
      BY <1>4 DEF StartMachine, Answers200, SmolTypeOK, Records, SmolPhases, StepFollowsPhase, CreateInDoubt
    <2>4. UntouchedBeforeReady' /\ FenceHolds'
      BY <1>4 DEF StartMachine, Answers200, SmolTypeOK, Records, SmolPhases, StepFollowsPhase, UntouchedBeforeReady, FenceHolds
    <2> QED BY <2>1, <2>2, <2>3, <2>4
  <1>5. CASE RecordReady
    <2>1. SmolTypeOK'
      BY <1>5 DEF RecordReady, SmolTypeOK, Records, SmolPhases
    <2>2. StepFollowsPhase'
      BY <1>5 DEF RecordReady, SmolTypeOK, Records, SmolPhases, StepFollowsPhase, CreateInDoubt, UntouchedBeforeReady, FenceHolds
    <2>3. CreateInDoubt'
      BY <1>5 DEF RecordReady, SmolTypeOK, Records, SmolPhases, StepFollowsPhase, CreateInDoubt
    <2>4. UntouchedBeforeReady' /\ FenceHolds'
      BY <1>5 DEF RecordReady, SmolTypeOK, Records, SmolPhases, StepFollowsPhase, UntouchedBeforeReady, FenceHolds
    <2> QED BY <2>1, <2>2, <2>3, <2>4
  <1>6. CASE HoldHandle
    <2>1. SmolTypeOK'
      BY <1>6 DEF HoldHandle, SmolTypeOK, Records, SmolPhases
    <2>2. StepFollowsPhase'
      BY <1>6 DEF HoldHandle, SmolTypeOK, Records, SmolPhases, StepFollowsPhase, CreateInDoubt, UntouchedBeforeReady, FenceHolds
    <2>3. CreateInDoubt'
      BY <1>6 DEF HoldHandle, SmolTypeOK, Records, SmolPhases, StepFollowsPhase, CreateInDoubt
    <2>4. UntouchedBeforeReady' /\ FenceHolds'
      BY <1>6 DEF HoldHandle, SmolTypeOK, Records, SmolPhases, StepFollowsPhase, UntouchedBeforeReady, FenceHolds
    <2> QED BY <2>1, <2>2, <2>3, <2>4
  <1>7. CASE BeginOperation
    <2>1. SmolTypeOK'
      BY <1>7 DEF BeginOperation, Unfenced, SmolTypeOK, Records, SmolPhases
    <2>2. StepFollowsPhase'
      BY <1>7 DEF BeginOperation, Unfenced, SmolTypeOK, Records, SmolPhases, StepFollowsPhase, CreateInDoubt, UntouchedBeforeReady, FenceHolds
    <2>3. CreateInDoubt'
      BY <1>7 DEF BeginOperation, Unfenced, SmolTypeOK, Records, SmolPhases, StepFollowsPhase, CreateInDoubt
    <2>4. UntouchedBeforeReady' /\ FenceHolds'
      BY <1>7 DEF BeginOperation, Unfenced, SmolTypeOK, Records, SmolPhases, StepFollowsPhase, UntouchedBeforeReady, FenceHolds
    <2> QED BY <2>1, <2>2, <2>3, <2>4
  <1>8. CASE JournalFence
    <2>1. SmolTypeOK'
      BY <1>8 DEF JournalFence, SmolTypeOK, Records, SmolPhases
    <2>2. StepFollowsPhase'
      BY <1>8 DEF JournalFence, SmolTypeOK, Records, SmolPhases, StepFollowsPhase, CreateInDoubt, UntouchedBeforeReady, FenceHolds
    <2>3. CreateInDoubt'
      BY <1>8 DEF JournalFence, SmolTypeOK, Records, SmolPhases, StepFollowsPhase, CreateInDoubt
    <2>4. UntouchedBeforeReady' /\ FenceHolds'
      BY <1>8 DEF JournalFence, SmolTypeOK, Records, SmolPhases, StepFollowsPhase, UntouchedBeforeReady, FenceHolds
    <2> QED BY <2>1, <2>2, <2>3, <2>4
  <1>9. CASE SendCommand
    <2>1. SmolTypeOK'
      BY <1>9 DEF SendCommand, SmolTypeOK, Records, SmolPhases
    <2>2. StepFollowsPhase'
      BY <1>9 DEF SendCommand, SmolTypeOK, Records, SmolPhases, StepFollowsPhase, CreateInDoubt, UntouchedBeforeReady, FenceHolds
    <2>3. CreateInDoubt'
      BY <1>9 DEF SendCommand, SmolTypeOK, Records, SmolPhases, StepFollowsPhase, CreateInDoubt
    <2>4. UntouchedBeforeReady' /\ FenceHolds'
      BY <1>9 DEF SendCommand, SmolTypeOK, Records, SmolPhases, StepFollowsPhase, UntouchedBeforeReady, FenceHolds
    <2> QED BY <2>1, <2>2, <2>3, <2>4
  <1>10. CASE Finish
    <2>1. SmolTypeOK'
      BY <1>10 DEF Finish, SmolTypeOK, Records, SmolPhases
    <2>2. StepFollowsPhase'
      BY <1>10 DEF Finish, SmolTypeOK, Records, SmolPhases, StepFollowsPhase, CreateInDoubt, UntouchedBeforeReady, FenceHolds
    <2>3. CreateInDoubt'
      BY <1>10 DEF Finish, SmolTypeOK, Records, SmolPhases, StepFollowsPhase, CreateInDoubt
    <2>4. UntouchedBeforeReady' /\ FenceHolds'
      BY <1>10 DEF Finish, SmolTypeOK, Records, SmolPhases, StepFollowsPhase, UntouchedBeforeReady, FenceHolds
    <2> QED BY <2>1, <2>2, <2>3, <2>4
  <1>11. CASE CommandLost
    <2>1. SmolTypeOK'
      BY <1>11 DEF CommandLost, SmolTypeOK, Records, SmolPhases
    <2>2. StepFollowsPhase'
      BY <1>11 DEF CommandLost, SmolTypeOK, Records, SmolPhases, StepFollowsPhase, CreateInDoubt, UntouchedBeforeReady, FenceHolds
    <2>3. CreateInDoubt'
      BY <1>11 DEF CommandLost, SmolTypeOK, Records, SmolPhases, StepFollowsPhase, CreateInDoubt
    <2>4. UntouchedBeforeReady' /\ FenceHolds'
      BY <1>11 DEF CommandLost, SmolTypeOK, Records, SmolPhases, StepFollowsPhase, UntouchedBeforeReady, FenceHolds
    <2> QED BY <2>1, <2>2, <2>3, <2>4
  <1>12. CASE Close
    <2>1. SmolTypeOK'
      BY <1>12 DEF Close, SmolTypeOK, Records, SmolPhases
    <2>2. StepFollowsPhase'
      BY <1>12 DEF Close, SmolTypeOK, Records, SmolPhases, StepFollowsPhase, CreateInDoubt, UntouchedBeforeReady, FenceHolds
    <2>3. CreateInDoubt'
      BY <1>12 DEF Close, SmolTypeOK, Records, SmolPhases, StepFollowsPhase, CreateInDoubt
    <2>4. UntouchedBeforeReady' /\ FenceHolds'
      BY <1>12 DEF Close, SmolTypeOK, Records, SmolPhases, StepFollowsPhase, UntouchedBeforeReady, FenceHolds
    <2> QED BY <2>1, <2>2, <2>3, <2>4
  <1>13. CASE ReconcileMachine
    <2>1. SmolTypeOK'
      BY <1>13 DEF ReconcileMachine, SmolTypeOK, Records, SmolPhases
    <2>2. StepFollowsPhase'
      BY <1>13 DEF ReconcileMachine, SmolTypeOK, Records, SmolPhases, StepFollowsPhase, CreateInDoubt, UntouchedBeforeReady, FenceHolds
    <2>3. CreateInDoubt'
      BY <1>13 DEF ReconcileMachine, SmolTypeOK, Records, SmolPhases, StepFollowsPhase, CreateInDoubt
    <2>4. UntouchedBeforeReady' /\ FenceHolds'
      BY <1>13 DEF ReconcileMachine, SmolTypeOK, Records, SmolPhases, StepFollowsPhase, UntouchedBeforeReady, FenceHolds
    <2> QED BY <2>1, <2>2, <2>3, <2>4
  <1>14. CASE FenceDestroy
    <2>1. SmolTypeOK'
      BY <1>14 DEF FenceDestroy, InDoubt, Answers200, SmolTypeOK, Records, SmolPhases
    <2>2. StepFollowsPhase'
      BY <1>14 DEF FenceDestroy, InDoubt, Answers200, SmolTypeOK, Records, SmolPhases, StepFollowsPhase, CreateInDoubt, UntouchedBeforeReady, FenceHolds
    <2>3. CreateInDoubt'
      BY <1>14 DEF FenceDestroy, InDoubt, Answers200, SmolTypeOK, Records, SmolPhases, StepFollowsPhase, CreateInDoubt
    <2>4. UntouchedBeforeReady' /\ FenceHolds'
      BY <1>14 DEF FenceDestroy, InDoubt, Answers200, SmolTypeOK, Records, SmolPhases, StepFollowsPhase, UntouchedBeforeReady, FenceHolds
    <2> QED BY <2>1, <2>2, <2>3, <2>4
  <1>15. CASE DestroyRefused
    <2>1. SmolTypeOK'
      BY <1>15 DEF DestroyRefused, SmolTypeOK, Records, SmolPhases
    <2>2. StepFollowsPhase'
      BY <1>15 DEF DestroyRefused, SmolTypeOK, Records, SmolPhases, StepFollowsPhase, CreateInDoubt, UntouchedBeforeReady, FenceHolds
    <2>3. CreateInDoubt'
      BY <1>15 DEF DestroyRefused, SmolTypeOK, Records, SmolPhases, StepFollowsPhase, CreateInDoubt
    <2>4. UntouchedBeforeReady' /\ FenceHolds'
      BY <1>15 DEF DestroyRefused, SmolTypeOK, Records, SmolPhases, StepFollowsPhase, UntouchedBeforeReady, FenceHolds
    <2> QED BY <2>1, <2>2, <2>3, <2>4
  <1>16. CASE DestroyAgain
    <2>1. SmolTypeOK'
      BY <1>16 DEF DestroyAgain, SmolTypeOK, Records, SmolPhases
    <2>2. StepFollowsPhase'
      BY <1>16 DEF DestroyAgain, SmolTypeOK, Records, SmolPhases, StepFollowsPhase, CreateInDoubt, UntouchedBeforeReady, FenceHolds
    <2>3. CreateInDoubt'
      BY <1>16 DEF DestroyAgain, SmolTypeOK, Records, SmolPhases, StepFollowsPhase, CreateInDoubt
    <2>4. UntouchedBeforeReady' /\ FenceHolds'
      BY <1>16 DEF DestroyAgain, SmolTypeOK, Records, SmolPhases, StepFollowsPhase, UntouchedBeforeReady, FenceHolds
    <2> QED BY <2>1, <2>2, <2>3, <2>4
  <1>17. CASE SendDelete
    <2>1. SmolTypeOK'
      BY <1>17 DEF SendDelete, SmolTypeOK, Records, SmolPhases
    <2>2. StepFollowsPhase'
      BY <1>17 DEF SendDelete, SmolTypeOK, Records, SmolPhases, StepFollowsPhase, CreateInDoubt, UntouchedBeforeReady, FenceHolds
    <2>3. CreateInDoubt'
      BY <1>17 DEF SendDelete, SmolTypeOK, Records, SmolPhases, StepFollowsPhase, CreateInDoubt
    <2>4. UntouchedBeforeReady' /\ FenceHolds'
      BY <1>17 DEF SendDelete, SmolTypeOK, Records, SmolPhases, StepFollowsPhase, UntouchedBeforeReady, FenceHolds
    <2> QED BY <2>1, <2>2, <2>3, <2>4
  <1>18. CASE ConfirmDelete
    <2>1. SmolTypeOK'
      BY <1>18 DEF ConfirmDelete, Answers200, SmolTypeOK, Records, SmolPhases
    <2>2. StepFollowsPhase'
      BY <1>18 DEF ConfirmDelete, Answers200, SmolTypeOK, Records, SmolPhases, StepFollowsPhase, CreateInDoubt, UntouchedBeforeReady, FenceHolds
    <2>3. CreateInDoubt'
      BY <1>18 DEF ConfirmDelete, Answers200, SmolTypeOK, Records, SmolPhases, StepFollowsPhase, CreateInDoubt
    <2>4. UntouchedBeforeReady' /\ FenceHolds'
      BY <1>18 DEF ConfirmDelete, Answers200, SmolTypeOK, Records, SmolPhases, StepFollowsPhase, UntouchedBeforeReady, FenceHolds
    <2> QED BY <2>1, <2>2, <2>3, <2>4
  <1>19. CASE DestroyReturns
    <2>1. SmolTypeOK'
      BY <1>19 DEF DestroyReturns, SmolTypeOK, Records, SmolPhases
    <2>2. StepFollowsPhase'
      BY <1>19 DEF DestroyReturns, SmolTypeOK, Records, SmolPhases, StepFollowsPhase, CreateInDoubt, UntouchedBeforeReady, FenceHolds
    <2>3. CreateInDoubt'
      BY <1>19 DEF DestroyReturns, SmolTypeOK, Records, SmolPhases, StepFollowsPhase, CreateInDoubt
    <2>4. UntouchedBeforeReady' /\ FenceHolds'
      BY <1>19 DEF DestroyReturns, SmolTypeOK, Records, SmolPhases, StepFollowsPhase, UntouchedBeforeReady, FenceHolds
    <2> QED BY <2>1, <2>2, <2>3, <2>4
  <1>20. CASE WorkerDies
    <2>1. SmolTypeOK'
      BY <1>20 DEF WorkerDies, SmolTypeOK, Records, SmolPhases
    <2>2. StepFollowsPhase'
      BY <1>20 DEF WorkerDies, SmolTypeOK, Records, SmolPhases, StepFollowsPhase, CreateInDoubt, UntouchedBeforeReady, FenceHolds
    <2>3. CreateInDoubt'
      BY <1>20 DEF WorkerDies, SmolTypeOK, Records, SmolPhases, StepFollowsPhase, CreateInDoubt
    <2>4. UntouchedBeforeReady' /\ FenceHolds'
      BY <1>20 DEF WorkerDies, SmolTypeOK, Records, SmolPhases, StepFollowsPhase, UntouchedBeforeReady, FenceHolds
    <2> QED BY <2>1, <2>2, <2>3, <2>4
  <1>21. CASE CancelLoads
    <2>1. SmolTypeOK'
      BY <1>21 DEF CancelLoads, InDoubt, Answers200, SmolTypeOK, Records, SmolPhases
    <2>2. StepFollowsPhase'
      BY <1>21 DEF CancelLoads, InDoubt, Answers200, SmolTypeOK, Records, SmolPhases, StepFollowsPhase, CreateInDoubt, UntouchedBeforeReady, FenceHolds
    <2>3. CreateInDoubt'
      BY <1>21 DEF CancelLoads, InDoubt, Answers200, SmolTypeOK, Records, SmolPhases, StepFollowsPhase, CreateInDoubt
    <2>4. UntouchedBeforeReady' /\ FenceHolds'
      BY <1>21 DEF CancelLoads, InDoubt, Answers200, SmolTypeOK, Records, SmolPhases, StepFollowsPhase, UntouchedBeforeReady, FenceHolds
    <2> QED BY <2>1, <2>2, <2>3, <2>4
  <1>22. CASE CancelFences
    <2>1. SmolTypeOK'
      BY <1>22 DEF CancelFences, SmolTypeOK, Records, SmolPhases
    <2>2. StepFollowsPhase'
      BY <1>22 DEF CancelFences, SmolTypeOK, Records, SmolPhases, StepFollowsPhase, CreateInDoubt, UntouchedBeforeReady, FenceHolds
    <2>3. CreateInDoubt'
      BY <1>22 DEF CancelFences, SmolTypeOK, Records, SmolPhases, StepFollowsPhase, CreateInDoubt
    <2>4. UntouchedBeforeReady' /\ FenceHolds'
      BY <1>22 DEF CancelFences, SmolTypeOK, Records, SmolPhases, StepFollowsPhase, UntouchedBeforeReady, FenceHolds
    <2> QED BY <2>1, <2>2, <2>3, <2>4
  <1>23. CASE CancelConfirms
    <2>1. SmolTypeOK'
      BY <1>23 DEF CancelConfirms, Answers200, NoCancel, Unborn, SmolTypeOK, Records, SmolPhases
    <2>2. StepFollowsPhase'
      BY <1>23 DEF CancelConfirms, Answers200, NoCancel, Unborn, SmolTypeOK, Records, SmolPhases, StepFollowsPhase, CreateInDoubt, UntouchedBeforeReady, FenceHolds
    <2>3. CreateInDoubt'
      BY <1>23 DEF CancelConfirms, Answers200, NoCancel, Unborn, SmolTypeOK, Records, SmolPhases, StepFollowsPhase, CreateInDoubt
    <2>4. UntouchedBeforeReady' /\ FenceHolds'
      BY <1>23 DEF CancelConfirms, Answers200, NoCancel, Unborn, SmolTypeOK, Records, SmolPhases, StepFollowsPhase, UntouchedBeforeReady, FenceHolds
    <2> QED BY <2>1, <2>2, <2>3, <2>4
  <1>24. CASE CancelDies
    <2>1. SmolTypeOK'
      BY <1>24 DEF CancelDies, NoCancel, Unborn, SmolTypeOK, Records, SmolPhases
    <2>2. StepFollowsPhase'
      BY <1>24 DEF CancelDies, NoCancel, Unborn, SmolTypeOK, Records, SmolPhases, StepFollowsPhase, CreateInDoubt, UntouchedBeforeReady, FenceHolds
    <2>3. CreateInDoubt'
      BY <1>24 DEF CancelDies, NoCancel, Unborn, SmolTypeOK, Records, SmolPhases, StepFollowsPhase, CreateInDoubt
    <2>4. UntouchedBeforeReady' /\ FenceHolds'
      BY <1>24 DEF CancelDies, NoCancel, Unborn, SmolTypeOK, Records, SmolPhases, StepFollowsPhase, UntouchedBeforeReady, FenceHolds
    <2> QED BY <2>1, <2>2, <2>3, <2>4
  <1>25. CASE DaemonCreates
    <2>1. SmolTypeOK'
      BY <1>25 DEF DaemonCreates, SmolTypeOK, Records, SmolPhases
    <2>2. StepFollowsPhase'
      BY <1>25 DEF DaemonCreates, SmolTypeOK, Records, SmolPhases, StepFollowsPhase, CreateInDoubt, UntouchedBeforeReady, FenceHolds
    <2>3. CreateInDoubt'
      BY <1>25 DEF DaemonCreates, SmolTypeOK, Records, SmolPhases, StepFollowsPhase, CreateInDoubt
    <2>4. UntouchedBeforeReady' /\ FenceHolds'
      BY <1>25 DEF DaemonCreates, SmolTypeOK, Records, SmolPhases, StepFollowsPhase, UntouchedBeforeReady, FenceHolds
    <2> QED BY <2>1, <2>2, <2>3, <2>4
  <1>26. CASE DaemonRuns
    <2>1. SmolTypeOK'
      BY <1>26 DEF DaemonRuns, SmolTypeOK, Records, SmolPhases
    <2>2. StepFollowsPhase'
      BY <1>26 DEF DaemonRuns, SmolTypeOK, Records, SmolPhases, StepFollowsPhase, CreateInDoubt, UntouchedBeforeReady, FenceHolds
    <2>3. CreateInDoubt'
      BY <1>26 DEF DaemonRuns, SmolTypeOK, Records, SmolPhases, StepFollowsPhase, CreateInDoubt
    <2>4. UntouchedBeforeReady' /\ FenceHolds'
      BY <1>26 DEF DaemonRuns, SmolTypeOK, Records, SmolPhases, StepFollowsPhase, UntouchedBeforeReady, FenceHolds
    <2> QED BY <2>1, <2>2, <2>3, <2>4
  <1>27. CASE DaemonDeletes
    <2>1. SmolTypeOK'
      BY <1>27 DEF DaemonDeletes, SmolTypeOK, Records, SmolPhases
    <2>2. StepFollowsPhase'
      BY <1>27 DEF DaemonDeletes, SmolTypeOK, Records, SmolPhases, StepFollowsPhase, CreateInDoubt, UntouchedBeforeReady, FenceHolds
    <2>3. CreateInDoubt'
      BY <1>27 DEF DaemonDeletes, SmolTypeOK, Records, SmolPhases, StepFollowsPhase, CreateInDoubt
    <2>4. UntouchedBeforeReady' /\ FenceHolds'
      BY <1>27 DEF DaemonDeletes, SmolTypeOK, Records, SmolPhases, StepFollowsPhase, UntouchedBeforeReady, FenceHolds
    <2> QED BY <2>1, <2>2, <2>3, <2>4
  <1>28. CASE MachineStops
    <2>1. SmolTypeOK'
      BY <1>28 DEF MachineStops, SmolTypeOK, Records, SmolPhases
    <2>2. StepFollowsPhase'
      BY <1>28 DEF MachineStops, SmolTypeOK, Records, SmolPhases, StepFollowsPhase, CreateInDoubt, UntouchedBeforeReady, FenceHolds
    <2>3. CreateInDoubt'
      BY <1>28 DEF MachineStops, SmolTypeOK, Records, SmolPhases, StepFollowsPhase, CreateInDoubt
    <2>4. UntouchedBeforeReady' /\ FenceHolds'
      BY <1>28 DEF MachineStops, SmolTypeOK, Records, SmolPhases, StepFollowsPhase, UntouchedBeforeReady, FenceHolds
    <2> QED BY <2>1, <2>2, <2>3, <2>4
  <1>29. CASE MachineRestarts
    <2>1. SmolTypeOK'
      BY <1>29 DEF MachineRestarts, SmolTypeOK, Records, SmolPhases
    <2>2. StepFollowsPhase'
      BY <1>29 DEF MachineRestarts, SmolTypeOK, Records, SmolPhases, StepFollowsPhase, CreateInDoubt, UntouchedBeforeReady, FenceHolds
    <2>3. CreateInDoubt'
      BY <1>29 DEF MachineRestarts, SmolTypeOK, Records, SmolPhases, StepFollowsPhase, CreateInDoubt
    <2>4. UntouchedBeforeReady' /\ FenceHolds'
      BY <1>29 DEF MachineRestarts, SmolTypeOK, Records, SmolPhases, StepFollowsPhase, UntouchedBeforeReady, FenceHolds
    <2> QED BY <2>1, <2>2, <2>3, <2>4
  <1>30. CASE UNCHANGED smolvars
    BY <1>30 DEF smolvars, SmolTypeOK, StepFollowsPhase, CreateInDoubt, UntouchedBeforeReady, FenceHolds
  <1> QED
    BY <1>1, <1>2, <1>3, <1>4, <1>5, <1>6, <1>7, <1>8, <1>9, <1>10, <1>11, <1>12, <1>13, <1>14, <1>15, <1>16, <1>17, <1>18, <1>19, <1>20, <1>21, <1>22, <1>23, <1>24, <1>25, <1>26, <1>27, <1>28, <1>29, <1>30 DEF SmolNext

\* Wherever the worker dies and whatever the daemon still carries out, a machine recorded as deleted is
\* gone and stays so, and no command runs in an incarnation whose worker lost one.
THEOREM SmolvmAccounted == SmolSpec => []MachinesAccountedFor
  <1>1. SmolInv => MachinesAccountedFor
    BY DEF SmolInv, SmolTypeOK, Records, CreateInDoubt, FenceHolds, MachinesAccountedFor, DeletedIsGone, LostWorkNotContinued
  <1> QED
    BY <1>1, SmolStart, SmolStep, PTL DEF SmolSpec

------------------------------------------------------------------------------
\* The sweep of leftovers.

\* The rows of the Cells.
CellRow  == [epoch : 0 .. MaxRearms, live : BOOLEAN, bound : BOOLEAN]
CellRows == [SweptCells -> CellRow]

\* The types of the Cells, the providers and the journal.
SweepTypeOK ==
    /\ crow \in CellRows
    /\ pool \in [Resources -> {"none", "up", "gone"}]
    /\ debtrow \in [Resources -> {"none", "open", "noted", "committed"}]
    /\ overlapped \in BOOLEAN
    /\ DOMAIN pass = Passes

PassFields == {"stage", "rows", "listed", "unborn", "todo", "asked", "reply"}

\* The rows a pass has read are of the past: a Cell that has been live all the time is live in them.
RowsPast(old, cr) ==
    /\ old \in CellRows
    /\ \A c \in SweptCells : /\ old[c].epoch <= cr[c].epoch
                             /\ cr[c].live /\ old[c].epoch = cr[c].epoch => old[c].live

\* One pass: what it removes it listed, by the provider at hand, and it was no container of a live row;
\* what its listing does not show is gone or was not there yet; and the journal knows of a resource that
\* was not there yet only through another pass.
PassOK(x, cr, pl, dr, ov) ==
    /\ DOMAIN x = PassFields
    /\ x.listed \subseteq Resources /\ x.unborn \subseteq Resources
    /\ x.stage # "off" => RowsPast(x.rows, cr)
    /\ x.stage \notin {"islo", "docker"} => x.todo = {} /\ x.asked = {} /\ x.unborn = {}
    /\ \A r \in x.todo : r \in x.listed /\ r.by = x.stage /\ pl[r] # "none"
    /\ x.stage = "docker" => \A r \in x.todo : ~x.rows[r.cell].live
    /\ \A r \in x.asked : r \in x.listed /\ dr[r] # "none" /\ (x.reply = "kept" => pl[r] = "gone")
    /\ \A r \in x.listed : r \notin x.unborn
    /\ \A r \in Resources : r.by = x.stage /\ r \notin x.listed => r \in x.unborn \/ pl[r] = "gone"
    /\ \A r \in x.unborn : dr[r] # "none" => ov

\* Two passes at work have overlapped.
OverlapSeen == \A p, q \in Passes : p # q /\ pass[p].stage # "off" /\ pass[q].stage # "off" => overlapped

\* A removal on record is of a resource that was there.
DebtOfSomething == \A r \in Resources : debtrow[r] # "none" => pool[r] # "none"

\* The inductive invariant of the sweeps.
SweepInv ==
    /\ SweepTypeOK /\ OverlapSeen /\ DebtOfSomething /\ SweepKeepsFaith
    /\ \A p \in Passes : PassOK(pass[p], crow, pool, debtrow, overlapped)

\* A flag of a Cell row may be set.
LEMMA RowFlags ==
  \A x \in CellRow : /\ [x EXCEPT !.bound = TRUE] \in CellRow /\ [x EXCEPT !.live = FALSE] \in CellRow
                     /\ [x EXCEPT !.bound = TRUE].epoch = x.epoch /\ [x EXCEPT !.bound = TRUE].live = x.live
                     /\ [x EXCEPT !.live = FALSE].epoch = x.epoch /\ ~[x EXCEPT !.live = FALSE].live
  BY DEF CellRow

\* A Cell goes on to another epoch, or does not come to life.
LEMMA CellsGoOn ==
  ASSUME crow \in CellRows, NEW c \in SweptCells, Rearm(c) \/ BindCell(c) \/ EndCell(c)
  PROVE  /\ crow' \in CellRows
         /\ \A d \in SweptCells : \/ crow'[d].epoch = crow[d].epoch /\ (crow'[d].live => crow[d].live)
                                \/ crow'[d].epoch > crow[d].epoch
  <1>1. crow[c] \in CellRow
    BY DEF CellRows
  <1>2. CASE Rearm(c)
    BY <1>1, <1>2, SweepAssumption DEF Rearm, CellRows, CellRow
  <1>3. CASE BindCell(c)
    <2>1. crow' = [crow EXCEPT ![c] = [crow[c] EXCEPT !.bound = TRUE]]
      BY <1>3 DEF BindCell
    <2> QED BY <1>1, <2>1, RowFlags DEF CellRows
  <1>4. CASE EndCell(c)
    <2>1. crow' = [crow EXCEPT ![c] = [crow[c] EXCEPT !.live = FALSE]]
      BY <1>4 DEF EndCell
    <2> QED BY <1>1, <2>1, RowFlags DEF CellRows
  <1> QED BY <1>2, <1>3, <1>4

\* Rows of the past stay of the past.
LEMMA PastStaysPast ==
  ASSUME crow \in CellRows, NEW c \in SweptCells, Rearm(c) \/ BindCell(c) \/ EndCell(c), NEW old, RowsPast(old, crow)
  PROVE  RowsPast(old, crow')
  <1>1. /\ crow' \in CellRows
        /\ \A d \in SweptCells : \/ crow'[d].epoch = crow[d].epoch /\ (crow'[d].live => crow[d].live)
                               \/ crow'[d].epoch > crow[d].epoch
    BY CellsGoOn
  <1>2. ASSUME NEW d \in SweptCells
        PROVE  /\ old[d].epoch <= crow'[d].epoch
               /\ crow'[d].live /\ old[d].epoch = crow'[d].epoch => old[d].live
    <2>1. old[d].epoch \in Nat /\ crow[d].epoch \in Nat /\ crow'[d].epoch \in Nat
      BY <1>1 DEF RowsPast, CellRows, CellRow
    <2>2. /\ old[d].epoch <= crow[d].epoch
          /\ crow[d].live /\ old[d].epoch = crow[d].epoch => old[d].live
      BY DEF RowsPast
    <2> QED BY <1>1, <2>1, <2>2
  <1> QED BY <1>2 DEF RowsPast

\* What a pass at rest sees of others' steps: resources come and go, the journal learns.
LEMMA PassKeeps ==
  ASSUME NEW x, PassOK(x, crow, pool, debtrow, overlapped), crow' = crow, overlapped \in BOOLEAN, overlapped => overlapped',
         \A r \in Resources : pool[r] = "gone" => pool'[r] = "gone",
         \A r \in Resources : pool[r] # "none" => pool'[r] # "none",
         \A r \in Resources : debtrow[r] # "none" => debtrow'[r] # "none",
         \A r \in x.unborn : debtrow'[r] # "none" => debtrow[r] # "none" \/ overlapped'
  PROVE  PassOK(x, crow', pool', debtrow', overlapped')
  BY DEF PassOK

\* A pass that ends, or has not begun, promises nothing.
LEMMA RestingOK == \A cr, pl, dr, ov : PassOK(Resting, cr, pl, dr, ov)
  <1>1. /\ DOMAIN Resting = PassFields /\ Resting.stage = "off" /\ Resting.listed = {} /\ Resting.unborn = {}
        /\ Resting.todo = {} /\ Resting.asked = {}
    BY DEF Resting, PassFields
  <1>2. \A r \in Resources : r.by # "off"
    BY SweepAssumption
  <1> QED BY <1>1, <1>2 DEF PassOK

\* The sweep starts at rest, with no debt.
LEMMA SweepStart == SweepInit => SweepInv
  <1> SUFFICES ASSUME SweepInit PROVE SweepInv
    OBVIOUS
  <1>0. [epoch |-> 0, live |-> FALSE, bound |-> FALSE] \in CellRow
    BY SweepAssumption DEF CellRow
  <1>5. crow \in CellRows
    BY <1>0 DEF SweepInit, CellRows
  <1>1. SweepTypeOK /\ DebtOfSomething
    BY <1>5 DEF SweepInit, SweepTypeOK, DebtOfSomething
  <1>2. \A p \in Passes : pass[p] = Resting /\ pass[p].stage = "off"
    BY DEF SweepInit, Resting
  <1>3. SweepKeepsFaith
    BY DEF SweepInit, SweepKeepsFaith, CommittedRemovalIsGone, LiveRowKeepsContainer
  <1> QED BY <1>1, <1>2, <1>3, RestingOK DEF SweepInv, OverlapSeen

\* An epoch that begins, a binding or the end of a Cell keeps what the passes rely on.
LEMMA CellsInv ==
  ASSUME SweepInv, NEW c \in SweptCells, Rearm(c) \/ BindCell(c) \/ EndCell(c)
  PROVE  SweepInv'
  <1>1. UNCHANGED <<pool, debtrow, pass, killed, misread, overlapped>>
    BY DEF Rearm, BindCell, EndCell
  <1>2. crow \in CellRows /\ crow' \in CellRows
    BY CellsGoOn DEF SweepInv, SweepTypeOK
  <1>3. ASSUME NEW p \in Passes PROVE PassOK(pass'[p], crow', pool', debtrow', overlapped')
    <2> DEFINE x == pass[p]
    <2>1. PassOK(x, crow, pool, debtrow, overlapped)
      BY DEF SweepInv
    <2>2. x.stage # "off" => RowsPast(x.rows, crow')
      BY <1>2, <2>1, PastStaysPast DEF PassOK
    <2>3. PassOK(x, crow', pool, debtrow, overlapped)
      BY <2>1, <2>2 DEF PassOK
    <2> QED BY <1>1, <2>3
  <1>4. SweepTypeOK' /\ OverlapSeen' /\ DebtOfSomething' /\ SweepKeepsFaith'
    BY <1>1, <1>2 DEF SweepInv, SweepTypeOK, OverlapSeen, DebtOfSomething, SweepKeepsFaith,
       CommittedRemovalIsGone, LiveRowKeepsContainer
  <1> QED BY <1>3, <1>4 DEF SweepInv

\* A sandbox that comes up was not there when a listing that does not show it was taken.
LEMMA ProvideInv ==
  ASSUME SweepInv, NEW r \in Resources, Provide(r)
  PROVE  SweepInv'
  <1>1. /\ UNCHANGED <<crow, debtrow, pass, killed, misread, overlapped>> /\ pool[r] = "none"
        /\ pool' = [pool EXCEPT ![r] = "up"]
    BY DEF Provide
  <1>2. SweepTypeOK' /\ DebtOfSomething' /\ OverlapSeen'
    BY <1>1 DEF SweepInv, SweepTypeOK, OverlapSeen, DebtOfSomething
  <1>3. SweepKeepsFaith'
    BY <1>1 DEF SweepInv, SweepTypeOK, SweepKeepsFaith, CommittedRemovalIsGone, LiveRowKeepsContainer
  <1>4. ASSUME NEW p \in Passes PROVE PassOK(pass'[p], crow', pool', debtrow', overlapped')
    <2>1. PassOK(pass[p], crow, pool, debtrow, overlapped)
      BY DEF SweepInv
    <2>2. /\ \A q \in Resources : pool[q] = "gone" => pool'[q] = "gone"
          /\ \A q \in Resources : pool[q] # "none" => pool'[q] # "none"
      BY <1>1 DEF SweepInv, SweepTypeOK
    <2>3. pass[p].unborn \subseteq Resources
      BY <2>1 DEF PassOK
    <2> QED BY <1>1, <2>1, <2>2, <2>3, PassKeeps DEF SweepInv, SweepTypeOK
  <1> QED BY <1>2, <1>3, <1>4 DEF SweepInv

\* A step of pass p that leaves the Cells alone: what is left to show of it.
LEMMA PassSteps ==
  ASSUME SweepInv, NEW p \in Passes, NEW x, pass' = [pass EXCEPT ![p] = x],
         UNCHANGED <<crow, overlapped>>, pass[p].stage # "off",
         pool' \in [Resources -> {"none", "up", "gone"}], debtrow' \in [Resources -> {"none", "open", "noted", "committed"}],
         \A r \in Resources : pool[r] = "gone" => pool'[r] = "gone",
         \A r \in Resources : pool[r] # "none" => pool'[r] # "none",
         \A r \in Resources : debtrow[r] # "none" => debtrow'[r] # "none",
         \A r \in Resources : debtrow'[r] # "none" => debtrow[r] # "none" \/ r \in pass[p].listed,
         \A r \in Resources : debtrow'[r] # "none" => pool'[r] # "none",
         \A q \in Passes : q # p => \A r \in pass[q].unborn : debtrow'[r] # "none" => debtrow[r] # "none" \/ overlapped,
         PassOK(x, crow, pool', debtrow', overlapped),
         SweepKeepsFaith'
  PROVE  SweepInv'
  <1>1. SweepTypeOK' /\ DebtOfSomething'
    BY DEF SweepInv, SweepTypeOK, DebtOfSomething
  <1>2. pass'[p] = x /\ \A q \in Passes : q # p => pass'[q] = pass[q]
    BY DEF SweepInv, SweepTypeOK
  <1>3. OverlapSeen'
    BY <1>2 DEF SweepInv, OverlapSeen
  <1>4. ASSUME NEW q \in Passes, q # p PROVE PassOK(pass'[q], crow', pool', debtrow', overlapped')
    <2>1. PassOK(pass[q], crow, pool, debtrow, overlapped) /\ overlapped \in BOOLEAN
      BY DEF SweepInv, SweepTypeOK
    <2>2. PassOK(pass[q], crow', pool', debtrow', overlapped')
      BY <1>4, <2>1, PassKeeps
    <2> QED BY <1>2, <1>4, <2>2
  <1>5. PassOK(pass'[p], crow', pool', debtrow', overlapped')
    BY <1>2
  <1> QED BY <1>1, <1>3, <1>4, <1>5 DEF SweepInv

\* A pass starts from the rows as they are.
LEMMA StartInv ==
  ASSUME SweepInv, NEW p \in Passes, StartSweep(p)
  PROVE  SweepInv'
  <1> DEFINE x == [Resting EXCEPT !.stage = "rows", !.rows = crow]
  <1>1. /\ UNCHANGED <<crow, pool, debtrow, killed, misread>> /\ pass' = [pass EXCEPT ![p] = x]
        /\ overlapped' = (overlapped \/ \E q \in Passes : pass[q].stage # "off")
    BY DEF StartSweep
  <1>2. /\ DOMAIN x = PassFields /\ x.stage = "rows" /\ x.rows = crow /\ x.listed = {} /\ x.unborn = {}
        /\ x.todo = {} /\ x.asked = {}
    BY DEF Resting, PassFields
  <1> HIDE DEF x
  <1>3. overlapped \in BOOLEAN /\ overlapped' \in BOOLEAN /\ (overlapped => overlapped')
    BY <1>1 DEF SweepInv, SweepTypeOK
  <1>4. RowsPast(crow, crow)
    BY DEF SweepInv, SweepTypeOK, RowsPast, CellRows, CellRow
  <1>5. PassOK(x, crow', pool', debtrow', overlapped')
    <2>1. \A r \in Resources : r.by # "rows"
      BY SweepAssumption
    <2> QED BY <1>1, <1>2, <1>4, <2>1 DEF PassOK
  <1>6. pass'[p] = x /\ DOMAIN pass' = Passes /\ \A q \in Passes : q # p => pass'[q] = pass[q]
    BY <1>1 DEF SweepInv, SweepTypeOK
  <1>7. SweepTypeOK' /\ DebtOfSomething'
    BY <1>1, <1>3, <1>6 DEF SweepInv, SweepTypeOK, DebtOfSomething
  <1>8. OverlapSeen'
    <2>1. \A q \in Passes : q # p /\ pass'[q].stage # "off" => overlapped'
      BY <1>1, <1>6
    <2> QED BY <1>6, <2>1 DEF OverlapSeen
  <1>9. SweepKeepsFaith'
    BY <1>1, <1>3 DEF SweepInv, SweepKeepsFaith, CommittedRemovalIsGone, LiveRowKeepsContainer
  <1>10. ASSUME NEW q \in Passes, q # p PROVE PassOK(pass'[q], crow', pool', debtrow', overlapped')
    <2>1. PassOK(pass[q], crow, pool, debtrow, overlapped)
      BY DEF SweepInv
    <2>2. PassOK(pass[q], crow', pool', debtrow', overlapped')
      BY <1>1, <1>3, <2>1, PassKeeps
    <2> QED BY <1>6, <1>10, <2>2
  <1> QED BY <1>1, <1>5, <1>6, <1>7, <1>8, <1>9, <1>10 DEF SweepInv

\* Fields of a pass.
LEMMA PassFieldsOK == ASSUME SweepInv, NEW p \in Passes
  PROVE /\ PassOK(pass[p], crow, pool, debtrow, overlapped) /\ DOMAIN pass[p] = PassFields
        /\ pass[p].listed \subseteq Resources /\ pass[p].unborn \subseteq Resources
        /\ crow \in CellRows /\ pool \in [Resources -> {"none", "up", "gone"}]
        /\ debtrow \in [Resources -> {"none", "open", "noted", "committed"}]
        /\ \A r \in Resources : debtrow[r] # "none" => pool[r] # "none"
  BY DEF SweepInv, PassOK, SweepTypeOK, DebtOfSomething

\* A pass that stops, with or without settling.
LEMMA StopInv ==
  ASSUME SweepInv, NEW p \in Passes, pass' = [pass EXCEPT ![p] = Resting], pass[p].stage # "off",
         UNCHANGED <<crow, pool, killed, overlapped>>,
         debtrow' \in [Resources -> {"none", "open", "noted", "committed"}],
         \A r \in Resources : debtrow[r] = "none" <=> debtrow'[r] = "none",
         SweepKeepsFaith'
  PROVE  SweepInv'
  <1>1. PassOK(Resting, crow, pool', debtrow', overlapped)
    BY RestingOK
  <1> QED BY <1>1, PassFieldsOK, PassSteps

\* Settling keeps the journal true.
LEMMA SettleTrue ==
  ASSUME SweepInv, NEW p \in Passes, SettleAbsent(p, pass[p].stage), UNCHANGED <<pool, killed, overlapped>>
  PROVE  /\ SweepKeepsFaith' /\ \A r \in Resources : debtrow[r] = "none" <=> debtrow'[r] = "none"
         /\ debtrow' \in [Resources -> {"none", "open", "noted", "committed"}]
  <1>0. /\ PassOK(pass[p], crow, pool, debtrow, overlapped)
        /\ debtrow \in [Resources -> {"none", "open", "noted", "committed"}]
    BY PassFieldsOK
  <1>1. debtrow' = [r \in Resources |-> IF r \in Settled(p, pass[p].stage) THEN "committed" ELSE debtrow[r]]
    BY DEF SettleAbsent
  <1>2. misread' = misread \cup (Settled(p, pass[p].stage) \cap pass[p].unborn)
    BY DEF SettleAbsent
  <1>3. \A r \in Settled(p, pass[p].stage) : r \in Resources /\ r.by = pass[p].stage /\ debtrow[r] = "noted" /\ r \notin pass[p].listed
    BY DEF Settled
  <1>4. \A r \in Settled(p, pass[p].stage) : pool[r] = "gone" \/ (overlapped /\ r \in misread')
    BY <1>0, <1>2, <1>3 DEF PassOK
  <1>5. CommittedRemovalIsGone'
    BY <1>1, <1>2, <1>4 DEF SweepInv, SweepKeepsFaith, CommittedRemovalIsGone
  <1>6. LiveRowKeepsContainer'
    BY DEF SweepInv, SweepKeepsFaith, LiveRowKeepsContainer
  <1>7. debtrow' \in [Resources -> {"none", "open", "noted", "committed"}]
    BY <1>0, <1>1
  <1>8. \A r \in Resources : debtrow[r] = "none" <=> debtrow'[r] = "none"
    BY <1>1, <1>3
  <1> QED BY <1>5, <1>6, <1>7, <1>8 DEF SweepKeepsFaith

\* A pass that ends or dies leaves nothing in hand.
LEMMA EndInv ==
  ASSUME SweepInv, NEW p \in Passes, SkipContainers(p) \/ EndSweep(p) \/ LosePass(p)
  PROVE  SweepInv'
  <1>1. CASE SkipContainers(p) \/ EndSweep(p)
    <2>1. /\ SettleAbsent(p, pass[p].stage) /\ UNCHANGED <<crow, pool, killed, overlapped>> /\ pass[p].stage # "off"
          /\ pass' = [pass EXCEPT ![p] = Resting]
      BY <1>1 DEF SkipContainers, EndSweep, RemovedAll
    <2> QED BY <2>1, SettleTrue, StopInv
  <1>2. CASE LosePass(p)
    <2>1. UNCHANGED <<crow, pool, debtrow, killed, misread, overlapped>> /\ pass[p].stage # "off"
          /\ pass' = [pass EXCEPT ![p] = Resting]
      BY <1>2 DEF LosePass
    <2>2. SweepKeepsFaith'
      BY <2>1 DEF SweepInv, SweepKeepsFaith, CommittedRemovalIsGone, LiveRowKeepsContainer
    <2> QED BY <2>1, <2>2, PassFieldsOK, StopInv
  <1> QED BY <1>1, <1>2

\* A new listing: what is up is listed, what is not is gone or still to come.
LEMMA ListedOK ==
  ASSUME SweepInv, NEW p \in Passes, pass[p].stage \in {"rows", "islo"}, pass[p].asked = {}, NEW by \in {"islo", "docker"},
         NEW todo \in SUBSET Up(by), NEW dr,
         \A r \in Resources : debtrow[r] = "none" <=> dr[r] = "none",
         by = "docker" => \A r \in todo : ~pass[p].rows[r.cell].live
  PROVE  PassOK([pass[p] EXCEPT !.stage = by, !.listed = Up(by), !.unborn = NotYetUp, !.todo = todo], crow, pool, dr, overlapped)
  <1> DEFINE x == [pass[p] EXCEPT !.stage = by, !.listed = Up(by), !.unborn = NotYetUp, !.todo = todo]
  <1>1. PassOK(pass[p], crow, pool, debtrow, overlapped) /\ DOMAIN pass[p] = PassFields
    BY PassFieldsOK
  <1>2. /\ DOMAIN x = PassFields /\ x.stage = by /\ x.listed = Up(by) /\ x.unborn = NotYetUp /\ x.todo = todo
        /\ x.asked = pass[p].asked /\ x.rows = pass[p].rows
    BY <1>1 DEF PassFields
  <1> HIDE DEF x
  <1>3. RowsPast(x.rows, crow)
    BY <1>1, <1>2 DEF PassOK
  <1>4. \A r \in Up(by) : r \in Resources /\ r.by = by /\ pool[r] = "up"
    BY DEF Up
  <1>5. \A r \in NotYetUp : r \in Resources /\ pool[r] = "none" /\ debtrow[r] = "none"
    BY PassFieldsOK DEF NotYetUp
  <1>6. \A r \in Resources : r.by = by /\ r \notin Up(by) => r \in NotYetUp \/ pool[r] = "gone"
    BY PassFieldsOK DEF Up, NotYetUp
  <1>7. PassOK(x, crow, pool, dr, overlapped)
    BY <1>2, <1>3, <1>4, <1>5, <1>6 DEF PassOK
  <1> QED BY <1>7 DEF x

\* A listing takes up what is up, and only what the rows of the pass give up.
LEMMA ListInv ==
  ASSUME SweepInv, NEW p \in Passes, ListMicroVMs(p) \/ ListContainers(p)
  PROVE  SweepInv'
  <1>0. PassOK(pass[p], crow, pool, debtrow, overlapped)
    BY PassFieldsOK
  <1>1. CASE ListMicroVMs(p)
    <2>1. UNCHANGED <<crow, pool, debtrow, killed, misread, overlapped>> /\ pass[p].stage = "rows"
      BY <1>1 DEF ListMicroVMs
    <2>2. PICK old \in SUBSET Up("islo") :
            pass' = [pass EXCEPT ![p] = [@ EXCEPT !.stage = "islo", !.listed = Up("islo"), !.unborn = NotYetUp,
                                           !.todo = {r \in old : OrphanMicroVM(pass[p].rows, r)}]]
      BY <1>1 DEF ListMicroVMs
    <2> DEFINE todo == {r \in old : OrphanMicroVM(pass[p].rows, r)}
               x == [pass[p] EXCEPT !.stage = "islo", !.listed = Up("islo"), !.unborn = NotYetUp, !.todo = todo]
    <2>3. pass' = [pass EXCEPT ![p] = x]
      BY <2>2
    <2>4. todo \in SUBSET Up("islo") /\ pass[p].asked = {}
      BY <1>0, <2>1 DEF PassOK
    <2>5. PassOK(x, crow, pool, debtrow, overlapped)
      <3> HIDE DEF todo
      <3> QED BY <2>1, <2>4, ListedOK
    <2>6. SweepKeepsFaith'
      BY <2>1 DEF SweepInv, SweepKeepsFaith, CommittedRemovalIsGone, LiveRowKeepsContainer
    <2> HIDE DEF x
    <2> QED BY <2>1, <2>3, <2>5, <2>6, PassFieldsOK, PassSteps
  <1>2. CASE ListContainers(p)
    <2> DEFINE todo == {r \in Up("docker") : OrphanContainer(pass[p].rows, r)}
               x == [pass[p] EXCEPT !.stage = "docker", !.listed = Up("docker"), !.unborn = NotYetUp, !.todo = todo]
    <2>1. /\ UNCHANGED <<crow, pool, killed, overlapped>> /\ pass[p].stage = "islo" /\ pass[p].asked = {}
          /\ SettleAbsent(p, pass[p].stage) /\ pass' = [pass EXCEPT ![p] = x]
      BY <1>2 DEF ListContainers, RemovedAll
    <2>2. todo \in SUBSET Up("docker") /\ \A r \in todo : ~pass[p].rows[r.cell].live
      BY DEF OrphanContainer, Authorized
    <2>3. /\ SweepKeepsFaith' /\ \A r \in Resources : debtrow[r] = "none" <=> debtrow'[r] = "none"
          /\ debtrow' \in [Resources -> {"none", "open", "noted", "committed"}]
      BY <2>1, SettleTrue
    <2>4. PassOK(x, crow, pool, debtrow', overlapped)
      <3> HIDE DEF todo
      <3> QED BY <2>1, <2>2, <2>3, ListedOK
    <2> HIDE DEF x
    <2> QED BY <2>1, <2>3, <2>4, PassFieldsOK, PassSteps
  <1> QED BY <1>1, <1>2

\* The removal in hand changes: nothing else of the pass does.
LEMMA HandedOn ==
  ASSUME SweepInv, NEW p \in Passes, pass[p].stage \in {"islo", "docker"}, NEW r \in Resources, r \in pass[p].listed,
         NEW asked \in SUBSET {r}, NEW reply, NEW pl \in [Resources -> {"none", "up", "gone"}], NEW dr,
         \A s \in Resources : pool[s] = "gone" => pl[s] = "gone",
         \A s \in Resources : pool[s] # "none" => pl[s] # "none",
         \A s \in Resources : s # r => dr[s] = debtrow[s],
         asked # {} => dr[r] # "none" /\ (reply = "kept" => pl[r] = "gone")
  PROVE  PassOK([pass[p] EXCEPT !.asked = asked, !.reply = reply, !.todo = pass[p].todo \ {r}], crow, pl, dr, overlapped)
  <1> DEFINE x == [pass[p] EXCEPT !.asked = asked, !.reply = reply, !.todo = pass[p].todo \ {r}]
  <1>1. PassOK(pass[p], crow, pool, debtrow, overlapped) /\ DOMAIN pass[p] = PassFields
    BY PassFieldsOK
  <1>2. /\ DOMAIN x = PassFields /\ x.stage = pass[p].stage /\ x.listed = pass[p].listed /\ x.unborn = pass[p].unborn
        /\ x.todo = pass[p].todo \ {r} /\ x.asked = asked /\ x.reply = reply /\ x.rows = pass[p].rows
    BY <1>1 DEF PassFields
  <1> HIDE DEF x
  <1>3. \A s \in pass[p].unborn : s \in Resources /\ s # r
    BY <1>1 DEF PassOK
  <1>4. \A s \in asked : s = r
    OBVIOUS
  <1>5. \A s \in x.asked : s \in x.listed /\ dr[s] # "none" /\ (x.reply = "kept" => pl[s] = "gone")
    BY <1>2, <1>4
  <1>6. PassOK(x, crow, pl, dr, overlapped)
    BY <1>1, <1>2, <1>3, <1>5 DEF PassOK
  <1> QED BY <1>6 DEF x

\* One removal of one pass, whatever it does to the journal and the provider.
LEMMA RemovalSteps ==
  ASSUME SweepInv, NEW p \in Passes, pass[p].stage \in {"islo", "docker"}, NEW r \in Resources, r \in pass[p].listed,
         NEW asked \in SUBSET {r}, NEW reply,
         pass' = [pass EXCEPT ![p] = [pass[p] EXCEPT !.asked = asked, !.reply = reply, !.todo = pass[p].todo \ {r}]],
         UNCHANGED <<crow, overlapped>>, pool[r] # "none",
         NEW pv \in {"none", "up", "gone"}, pool' = [pool EXCEPT ![r] = pv], pv = "gone" \/ pv = pool[r],
         NEW dv \in {"none", "open", "noted", "committed"}, debtrow' = [debtrow EXCEPT ![r] = dv], dv = "none" => debtrow[r] = "none",
         asked # {} => dv # "none" /\ (reply = "kept" => pv = "gone"),
         SweepKeepsFaith'
  PROVE  SweepInv'
  <1> DEFINE x == [pass[p] EXCEPT !.asked = asked, !.reply = reply, !.todo = pass[p].todo \ {r}]
  <1>1. /\ pool \in [Resources -> {"none", "up", "gone"}] /\ pool' \in [Resources -> {"none", "up", "gone"}]
        /\ debtrow' \in [Resources -> {"none", "open", "noted", "committed"}]
        /\ pool'[r] = pv /\ debtrow'[r] = dv
        /\ \A s \in Resources : s # r => pool'[s] = pool[s] /\ debtrow'[s] = debtrow[s]
    BY PassFieldsOK
  <1>2. /\ \A s \in Resources : pool[s] = "gone" => pool'[s] = "gone"
        /\ \A s \in Resources : pool[s] # "none" => pool'[s] # "none"
        /\ \A s \in Resources : debtrow[s] # "none" => debtrow'[s] # "none"
        /\ \A s \in Resources : debtrow'[s] # "none" => debtrow[s] # "none" \/ s \in pass[p].listed
    BY <1>1
  <1>3. \A s \in Resources : debtrow'[s] # "none" => pool'[s] # "none"
    BY <1>1, PassFieldsOK
  <1>4. PassOK(x, crow, pool', debtrow', overlapped)
    <2>1. /\ \A s \in Resources : s # r => debtrow'[s] = debtrow[s]
          /\ asked # {} => debtrow'[r] # "none" /\ (reply = "kept" => pool'[r] = "gone")
      BY <1>1
    <2> QED BY <1>1, <1>2, <2>1, HandedOn
  <1>5. ASSUME NEW q \in Passes, q # p, NEW s \in pass[q].unborn
        PROVE  overlapped
    <2>1. pass[q].stage # "off"
      BY PassFieldsOK DEF PassOK
    <2> QED BY <1>5, <2>1 DEF SweepInv, OverlapSeen
  <1>6. pass' = [pass EXCEPT ![p] = x]
    OBVIOUS
  <1> HIDE DEF x
  <1>7. \A q \in Passes : q # p => \A s \in pass[q].unborn : debtrow'[s] # "none" => debtrow[s] # "none" \/ overlapped
    BY <1>5
  <1>8. pass[p].stage # "off"
    OBVIOUS
  <1> QED BY <1>1, <1>2, <1>3, <1>4, <1>6, <1>7, <1>8, PassSteps

\* A removal asked for leaves the journal true, whether it lands or not.
LEMMA AskInv ==
  ASSUME SweepInv, NEW p \in Passes, NEW r \in Resources, AskRemoval(p, r)
  PROVE  SweepInv'
  <1>1. /\ UNCHANGED <<crow, misread, overlapped>> /\ pass[p].stage \in {"islo", "docker"} /\ r \in pass[p].todo
        /\ SweepKeepsFaith
    BY DEF AskRemoval, SweepInv
  <1>2. /\ PassOK(pass[p], crow, pool, debtrow, overlapped) /\ pool \in [Resources -> {"none", "up", "gone"}]
        /\ debtrow \in [Resources -> {"none", "open", "noted", "committed"}]
    BY PassFieldsOK
  <1>3. r \in pass[p].listed /\ r.by = pass[p].stage /\ pool[r] # "none"
    BY <1>1, <1>2 DEF PassOK
  <1>4. CASE debtrow[r] = "committed" /\ Handled(p, r) /\ UNCHANGED <<debtrow, pool, killed>>
    <2>1. /\ pool' = [pool EXCEPT ![r] = pool[r]] /\ debtrow' = [debtrow EXCEPT ![r] = debtrow[r]]
          /\ pool[r] \in {"none", "up", "gone"} /\ debtrow[r] \in {"none", "open", "noted", "committed"}
      BY <1>2, <1>4
    <2>2. SweepKeepsFaith'
      BY <1>1, <1>4 DEF SweepKeepsFaith, CommittedRemovalIsGone, LiveRowKeepsContainer
    <2>3. pass' = [pass EXCEPT ![p] = [pass[p] EXCEPT !.asked = {}, !.reply = "none", !.todo = pass[p].todo \ {r}]]
      BY <1>4 DEF Handled
    <2>4. {} \in SUBSET {r} /\ UNCHANGED <<crow, overlapped>>
      BY <1>1
    <2> QED BY <1>1, <1>3, <2>1, <2>2, <2>3, <2>4, RemovalSteps
  <1>5. CASE /\ debtrow[r] \in {"open", "noted"} /\ pool[r] = "gone"
             /\ debtrow' = [debtrow EXCEPT ![r] = "committed"]
             /\ Handled(p, r) /\ UNCHANGED <<pool, killed>>
    <2>1. /\ pool' = [pool EXCEPT ![r] = pool[r]] /\ pool[r] \in {"none", "up", "gone"}
      BY <1>2, <1>5
    <2>2. SweepKeepsFaith'
      BY <1>1, <1>2, <1>5 DEF SweepKeepsFaith, CommittedRemovalIsGone, LiveRowKeepsContainer
    <2>3. pass' = [pass EXCEPT ![p] = [pass[p] EXCEPT !.asked = {}, !.reply = "none", !.todo = pass[p].todo \ {r}]]
      BY <1>5 DEF Handled
    <2>4. {} \in SUBSET {r} /\ UNCHANGED <<crow, overlapped>>
      BY <1>1
    <2> QED BY <1>1, <1>3, <1>5, <2>1, <2>2, <2>3, <2>4, RemovalSteps
  <1>6. CASE /\ debtrow[r] = "none" \/ (debtrow[r] \in {"open", "noted"} /\ pool[r] = "up")
             /\ debtrow' = [debtrow EXCEPT ![r] = IF @ = "none" THEN "open" ELSE "noted"]
             /\ \E lands \in BOOLEAN, reply \in {"kept", "lost"} :
                   /\ reply = "kept" => lands
                   /\ pool' = IF lands THEN [pool EXCEPT ![r] = "gone"] ELSE pool
                   /\ killed' = IF lands /\ pool[r] = "up" /\ LiveAt(r)
                                   THEN killed \cup {[r |-> r, read |-> pass[p].rows[r.cell].epoch]} ELSE killed
                   /\ AwaitsRecord(p, r, reply)
    <2>1. PICK lands \in BOOLEAN, reply \in {"kept", "lost"} :
                   /\ reply = "kept" => lands
                   /\ pool' = IF lands THEN [pool EXCEPT ![r] = "gone"] ELSE pool
                   /\ killed' = IF lands /\ pool[r] = "up" /\ LiveAt(r)
                                   THEN killed \cup {[r |-> r, read |-> pass[p].rows[r.cell].epoch]} ELSE killed
                   /\ AwaitsRecord(p, r, reply)
      BY <1>6
    <2> DEFINE pv == IF lands THEN "gone" ELSE pool[r]
               dv == IF debtrow[r] = "none" THEN "open" ELSE "noted"
    <2>2. /\ pool' = [pool EXCEPT ![r] = pv] /\ pv \in {"none", "up", "gone"} /\ (pv = "gone" \/ pv = pool[r])
          /\ reply = "kept" => pv = "gone"
      BY <1>2, <2>1
    <2>3. debtrow' = [debtrow EXCEPT ![r] = dv] /\ dv \in {"open", "noted"}
      BY <1>6
    <2>4. pass' = [pass EXCEPT ![p] = [pass[p] EXCEPT !.asked = {r}, !.reply = reply, !.todo = pass[p].todo \ {r}]]
      BY <2>1 DEF AwaitsRecord
    <2> HIDE DEF pv, dv
    <2>5. CommittedRemovalIsGone'
      <3>1. pool' \in [Resources -> {"none", "up", "gone"}] /\ \A s \in Resources : pool[s] = "gone" => pool'[s] = "gone"
        BY <1>2, <2>2
      <3>2. debtrow'[r] # "committed" /\ \A s \in Resources : s # r => debtrow'[s] = debtrow[s]
        BY <1>2, <2>3
      <3> QED BY <1>1, <3>1, <3>2 DEF SweepKeepsFaith, CommittedRemovalIsGone
    <2>6. LiveRowKeepsContainer'
      <3>1. CASE killed' = killed
        BY <1>1, <3>1 DEF SweepKeepsFaith, LiveRowKeepsContainer
      <3>2. CASE LiveAt(r) /\ killed' = killed \cup {[r |-> r, read |-> pass[p].rows[r.cell].epoch]}
        <4>1. r.by = "docker" => ~pass[p].rows[r.cell].live
          BY <1>1, <1>2, <1>3 DEF PassOK
        <4>2. r.cell \in SweptCells
          BY SweepAssumption
        <4>3. /\ RowsPast(pass[p].rows, crow) /\ crow \in CellRows
          BY <1>1, <1>2, PassFieldsOK DEF PassOK
        <4>4. pass[p].rows[r.cell].epoch \in Nat /\ crow[r.cell].epoch \in Nat
          BY <4>2, <4>3 DEF RowsPast, CellRows, CellRow
        <4>5. r.by = "docker" => pass[p].rows[r.cell].epoch < r.epoch
          BY <3>2, <4>1, <4>2, <4>3, <4>4 DEF RowsPast, LiveAt
        <4> QED BY <1>1, <3>2, <4>5 DEF SweepKeepsFaith, LiveRowKeepsContainer
      <3> QED BY <2>1, <3>1, <3>2
    <2>7. {r} \in SUBSET {r} /\ UNCHANGED <<crow, overlapped>>
      BY <1>1
    <2>8. SweepKeepsFaith' /\ dv \in {"none", "open", "noted", "committed"} /\ dv # "none"
      BY <2>3, <2>5, <2>6 DEF SweepKeepsFaith
    <2> QED BY <1>1, <1>3, <2>2, <2>3, <2>4, <2>7, <2>8, RemovalSteps
  <1>7. CASE debtrow[r] \in {"open", "noted"} /\ AwaitsRecord(p, r, "lost") /\ UNCHANGED <<debtrow, pool, killed>>
    <2>1. /\ pool' = [pool EXCEPT ![r] = pool[r]] /\ debtrow' = [debtrow EXCEPT ![r] = debtrow[r]]
          /\ pool[r] \in {"none", "up", "gone"} /\ debtrow[r] \in {"none", "open", "noted", "committed"} /\ debtrow[r] # "none"
      BY <1>2, <1>7
    <2>2. SweepKeepsFaith'
      BY <1>1, <1>7 DEF SweepKeepsFaith, CommittedRemovalIsGone, LiveRowKeepsContainer
    <2>3. pass' = [pass EXCEPT ![p] = [pass[p] EXCEPT !.asked = {r}, !.reply = "lost", !.todo = pass[p].todo \ {r}]]
      BY <1>7 DEF AwaitsRecord
    <2>4. {r} \in SUBSET {r} /\ UNCHANGED <<crow, overlapped>> /\ "lost" # "kept"
      BY <1>1
    <2> QED BY <1>1, <1>3, <2>1, <2>2, <2>3, <2>4, RemovalSteps
  <1> QED BY <1>4, <1>5, <1>6, <1>7 DEF AskRemoval

\* What is recorded of a removal is what the provider shows.
LEMMA RecordInv ==
  ASSUME SweepInv, NEW p \in Passes, NEW r \in Resources, RecordRemoval(p, r)
  PROVE  SweepInv'
  <1>1. /\ UNCHANGED <<crow, pool, killed, misread, overlapped>> /\ r \in pass[p].asked /\ SweepKeepsFaith
        /\ Handled(p, r)
    BY DEF RecordRemoval, SweepInv
  <1>2. /\ PassOK(pass[p], crow, pool, debtrow, overlapped) /\ pool \in [Resources -> {"none", "up", "gone"}]
        /\ debtrow \in [Resources -> {"none", "open", "noted", "committed"}]
    BY PassFieldsOK
  <1>3. /\ r \in pass[p].listed /\ debtrow[r] # "none" /\ pool[r] # "none" /\ pass[p].stage \in {"islo", "docker"}
        /\ pass[p].reply = "kept" => pool[r] = "gone"
    BY <1>1, <1>2, PassFieldsOK DEF PassOK
  <1>4. PICK dv \in {"noted", "open", "committed"} :
             /\ debtrow' = [debtrow EXCEPT ![r] = dv]
             /\ dv = "committed" => debtrow[r] = "committed" \/ pool[r] = "gone"
    <2>1. CASE debtrow[r] = "committed" /\ UNCHANGED debtrow
      BY <1>2, <2>1
    <2>2. CASE pass[p].reply = "kept" /\ debtrow' = [debtrow EXCEPT ![r] = "committed"]
      BY <1>3, <2>2
    <2>3. CASE \E readable \in BOOLEAN : debtrow' = [debtrow EXCEPT ![r] = ObservedState(r, readable)]
      BY <2>3 DEF ObservedState
    <2> QED BY <2>1, <2>2, <2>3 DEF RecordRemoval
  <1>5. /\ pool' = [pool EXCEPT ![r] = pool[r]] /\ pool[r] \in {"none", "up", "gone"}
        /\ dv \in {"none", "open", "noted", "committed"} /\ dv # "none"
    BY <1>1, <1>2
  <1>6. SweepKeepsFaith'
    BY <1>1, <1>2, <1>4 DEF SweepKeepsFaith, CommittedRemovalIsGone, LiveRowKeepsContainer
  <1>7. pass' = [pass EXCEPT ![p] = [pass[p] EXCEPT !.asked = {}, !.reply = "none", !.todo = pass[p].todo \ {r}]]
    BY <1>1 DEF Handled
  <1>8. {} \in SUBSET {r} /\ UNCHANGED <<crow, overlapped>>
    BY <1>1
  <1> QED BY <1>3, <1>4, <1>5, <1>6, <1>7, <1>8, RemovalSteps

\* Every step of the sweep and of the Cells keeps the invariant.
LEMMA SweepStep == SweepInv /\ [SweepNext]_sweepvars => SweepInv'
  <1> SUFFICES ASSUME SweepInv, [SweepNext]_sweepvars PROVE SweepInv'
    OBVIOUS
  <1>1. CASE \E c \in SweptCells : Rearm(c) \/ BindCell(c) \/ EndCell(c)
    BY <1>1, CellsInv
  <1>2. CASE \E r \in Resources : Provide(r)
    BY <1>2, ProvideInv
  <1>3. CASE \E p \in Passes, r \in Resources : AskRemoval(p, r) \/ RecordRemoval(p, r)
    BY <1>3, AskInv, RecordInv
  <1>4. CASE \E p \in Passes : \/ StartSweep(p) \/ ListMicroVMs(p) \/ ListContainers(p) \/ SkipContainers(p)
                               \/ EndSweep(p) \/ LosePass(p)
    BY <1>4, StartInv, ListInv, EndInv
  <1>5. CASE UNCHANGED sweepvars
    BY <1>5 DEF sweepvars, SweepInv, SweepTypeOK, OverlapSeen, DebtOfSomething, SweepKeepsFaith,
       CommittedRemovalIsGone, LiveRowKeepsContainer, PassOK, RowsPast
  <1> QED BY <1>1, <1>2, <1>3, <1>4, <1>5 DEF SweepNext

\* With any number of passes of sweep_sandboxes at once, dying anywhere, a removal the journal calls
\* committed happened unless overlapping passes misread a listing, and no container is taken from a
\* Cell that was live when the pass read its row (_remove, _settle_absent, authorize_container).
THEOREM SweepFaithful == SweepSpec => []SweepKeepsFaith
  <1>1. SweepInv => SweepKeepsFaith
    BY DEF SweepInv
  <1> QED BY <1>1, SweepStart, SweepStep, PTL DEF SweepSpec

------------------------------------------------------------------------------
\* Maintenance incidents.

\* The places of a pass and the states of a ledger entry.
FilingSteps == {"off", "next", "proposed", "creating", "raised", "opened", "ending"}
LedgerStates == {"none", "proposed", "creating", "in_doubt", "open"}
Ledgers == [IncidentKeys -> LedgerStates]
Filings == [left : SUBSET IncidentKeys, key : IncidentKeys \cup {<<>>}, step : FilingSteps, states : Ledgers]

\* The types of the maintenance passes.
IncidentTypeOK ==
    /\ newest \in 0 .. MaxRuns /\ out \in SUBSET Metrics /\ (newest = 0 => out = {})
    /\ kept \in BOOLEAN /\ concurrent \in BOOLEAN
    /\ ledger \in Ledgers
    /\ filing \in [Checks -> Filings]
    /\ issues \in [IncidentKeys -> Nat]

\* A pass has an incident in hand from its proposal to its outcome.
InHandOf(f, iss) ==
    /\ f.step \in {"proposed", "creating", "raised", "opened"} => f.key \in IncidentKeys
    /\ f.step = "proposed" => f.states[f.key] = "proposed"
    /\ f.step \in {"creating", "raised", "opened"} => f.states[f.key] = "creating"
    /\ f.step = "opened" => iss[f.key] > 0
    /\ \A k \in IncidentKeys : f.states[k] = "open" => iss[k] > 0

\* What a lone pass over a kept root knows is what the file holds.
AloneWith(f, led, iss) ==
    f.step # "off" => f.states = led /\ (f.step = "creating" => iss[f.key] = 0)

\* Two passes at work have been seen together.
SeenTogether == \A c, d \in Checks : c # d /\ filing[c].step # "off" /\ filing[d].step # "off" => concurrent

\* Under a kept root and without overlap, an incident is on file before an issue can be asked for.
LedgerLeads ==
    kept /\ ~concurrent => /\ \A k \in IncidentKeys : ledger[k] \in {"none", "proposed"} => issues[k] = 0
                           /\ \A c \in Checks : AloneWith(filing[c], ledger, issues)

\* The inductive invariant of the passes.
IncidentInv ==
    /\ IncidentTypeOK /\ SeenTogether /\ LedgerLeads /\ OneIssueKeptRoot
    /\ \A k \in IncidentKeys : ledger[k] = "open" => issues[k] > 0
    /\ \A c \in Checks : InHandOf(filing[c], issues)

\* A pass that is off has no ledger of its own.
LEMMA AsleepOK == Asleep \in Filings /\ Asleep.step = "off" /\ NoIncidents \in Ledgers /\ \A k \in IncidentKeys : NoIncidents[k] = "none"
  BY DEF Asleep, Filings, NoIncidents, Ledgers, LedgerStates, FilingSteps

\* The invariant holds before the first pass.
LEMMA IncidentStart == IncidentInit => IncidentInv
  <1> SUFFICES ASSUME IncidentInit PROVE IncidentInv
    OBVIOUS
  <1>1. IncidentTypeOK
    <2>1. filing \in [Checks -> Filings] /\ ledger \in Ledgers
      BY AsleepOK DEF IncidentInit
    <2>2. newest \in 0 .. MaxRuns /\ issues \in [IncidentKeys -> Nat]
      BY IncidentAssumption DEF IncidentInit
    <2> QED BY <2>1, <2>2 DEF IncidentInit, IncidentTypeOK
  <1>2. \A c \in Checks : filing[c] = Asleep
    BY DEF IncidentInit
  <1>3. \A iss : InHandOf(Asleep, iss)
    BY AsleepOK DEF InHandOf, Asleep
  <1> QED BY <1>1, <1>2, <1>3, AsleepOK DEF IncidentInit, IncidentInv, SeenTogether, LedgerLeads, OneIssueKeptRoot, AloneWith

\* A step of one pass at work: what is left to show of it.
LEMMA CheckSteps ==
  ASSUME IncidentInv, NEW c \in Checks, NEW f \in Filings, filing' = [filing EXCEPT ![c] = f], filing[c].step # "off",
         UNCHANGED <<newest, out, kept, concurrent>>, ledger' \in Ledgers, issues' \in [IncidentKeys -> Nat],
         \A k \in IncidentKeys : issues[k] <= issues'[k],
         InHandOf(f, issues'),
         \A k \in IncidentKeys : ledger'[k] = "open" => issues'[k] > 0,
         kept /\ ~concurrent => /\ \A k \in IncidentKeys : ledger'[k] \in {"none", "proposed"} => issues'[k] = 0
                                /\ AloneWith(f, ledger', issues')
                                /\ \A k \in IncidentKeys : issues'[k] <= 1
  PROVE  IncidentInv'
  <1>1. IncidentTypeOK'
    BY DEF IncidentInv, IncidentTypeOK
  <1>2. filing'[c] = f /\ \A d \in Checks : d # c => filing'[d] = filing[d]
    BY DEF IncidentInv, IncidentTypeOK
  <1>3. SeenTogether'
    BY <1>2 DEF IncidentInv, SeenTogether
  <1>4. OneIssueKeptRoot'
    BY DEF OneIssueKeptRoot
  <1>5. ASSUME NEW d \in Checks PROVE InHandOf(filing'[d], issues')
    <2>1. CASE d = c
      BY <1>2, <2>1
    <2>2. CASE d # c
      <3>1. InHandOf(filing[d], issues)
        BY DEF IncidentInv
      <3>2. \A k \in IncidentKeys : issues[k] > 0 => issues'[k] > 0
        BY DEF IncidentInv, IncidentTypeOK
      <3> QED BY <1>2, <2>2, <3>1, <3>2 DEF InHandOf
    <2> QED BY <2>1, <2>2
  <1>6. LedgerLeads'
    <2> SUFFICES ASSUME kept, ~concurrent
                 PROVE  /\ \A k \in IncidentKeys : ledger'[k] \in {"none", "proposed"} => issues'[k] = 0
                        /\ \A d \in Checks : AloneWith(filing'[d], ledger', issues')
      BY DEF LedgerLeads
    <2>1. \A d \in Checks : d # c => filing[d].step = "off"
      BY DEF IncidentInv, SeenTogether
    <2>2. \A d \in Checks : AloneWith(filing'[d], ledger', issues')
      BY <1>2, <2>1 DEF AloneWith
    <2> QED BY <2>2
  <1> QED BY <1>1, <1>3, <1>4, <1>5, <1>6 DEF IncidentInv

\* What the invariant says of one pass.
LEMMA OneCheck == ASSUME IncidentInv, NEW c \in Checks
  PROVE /\ filing[c] \in Filings /\ filing[c].states \in Ledgers /\ filing[c].left \subseteq IncidentKeys /\ filing[c].step \in FilingSteps
        /\ InHandOf(filing[c], issues)
        /\ kept /\ ~concurrent => AloneWith(filing[c], ledger, issues) /\ OneIssueKeptRoot
        /\ ledger \in Ledgers /\ issues \in [IncidentKeys -> Nat] /\ kept \in BOOLEAN
        /\ \A k \in IncidentKeys : ledger[k] = "open" => issues[k] > 0
        /\ kept /\ ~concurrent => \A k \in IncidentKeys : (ledger[k] \in {"none", "proposed"} => issues[k] = 0) /\ issues[k] <= 1
  BY DEF IncidentInv, IncidentTypeOK, Filings, LedgerLeads, OneIssueKeptRoot

\* A pass that writes its ledger.
LEMMA SaveSteps ==
  ASSUME IncidentInv, NEW c \in Checks, NEW f \in Filings, filing' = [filing EXCEPT ![c] = f], filing[c].step # "off",
         UNCHANGED <<newest, out, kept, concurrent, issues>>, Save(f.states), f.states \in Ledgers,
         f.step # "off", InHandOf(f, issues), f.step = "creating" => filing[c].step = "proposed" /\ f.key = filing[c].key,
         \A k \in IncidentKeys : f.states[k] \in {"none", "proposed"} => filing[c].states[k] \in {"none", "proposed"}
  PROVE  IncidentInv'
  <1>1. ledger' = IF kept THEN f.states ELSE ledger
    BY DEF Save
  <1>2. ledger' \in Ledgers /\ \A k \in IncidentKeys : ledger'[k] = "open" => issues'[k] > 0
    BY <1>1, OneCheck DEF InHandOf
  <1>3. issues' \in [IncidentKeys -> Nat] /\ \A k \in IncidentKeys : issues[k] <= issues'[k]
    BY OneCheck
  <1>4. ASSUME kept, ~concurrent
        PROVE  /\ \A k \in IncidentKeys : ledger'[k] \in {"none", "proposed"} => issues'[k] = 0
               /\ AloneWith(f, ledger', issues')
               /\ \A k \in IncidentKeys : issues'[k] <= 1
    <2>1. ledger' = f.states /\ filing[c].states = ledger
      BY <1>1, <1>4, OneCheck DEF AloneWith
    <2>2. \A k \in IncidentKeys : ledger'[k] \in {"none", "proposed"} => issues'[k] = 0
      BY <1>4, <2>1, OneCheck
    <2>3. f.step = "creating" => issues'[f.key] = 0
      BY <1>4, <2>1, OneCheck DEF InHandOf
    <2> QED BY <1>4, <2>1, <2>2, <2>3, OneCheck DEF AloneWith
  <1> QED BY <1>2, <1>3, <1>4, CheckSteps

\* The incident in hand takes its next state.
LEMMA SettleSteps ==
  ASSUME IncidentInv, NEW c \in Checks, NEW state \in {"creating", "in_doubt", "open"}, NEW key \in IncidentKeys \cup {<<>>},
         NEW next \in FilingSteps, SetState(c, state, key, next), filing[c].step \in {"proposed", "raised", "opened"},
         next \in {"creating", "next", "ending"},
         next = "creating" => filing[c].step = "proposed" /\ key = filing[c].key /\ state = "creating",
         state = "open" => filing[c].step = "opened"
  PROVE  IncidentInv'
  <1> DEFINE states == [filing[c].states EXCEPT ![filing[c].key] = state]
             f == [left |-> filing[c].left, key |-> key, step |-> next, states |-> states]
  <1>1. filing[c].key \in IncidentKeys /\ (filing[c].step = "opened" => issues[filing[c].key] > 0)
    BY OneCheck DEF InHandOf
  <1>2. /\ states \in Ledgers /\ states[filing[c].key] = state
        /\ \A k \in IncidentKeys : k # filing[c].key => states[k] = filing[c].states[k]
    BY <1>1, OneCheck DEF Ledgers, LedgerStates
  <1>3. filing' = [filing EXCEPT ![c] = f] /\ UNCHANGED <<newest, out, kept, concurrent, issues>> /\ Save(states)
    BY DEF SetState
  <1> HIDE DEF states
  <1>4. f \in Filings /\ f.states = states /\ f.step = next /\ f.key = key
    BY <1>2, OneCheck DEF Filings
  <1> HIDE DEF f
  <1>5. InHandOf(f, issues)
    BY <1>1, <1>2, <1>4, OneCheck DEF InHandOf
  <1>6. \A k \in IncidentKeys : f.states[k] \in {"none", "proposed"} => filing[c].states[k] \in {"none", "proposed"}
    BY <1>2, <1>4
  <1> QED BY <1>2, <1>3, <1>4, <1>5, <1>6, SaveSteps

\* Only a fresh incident is taken in hand.
LEMMA ProposeSteps ==
  ASSUME IncidentInv, NEW c \in Checks, NEW k \in IncidentKeys, Propose(c, k)
  PROVE  IncidentInv'
  <1> DEFINE fresh == Fresh(filing[c].states, k)
             states == IF fresh THEN [filing[c].states EXCEPT ![k] = "proposed"] ELSE filing[c].states
             hand == IF fresh THEN [key |-> k, step |-> "proposed"] ELSE [key |-> <<>>, step |-> "next"]
             f == [left |-> filing[c].left \ {k}, key |-> hand.key, step |-> hand.step, states |-> states]
  <1>1. /\ filing[c].step = "next" /\ Save(states) /\ filing' = [filing EXCEPT ![c] = f]
        /\ UNCHANGED <<newest, out, kept, concurrent, issues>>
    BY DEF Propose
  <1>2. /\ states \in Ledgers /\ (fresh => states[k] = "proposed" /\ filing[c].states[k] = "none")
        /\ \A x \in IncidentKeys : x # k => states[x] = filing[c].states[x]
        /\ ~fresh => states = filing[c].states
    BY OneCheck DEF Ledgers, LedgerStates, Fresh
  <1>3. /\ hand.step = (IF fresh THEN "proposed" ELSE "next") /\ (fresh => hand.key = k) /\ hand.key \in IncidentKeys \cup {<<>>}
    OBVIOUS
  <1> HIDE DEF fresh, states, hand
  <1>4. f \in Filings /\ f.states = states /\ f.step = hand.step /\ f.key = hand.key
    BY <1>2, <1>3, OneCheck DEF Filings, FilingSteps
  <1> HIDE DEF f
  <1>5. InHandOf(f, issues)
    BY <1>2, <1>3, <1>4, OneCheck DEF InHandOf
  <1>6. \A x \in IncidentKeys : f.states[x] \in {"none", "proposed"} => filing[c].states[x] \in {"none", "proposed"}
    BY <1>2, <1>4
  <1> QED BY <1>1, <1>2, <1>3, <1>4, <1>5, <1>6, SaveSteps

\* An answered request leaves its issue in the tracker.
LEMMA OpenSteps ==
  ASSUME IncidentInv, NEW c \in Checks, OpenIssue(c)
  PROVE  IncidentInv'
  <1>1. PICK lands, answered \in BOOLEAN :
             /\ answered => lands
             /\ issues' = [issues EXCEPT ![filing[c].key] = IF lands THEN @ + 1 ELSE @]
             /\ filing' = [filing EXCEPT ![c].step = IF answered THEN "opened" ELSE "raised"]
    BY DEF OpenIssue
  <1> DEFINE f == [filing[c] EXCEPT !.step = IF answered THEN "opened" ELSE "raised"]
  <1>2. filing[c].step = "creating" /\ UNCHANGED <<newest, out, kept, ledger, concurrent>>
    BY DEF OpenIssue
  <1>3. filing[c].key \in IncidentKeys
    BY <1>2, OneCheck DEF InHandOf
  <1>4. /\ issues' \in [IncidentKeys -> Nat] /\ (lands => issues'[filing[c].key] > 0)
        /\ issues'[filing[c].key] <= issues[filing[c].key] + 1
        /\ \A k \in IncidentKeys : issues[k] <= issues'[k]
        /\ \A k \in IncidentKeys : k # filing[c].key => issues'[k] = issues[k]
    BY <1>1, <1>3, OneCheck
  <1>5. /\ f \in Filings /\ f.key = filing[c].key /\ f.states = filing[c].states /\ filing' = [filing EXCEPT ![c] = f]
        /\ f.step = (IF answered THEN "opened" ELSE "raised")
    BY <1>1, OneCheck DEF Filings, FilingSteps
  <1> HIDE DEF f
  <1>6. \A k \in IncidentKeys : issues[k] > 0 => issues'[k] > 0
    BY <1>4, OneCheck
  <1>7. InHandOf(f, issues')
    BY <1>1, <1>2, <1>3, <1>4, <1>5, <1>6, OneCheck DEF InHandOf
  <1>8. ASSUME kept, ~concurrent
        PROVE  /\ \A k \in IncidentKeys : ledger'[k] \in {"none", "proposed"} => issues'[k] = 0
               /\ AloneWith(f, ledger', issues')
               /\ \A k \in IncidentKeys : issues'[k] <= 1
    <2>1. filing[c].states = ledger /\ issues[filing[c].key] = 0 /\ ledger[filing[c].key] = "creating"
      BY <1>2, <1>8, OneCheck DEF AloneWith, InHandOf
    <2>2. \A k \in IncidentKeys : ledger'[k] \in {"none", "proposed"} => issues'[k] = 0
      BY <1>2, <1>4, <1>8, <2>1, OneCheck
    <2>3. \A k \in IncidentKeys : issues'[k] <= 1
      BY <1>4, <1>8, <2>1, OneCheck
    <2> QED BY <1>2, <1>5, <2>1, <2>2, <2>3 DEF AloneWith
  <1>9. ledger' \in Ledgers /\ \A k \in IncidentKeys : ledger'[k] = "open" => issues'[k] > 0
    BY <1>2, <1>6, OneCheck
  <1>10. filing[c].step # "off" /\ UNCHANGED <<newest, out, kept, concurrent>>
    BY <1>2
  <1> QED BY <1>4, <1>5, <1>7, <1>8, <1>9, <1>10, CheckSteps

\* A pass starts from the ledger of its root.
LEMMA StartSteps ==
  ASSUME IncidentInv, NEW c \in Checks, StartPass(c)
  PROVE  IncidentInv'
  <1> DEFINE states == IF kept THEN ledger ELSE NoIncidents
             f == [left |-> {<<newest, m>> : m \in out}, key |-> <<>>, step |-> "next", states |-> states]
  <1>1. /\ filing' = [filing EXCEPT ![c] = f] /\ UNCHANGED <<newest, out, kept, ledger, issues>> /\ out # {}
        /\ concurrent' = (concurrent \/ \E d \in Checks : filing[d].step # "off")
    BY DEF StartPass
  <1>2. {<<newest, m>> : m \in out} \in SUBSET IncidentKeys
    BY <1>1, IncidentAssumption DEF IncidentInv, IncidentTypeOK, IncidentKeys
  <1>3. states \in Ledgers /\ (\A k \in IncidentKeys : states[k] = "open" => issues[k] > 0)
    BY OneCheck, AsleepOK
  <1>7. kept => states = ledger
    OBVIOUS
  <1> HIDE DEF states
  <1>4. f \in Filings /\ f.states = states /\ f.step = "next"
    BY <1>2, <1>3 DEF Filings, FilingSteps
  <1> HIDE DEF f
  <1>5. InHandOf(f, issues)
    BY <1>3, <1>4 DEF InHandOf
  <1>6. filing'[c] = f /\ (\A d \in Checks : d # c => filing'[d] = filing[d]) /\ filing' \in [Checks -> Filings]
    BY <1>1, <1>4 DEF IncidentInv, IncidentTypeOK
  <1>8. concurrent' \in BOOLEAN /\ (concurrent => concurrent')
    BY <1>1 DEF IncidentInv, IncidentTypeOK
  <1>9. IncidentTypeOK'
    BY <1>1, <1>6, <1>8 DEF IncidentInv, IncidentTypeOK
  <1>10. \A d \in Checks : d # c /\ filing'[d].step # "off" => concurrent'
    BY <1>1, <1>6
  <1>11. SeenTogether'
    BY <1>10 DEF SeenTogether
  <1>12. LedgerLeads' /\ OneIssueKeptRoot'
    <2>1. OneIssueKeptRoot'
      BY <1>1, <1>8 DEF IncidentInv, OneIssueKeptRoot
    <2>2. kept /\ ~concurrent' => \A d \in Checks : AloneWith(filing'[d], ledger, issues)
      BY <1>4, <1>6, <1>7, <1>10 DEF AloneWith
    <2>3. LedgerLeads'
      BY <1>1, <1>8, <2>2 DEF IncidentInv, LedgerLeads
    <2> QED BY <2>1, <2>3
  <1>13. \A d \in Checks : InHandOf(filing'[d], issues')
    BY <1>1, <1>5, <1>6 DEF IncidentInv
  <1>14. \A k \in IncidentKeys : ledger'[k] = "open" => issues'[k] > 0
    BY <1>1 DEF IncidentInv
  <1> QED BY <1>9, <1>11, <1>12, <1>13, <1>14 DEF IncidentInv

\* Every step of maintenance keeps the invariant.
LEMMA IncidentStep == IncidentInv /\ [IncidentNext]_incidentvars => IncidentInv'
  <1> SUFFICES ASSUME IncidentInv, [IncidentNext]_incidentvars PROVE IncidentInv'
    OBVIOUS
  <1>1. CASE RunFinishes
    <2>1. newest' \in 0 .. MaxRuns /\ newest' # 0 /\ out' \in SUBSET Metrics /\ UNCHANGED <<kept, ledger, filing, issues, concurrent>>
      BY <1>1, IncidentAssumption DEF RunFinishes, IncidentInv, IncidentTypeOK
    <2> QED BY <2>1 DEF IncidentInv, IncidentTypeOK, SeenTogether, LedgerLeads, OneIssueKeptRoot
  <1>2. ASSUME NEW c \in Checks, BeginCreate(c) PROVE IncidentInv'
    <2>1. filing[c].step = "proposed" /\ SetState(c, "creating", filing[c].key, "creating") /\ filing[c].key \in IncidentKeys
      BY <1>2, OneCheck DEF BeginCreate, InHandOf
    <2> QED BY <2>1, SettleSteps DEF FilingSteps
  <1>3. ASSUME NEW c \in Checks, MarkUnknown(c) PROVE IncidentInv'
    BY <1>3, SettleSteps DEF MarkUnknown, FilingSteps
  <1>4. ASSUME NEW c \in Checks, RecordIssue(c) PROVE IncidentInv'
    BY <1>4, SettleSteps DEF RecordIssue, FilingSteps
  <1>5. ASSUME NEW c \in Checks, EndPass(c) PROVE IncidentInv'
    <2>1. filing' = [filing EXCEPT ![c] = Asleep] /\ filing[c].step # "off" /\ UNCHANGED <<newest, out, kept, ledger, issues, concurrent>>
      BY <1>5 DEF EndPass
    <2>2. InHandOf(Asleep, issues) /\ AloneWith(Asleep, ledger, issues)
      BY AsleepOK DEF InHandOf, AloneWith, Asleep
    <2>3. /\ issues' \in [IncidentKeys -> Nat] /\ ledger' \in Ledgers /\ \A k \in IncidentKeys : issues[k] <= issues'[k]
      BY <1>5, <2>1, OneCheck
    <2>4. kept /\ ~concurrent => /\ \A k \in IncidentKeys : ledger'[k] \in {"none", "proposed"} => issues'[k] = 0
                                 /\ \A k \in IncidentKeys : issues'[k] <= 1
      BY <1>5, <2>1, OneCheck
    <2>5. \A k \in IncidentKeys : ledger'[k] = "open" => issues'[k] > 0
      BY <1>5, <2>1, OneCheck
    <2> QED BY <1>5, <2>1, <2>2, <2>3, <2>4, <2>5, AsleepOK, CheckSteps
  <1>6. CASE UNCHANGED incidentvars
    BY <1>6 DEF incidentvars, IncidentInv, IncidentTypeOK, SeenTogether, LedgerLeads, OneIssueKeptRoot
  <1> QED BY <1>1, <1>2, <1>3, <1>4, <1>5, <1>6, StartSteps, OpenSteps, ProposeSteps DEF IncidentNext

\* However passes overlap, die and lose answers, a ledger never calls an incident open that has no issue; and
\* under a kept root without overlapping passes an incident has at most one issue (maintain.run, DurableIncidentLedger).
THEOREM IncidentsOnce == IncidentSpec => []OneIssuePerIncident
  <1>1. IncidentInv => OneIssuePerIncident
    BY DEF IncidentInv, OneIssuePerIncident, OpenIsFiled, InHandOf
  <1> QED
    BY <1>1, IncidentStart, IncidentStep, PTL DEF IncidentSpec

------------------------------------------------------------------------------
\* The restore gate.

\* The live stores, or a copy of them.
Disks == [journal : [Effects -> {"none", "intent", "observed", "committed"}], cells : SUBSET Effects,
          stamp : BOOLEAN, schema : Nat]

\* The types of the stores, the marker and the operation in hand.
RestoreTypeOK ==
    /\ disk \in Disks /\ copy \in [complete : BOOLEAN, disk : Disks]
    /\ remote \in [Effects -> Nat]
    /\ marker \in [state : {"none", "pending", "reconciling"}, owed : SUBSET Effects]
    /\ backend \in [on : BOOLEAN, op : Effects \cup {"none"}, step : {"idle", "observe", "act", "receipt", "event"}]
    /\ binary \in Nat

\* The backend acts only while it is on, and then no restore is under way; what it
\* has in hand is journalled, and what it is about to do was not done.
InHand ==
    /\ backend.on => restoring = "off"
    /\ backend.step # "idle" => backend.on /\ backend.op \in Effects /\ disk.journal[backend.op] # "none"
    /\ ~cut /\ backend.step = "act" => remote[backend.op] = 0 \/ backend.op \in missed

\* Stores that do not record an open restore know of every effect that was caused, but for those
\* that an operator closed a window on.
StoresKnow ==
    ~cut /\ restoring = "off" /\ ~disk.stamp => \A e \in Effects : remote[e] > 0 => disk.journal[e] # "none" \/ e \in missed

\* The inductive invariant of backup and restore.
RestoreInv == RestoreTypeOK /\ InHand /\ StoresKnow /\ NoDuplicateEffect

\* Nothing was caused before the first start.
LEMMA RestoreStart == RestoreInit => RestoreInv
  BY DEF RestoreInit, EmptyDisk, NoCopy, NoMarker, Off, RestoreInv, RestoreTypeOK, Disks, InHand, StoresKnow,
         NoDuplicateEffect

\* A journal entry that is written, with every other field of the stores left alone.
LEMMA JournalEntry ==
  ASSUME disk \in Disks, NEW e \in Effects, NEW s \in {"intent", "observed", "committed"},
         disk' = [disk EXCEPT !.journal[e] = s]
  PROVE  /\ disk' \in Disks /\ disk'.stamp = disk.stamp /\ disk'.journal[e] = s
         /\ \A f \in Effects : f # e => disk'.journal[f] = disk.journal[f]
  <1>1. disk' = [disk EXCEPT !.journal = [disk.journal EXCEPT ![e] = s]]
    OBVIOUS
  <1> DEFINE j == [disk.journal EXCEPT ![e] = s]
  <1>2. /\ j \in [Effects -> {"none", "intent", "observed", "committed"}] /\ j[e] = s
        /\ \A f \in Effects : f # e => j[f] = disk.journal[f]
    BY DEF Disks
  <1>3. disk' = [disk EXCEPT !.journal = j]
    BY <1>1
  <1> HIDE DEF j
  <1>4. disk' \in Disks /\ disk'.stamp = disk.stamp /\ disk'.journal = j
    BY <1>2, <1>3 DEF Disks
  <1> QED BY <1>2, <1>4

\* Every step of the backend, the backup, the restore and the operator preserves the invariant.
LEMMA RestoreStep == RestoreInv /\ [RestoreNext]_restorevars => RestoreInv'
  <1> SUFFICES ASSUME RestoreInv, [RestoreNext]_restorevars PROVE RestoreInv'
    OBVIOUS
  <1> USE DEF RestoreInv
  <1>1. CASE StartBackend
    <2>1. disk' \in Disks /\ disk'.journal = disk.journal /\ disk'.stamp = disk.stamp
      BY <1>1 DEF StartBackend, RestoreTypeOK, Disks
    <2>2. backend' = [on |-> TRUE, op |-> "none", step |-> "idle"] /\ restoring = "off"
      BY <1>1 DEF StartBackend, Off
    <2>3. UNCHANGED <<remote, copy, fence, marker, restoring, cut, unlinking, missed, binary, restores>>
      BY <1>1 DEF StartBackend
    <2>4. RestoreTypeOK'
      BY <2>1, <2>2, <2>3 DEF RestoreTypeOK
    <2>5. InHand' /\ StoresKnow' /\ NoDuplicateEffect'
      BY <2>1, <2>2, <2>3 DEF InHand, StoresKnow, NoDuplicateEffect
    <2> QED BY <2>4, <2>5
  <1>2. CASE StopBackend
    BY <1>2 DEF StopBackend, Off, RestoreTypeOK, InHand, StoresKnow, NoDuplicateEffect
  <1>3. CASE Upgrade
    BY <1>3, RestoreAssumption DEF Upgrade, RestoreTypeOK, InHand, StoresKnow, NoDuplicateEffect
  <1>4. ASSUME NEW e \in Effects, Intend(e) PROVE RestoreInv'
    <2> DEFINE s == IF disk.journal[e] = "none" THEN "intent" ELSE disk.journal[e]
               next == IF Observes(e) \/ disk.journal[e] # "none" THEN "observe" ELSE "act"
    <2>1. /\ backend.on /\ disk.journal[e] # "committed"
          /\ disk' = [disk EXCEPT !.journal[e] = s]
          /\ backend' = [backend EXCEPT !.op = e, !.step = next]
          /\ UNCHANGED <<remote, copy, marker, restoring, cut, unlinking, missed, binary, restores>>
      BY <1>4 DEF Intend, CommitTo
    <2>2. s \in {"intent", "observed", "committed"}
      BY DEF RestoreTypeOK, Disks
    <2>3. /\ disk' \in Disks /\ disk'.stamp = disk.stamp /\ disk'.journal[e] = s
          /\ \A f \in Effects : f # e => disk'.journal[f] = disk.journal[f]
      <3> HIDE DEF s
      <3> QED BY <2>1, <2>2, JournalEntry DEF RestoreTypeOK
    <2>4. ~cut /\ next = "act" => remote[e] = 0 \/ e \in missed
      <3> SUFFICES ASSUME ~cut, next = "act" PROVE remote[e] = 0 \/ e \in missed
        OBVIOUS
      <3>1. disk.journal[e] = "none" /\ GateState = "clear"
        BY DEF Observes
      <3>2. ~disk.stamp
        BY <3>1 DEF GateState, RestoreTypeOK, Disks
      <3>3. restoring = "off"
        BY <2>1 DEF InHand
      <3> QED BY <3>1, <3>2, <3>3 DEF StoresKnow, RestoreTypeOK
    <2>5. /\ backend'.on = TRUE /\ backend'.op = e /\ backend'.step = next /\ next \in {"observe", "act"}
          /\ backend' \in [on : BOOLEAN, op : Effects \cup {"none"}, step : {"idle", "observe", "act", "receipt", "event"}]
      BY <2>1 DEF RestoreTypeOK
    <2> HIDE DEF s, next
    <2>6. RestoreTypeOK'
      BY <2>1, <2>3, <2>5 DEF RestoreTypeOK
    <2>7. InHand'
      BY <2>1, <2>2, <2>3, <2>4, <2>5 DEF InHand
    <2>8. StoresKnow' /\ NoDuplicateEffect'
      BY <2>1, <2>2, <2>3 DEF StoresKnow, NoDuplicateEffect
    <2> QED BY <2>6, <2>7, <2>8
  <1>5. ASSUME NEW s \in {"observed", "committed"}, NEW next \in {"act", "receipt", "event"}, backend.step # "idle",
               disk' = [disk EXCEPT !.journal[backend.op] = s], backend' = [backend EXCEPT !.step = next],
               next = "act" => remote[backend.op] = 0,
               UNCHANGED <<remote, copy, marker, restoring, cut, unlinking, missed, binary, restores>>
        PROVE  RestoreInv'
    <2>1. backend.op \in Effects /\ backend.on
      BY <1>5 DEF InHand
    <2>2. /\ disk' \in Disks /\ disk'.stamp = disk.stamp /\ disk'.journal[backend.op] = s
          /\ \A f \in Effects : f # backend.op => disk'.journal[f] = disk.journal[f]
      BY <1>5, <2>1, JournalEntry DEF RestoreTypeOK
    <2>3. /\ backend'.on = backend.on /\ backend'.op = backend.op /\ backend'.step = next
          /\ backend' \in [on : BOOLEAN, op : Effects \cup {"none"}, step : {"idle", "observe", "act", "receipt", "event"}]
      BY <1>5 DEF RestoreTypeOK
    <2>4. RestoreTypeOK'
      BY <1>5, <2>2, <2>3 DEF RestoreTypeOK
    <2>5. InHand'
      BY <1>5, <2>1, <2>2, <2>3 DEF InHand
    <2>6. StoresKnow' /\ NoDuplicateEffect'
      BY <1>5, <2>1, <2>2 DEF StoresKnow, NoDuplicateEffect
    <2> QED BY <2>4, <2>5, <2>6
  <1>6. CASE ObserveRemote
    <2> DEFINE next == IF remote[backend.op] > 0 THEN "receipt" ELSE "act"
    <2>1. /\ backend.step # "idle" /\ disk' = [disk EXCEPT !.journal[backend.op] = "observed"]
          /\ backend' = [backend EXCEPT !.step = next]
          /\ UNCHANGED <<remote, copy, marker, restoring, cut, unlinking, missed, binary, restores>>
      BY <1>6 DEF ObserveRemote, CommitTo
    <2>2. next \in {"act", "receipt", "event"} /\ (next = "act" => remote[backend.op] = 0)
      BY <2>1 DEF InHand, RestoreTypeOK
    <2> HIDE DEF next
    <2> QED BY <1>5, <2>1, <2>2
  <1>7. CASE Act
    <2>1. /\ backend.step = "act" /\ backend.op \in Effects /\ backend.on /\ disk.journal[backend.op] # "none"
          /\ ~cut => remote[backend.op] = 0 \/ backend.op \in missed
          /\ remote' = [remote EXCEPT ![backend.op] = @ + 1] /\ backend' = [backend EXCEPT !.step = "receipt"]
          /\ UNCHANGED <<disk, copy, fence, marker, restoring, cut, unlinking, missed, binary, restores>>
      BY <1>7 DEF Act, InHand
    <2>2. remote' \in [Effects -> Nat] /\ remote'[backend.op] = remote[backend.op] + 1
          /\ \A f \in Effects : f # backend.op => remote'[f] = remote[f]
      BY <2>1 DEF RestoreTypeOK
    <2>3. RestoreTypeOK'
      BY <2>1, <2>2 DEF RestoreTypeOK
    <2>4. InHand'
      BY <2>1 DEF InHand, RestoreTypeOK
    <2>5. StoresKnow'
      BY <2>1, <2>2 DEF StoresKnow
    <2>6. NoDuplicateEffect'
      BY <2>1, <2>2 DEF NoDuplicateEffect
    <2> QED BY <2>3, <2>4, <2>5, <2>6
  <1>8. CASE WriteReceipt
    <2>1. /\ backend.step # "idle" /\ disk' = [disk EXCEPT !.journal[backend.op] = "committed"]
          /\ backend' = [backend EXCEPT !.step = "event"]
          /\ UNCHANGED <<remote, copy, marker, restoring, cut, unlinking, missed, binary, restores>>
      BY <1>8 DEF WriteReceipt, CommitTo
    <2> QED BY <1>5, <2>1
  <1>9. CASE WriteHistory
    <2>1. /\ backend.step = "event" /\ disk' = [disk EXCEPT !.cells = @ \cup {backend.op}]
          /\ backend' = [on |-> TRUE, op |-> "none", step |-> "idle"]
          /\ UNCHANGED <<remote, copy, marker, restoring, cut, unlinking, missed, binary, restores>>
      BY <1>9 DEF WriteHistory, CommitTo, Off
    <2>2. backend.op \in Effects /\ restoring = "off"
      BY <2>1 DEF InHand
    <2>3. disk' \in Disks /\ disk'.journal = disk.journal /\ disk'.stamp = disk.stamp
      BY <2>1, <2>2 DEF RestoreTypeOK, Disks
    <2> QED BY <2>1, <2>2, <2>3 DEF RestoreTypeOK, InHand, StoresKnow, NoDuplicateEffect
  <1>10. CASE FinishBackup
    <2>1. copy' = copy \/ copy' = [complete |-> TRUE, disk |-> disk]
      BY <1>10 DEF FinishBackup
    <2>2. copy' \in [complete : BOOLEAN, disk : Disks]
      <3>1. copy \in [complete : BOOLEAN, disk : Disks] /\ disk \in Disks
        BY DEF RestoreTypeOK
      <3>2. [complete |-> TRUE, disk |-> disk] \in [complete : BOOLEAN, disk : Disks]
        BY <3>1
      <3> QED BY <2>1, <3>1, <3>2, Zenon
    <2> QED BY <1>10, <2>2 DEF FinishBackup, RestoreTypeOK, InHand, StoresKnow, NoDuplicateEffect
  <1>11. CASE BeginBackup \/ AbandonBackup \/ \E i \in DOMAIN FencedStores : FenceStore(i)
    BY <1>11 DEF BeginBackup, AbandonBackup, FenceStore, RestoreTypeOK, InHand, StoresKnow, NoDuplicateEffect
  <1>12. CASE BeginRestore
    <2>1. /\ disk' \in Disks /\ marker' \in [state : {"none", "pending", "reconciling"}, owed : SUBSET Effects]
          /\ restoring' = "moved" /\ ~backend.on /\ UNCHANGED <<remote, copy, fence, backend, cut, missed, binary>>
      BY <1>12 DEF BeginRestore, EmptyDisk, NoMarker, Disks
    <2>2. backend.step = "idle"
      BY <2>1 DEF InHand
    <2> QED BY <2>1, <2>2 DEF RestoreTypeOK, InHand, StoresKnow, NoDuplicateEffect
  <1>13. CASE PlaceStores \/ OpenWindow \/ StampStores
    <2>1. /\ disk' \in Disks /\ marker' \in [state : {"none", "pending", "reconciling"}, owed : SUBSET Effects]
          /\ UNCHANGED <<remote, copy, fence, backend, cut, missed, binary>>
      <3>1. disk \in Disks /\ copy.disk \in Disks /\ marker \in [state : {"none", "pending", "reconciling"}, owed : SUBSET Effects]
        BY DEF RestoreTypeOK
      <3>2. CASE PlaceStores
        BY <3>1, <3>2 DEF PlaceStores
      <3>3. CASE OpenWindow
        <4>1. Owed(disk) \in SUBSET Effects
          BY DEF Owed
        <4> QED BY <3>1, <3>3, <4>1 DEF OpenWindow
      <3>4. CASE StampStores
        BY <3>1, <3>4 DEF StampStores, Disks
      <3> QED BY <1>13, <3>2, <3>3, <3>4
    <2>2. ~backend.on /\ backend.step = "idle"
      BY <1>13 DEF PlaceStores, OpenWindow, StampStores, InHand
    <2>3. restoring' = "off" => disk'.stamp
      BY <1>13 DEF PlaceStores, OpenWindow, StampStores, RestoreTypeOK, Disks
    <2> QED BY <2>1, <2>2, <2>3 DEF RestoreTypeOK, InHand, StoresKnow, NoDuplicateEffect
  <1>14. CASE KillRestore
    BY <1>14 DEF KillRestore, RestoreTypeOK, InHand, StoresKnow, NoDuplicateEffect
  <1>15. CASE CloseWindow
    <2>1. /\ \A e \in Effects : remote[e] > 0 => disk.journal[e] # "none" \/ e \in missed'
          /\ missed \subseteq missed'
          /\ UNCHANGED <<remote, copy, fence, marker, backend, restoring, cut, binary>>
      BY <1>15 DEF CloseWindow, KnownToRemoteOnly
    <2>2. disk' \in Disks /\ disk'.journal = disk.journal
      BY <1>15 DEF CloseWindow, RestoreTypeOK, Disks
    <2> QED BY <2>1, <2>2 DEF RestoreTypeOK, InHand, StoresKnow, NoDuplicateEffect
  <1>16. CASE ResumeGate \/ UnlinkMarker \/ KillClose \/ DeleteMarker \/ \E e \in Effects : ReconcileEffect(e)
    <2>1. /\ marker' \in [state : {"none", "pending", "reconciling"}, owed : SUBSET Effects]
          /\ UNCHANGED <<disk, remote, copy, fence, backend, restoring, cut, missed, binary>>
      BY <1>16 DEF ResumeGate, UnlinkMarker, KillClose, DeleteMarker, ReconcileEffect, NoMarker, RestoreTypeOK
    <2> QED BY <2>1 DEF RestoreTypeOK, InHand, StoresKnow, NoDuplicateEffect
  <1>17. CASE UNCHANGED restorevars
    BY <1>17 DEF restorevars, RestoreTypeOK, InHand, StoresKnow, NoDuplicateEffect
  <1> QED
    BY <1>1, <1>2, <1>3, <1>4, <1>6, <1>7, <1>8, <1>9, <1>10, <1>11, <1>12, <1>13, <1>14, <1>15, <1>16, <1>17
    DEF RestoreNext

\* However backups, completed restores, stops, upgrades and operator steps interleave, no external effect is
\* caused twice but one that only the remote knew of when a window was closed (close, requires_observation).
THEOREM RestoreOnce == RestoreSpec => []NoDuplicateEffect
  <1>1. RestoreInv => NoDuplicateEffect
    BY DEF RestoreInv
  <1> QED
    BY <1>1, RestoreStart, RestoreStep, PTL DEF RestoreSpec

==============================================================================
