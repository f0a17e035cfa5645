------------------------------- MODULE Receiver -------------------------------
(***************************************************************************)
(* The webhook receiver (webhook.py): threads of one HTTP server that      *)
(* check a post, route it and answer.  With an inbox a routed post is      *)
(* committed before it is acknowledged; without one it is submitted at     *)
(* once, to the backend (managed) or to Airflow (legacy).  GitHub repeats  *)
(* a delivery when it likes, and a sender may reuse a delivery id.         *)
(*                                                                         *)
(* Blueprint files are edited while the server runs.  What becomes of a    *)
(* saved delivery afterwards is WebhookInbox's matter: here it is handed   *)
(* over or is not.                                                         *)
(***************************************************************************)
EXTENDS Naturals, FiniteSets

CONSTANTS
    Posts,         \* what senders post: see PostFields
    Blueprints,    \* names a label or a command can carry
    Repos,         \* repositories
    Threads,       \* handler threads
    MaxSaved,      \* max_pending of the inbox
    MaxPosts,      \* bound: posts received
    MaxEdits       \* bound: edits of the blueprints

\* id: X-GitHub-Delivery.  says: what the event is, "label" of a blueprint, "command"
\* or "comment" of a user, or "other" (a status label, a bot, another action).
\* signed: the HMAC of the body is right.  Two posts differ in their bodies.
PostFields ==
    [id : Nat, says : {"label", "command", "comment", "other"}, blueprint : Blueprints,
     repo : Repos, onPR : BOOLEAN, trusted : BOOLEAN, signed : BOOLEAN]

ASSUME ReceiverAssumption == Posts \subseteq PostFields /\ MaxSaved \in Nat

VARIABLES
    mode,       \* what the server was started with: an inbox, a backend
    targets,    \* the repositories each installed blueprint targets; none: not installed
    inbox,      \* rows of the inbox: the post admitted and whether it is outstanding
    orders,     \* posts the backend or Airflow accepted
    thread,     \* what each handler does
    replies,    \* answers given: the post and the status
    used        \* posts received, edits made

receiverVars == <<mode, targets, inbox, orders, thread, replies, used>>

Free == [at |-> "free"]
Saved(id) == {r \in inbox : r.post.id = id}

ReceiverInit ==
    /\ mode \in [inbox : BOOLEAN, managed : BOOLEAN]
    /\ targets = [b \in Blueprints |-> Repos]
    /\ inbox = {}
    /\ orders = {}
    /\ thread = [t \in Threads |-> Free]
    /\ replies = {}
    /\ used = [posts |-> 0, edits |-> 0]

\* _reply ends the request.
Reply(t, post, status) ==
    /\ thread' = [thread EXCEPT ![t] = Free]
    /\ replies' = replies \cup {[post |-> post, status |-> status]}

-----------------------------------------------------------------------------
\* Labels and commands on real issues; a command needs a trusted author.
Route(post) ==
    ~post.onPR /\ (post.says = "label" \/ (post.says = "command" /\ post.trusted))

\* A user's comment on a pull request is context for the backend.
Followup(post) == post.onPR /\ post.says \in {"command", "comment"}

Routed(post) == Route(post) \/ (mode.managed /\ Followup(post))

\* do_POST up to the hand over: a body that can be read, its signature, its routing.
Receive(t, post) ==
    /\ thread[t] = Free /\ used.posts < MaxPosts
    /\ used' = [used EXCEPT !.posts = @ + 1]
    /\ \/ Reply(t, post, 400)
       \/ ~post.signed /\ Reply(t, post, 401)
       \/ post.signed /\ ~Routed(post) /\ Reply(t, post, 200)
       \/ /\ post.signed /\ Routed(post)
          /\ thread' = [thread EXCEPT ![t] = [at |-> IF mode.inbox THEN "get" ELSE "submit", post |-> post]]
          /\ UNCHANGED replies
    /\ UNCHANGED <<mode, targets, inbox, orders>>

\* repository_trigger: the blueprint is installed and targets the repository; a
\* comment on a pull request needs neither.
Installed(post) == Route(post) => targets[post.blueprint] # {}
Targeted(post) == Route(post) => post.repo \in targets[post.blueprint]

\* _enqueue looks the receipt up: a new delivery must pass the current blueprints and
\* brings its own routing, a known one brings the routing saved with it.
LookUp(t) ==
    LET post == thread[t].post
    IN  /\ thread[t].at = "get"
        /\ IF Saved(post.id) = {} /\ ~(Installed(post) /\ Targeted(post))
           THEN Reply(t, post, 422)
           ELSE /\ thread' = [thread EXCEPT ![t] = [at |-> "commit", post |-> post, fresh |-> Saved(post.id) = {}]]
                /\ UNCHANGED replies
        /\ UNCHANGED <<mode, targets, inbox, orders, used>>

Outstanding == {r \in inbox : r.outstanding}

\* Fault: whether the delivery is new is taken from the earlier look-up.
SavePostOnLookUp(t) ==
    LET post == thread[t].post
    IN  /\ thread[t].at = "commit"
        /\ IF thread[t].fresh
           THEN /\ inbox' = (inbox \ Saved(post.id)) \cup {[post |-> post, outstanding |-> TRUE]}
                /\ Reply(t, post, 202)
           ELSE UNCHANGED inbox /\ Reply(t, post, IF \A r \in Saved(post.id) : r.post = post THEN 202 ELSE 409)
        /\ UNCHANGED <<mode, targets, orders, used>>

\* DeliveryInbox.enqueue, one transaction: the saved receipt of the same content, a
\* conflict, a full inbox, or a new row.
SavePost(t) ==
    LET post == thread[t].post
        room == Cardinality(Outstanding) < MaxSaved
        new == Saved(post.id) = {} /\ room
    IN  /\ thread[t].at = "commit"
        /\ inbox' = IF new THEN inbox \cup {[post |-> post, outstanding |-> TRUE]} ELSE inbox
        /\ Reply(t, post, IF Saved(post.id) # {}
                            THEN IF \E r \in Saved(post.id) : r.post = post THEN 202 ELSE 409
                            ELSE IF room THEN 202 ELSE 503)
        /\ UNCHANGED <<mode, targets, orders, used>>

\* Without an inbox: accepted, refused with a status of its own, or no usable answer
\* although the request may have been applied.
Submit(t) ==
    LET post == thread[t].post
        refusals == IF mode.managed THEN {409, 422, 429, 502, 503} ELSE {502}
    IN  /\ thread[t].at = "submit"
        /\ \/ orders' = orders \cup {post} /\ Reply(t, post, 202)
           \/ UNCHANGED orders /\ \E status \in refusals : Reply(t, post, status)
           \/ orders' = orders \cup {post} /\ Reply(t, post, 502)
        /\ UNCHANGED <<mode, targets, inbox, used>>

-----------------------------------------------------------------------------
\* A worker of the dispatcher hands a saved delivery over: it no longer counts.
HandOver(r) ==
    /\ r.outstanding
    /\ inbox' = (inbox \ {r}) \cup {[r EXCEPT !.outstanding = FALSE]}
    /\ orders' = orders \cup {r.post}
    /\ UNCHANGED <<mode, targets, thread, replies, used>>

\* The handler thread dies with the server; what was committed stays.
Disconnect(t) ==
    /\ thread[t] # Free
    /\ thread' = [thread EXCEPT ![t] = Free]
    /\ UNCHANGED <<mode, targets, inbox, orders, replies, used>>

\* An operator edits or removes a blueprint.
EditBlueprint(b, repos) ==
    /\ used.edits < MaxEdits
    /\ targets' = [targets EXCEPT ![b] = repos]
    /\ used' = [used EXCEPT !.edits = @ + 1]
    /\ UNCHANGED <<mode, inbox, orders, thread, replies>>

ReceiverNext ==
    \/ \E t \in Threads :
         \/ \E post \in Posts : Receive(t, post)
         \/ LookUp(t) \/ SavePost(t) \/ Submit(t) \/ Disconnect(t)
    \/ \E r \in inbox : HandOver(r)
    \/ \E b \in Blueprints, repos \in SUBSET Repos : EditBlueprint(b, repos)

ReceiverSpec == ReceiverInit /\ [][ReceiverNext]_receiverVars

-----------------------------------------------------------------------------
\* "202 means the dispatch envelope is committed ... and redeliveries reuse the
\* receipt": whatever threads race on one delivery id and however blueprints are
\* edited, an acknowledged post is the one the inbox keeps under its id (or the
\* receiving side has it), one receipt per id, within the inbox's bound.
AcknowledgedIsKept ==
    /\ \A r \in replies : r.status = 202 =>
         IF mode.inbox THEN {s.post : s \in Saved(r.post.id)} = {r.post} ELSE r.post \in orders
    /\ \A r, s \in inbox : r.post.id = s.post.id => r = s
    /\ Cardinality(Outstanding) <= MaxSaved
===============================================================================
