---------------------------- MODULE BackendProofs ----------------------------
(***************************************************************************)
(* Proofs about the backend's control loop and its Cells, on top of the    *)
(* invariant of the admission store that AdmissionProofs establishes.      *)
(***************************************************************************)
EXTENDS Backend, AdmissionProofs

------------------------------------------------------------------------------
\* The threads, the Cells, the claims on them and the runs.

\* The states a Cell ends in, and the fields of threads and Cell rows.
Ends == EndStates \cap Outcomes

ThreadFields == {"at", "work", "token", "pumping", "local", "todo", "cell", "bind", "want", "held", "unit", "seen", "owes", "open", "freed"}
RowFields == {"epoch", "state", "by", "run", "keys"}

\* The places of a request in which its thread holds a dispatch intent.
Attempting(th) ==
  \/ th.at \in {"attach", "look", "activate", "record", "policy", "post", "bind", "bound", "recover", "observe", "leave"}
  \/ th.at \in {"undo", "undone"} /\ th.want = "failed"

\* The dispatch intent a thread works under.
Mine(t, th) == [proc |-> ProcOf[t], work |-> th.work, token |-> th.token]

\* Airflow has the run.
Exists(run) == run \notin {"absent", "sent"}

\* A thread that works on units holds no intent and claims no epoch.
UnitPlaces == {"reconcile", "settle", "settled", "complete", "members", "release", "patch", "stop"}

\* A thread that reconciles a unit, reports on it or releases it: it serves no order and binds no Cell.
UnitWork(r) ==
  /\ DOMAIN r = ThreadFields /\ r.at \in UnitPlaces
  /\ r.work = NoWork /\ r.owes \in Works \cup {NoWork} /\ r.bind = [c \in CellIds |-> NoEpoch] /\ r.todo = {} /\ r.held \subseteq Unit
  /\ r.at # "reconcile" => r.unit \in Unit
  /\ r.at \in {"complete", "settled", "members", "release", "stop"} => r.want \in Ends
  /\ r.at = "patch" => r.want \in Ends \cup {"running"}
  /\ r.at = "patch" /\ r.local => r.want \in Ends

\* What a thread may rely on at each place of its request.
Sound(t, th, ints, air) ==
  /\ DOMAIN th = ThreadFields
  /\ th.work \in Works \cup {NoWork} /\ th.owes \in Works \cup {NoWork}
  /\ th.bind \in [CellIds -> Epochs \cup {NoEpoch}] /\ th.todo \subseteq CellIds /\ th.held \subseteq Unit
  /\ th.at \in {"activate", "record", "policy", "bound", "undone"} => th.cell \in CellIds
  /\ th.at = "record" => th.bind[th.cell] \in Epochs
  /\ th.at \in UnitPlaces => UnitWork(th)
  /\ th.at \in {"undo", "undone", "observe"} => th.want \in {"failed", "cancelled"} /\ th.work \in Works
  /\ Attempting(th) => th.work \in Works /\ Mine(t, th) \in ints
  /\ th.at \in {"bind", "bound"} => Exists(air[th.work])

\* Every thread may rely on its place, and no two threads share an attempt.
ThreadsOK ==
  /\ DOMAIN thread = Threads
  /\ \A t \in Threads : Sound(t, thread[t], intents, airflow)
  /\ \A t, u \in Threads : Attempting(thread[t]) /\ Attempting(thread[u]) /\ t # u =>
                             thread[t].work # thread[u].work \/ thread[t].token # thread[u].token

\* The types of the Cell rows.
CellsOK ==
  /\ DOMAIN cell = CellIds
  /\ \A c \in CellIds : /\ DOMAIN cell[c] = RowFields /\ cell[c].epoch \in Epochs /\ cell[c].run \in Works \cup {NoWork}
                        /\ cell[c].state \in {"created"} \cup LiveCellStates \cup Ends

\* Order w has recorded epoch e of Cell c, or a thread that serves w is about to.
Claimed(w, c, e, m, th) ==
  \/ w \in Works /\ m[w][c].epoch = e
  \/ \E t \in Threads : th[t].work = w /\ th[t].bind[c] = e

\* An epoch that is claimed was activated, and the Cell still names the claimant while it is current.
Activated(w, e, row) == e <= row.epoch /\ (e = row.epoch => row.by = w /\ row.state # "created")

\* An epoch of a Cell is claimed by one order at most, which activated it.
ClaimsOK ==
  \A c \in CellIds, e \in Epochs :
    /\ \A w, v \in Works \cup {NoWork} : Claimed(w, c, e, member, thread) /\ Claimed(v, c, e, member, thread) => w = v
    /\ \A w \in Works \cup {NoWork} : Claimed(w, c, e, member, thread) => Activated(w, e, cell[c])

\* Runs of attached orders exist, and so do the runs behind deliveries.
RunsOK ==
  /\ DOMAIN airflow = Works
  /\ \A w \in Attached : Exists(airflow[w])
  /\ RunBehindDelivery

\* The invariant of everything but the store.
LocalInv == ThreadsOK /\ CellsOK /\ ClaimsOK /\ RunsOK

\* The inductive invariant of the backend.
BackendInv == StoreInv /\ LocalInv

-----------------------------------------------------------------------------
\* A thread between two requests, or between two orders of one.
Rests(th) ==
  /\ DOMAIN th = ThreadFields /\ th.work = NoWork /\ th.owes = NoWork /\ th.todo = {} /\ th.held = {}
  /\ th.bind = [c \in CellIds |-> NoEpoch] /\ th.at \in {"idle", "sweep", "pump"}

\* The fields of an idle thread.
LEMMA IdleFields ==
  /\ DOMAIN IdleThread = ThreadFields /\ IdleThread.work = NoWork /\ IdleThread.owes = NoWork /\ IdleThread.todo = {}
  /\ IdleThread.held = {} /\ IdleThread.bind = [c \in CellIds |-> NoEpoch] /\ IdleThread.at = "idle" /\ ~IdleThread.local
  BY DEF IdleThread, ThreadFields

\* An idle thread, one that sweeps or pumps, and one that returned rely on nothing.
LEMMA RestingPlaces ==
  /\ Rests(IdleThread)
  /\ \A p \in {"idle", "sweep", "pump"} : Rests([IdleThread EXCEPT !.at = p])
  /\ \A t, ok : Rests(Returned(t, ok))
  <1>1. Rests(IdleThread)
    BY IdleFields DEF Rests
  <1>2. ASSUME NEW p \in {"idle", "sweep", "pump"} PROVE Rests([IdleThread EXCEPT !.at = p])
    BY IdleFields DEF Rests, ThreadFields
  <1>3. ASSUME NEW x PROVE Rests([IdleThread EXCEPT !.at = "pump", !.seen = x])
    BY IdleFields DEF Rests, ThreadFields
  <1> QED BY <1>1, <1>2, <1>3 DEF Returned

\* A thread that rests is sound whatever the intents and the runs are.
LEMMA RestIsSound ==
  ASSUME NEW t, NEW th, Rests(th), NEW ints, NEW air
  PROVE  Sound(t, th, ints, air) /\ ~Attempting(th)
  <1>1. th.bind \in [CellIds -> Epochs \cup {NoEpoch}]
    BY DEF Rests
  <1> QED BY <1>1 DEF Rests, Sound, UnitPlaces, Attempting

\* Epochs are numbers, and "no epoch" is none of them.
LEMMA EpochFacts == NoEpoch \notin Epochs /\ Epochs \subseteq Nat
  BY NumberAssumption DEF NoEpoch

-----------------------------------------------------------------------------
\* One thread moves: the others keep their intents.
LEMMA MoveThread ==
  ASSUME ThreadsOK, NEW t \in Threads, NEW r, Become(t, r), Sound(t, r, intents', airflow'),
         \A w \in Works : Exists(airflow[w]) => Exists(airflow'[w]),
         intents \subseteq intents' \/ (Attempting(thread[t]) /\ intents \ {Mine(t, thread[t])} \subseteq intents'),
         Attempting(r) => \/ Attempting(thread[t]) /\ r.work = thread[t].work /\ r.token = thread[t].token
                          \/ \A i \in intents : i.work = r.work => i.token # r.token
  PROVE  ThreadsOK'
  <1>1. DOMAIN thread = Threads /\ (\A p \in Threads : Sound(p, thread[p], intents, airflow))
        /\ \A p, u \in Threads : Attempting(thread[p]) /\ Attempting(thread[u]) /\ p # u =>
                             thread[p].work # thread[u].work \/ thread[p].token # thread[u].token
    BY DEF ThreadsOK
  <1>2. DOMAIN thread' = Threads /\ thread'[t] = r /\ \A p \in Threads : p # t => thread'[p] = thread[p]
    BY <1>1 DEF Become
  <1>3. ASSUME NEW p \in Threads, Attempting(thread[p])
        PROVE  thread[p].work \in Works /\ Mine(p, thread[p]) \in intents
               /\ Mine(p, thread[p]).work = thread[p].work /\ Mine(p, thread[p]).token = thread[p].token
    <2>1. Sound(p, thread[p], intents, airflow)
      BY <1>1
    <2>2. thread[p].work \in Works /\ Mine(p, thread[p]) \in intents
      BY <1>3, <2>1 DEF Sound, UnitPlaces
    <2>3. Mine(p, thread[p]).work = thread[p].work /\ Mine(p, thread[p]).token = thread[p].token
      BY DEF Mine
    <2> QED BY <2>2, <2>3
  <1>4. ASSUME NEW p \in Threads, p # t PROVE Sound(p, thread[p], intents', airflow')
    <2>1. Sound(p, thread[p], intents, airflow)
      BY <1>1
    <2>2. Attempting(thread[p]) => Mine(p, thread[p]) \in intents'
      <3> SUFFICES ASSUME Attempting(thread[p]) PROVE Mine(p, thread[p]) \in intents'
        OBVIOUS
      <3>1. Attempting(thread[t]) => Mine(p, thread[p]) # Mine(t, thread[t])
        BY <1>1, <1>3, <1>4
      <3> QED BY <1>3, <3>1
    <2>3. thread[p].at \in {"bind", "bound"} => thread[p].work \in Works
      BY <2>1 DEF Sound, UnitPlaces, Attempting
    <2> QED BY <2>1, <2>2, <2>3 DEF Sound, UnitPlaces
  <1>5. \A p \in Threads : Sound(p, thread'[p], intents', airflow')
    BY <1>2, <1>4
  <1>6. ASSUME NEW p \in Threads, p # t, Attempting(thread[p]), Attempting(r)
        PROVE  thread[p].work # r.work \/ thread[p].token # r.token
    BY <1>1, <1>3, <1>6
  <1>7. \A p, u \in Threads : Attempting(thread'[p]) /\ Attempting(thread'[u]) /\ p # u =>
                             thread'[p].work # thread'[u].work \/ thread'[p].token # thread'[u].token
    BY <1>1, <1>2, <1>6
  <1> QED BY <1>2, <1>5, <1>7 DEF ThreadsOK

\* What the thread goes on with claims nothing new.
OldClaims(t, r) ==
  \/ r.work = thread[t].work /\ r.bind = thread[t].bind
  \/ \A c \in CellIds : r.bind[c] \notin Epochs
  \/ r.work \in Works /\ \A c \in CellIds : r.bind[c] = member[r.work][c].epoch

\* A step of one thread that adds no claim leaves the claims as they were.
LEMMA ClaimsOfThread ==
  ASSUME DOMAIN thread = Threads, NEW t \in Threads, NEW r, Become(t, r), OldClaims(t, r),
         \A w \in Works, c \in CellIds : member'[w][c].epoch \in Epochs => Claimed(w, c, member'[w][c].epoch, member, thread),
         NEW w \in Works \cup {NoWork}, NEW c \in CellIds, NEW e \in Epochs, Claimed(w, c, e, member', thread')
  PROVE  Claimed(w, c, e, member, thread)
  <1>1. thread'[t] = r /\ \A p \in Threads : p # t => thread'[p] = thread[p]
    BY DEF Become
  <1>2. CASE w \in Works /\ member'[w][c].epoch = e
    BY <1>2
  <1>3. ASSUME NEW p \in Threads, thread'[p].work = w, thread'[p].bind[c] = e PROVE Claimed(w, c, e, member, thread)
    <2>1. CASE p # t
      BY <1>1, <1>3, <2>1 DEF Claimed
    <2>2. CASE p = t
      BY <1>1, <1>3, <2>2 DEF Claimed, OldClaims
    <2> QED BY <2>1, <2>2
  <1> QED BY <1>2, <1>3 DEF Claimed

\* Cells keep their epoch and their order.
SameCells ==
  \A c \in CellIds : cell'[c].epoch = cell[c].epoch /\ cell'[c].by = cell[c].by /\ (cell'[c].state = "created" => cell[c].state = "created")

\* Claims that do not grow, on Cells that do not change, stay sound.
LEMMA ClaimsKept ==
  ASSUME ClaimsOK, SameCells,
         \A w \in Works \cup {NoWork}, c \in CellIds, e \in Epochs :
            Claimed(w, c, e, member', thread') => Claimed(w, c, e, member, thread)
  PROVE  ClaimsOK'
  BY DEF ClaimsOK, SameCells, Activated

\* A thread claims the epoch the Cell has now, which is its order's.
LEMMA ClaimsGrow ==
  ASSUME ClaimsOK, NEW a \in Works, NEW b \in CellIds, cell'[b].epoch \in Epochs, cell[b].epoch \in Epochs,
         \A c \in CellIds : c # b => cell'[c] = cell[c],
         cell'[b].by = a, cell'[b].state # "created",
         \/ cell'[b].epoch > cell[b].epoch
         \/ cell'[b].epoch = cell[b].epoch /\ (cell[b].state = "created" \/ cell[b].by = a),
         \A w \in Works \cup {NoWork}, c \in CellIds, e \in Epochs :
            Claimed(w, c, e, member', thread') =>
              Claimed(w, c, e, member, thread) \/ (w = a /\ c = b /\ e = cell'[b].epoch)
  PROVE  ClaimsOK'
  <1>1. ASSUME NEW w \in Works \cup {NoWork}, NEW c \in CellIds, NEW e \in Epochs, Claimed(w, c, e, member', thread')
        PROVE  /\ Activated(w, e, cell'[c])
               /\ (c = b /\ e = cell'[b].epoch => w = a)
    <2>1. CASE Claimed(w, c, e, member, thread)
      <3>1. Activated(w, e, cell[c])
        BY <2>1 DEF ClaimsOK
      <3>2. CASE c # b
        BY <3>1, <3>2
      <3>3. CASE c = b
        <4>1. e \in Nat /\ cell[b].epoch \in Nat /\ cell'[b].epoch \in Nat
          BY EpochFacts
        <4>2. e <= cell[b].epoch /\ (e = cell[b].epoch => cell[b].by = w /\ cell[b].state # "created")
          BY <3>1, <3>3 DEF Activated
        <4>3. e <= cell'[b].epoch /\ (e = cell'[b].epoch => w = a)
          BY <4>1, <4>2
        <4> QED BY <3>3, <4>3 DEF Activated
      <3> QED BY <3>2, <3>3
    <2>2. CASE w = a /\ c = b /\ e = cell'[b].epoch
      BY <2>2, EpochFacts DEF Activated
    <2> QED BY <1>1, <2>1, <2>2
  <1>2. ASSUME NEW w \in Works \cup {NoWork}, NEW v \in Works \cup {NoWork}, NEW c \in CellIds, NEW e \in Epochs,
               Claimed(w, c, e, member', thread'), Claimed(v, c, e, member', thread')
        PROVE  w = v
    <2>1. CASE c = b /\ e = cell'[b].epoch
      BY <1>1, <1>2, <2>1
    <2>2. CASE ~(c = b /\ e = cell'[b].epoch)
      BY <1>2, <2>2 DEF ClaimsOK
    <2> QED BY <2>1, <2>2
  <1> QED BY <1>1, <1>2 DEF ClaimsOK

\* Runs that exist go on existing, and a new binding names one that does.
LEMMA RunsKept ==
  ASSUME RunsOK, DOMAIN airflow' = Works, \A w \in Works : Exists(airflow[w]) => Exists(airflow'[w]),
         \A w \in Works : work'[w] = "bound" => work[w] = "bound" \/ Exists(airflow'[w]),
         \A c \in CellIds : cell'[c].run # NoWork =>
            \/ cell'[c].run = cell[c].run /\ cell'[c].by = cell[c].by /\ cell[c].run \in Works
            \/ cell'[c].by = cell'[c].run /\ Exists(airflow'[cell'[c].run])
  PROVE  RunsOK'
  <1>1. \A w \in Attached : w \in Works
    BY BackendAssumption
  <1> QED BY <1>1 DEF RunsOK, RunBehindDelivery, Exists

\* A step of a thread that writes neither a Cell nor Airflow.
LEMMA StoreMove ==
  ASSUME LocalInv, NEW t \in Threads, NEW r, Become(t, r), UNCHANGED <<cell, airflow>>,
         Sound(t, r, intents', airflow), OldClaims(t, r),
         intents \subseteq intents' \/ (Attempting(thread[t]) /\ intents \ {Mine(t, thread[t])} \subseteq intents'),
         Attempting(r) => \/ Attempting(thread[t]) /\ r.work = thread[t].work /\ r.token = thread[t].token
                          \/ \A i \in intents : i.work = r.work => i.token # r.token,
         \A w \in Works, c \in CellIds : member'[w][c].epoch \in Epochs => Claimed(w, c, member'[w][c].epoch, member, thread),
         \A w \in Works : work'[w] = "bound" => work[w] = "bound" \/ Exists(airflow[w])
  PROVE  LocalInv'
  <1>1. ThreadsOK /\ CellsOK /\ ClaimsOK /\ RunsOK
    BY DEF LocalInv
  <1>2. ThreadsOK'
    BY <1>1, MoveThread
  <1>3. CellsOK'
    BY <1>1 DEF CellsOK
  <1>4. DOMAIN thread = Threads
    BY <1>1 DEF ThreadsOK
  <1>5. ClaimsOK'
    BY <1>1, <1>4, ClaimsOfThread, ClaimsKept DEF SameCells
  <1>6. RunsOK'
    <2>1. \A c \in CellIds : cell[c].run # NoWork => cell[c].run \in Works
      BY <1>1 DEF CellsOK
    <2>2. DOMAIN airflow' = Works
      BY <1>1 DEF RunsOK
    <2> QED BY <1>1, <2>1, <2>2, RunsKept
  <1> QED BY <1>2, <1>3, <1>5, <1>6 DEF LocalInv

\* A step of a thread that writes nothing but its own variables.
LEMMA QuietMove ==
  ASSUME LocalInv, NEW t \in Threads, NEW r, Become(t, r), UNCHANGED <<admissionVars, cell, airflow>>,
         Sound(t, r, intents, airflow), OldClaims(t, r),
         Attempting(r) => Attempting(thread[t]) /\ r.work = thread[t].work /\ r.token = thread[t].token
  PROVE  LocalInv'
  <1>1. UNCHANGED <<work, member, intents>>
    BY DEF admissionVars
  <1>2. \A w \in Works, c \in CellIds : Claimed(w, c, member[w][c].epoch, member, thread)
    BY DEF Claimed
  <1> QED BY <1>1, <1>2, StoreMove

\* A thread comes to rest without writing.
LEMMA RestMove ==
  ASSUME LocalInv, NEW t \in Threads, NEW r, Become(t, r), UNCHANGED <<admissionVars, cell, airflow>>, Rests(r)
  PROVE  LocalInv'
  <1>1. \A c \in CellIds : r.bind[c] \notin Epochs
    BY EpochFacts DEF Rests
  <1> QED BY <1>1, RestIsSound, QuietMove DEF OldClaims

\* A thread returns from its delivery with any operation that gives the intent up.
LEMMA GiveUp ==
  ASSUME LocalInv, NEW t \in Threads, NEW r, Become(t, r), UNCHANGED <<cell, airflow, member>>, Rests(r), Attempting(thread[t]),
         intents' = intents \ {Own(t)},
         \A w \in Works : work'[w] = "bound" => work[w] = "bound" \/ Exists(airflow[w])
  PROVE  LocalInv'
  <1>1. \A c \in CellIds : r.bind[c] \notin Epochs
    BY EpochFacts DEF Rests
  <1>2. Own(t) = Mine(t, thread[t])
    BY DEF Own, Mine, Proc
  <1>3. \A w \in Works, c \in CellIds : Claimed(w, c, member[w][c].epoch, member, thread)
    BY DEF Claimed
  <1> QED BY <1>1, <1>2, <1>3, RestIsSound, StoreMove DEF OldClaims

\* A thread that gives its attempt up keeps the invariant.
LEMMA AbortMove ==
  ASSUME LocalInv, NEW t \in Threads, Attempting(thread[t]), AttemptAborts(Own(t)), Become(t, Returned(t, FALSE)),
         UNCHANGED <<cell, airflow>>
  PROVE  LocalInv'
  <1>1. UNCHANGED <<member, work>> /\ intents' = intents \ {Own(t)}
    BY DEF AttemptAborts
  <1> QED BY <1>1, RestingPlaces, GiveUp

-----------------------------------------------------------------------------
\* What is left of a thread's variables when one of them is set.
Kept(r, th) == r.work = th.work /\ r.token = th.token /\ r.owes = th.owes

\* What the invariant says of one thread.
LEMMA ThreadFacts ==
  ASSUME LocalInv, NEW t \in Threads
  PROVE  /\ DOMAIN thread = Threads /\ DOMAIN thread[t] = ThreadFields /\ Sound(t, thread[t], intents, airflow)
         /\ Own(t) = Mine(t, thread[t]) /\ ProcOf[t] \in Procs
  <1>1. DOMAIN thread = Threads /\ Sound(t, thread[t], intents, airflow)
    BY DEF LocalInv, ThreadsOK
  <1>2. ProcOf[t] \in Procs
    BY BackendAssumption
  <1> QED BY <1>1, <1>2 DEF Sound, UnitPlaces, Own, Mine, Proc

\* Moving a thread changes its place only.
LEMMA GotoFields ==
  ASSUME NEW th, DOMAIN th = ThreadFields, NEW p
  PROVE  LET r == [th EXCEPT !.at = p] IN
         /\ DOMAIN r = ThreadFields /\ r.at = p /\ r.work = th.work /\ r.token = th.token /\ r.owes = th.owes /\ r.bind = th.bind
         /\ r.todo = th.todo /\ r.held = th.held /\ r.cell = th.cell /\ r.unit = th.unit /\ r.want = th.want
  BY DEF ThreadFields

\* Sending a thread to recovery changes its place, its flag and its Cell only.
LEMMA RecoverFields ==
  ASSUME NEW th, DOMAIN th = ThreadFields, NEW l, NEW x
  PROVE  LET r == [th EXCEPT !.at = "recover", !.local = l, !.cell = x] IN
         /\ DOMAIN r = ThreadFields /\ r.at = "recover" /\ r.work = th.work /\ r.token = th.token /\ r.owes = th.owes /\ r.bind = th.bind
         /\ r.todo = th.todo /\ r.held = th.held
  BY DEF ThreadFields

\* An attempt that fails goes to its recovery.
LEMMA RecoverMove ==
  ASSUME LocalInv, NEW t \in Threads, Attempting(thread[t]), UNCHANGED <<admissionVars, cell, airflow>>, NEW l, NEW x,
         Become(t, [thread[t] EXCEPT !.at = "recover", !.local = l, !.cell = x])
  PROVE  LocalInv'
  <1> DEFINE r == [thread[t] EXCEPT !.at = "recover", !.local = l, !.cell = x]
  <1>1. DOMAIN r = ThreadFields /\ r.at = "recover" /\ r.work = thread[t].work /\ r.token = thread[t].token /\ r.owes = thread[t].owes
        /\ r.bind = thread[t].bind /\ r.todo = thread[t].todo /\ r.held = thread[t].held
    BY ThreadFacts, RecoverFields
  <1>2. Sound(t, thread[t], intents, airflow)
    BY ThreadFacts
  <1> HIDE DEF r
  <1>3. Sound(t, r, intents, airflow)
    BY <1>1, <1>2 DEF Sound, UnitPlaces, Attempting, Mine
  <1> QED BY <1>1, <1>3, QuietMove DEF OldClaims, r

\* Attaching to an order keeps the invariant.
LEMMA AttachMove ==
  ASSUME LocalInv, NEW t \in Threads, Attach(t)
  PROVE  LocalInv'
  <1>1. thread[t].at = "attach" /\ UNCHANGED <<admissionVars, cell, airflow>>
    BY DEF Attach, At
  <1>2. Attempting(thread[t]) /\ Sound(t, thread[t], intents, airflow) /\ DOMAIN thread[t] = ThreadFields
    BY <1>1, ThreadFacts DEF Attempting
  <1>3. CASE Goto(t, "look")
    <2> DEFINE r == [thread[t] EXCEPT !.at = "look"]
    <2>1. DOMAIN r = ThreadFields /\ r.at = "look" /\ Kept(r, thread[t]) /\ r.bind = thread[t].bind
          /\ r.todo = thread[t].todo /\ r.held = thread[t].held
      BY <1>2, GotoFields DEF Kept
    <2>2. Become(t, r)
      BY <1>3 DEF Goto
    <2> HIDE DEF r
    <2>3. Sound(t, r, intents, airflow)
      BY <1>2, <2>1 DEF Sound, UnitPlaces, Attempting, Mine, Kept
    <2> QED BY <1>1, <1>2, <2>1, <2>2, <2>3, QuietMove DEF OldClaims, Kept
  <1>4. CASE Become(t, [thread[t] EXCEPT !.at = "recover", !.local = TRUE, !.cell = NoCell])
    BY <1>1, <1>2, <1>4, RecoverMove
  <1> QED BY <1>3, <1>4 DEF Attach

\* The recorded epochs of an order are epochs, or none.
LEMMA MemberEpochs ==
  ASSUME StoreInv, NEW w \in Works
  PROVE  [c \in CellIds |-> member[w][c].epoch] \in [CellIds -> Epochs \cup {NoEpoch}]
  <1>1. member \in [Works -> [CellIds -> Member]]
    BY DEF StoreInv, TypeOK
  <1>2. \A c \in CellIds : member[w][c] \in Member
    BY <1>1
  <1>3. \A c \in CellIds : member[w][c].epoch \in Epochs \cup {NoEpoch}
    BY <1>2 DEF Member
  <1> QED BY <1>3

\* The thread reads the members of its order and compensates.
LEMMA UndoMove ==
  ASSUME StoreInv, LocalInv, NEW t \in Threads, NEW r, Become(t, r), UNCHANGED <<admissionVars, cell, airflow>>,
         thread[t].at \in {"attach", "recover"}, DOMAIN r = ThreadFields, Kept(r, thread[t]), r.held = thread[t].held,
         r.at \in {"undo", "observe"}, r.want = "failed", r.todo \subseteq CellIds,
         r.bind = [c \in CellIds |-> member[thread[t].work][c].epoch]
  PROVE  LocalInv'
  <1>1. Attempting(thread[t]) /\ Attempting(r)
    BY DEF Attempting
  <1>2. Sound(t, thread[t], intents, airflow)
    BY ThreadFacts
  <1>3. thread[t].work \in Works
    BY <1>1, <1>2 DEF Sound, UnitPlaces
  <1>4. Sound(t, r, intents, airflow)
    BY <1>1, <1>2, <1>3, MemberEpochs DEF Sound, UnitPlaces, Kept, Mine
  <1>5. OldClaims(t, r)
    BY <1>3 DEF OldClaims, Kept
  <1> QED BY <1>1, <1>4, <1>5, QuietMove DEF Kept

\* A refused attachment is undone with the recorded epochs.
LEMMA AttachRefusedMove ==
  ASSUME StoreInv, LocalInv, NEW t \in Threads, AttachRefused(t)
  PROVE  LocalInv'
  <1> DEFINE b == [c \in CellIds |-> member[thread[t].work][c].epoch]
             r == [thread[t] EXCEPT !.at = "undo", !.want = "failed", !.bind = b]
  <1>1. thread[t].at = "attach" /\ UNCHANGED <<admissionVars, cell, airflow>> /\ Become(t, r)
    BY DEF AttachRefused, At
  <1>2. Sound(t, thread[t], intents, airflow) /\ DOMAIN thread[t] = ThreadFields
    BY ThreadFacts
  <1> HIDE DEF b
  <1>3. DOMAIN r = ThreadFields /\ r.at = "undo" /\ r.want = "failed" /\ Kept(r, thread[t]) /\ r.bind = b
        /\ r.todo = thread[t].todo /\ r.held = thread[t].held
    BY <1>2 DEF ThreadFields, Kept
  <1>4. thread[t].todo \subseteq CellIds
    BY <1>2 DEF Sound, UnitPlaces
  <1> HIDE DEF r
  <1> QED BY <1>1, <1>3, <1>4, UndoMove DEF b

\* Retiring an attempt is undone with the recorded epochs.
LEMMA RetireMove ==
  ASSUME StoreInv, LocalInv, NEW t \in Threads, Retire(t)
  PROVE  LocalInv'
  <1> DEFINE b == [c \in CellIds |-> member[thread[t].work][c].epoch]
             a == IF thread[t].local THEN "undo" ELSE "observe"
             r == [thread[t] EXCEPT !.at = a, !.want = "failed", !.todo = Cells(thread[t].work), !.bind = b]
  <1>1. thread[t].at = "recover" /\ UNCHANGED <<admissionVars, cell, airflow>> /\ Become(t, r)
    BY DEF Retire, At
  <1>2. Sound(t, thread[t], intents, airflow) /\ DOMAIN thread[t] = ThreadFields
    BY ThreadFacts
  <1>3. a \in {"undo", "observe"}
    OBVIOUS
  <1> HIDE DEF b, a
  <1>4. DOMAIN r = ThreadFields /\ r.at = a /\ r.want = "failed" /\ Kept(r, thread[t]) /\ r.bind = b
        /\ r.todo = Cells(thread[t].work) /\ r.held = thread[t].held
    BY <1>2 DEF ThreadFields, Kept
  <1>5. Cells(thread[t].work) \subseteq CellIds
    BY <1>1, <1>2, OrderAssumption DEF Sound, UnitPlaces, Attempting
  <1> HIDE DEF r
  <1> QED BY <1>1, <1>3, <1>4, <1>5, UndoMove DEF b

\* An attempt goes on to another of its places.
LEMMA AttemptMove ==
  ASSUME LocalInv, NEW t \in Threads, NEW r, Become(t, r), UNCHANGED <<admissionVars, cell>>, Attempting(thread[t]),
         DOMAIN airflow' = Works, \A w \in Works : Exists(airflow[w]) => Exists(airflow'[w]),
         DOMAIN r = ThreadFields, Kept(r, thread[t]), r.bind = thread[t].bind, r.held = thread[t].held, r.todo \subseteq CellIds,
         r.at \in {"look", "activate", "policy", "post", "bind", "bound", "recover", "leave"},
         r.at \in {"activate", "policy", "bound"} => r.cell \in CellIds,
         r.at \in {"bind", "bound"} => Exists(airflow'[thread[t].work])
  PROVE  LocalInv'
  <1>1. ThreadsOK /\ CellsOK /\ ClaimsOK /\ RunsOK
    BY DEF LocalInv
  <1>2. Sound(t, thread[t], intents, airflow) /\ DOMAIN thread = Threads
    BY ThreadFacts
  <1>3. UNCHANGED <<work, member, intents>>
    BY DEF admissionVars
  <1>4. Attempting(r)
    BY DEF Attempting
  <1>5. Sound(t, r, intents, airflow')
    BY <1>2, <1>4 DEF Sound, UnitPlaces, Kept, Mine
  <1>6. OldClaims(t, r)
    BY DEF OldClaims, Kept
  <1>7. ThreadsOK'
    BY <1>1, <1>3, <1>5, MoveThread DEF Kept
  <1>8. CellsOK' /\ SameCells
    BY <1>1 DEF CellsOK, SameCells
  <1>9. ClaimsOK'
    <2>1. \A w \in Works, c \in CellIds : Claimed(w, c, member[w][c].epoch, member, thread)
      BY DEF Claimed
    <2> QED BY <1>1, <1>2, <1>3, <1>6, <1>8, <2>1, ClaimsOfThread, ClaimsKept
  <1>10. RunsOK'
    <2>1. \A c \in CellIds : cell[c].run # NoWork => cell[c].run \in Works
      BY <1>1 DEF CellsOK
    <2> QED BY <1>1, <1>3, <2>1, RunsKept
  <1> QED BY <1>7, <1>8, <1>9, <1>10 DEF LocalInv

\* A thread claims the epoch of the Cell in hand: it adopts an activation of its order, or makes one.
LEMMA ClaimMove ==
  ASSUME LocalInv, NEW t \in Threads, NEW b \in CellIds, NEW r, Become(t, r), UNCHANGED <<admissionVars, airflow>>, Attempting(thread[t]),
         CellsOK', \A c \in CellIds : c # b => cell'[c] = cell[c],
         cell'[b].by = thread[t].work, cell'[b].state # "created",
         \/ cell'[b].epoch > cell[b].epoch
         \/ cell'[b].epoch = cell[b].epoch /\ (cell[b].state = "created" \/ cell[b].by = thread[t].work),
         cell'[b].run # NoWork => cell'[b].run = cell[b].run /\ cell'[b].by = cell[b].by,
         DOMAIN r = ThreadFields, Kept(r, thread[t]), r.held = thread[t].held, r.todo = thread[t].todo,
         r.at = "record", r.cell = b, r.bind = [thread[t].bind EXCEPT ![b] = cell'[b].epoch]
  PROVE  LocalInv'
  <1>1. ThreadsOK /\ CellsOK /\ ClaimsOK /\ RunsOK
    BY DEF LocalInv
  <1>2. Sound(t, thread[t], intents, airflow) /\ DOMAIN thread = Threads
    BY ThreadFacts
  <1>3. UNCHANGED <<work, member, intents, airflow>>
    BY DEF admissionVars
  <1>4. thread[t].bind \in [CellIds -> Epochs \cup {NoEpoch}] /\ thread[t].work \in Works
    BY <1>2 DEF Sound, UnitPlaces
  <1>5. cell'[b].epoch \in Epochs /\ cell[b].epoch \in Epochs
    BY <1>1 DEF CellsOK
  <1>6. r.bind \in [CellIds -> Epochs \cup {NoEpoch}] /\ r.bind[b] = cell'[b].epoch
        /\ \A c \in CellIds : c # b => r.bind[c] = thread[t].bind[c]
    BY <1>4, <1>5
  <1>7. Attempting(r)
    BY DEF Attempting
  <1>8. Sound(t, r, intents, airflow)
    BY <1>2, <1>5, <1>6, <1>7 DEF Sound, UnitPlaces, Kept, Mine
  <1>9. ThreadsOK'
    BY <1>1, <1>3, <1>8, MoveThread DEF Kept
  <1>10. thread'[t] = r /\ \A p \in Threads : p # t => thread'[p] = thread[p]
    BY <1>2 DEF Become
  <1>11. ASSUME NEW w \in Works \cup {NoWork}, NEW c \in CellIds, NEW e \in Epochs, Claimed(w, c, e, member', thread')
         PROVE  Claimed(w, c, e, member, thread) \/ (w = thread[t].work /\ c = b /\ e = cell'[b].epoch)
    <2>1. CASE w \in Works /\ member'[w][c].epoch = e
      BY <1>3, <2>1 DEF Claimed
    <2>2. ASSUME NEW p \in Threads, thread'[p].work = w, thread'[p].bind[c] = e
          PROVE  Claimed(w, c, e, member, thread) \/ (w = thread[t].work /\ c = b /\ e = cell'[b].epoch)
      BY <1>6, <1>10, <2>2 DEF Claimed, Kept
    <2> QED BY <1>11, <2>1, <2>2 DEF Claimed
  <1>12. ClaimsOK'
    BY <1>1, <1>4, <1>5, <1>11, ClaimsGrow
  <1>13. RunsOK'
    <2>1. \A c \in CellIds : cell[c].run # NoWork => cell[c].run \in Works
      BY <1>1 DEF CellsOK
    <2>2. DOMAIN airflow' = Works
      BY <1>1, <1>3 DEF RunsOK
    <2>3. ASSUME NEW c \in CellIds, cell'[c].run # NoWork
          PROVE  cell'[c].run = cell[c].run /\ cell'[c].by = cell[c].by /\ cell[c].run \in Works
      BY <2>1, <2>3
    <2> QED BY <1>1, <1>3, <2>2, <2>3, RunsKept
  <1> QED BY <1>9, <1>12, <1>13 DEF LocalInv

\* Reading a Cell keeps the invariant.
LEMMA LookMove ==
  ASSUME LocalInv, NEW t \in Threads, NEW c \in CellIds, Look(t, c)
  PROVE  LocalInv'
  <1> DEFINE th == thread[t]
  <1>1. th.at = "look" /\ UNCHANGED <<admissionVars, cell, airflow>>
    BY DEF Look, At
  <1>2. Attempting(th) /\ Sound(t, th, intents, airflow) /\ DOMAIN th = ThreadFields
    BY <1>1, ThreadFacts DEF Attempting
  <1>3. DOMAIN airflow' = Works /\ CellsOK /\ th.todo \subseteq CellIds
    BY <1>1, <1>2 DEF LocalInv, RunsOK, Sound, UnitPlaces
  <1>4. ASSUME NEW p \in {"policy", "activate"}, Become(t, [th EXCEPT !.at = p, !.cell = c]) PROVE LocalInv'
    <2> DEFINE r == [th EXCEPT !.at = p, !.cell = c]
    <2>1. DOMAIN r = ThreadFields /\ r.at = p /\ r.cell = c /\ Kept(r, th) /\ r.bind = th.bind /\ r.held = th.held /\ r.todo = th.todo
      BY <1>2 DEF ThreadFields, Kept
    <2>2. Become(t, r)
      BY <1>4
    <2> HIDE DEF r
    <2> QED BY <1>1, <1>2, <1>3, <2>1, <2>2, AttemptMove
  <1>5. CASE Become(t, [th EXCEPT !.at = "recover", !.local = TRUE, !.cell = NoCell])
    BY <1>1, <1>2, <1>5, RecoverMove
  <1>6. CASE Live(c) /\ cell[c].by = th.work /\ Become(t, [th EXCEPT !.at = "record", !.cell = c, !.bind[c] = cell[c].epoch])
    <2> DEFINE e == cell[c].epoch
               b == [th.bind EXCEPT ![c] = e]
               r == [th EXCEPT !.at = "record", !.cell = c, !.bind = b]
    <2>1. Become(t, r)
      BY <1>2, <1>6 DEF ThreadFields
    <2> HIDE DEF e, b
    <2>2. DOMAIN r = ThreadFields /\ r.at = "record" /\ r.cell = c /\ Kept(r, th) /\ r.bind = b /\ r.held = th.held /\ r.todo = th.todo
      BY <1>2 DEF ThreadFields, Kept
    <2> HIDE DEF r
    <2>3. cell' = cell /\ CellsOK' /\ cell[c].state # "created"
      BY <1>1, <1>3, <1>6 DEF CellsOK, Live, LiveCellStates
    <2> QED BY <1>1, <1>2, <1>6, <2>1, <2>2, <2>3, ClaimMove DEF e, b
  <1> QED BY <1>4, <1>5, <1>6 DEF Look

\* Activating a Cell claims a new epoch for the order, or adopts the one it has.
LEMMA ActivateMove ==
  ASSUME LocalInv, NEW t \in Threads, Activate(t)
  PROVE  LocalInv'
  <1> DEFINE th == thread[t]
             c == th.cell
             e == IF cell[c].state = "created" THEN cell[c].epoch ELSE cell[c].epoch + 1
             b == [th.bind EXCEPT ![c] = e]
             r == [th EXCEPT !.at = "record", !.bind = b]
             n == [epoch |-> e, state |-> "dispatching", by |-> th.work, run |-> NoWork, keys |-> cell[c].keys]
  <1>1. th.at = "activate" /\ UNCHANGED <<admissionVars, airflow>>
    BY DEF Activate, At
  <1>2. Attempting(th) /\ Sound(t, th, intents, airflow) /\ DOMAIN th = ThreadFields
    BY <1>1, ThreadFacts DEF Attempting
  <1>3. CellsOK /\ c \in CellIds
    BY <1>1, <1>2 DEF LocalInv, Sound, UnitPlaces
  <1>4. CASE Become(t, [th EXCEPT !.at = "recover", !.local = TRUE, !.cell = NoCell]) /\ UNCHANGED cell
    BY <1>1, <1>2, <1>4, RecoverMove
  <1>5. CASE e \in Epochs /\ cell' = [cell EXCEPT ![c] = n] /\ Become(t, [th EXCEPT !.at = "record", !.bind[c] = e])
    <2>1. Become(t, r)
      BY <1>2, <1>5 DEF ThreadFields
    <2>2. \/ e > cell[c].epoch
          \/ e = cell[c].epoch /\ (cell[c].state = "created" \/ cell[c].by = th.work)
      <3>1. cell[c].epoch \in Nat
        BY <1>3, EpochFacts DEF CellsOK
      <3>2. \A m \in Nat : m + 1 > m
        OBVIOUS
      <3> QED BY <3>1, <3>2
    <2> HIDE DEF b, e
    <2>3. DOMAIN r = ThreadFields /\ r.at = "record" /\ r.cell = c /\ Kept(r, th) /\ r.bind = b /\ r.held = th.held /\ r.todo = th.todo
      BY <1>2 DEF ThreadFields, Kept
    <2>4. DOMAIN n = RowFields /\ n.epoch = e /\ n.state = "dispatching" /\ n.by = th.work /\ n.run = NoWork
      BY DEF RowFields
    <2> HIDE DEF r, n
    <2>5. DOMAIN cell' = CellIds /\ cell'[c] = n /\ \A d \in CellIds : d # c => cell'[d] = cell[d]
      BY <1>3, <1>5 DEF CellsOK
    <2>6. CellsOK'
      BY <1>3, <1>5, <2>4, <2>5 DEF CellsOK, LiveCellStates
    <2> HIDE DEF c
    <2> QED BY <1>1, <1>2, <1>3, <2>1, <2>2, <2>3, <2>4, <2>5, <2>6, ClaimMove DEF b
  <1> QED BY <1>4, <1>5 DEF Activate

\* Recording the epoch in the store turns the thread's claim into the order's.
LEMMA RecordMove ==
  ASSUME StoreInv, LocalInv, NEW t \in Threads, Record(t)
  PROVE  LocalInv'
  <1> DEFINE th == thread[t]
  <1>1. th.at = "record" /\ UNCHANGED <<cell, airflow>>
    BY DEF Record, At
  <1>2. Attempting(th) /\ Sound(t, th, intents, airflow) /\ DOMAIN th = ThreadFields /\ Own(t) = Mine(t, th)
    BY <1>1, ThreadFacts DEF Attempting
  <1>3. CASE Become(t, [th EXCEPT !.at = "recover", !.local = TRUE, !.cell = NoCell]) /\ UNCHANGED admissionVars
    BY <1>1, <1>2, <1>3, RecoverMove
  <1>4. CASE RecordMemberEpoch(Own(t), th.cell, th.bind[th.cell]) /\ Goto(t, "policy")
    <2> DEFINE r == [th EXCEPT !.at = "policy"]
               c == th.cell
               e == th.bind[c]
    <2>1. DOMAIN r = ThreadFields /\ r.at = "policy" /\ r.cell = th.cell /\ Kept(r, th) /\ r.bind = th.bind /\ r.held = th.held /\ r.todo = th.todo
      BY <1>2, GotoFields DEF Kept
    <2>2. Become(t, r)
      BY <1>4 DEF Goto
    <2> HIDE DEF r
    <2>3. th.work \in Works /\ c \in CellIds /\ e \in Epochs
      BY <1>1, <1>2 DEF Sound, UnitPlaces
    <2>4. UNCHANGED <<work, intents>> /\ member' = [member EXCEPT ![th.work] = [member[th.work] EXCEPT ![c] = [member[th.work][c] EXCEPT !.epoch = e]]]
      <3>1. Own(t).work = th.work
        BY <1>2 DEF Mine
      <3> QED BY <1>4, <3>1 DEF RecordMemberEpoch
    <2>5. member \in [Works -> [CellIds -> Member]] /\ member[th.work][c] \in Member
      BY <2>3 DEF StoreInv, TypeOK
    <2>6. [member[th.work][c] EXCEPT !.epoch = e].epoch = e
      BY <2>5 DEF Member
    <2>7. Attempting(r) /\ Sound(t, r, intents, airflow)
      BY <1>1, <1>2, <2>1 DEF Sound, UnitPlaces, Kept, Mine, Attempting
    <2>8. ASSUME NEW w \in Works, NEW d \in CellIds
          PROVE  Claimed(w, d, member'[w][d].epoch, member, thread)
      <3>1. member'[w][d].epoch = IF w = th.work /\ d = c THEN e ELSE member[w][d].epoch
        BY <2>3, <2>4, <2>5, <2>6
      <3> QED BY <3>1 DEF Claimed
    <2>9. OldClaims(t, r)
      BY <2>1 DEF OldClaims, Kept
    <2> QED BY <1>1, <1>2, <2>1, <2>2, <2>4, <2>7, <2>8, <2>9, StoreMove DEF Kept
  <1> QED BY <1>3, <1>4 DEF Record

\* Writing the policy of a Cell keeps the invariant.
LEMMA PolicyMove ==
  ASSUME LocalInv, NEW t \in Threads, Policy(t)
  PROVE  LocalInv'
  <1> DEFINE th == thread[t]
             d == th.todo \ {th.cell}
             r == [th EXCEPT !.at = "look", !.todo = d, !.cell = NoCell]
  <1>1. th.at = "policy" /\ UNCHANGED <<admissionVars, cell, airflow>>
    BY DEF Policy, At
  <1>2. Attempting(th) /\ Sound(t, th, intents, airflow) /\ DOMAIN th = ThreadFields
    BY <1>1, ThreadFacts DEF Attempting
  <1>3. DOMAIN airflow' = Works /\ d \subseteq CellIds
    BY <1>1, <1>2 DEF LocalInv, RunsOK, Sound, UnitPlaces
  <1>4. CASE Become(t, [th EXCEPT !.at = "recover", !.local = TRUE, !.cell = NoCell])
    BY <1>1, <1>2, <1>4, RecoverMove
  <1>5. CASE Become(t, r)
    <2> HIDE DEF d
    <2>1. DOMAIN r = ThreadFields /\ r.at = "look" /\ Kept(r, th) /\ r.bind = th.bind /\ r.held = th.held /\ r.todo = d
      BY <1>2 DEF ThreadFields, Kept
    <2> HIDE DEF r
    <2> QED BY <1>1, <1>2, <1>3, <1>5, <2>1, AttemptMove
  <1>6. Become(t, r) \/ Become(t, [th EXCEPT !.at = "recover", !.local = TRUE, !.cell = NoCell])
    BY <1>2 DEF Policy
  <1> QED BY <1>4, <1>5, <1>6

\* The loop over the members starts again, to bind them.
LEMMA BindFields ==
  ASSUME NEW th, DOMAIN th = ThreadFields, NEW d
  PROVE  LET r == [th EXCEPT !.at = "bind", !.todo = d] IN
         DOMAIN r = ThreadFields /\ r.at = "bind" /\ Kept(r, th) /\ r.bind = th.bind /\ r.held = th.held /\ r.todo = d
  BY DEF ThreadFields, Kept

\* Going on when every member is bound keeps the invariant.
LEMMA MembersBoundMove ==
  ASSUME LocalInv, NEW t \in Threads, MembersBound(t)
  PROVE  LocalInv'
  <1> DEFINE th == thread[t]
  <1>1. th.at = "look" /\ UNCHANGED <<admissionVars, cell, airflow>>
    BY DEF MembersBound, At
  <1>2. Attempting(th) /\ Sound(t, th, intents, airflow) /\ DOMAIN th = ThreadFields
    BY <1>1, ThreadFacts DEF Attempting
  <1>3. DOMAIN airflow' = Works /\ th.todo \subseteq CellIds /\ Cells(th.work) \subseteq CellIds
        /\ \A w \in Attached : Exists(airflow[w])
    BY <1>1, <1>2, OrderAssumption DEF LocalInv, RunsOK, Sound, UnitPlaces
  <1>4. CASE th.work \in Attached /\ Become(t, [th EXCEPT !.at = "bind", !.todo = Cells(th.work)])
    <2> DEFINE r == [th EXCEPT !.at = "bind", !.todo = Cells(th.work)]
    <2>1. DOMAIN r = ThreadFields /\ r.at = "bind" /\ Kept(r, th) /\ r.bind = th.bind /\ r.held = th.held /\ r.todo = Cells(th.work)
      BY <1>2, BindFields
    <2>2. Become(t, r)
      BY <1>4
    <2> HIDE DEF r
    <2> QED BY <1>1, <1>2, <1>3, <1>4, <2>1, <2>2, AttemptMove
  <1>5. CASE Goto(t, "post")
    <2> DEFINE r == [th EXCEPT !.at = "post"]
    <2>1. DOMAIN r = ThreadFields /\ r.at = "post" /\ Kept(r, th) /\ r.bind = th.bind /\ r.held = th.held /\ r.todo = th.todo
      BY <1>2, GotoFields DEF Kept
    <2>2. Become(t, r)
      BY <1>5 DEF Goto
    <2> HIDE DEF r
    <2> QED BY <1>1, <1>2, <1>3, <2>1, <2>2, AttemptMove
  <1> QED BY <1>4, <1>5 DEF MembersBound

\* Posting the run to Airflow keeps the invariant.
LEMMA PostMove ==
  ASSUME LocalInv, NEW t \in Threads, Post(t)
  PROVE  LocalInv'
  <1> DEFINE th == thread[t]
             a == IF airflow[th.work] \in {"absent", "sent"} THEN "live" ELSE airflow[th.work]
             r == [th EXCEPT !.at = "bind", !.todo = Cells(th.work)]
  <1>1. th.at = "post" /\ UNCHANGED <<admissionVars, cell>> /\ airflow' = [airflow EXCEPT ![th.work] = a] /\ Become(t, r)
    BY DEF Post, At
  <1>2. Attempting(th) /\ Sound(t, th, intents, airflow) /\ DOMAIN th = ThreadFields
    BY <1>1, ThreadFacts DEF Attempting
  <1>3. th.work \in Works /\ Cells(th.work) \subseteq CellIds /\ DOMAIN airflow = Works
    BY <1>1, <1>2, OrderAssumption DEF LocalInv, RunsOK, Sound, UnitPlaces
  <1>4. Exists(a)
    BY DEF Exists
  <1>5. DOMAIN r = ThreadFields /\ r.at = "bind" /\ Kept(r, th) /\ r.bind = th.bind /\ r.held = th.held /\ r.todo = Cells(th.work)
    BY <1>2, BindFields
  <1> HIDE DEF a, r
  <1>6. DOMAIN airflow' = Works /\ airflow'[th.work] = a /\ \A w \in Works : w # th.work => airflow'[w] = airflow[w]
    BY <1>1, <1>3
  <1> QED BY <1>1, <1>2, <1>3, <1>4, <1>5, <1>6, AttemptMove

\* A post that raises keeps the invariant.
LEMMA PostRaisesMove ==
  ASSUME LocalInv, NEW t \in Threads, PostRaises(t)
  PROVE  LocalInv'
  <1> DEFINE th == thread[t]
             a == IF airflow[th.work] = "absent" THEN "sent" ELSE airflow[th.work]
             r == [th EXCEPT !.at = "recover", !.local = FALSE]
  <1>1. th.at = "post" /\ UNCHANGED <<admissionVars, cell>> /\ airflow' = [airflow EXCEPT ![th.work] = a] /\ Become(t, r)
    BY DEF PostRaises, At
  <1>2. Attempting(th) /\ Sound(t, th, intents, airflow) /\ DOMAIN th = ThreadFields
    BY <1>1, ThreadFacts DEF Attempting
  <1>3. th.work \in Works /\ th.todo \subseteq CellIds /\ DOMAIN airflow = Works
    BY <1>1, <1>2 DEF LocalInv, RunsOK, Sound, UnitPlaces
  <1>4. Exists(airflow[th.work]) => Exists(a)
    BY DEF Exists
  <1>5. DOMAIN r = ThreadFields /\ r.at = "recover" /\ Kept(r, th) /\ r.bind = th.bind /\ r.held = th.held /\ r.todo = th.todo
    BY <1>2 DEF ThreadFields, Kept
  <1> HIDE DEF a, r
  <1>6. DOMAIN airflow' = Works /\ airflow'[th.work] = a /\ \A w \in Works : w # th.work => airflow'[w] = airflow[w]
    BY <1>1, <1>3
  <1> QED BY <1>1, <1>2, <1>3, <1>4, <1>5, <1>6, AttemptMove

\* Reading a Cell before it is bound to its run keeps the invariant.
LEMMA BindLookMove ==
  ASSUME LocalInv, NEW t \in Threads, NEW c \in CellIds, BindLook(t, c)
  PROVE  LocalInv'
  <1> DEFINE th == thread[t]
             d == th.todo \ {c}
  <1>1. th.at = "bind" /\ UNCHANGED <<cell, airflow>>
    BY DEF BindLook, At
  <1>2. Attempting(th) /\ Sound(t, th, intents, airflow) /\ DOMAIN th = ThreadFields
    BY <1>1, ThreadFacts DEF Attempting
  <1>3. DOMAIN airflow' = Works /\ th.todo \subseteq CellIds /\ Exists(airflow[th.work])
    BY <1>1, <1>2 DEF LocalInv, RunsOK, Sound, UnitPlaces
  <1>4. CASE Become(t, [th EXCEPT !.at = "bound", !.cell = c]) /\ UNCHANGED admissionVars
    <2> DEFINE r == [th EXCEPT !.at = "bound", !.cell = c]
    <2>1. DOMAIN r = ThreadFields /\ r.at = "bound" /\ r.cell = c /\ Kept(r, th) /\ r.bind = th.bind /\ r.held = th.held /\ r.todo = th.todo
      BY <1>2 DEF ThreadFields, Kept
    <2>2. Become(t, r)
      BY <1>4
    <2> HIDE DEF r
    <2> QED BY <1>1, <1>2, <1>3, <1>4, <2>1, <2>2, AttemptMove
  <1>5. CASE Become(t, [th EXCEPT !.todo = d]) /\ UNCHANGED admissionVars
    <2> DEFINE r == [th EXCEPT !.todo = d]
    <2>1. d \subseteq CellIds
      BY <1>3
    <2> HIDE DEF d
    <2>2. DOMAIN r = ThreadFields /\ r.at = "bind" /\ Kept(r, th) /\ r.bind = th.bind /\ r.held = th.held /\ r.todo = d
      BY <1>1, <1>2 DEF ThreadFields, Kept
    <2>3. Become(t, r)
      BY <1>5
    <2> HIDE DEF r
    <2> QED BY <1>1, <1>2, <1>3, <1>5, <2>1, <2>2, <2>3, AttemptMove
  <1>6. CASE AttemptAborts(Own(t)) /\ Become(t, Returned(t, FALSE))
    BY <1>1, <1>2, <1>6, AbortMove
  <1>7. [th EXCEPT !.todo = @ \ {c}] = [th EXCEPT !.todo = d]
    BY <1>2 DEF ThreadFields
  <1> QED BY <1>4, <1>5, <1>6, <1>7 DEF BindLook

-----------------------------------------------------------------------------
\* What a patch may do to a Cell: nothing, or set its state and its run.
PatchOf(c, s, w) ==
  /\ DOMAIN cell' = CellIds /\ \A d \in CellIds : d # c => cell'[d] = cell[d]
  /\ \/ cell'[c] = cell[c]
     \/ /\ DOMAIN cell'[c] = RowFields /\ cell'[c].epoch = cell[c].epoch /\ cell'[c].by = cell[c].by
        /\ cell'[c].state = s /\ cell'[c].run = w

\* CellStore.patch writes what it was asked to, or, for a key that was used, nothing.
LEMMA PatchFields ==
  ASSUME CellsOK, NEW c \in CellIds, NEW key, NEW s
  PROVE  /\ Patch(c, key, [cell[c] EXCEPT !.state = s]) => PatchOf(c, s, cell[c].run)
         /\ \A w : Patch(c, key, [cell[c] EXCEPT !.state = s, !.run = w]) => PatchOf(c, s, w)
         /\ cell' = [cell EXCEPT ![c] = [cell[c] EXCEPT !.state = s]] => PatchOf(c, s, cell[c].run)
  <1>1. DOMAIN cell = CellIds /\ DOMAIN cell[c] = RowFields
    BY DEF CellsOK
  <1>2. ASSUME NEW row, DOMAIN row = RowFields, Patch(c, key, row)
        PROVE  /\ DOMAIN cell' = CellIds /\ \A d \in CellIds : d # c => cell'[d] = cell[d]
               /\ \/ cell'[c] = cell[c]
                  \/ /\ DOMAIN cell'[c] = RowFields /\ cell'[c].epoch = row.epoch /\ cell'[c].by = row.by
                     /\ cell'[c].state = row.state /\ cell'[c].run = row.run
    <2> DEFINE k == row.keys \cup {key}
               n == [row EXCEPT !.keys = k]
    <2>1. DOMAIN n = RowFields /\ n.epoch = row.epoch /\ n.by = row.by /\ n.state = row.state /\ n.run = row.run
      BY <1>2 DEF RowFields
    <2>2. \/ cell' = [cell EXCEPT ![c] = cell[c]]
          \/ cell' = [cell EXCEPT ![c] = n]
      BY <1>2 DEF Patch, Patched, RowFields
    <2> HIDE DEF n
    <2> QED BY <1>1, <2>1, <2>2
  <1> DEFINE R == [cell[c] EXCEPT !.state = s]
             Q(w) == [cell[c] EXCEPT !.state = s, !.run = w]
  <1>3. DOMAIN R = RowFields /\ R.epoch = cell[c].epoch /\ R.by = cell[c].by /\ R.state = s /\ R.run = cell[c].run
    BY <1>1 DEF RowFields
  <1>4. \A w : DOMAIN Q(w) = RowFields /\ Q(w).epoch = cell[c].epoch /\ Q(w).by = cell[c].by /\ Q(w).state = s /\ Q(w).run = w
    BY <1>1 DEF RowFields
  <1>5. cell' = [cell EXCEPT ![c] = R] => PatchOf(c, s, cell[c].run)
    <2> HIDE DEF R
    <2> QED BY <1>1, <1>3 DEF PatchOf
  <1>6. Patch(c, key, R) => PatchOf(c, s, cell[c].run)
    <2> HIDE DEF R
    <2> QED BY <1>2, <1>3 DEF PatchOf
  <1>7. \A w : Patch(c, key, Q(w)) => PatchOf(c, s, w)
    <2> HIDE DEF Q
    <2> QED BY <1>2, <1>4 DEF PatchOf
  <1> QED BY <1>5, <1>6, <1>7

\* A thread patches a Cell.
LEMMA PatchMove ==
  ASSUME LocalInv, NEW t \in Threads, NEW r, Become(t, r), UNCHANGED <<admissionVars, airflow>>,
         NEW c \in CellIds, NEW s \in LiveCellStates \cup Ends, NEW w \in Works \cup {NoWork}, PatchOf(c, s, w),
         w = cell[c].run \/ (w \in Works /\ cell[c].by = w /\ Exists(airflow[w])),
         Sound(t, r, intents, airflow), OldClaims(t, r),
         Attempting(r) => Attempting(thread[t]) /\ r.work = thread[t].work /\ r.token = thread[t].token
  PROVE  LocalInv'
  <1>1. ThreadsOK /\ CellsOK /\ ClaimsOK /\ RunsOK
    BY DEF LocalInv
  <1>2. UNCHANGED <<work, member, intents, airflow>> /\ DOMAIN thread = Threads
    BY <1>1 DEF admissionVars, ThreadsOK
  <1>3. ThreadsOK'
    BY <1>1, <1>2, MoveThread
  <1>4. s # "created"
    BY DEF LiveCellStates, Ends, EndStates
  <1>5. SameCells /\ CellsOK'
    BY <1>1, <1>4 DEF PatchOf, SameCells, CellsOK
  <1>6. ClaimsOK'
    <2>1. \A v \in Works, d \in CellIds : Claimed(v, d, member[v][d].epoch, member, thread)
      BY DEF Claimed
    <2> QED BY <1>1, <1>2, <1>5, <2>1, ClaimsOfThread, ClaimsKept
  <1>7. RunsOK'
    <2>1. \A d \in CellIds : cell[d].run # NoWork => cell[d].run \in Works
      BY <1>1 DEF CellsOK
    <2>2. DOMAIN airflow' = Works
      BY <1>1, <1>2 DEF RunsOK
    <2>3. ASSUME NEW d \in CellIds, cell'[d].run # NoWork
          PROVE  \/ cell'[d].run = cell[d].run /\ cell'[d].by = cell[d].by /\ cell[d].run \in Works
                 \/ cell'[d].by = cell'[d].run /\ Exists(airflow'[cell'[d].run])
      BY <1>2, <2>1, <2>3 DEF PatchOf
    <2> QED BY <1>1, <1>2, <2>2, <2>3, RunsKept
  <1> QED BY <1>3, <1>5, <1>6, <1>7 DEF LocalInv

\* Binding a Cell names only a run that exists and an order that activated the Cell.
LEMMA BindPatchMove ==
  ASSUME LocalInv, NEW t \in Threads, BindPatch(t)
  PROVE  LocalInv'
  <1> DEFINE th == thread[t]
             c == th.cell
             d == th.todo \ {c}
             r == [th EXCEPT !.at = "bind", !.todo = d, !.cell = NoCell]
  <1>1. th.at = "bound" /\ UNCHANGED airflow
    BY DEF BindPatch, At
  <1>2. Attempting(th) /\ Sound(t, th, intents, airflow) /\ DOMAIN th = ThreadFields
    BY <1>1, ThreadFacts DEF Attempting
  <1>3. c \in CellIds /\ th.todo \subseteq CellIds /\ Exists(airflow[th.work]) /\ th.work \in Works /\ CellsOK /\ ClaimsOK
    BY <1>1, <1>2 DEF LocalInv, Sound, UnitPlaces
  <1>4. CASE AttemptAborts(Own(t)) /\ Become(t, Returned(t, FALSE)) /\ UNCHANGED cell
    BY <1>1, <1>2, <1>4, AbortMove
  <1>5. CASE /\ cell[c].epoch = th.bind[c] /\ Become(t, r) /\ UNCHANGED admissionVars
             /\ Patch(c, <<"bind", th.work>>, [cell[c] EXCEPT !.state = "queued", !.run = th.work])
    <2>1. PatchOf(c, "queued", th.work) /\ "queued" \in LiveCellStates
      BY <1>3, <1>5, PatchFields DEF LiveCellStates
    <2>2. cell[c].by = th.work
      <3>1. cell[c].epoch \in Epochs
        BY <1>3 DEF CellsOK
      <3>2. Claimed(th.work, c, cell[c].epoch, member, thread)
        BY <1>5 DEF Claimed
      <3>3. Activated(th.work, cell[c].epoch, cell[c])
        BY <1>3, <3>1, <3>2 DEF ClaimsOK
      <3> QED BY <3>3 DEF Activated
    <2>3. d \subseteq CellIds
      BY <1>3
    <2> HIDE DEF d
    <2>4. DOMAIN r = ThreadFields /\ r.at = "bind" /\ Kept(r, th) /\ r.bind = th.bind /\ r.held = th.held /\ r.todo = d
      BY <1>2 DEF ThreadFields, Kept
    <2> HIDE DEF r
    <2>5. Sound(t, r, intents, airflow)
      BY <1>2, <1>3, <2>3, <2>4 DEF Sound, UnitPlaces, Kept, Mine, Attempting
    <2>6. OldClaims(t, r)
      BY <2>4 DEF OldClaims, Kept
    <2> HIDE DEF c
    <2> QED BY <1>1, <1>2, <1>3, <1>5, <2>1, <2>2, <2>4, <2>5, <2>6, PatchMove DEF Kept
  <1>6. [th EXCEPT !.at = "bind", !.todo = @ \ {c}, !.cell = NoCell] = r
    BY <1>2 DEF ThreadFields
  <1> QED BY <1>4, <1>5, <1>6 DEF BindPatch

\* An order becomes bound only when its run exists.
LEMMA DeliveredMove ==
  ASSUME LocalInv, NEW t \in Threads, Delivered(t)
  PROVE  LocalInv'
  <1> DEFINE th == thread[t]
  <1>1. th.at = "bind" /\ UNCHANGED <<cell, airflow>>
    BY DEF Delivered, At
  <1>2. Attempting(th) /\ Sound(t, th, intents, airflow) /\ Own(t) = Mine(t, th)
    BY <1>1, ThreadFacts DEF Attempting
  <1>3. th.work \in Works /\ Exists(airflow[th.work]) /\ Own(t).work = th.work
    BY <1>1, <1>2 DEF Sound, UnitPlaces, Mine
  <1>4. CASE AttemptAborts(Own(t)) /\ Become(t, Returned(t, FALSE))
    BY <1>1, <1>2, <1>4, AbortMove
  <1>5. CASE RecordDispatch(Own(t)) /\ Become(t, Returned(t, TRUE))
    <2>1. UNCHANGED member /\ intents' = intents \ {Own(t)} /\ work' = [work EXCEPT ![th.work] = IF @ = "dispatching" THEN "bound" ELSE @]
      BY <1>3, <1>5 DEF RecordDispatch, Returns
    <2>2. \A w \in Works : work'[w] = "bound" => work[w] = "bound" \/ Exists(airflow[w])
      BY <1>3, <2>1
    <2> QED BY <1>1, <1>2, <1>5, <2>1, <2>2, RestingPlaces, GiveUp
  <1> QED BY <1>4, <1>5 DEF Delivered

\* The work row that goes back to admitted was not bound.
LEMMA BackNotBound ==
  ASSUME StoreInv, NEW x, BackToAdmitted(x)
  PROVE  \A w \in Works : work'[w] = "bound" => work[w] = "bound"
  <1>1. DOMAIN work = Works
    BY DEF StoreInv, TypeOK
  <1> DEFINE a == IF work[x] = "dispatching" THEN "admitted" ELSE work[x]
  <1>2. work' = [work EXCEPT ![x] = a]
    BY DEF BackToAdmitted
  <1>3. a = "bound" => work[x] = "bound"
    OBVIOUS
  <1> HIDE DEF a
  <1> QED BY <1>1, <1>2, <1>3

\* Recovery of a failed post keeps the invariant.
LEMMA RecoverStepMove ==
  ASSUME StoreInv, LocalInv, NEW t \in Threads, Recover(t)
  PROVE  LocalInv'
  <1> DEFINE th == thread[t]
  <1>1. th.at = "recover" /\ UNCHANGED <<cell, airflow>> /\ Become(t, Returned(t, FALSE))
    BY DEF Recover, At
  <1>2. Attempting(th)
    BY <1>1 DEF Attempting
  <1>3. UNCHANGED member /\ intents' = intents \ {Own(t)} /\ (UNCHANGED work \/ BackToAdmitted(Own(t).work))
    BY DEF Recover, NoteOutcome, ReleaseDispatch, Returns
  <1>4. \A w \in Works : work'[w] = "bound" => work[w] = "bound"
    BY <1>3, BackNotBound
  <1> QED BY <1>1, <1>2, <1>3, <1>4, RestingPlaces, GiveUp

\* Observing a run keeps the invariant.
LEMMA ObserveMove ==
  ASSUME StoreInv, LocalInv, NEW t \in Threads, Observe(t)
  PROVE  LocalInv'
  <1> DEFINE th == thread[t]
  <1>1. th.at = "observe" /\ UNCHANGED <<cell, airflow>>
    BY DEF Observe, At
  <1>2. Attempting(th) /\ Sound(t, th, intents, airflow) /\ DOMAIN th = ThreadFields
    BY <1>1, ThreadFacts DEF Attempting
  <1>3. CASE Goto(t, "undo") /\ UNCHANGED admissionVars
    <2> DEFINE r == [th EXCEPT !.at = "undo"]
    <2>1. DOMAIN r = ThreadFields /\ r.at = "undo" /\ Kept(r, th) /\ r.bind = th.bind /\ r.held = th.held /\ r.todo = th.todo /\ r.want = th.want
      BY <1>2, GotoFields DEF Kept
    <2>2. Become(t, r)
      BY <1>3 DEF Goto
    <2> HIDE DEF r
    <2>3. th.want \in {"failed", "cancelled"}
      BY <1>1, <1>2 DEF Sound, UnitPlaces
    <2>4. Sound(t, r, intents, airflow)
      BY <1>2, <2>1, <2>3 DEF Sound, UnitPlaces, Kept, Mine, Attempting
    <2> QED BY <1>1, <1>2, <1>3, <2>1, <2>2, <2>4, QuietMove DEF OldClaims, Kept
  <1>4. CASE MarkUndeliverable(Own(t)) /\ Become(t, Returned(t, FALSE))
    <2>1. UNCHANGED member /\ intents' = intents \ {Own(t)} /\ BackToAdmitted(Own(t).work)
      BY <1>4 DEF MarkUndeliverable, Returns
    <2> QED BY <1>1, <1>2, <1>4, <2>1, BackNotBound, RestingPlaces, GiveUp
  <1> QED BY <1>3, <1>4 DEF Observe

\* Reading a Cell to undo it keeps the invariant.
LEMMA UndoLookMove ==
  ASSUME LocalInv, NEW t \in Threads, NEW c \in CellIds, UndoLook(t, c)
  PROVE  LocalInv'
  <1> DEFINE th == thread[t]
             d == th.todo \ {c}
  <1>1. th.at = "undo" /\ UNCHANGED <<admissionVars, cell, airflow>>
    BY DEF UndoLook, At
  <1>2. Sound(t, th, intents, airflow) /\ DOMAIN th = ThreadFields
    BY ThreadFacts
  <1>3. CASE Become(t, [th EXCEPT !.at = "undone", !.cell = c])
    <2> DEFINE r == [th EXCEPT !.at = "undone", !.cell = c]
    <2>1. DOMAIN r = ThreadFields /\ r.at = "undone" /\ r.cell = c /\ r.want = th.want /\ Kept(r, th) /\ r.bind = th.bind
          /\ r.held = th.held /\ r.todo = th.todo
      BY <1>2 DEF ThreadFields, Kept
    <2>2. Become(t, r)
      BY <1>3
    <2> HIDE DEF r
    <2>3. Sound(t, r, intents, airflow) /\ (Attempting(r) => Attempting(th))
      BY <1>1, <1>2, <2>1 DEF Sound, UnitPlaces, Kept, Mine, Attempting
    <2> QED BY <1>1, <2>1, <2>2, <2>3, QuietMove DEF OldClaims, Kept
  <1>4. CASE Become(t, [th EXCEPT !.todo = d])
    <2> DEFINE r == [th EXCEPT !.todo = d]
    <2>1. d \subseteq CellIds
      BY <1>2 DEF Sound, UnitPlaces
    <2> HIDE DEF d
    <2>2. DOMAIN r = ThreadFields /\ r.at = th.at /\ r.want = th.want /\ Kept(r, th) /\ r.bind = th.bind
          /\ r.held = th.held /\ r.todo = d
      BY <1>2 DEF ThreadFields, Kept
    <2>3. Become(t, r)
      BY <1>4
    <2> HIDE DEF r
    <2>4. Sound(t, r, intents, airflow) /\ (Attempting(r) => Attempting(th))
      BY <1>1, <1>2, <2>1, <2>2 DEF Sound, UnitPlaces, Kept, Mine, Attempting
    <2> QED BY <1>1, <2>2, <2>3, <2>4, QuietMove DEF OldClaims, Kept
  <1>5. [th EXCEPT !.todo = @ \ {c}] = [th EXCEPT !.todo = d]
    BY <1>2 DEF ThreadFields
  <1> QED BY <1>3, <1>4, <1>5 DEF UndoLook

\* The states callers end a Cell with are outcomes of the store.
LEMMA EndsFacts == {"success", "failed", "cancelled"} \subseteq Ends /\ Ends \subseteq Outcomes
  BY BackendAssumption DEF Ends, EndStates

\* Undoing the activation of a Cell keeps the invariant.
LEMMA UndoPatchMove ==
  ASSUME LocalInv, NEW t \in Threads, UndoPatch(t)
  PROVE  LocalInv'
  <1> DEFINE th == thread[t]
             c == th.cell
             d == th.todo \ {c}
             r == [th EXCEPT !.at = "undo", !.todo = d, !.cell = NoCell]
  <1>1. th.at = "undone" /\ UNCHANGED <<admissionVars, airflow>>
    BY DEF UndoPatch, At
  <1>2. Sound(t, th, intents, airflow) /\ DOMAIN th = ThreadFields
    BY ThreadFacts
  <1>3. c \in CellIds /\ d \subseteq CellIds /\ CellsOK
    BY <1>1, <1>2 DEF LocalInv, Sound, UnitPlaces
  <1>4. Become(t, r)
    BY <1>2 DEF UndoPatch, ThreadFields
  <1> HIDE DEF d
  <1>5. DOMAIN r = ThreadFields /\ r.at = "undo" /\ r.want = th.want /\ Kept(r, th) /\ r.bind = th.bind /\ r.held = th.held /\ r.todo = d
    BY <1>2 DEF ThreadFields, Kept
  <1> HIDE DEF r
  <1>6. Sound(t, r, intents, airflow) /\ (Attempting(r) => Attempting(th)) /\ OldClaims(t, r)
    BY <1>1, <1>2, <1>3, <1>5 DEF Sound, UnitPlaces, Kept, Mine, Attempting, OldClaims
  <1>7. CASE UNCHANGED cell
    BY <1>1, <1>4, <1>5, <1>6, <1>7, QuietMove DEF Kept
  <1>8. CASE Patch(c, <<"undo", th.work, th.token>>, [cell[c] EXCEPT !.state = "cancelled"])
    <2>1. PatchOf(c, "cancelled", cell[c].run) /\ "cancelled" \in LiveCellStates \cup Ends /\ cell[c].run \in Works \cup {NoWork}
      BY <1>3, <1>8, PatchFields, EndsFacts DEF CellsOK
    <2> HIDE DEF c
    <2> QED BY <1>1, <1>3, <1>4, <1>5, <1>6, <2>1, PatchMove DEF Kept
  <1> QED BY <1>7, <1>8 DEF UndoPatch

\* An operation of the store that leaves every epoch and every intent alone.
LEMMA ClosingMove ==
  ASSUME LocalInv, NEW t \in Threads, NEW r, Become(t, r), UNCHANGED <<cell, airflow, intents>>,
         Sound(t, r, intents, airflow), OldClaims(t, r),
         Attempting(r) => Attempting(thread[t]) /\ r.work = thread[t].work /\ r.token = thread[t].token,
         \A w \in Works, c \in CellIds : member'[w][c].epoch = member[w][c].epoch,
         \A w \in Works : work'[w] = "bound" => work[w] = "bound"
  PROVE  LocalInv'
  <1>1. \A w \in Works, c \in CellIds : Claimed(w, c, member'[w][c].epoch, member, thread)
    BY DEF Claimed
  <1> QED BY <1>1, StoreMove

\* Cancelling an order changes neither intents nor epochs, and binds nothing.
LEMMA CancelKeeps ==
  ASSUME StoreInv, NEW q, NEW w \in Works, NEW o \in {"failed", "cancelled"}, Cancel(q, w, o)
  PROVE  /\ UNCHANGED intents
         /\ \A v \in Works, c \in CellIds : member'[v][c].epoch = member[v][c].epoch
         /\ \A v \in Works : work'[v] = "bound" => work[v] = "bound"
  <1>1. work \in [Works -> WorkStates] /\ member \in [Works -> [CellIds -> Member]]
    BY DEF StoreInv, TypeOK
  <1>2. member' = [member EXCEPT ![w] = Closed(member[w], o)] /\ work' = [work EXCEPT ![w] = o] /\ UNCHANGED intents
    BY DEF Cancel
  <1>3. \A c \in CellIds : Closed(member[w], o)[c].epoch = member[w][c].epoch
    <2> SUFFICES ASSUME NEW c \in CellIds PROVE Closed(member[w], o)[c].epoch = member[w][c].epoch
      OBVIOUS
    <2>1. member[w][c] \in Member
      BY <1>1
    <2>2. Closed(member[w], o)[c] = IF member[w][c].state = "held" THEN [member[w][c] EXCEPT !.state = o] ELSE member[w][c]
      BY DEF Closed
    <2>3. [member[w][c] EXCEPT !.state = o].epoch = member[w][c].epoch
      BY <2>1 DEF Member
    <2> QED BY <2>2, <2>3
  <1> QED BY <1>1, <1>2, <1>3

\* The end of a compensation keeps the invariant.
LEMMA UndoEndsMove ==
  ASSUME StoreInv, LocalInv, NEW t \in Threads, UndoEnds(t)
  PROVE  LocalInv'
  <1> DEFINE th == thread[t]
             p == IF th.want = "failed" THEN "leave" ELSE "sweep"
             d == [th EXCEPT !.at = p]
             r == [d EXCEPT !.owes = th.work]
  <1>1. th.at = "undo" /\ UNCHANGED <<cell, airflow>>
    BY DEF UndoEnds, At
  <1>2. Sound(t, th, intents, airflow) /\ DOMAIN th = ThreadFields
    BY ThreadFacts
  <1>3. th.work \in Works /\ th.want \in {"failed", "cancelled"}
    BY <1>1, <1>2 DEF Sound, UnitPlaces
  <1>4. (p = "leave" /\ th.want = "failed") \/ p = "sweep"
    OBVIOUS
  <1>5. DOMAIN d = ThreadFields /\ d.at = p /\ Kept(d, th) /\ d.bind = th.bind /\ d.held = th.held /\ d.todo = th.todo
    BY <1>2, GotoFields DEF Kept
  <1>6. \/ Cancel(Proc(t), th.work, th.want) /\ Become(t, r)
        \/ UNCHANGED admissionVars /\ Become(t, d)
    BY DEF UndoEnds
  <1> HIDE DEF p, d
  <1>7. DOMAIN r = ThreadFields /\ r.at = p /\ r.work = th.work /\ r.token = th.token /\ r.owes = th.work /\ r.bind = th.bind
        /\ r.held = th.held /\ r.todo = th.todo
    BY <1>5 DEF ThreadFields, Kept
  <1> HIDE DEF r
  <1>8. Sound(t, r, intents, airflow) /\ (Attempting(r) => Attempting(th)) /\ OldClaims(t, r)
    BY <1>1, <1>2, <1>3, <1>4, <1>7 DEF Sound, UnitPlaces, Mine, Attempting, OldClaims
  <1>9. Sound(t, d, intents, airflow) /\ (Attempting(d) => Attempting(th)) /\ OldClaims(t, d)
    BY <1>1, <1>2, <1>3, <1>4, <1>5 DEF Sound, UnitPlaces, Mine, Attempting, OldClaims, Kept
  <1>10. CASE Cancel(Proc(t), th.work, th.want) /\ Become(t, r)
    <2> HIDE DEF th
    <2> QED BY <1>1, <1>3, <1>7, <1>8, <1>10, CancelKeeps, ClosingMove DEF th
  <1>11. CASE UNCHANGED admissionVars /\ Become(t, d)
    BY <1>1, <1>5, <1>9, <1>11, QuietMove DEF Kept
  <1> QED BY <1>6, <1>10, <1>11

\* Leaving an attempt keeps the invariant.
LEMMA LeaveMove ==
  ASSUME LocalInv, NEW t \in Threads, Leave(t) \/ AttachLost(t)
  PROVE  LocalInv'
  <1>1. thread[t].at \in {"leave", "attach"} /\ Abort(t)
    BY DEF Leave, AttachLost, At
  <1>2. Attempting(thread[t])
    BY <1>1 DEF Attempting
  <1> QED BY <1>1, <1>2, AbortMove DEF Abort

-----------------------------------------------------------------------------
\* A thread that only sets the marks of its drain.
LEMMA DrainMove ==
  ASSUME LocalInv, NEW t \in Threads, NEW r, Become(t, r), UNCHANGED <<cell, airflow, intents, member>>,
         DOMAIN r = ThreadFields, r.owes \in {thread[t].owes, NoWork}, r.work = thread[t].work, r.token = thread[t].token,
         r.at = thread[t].at, r.bind = thread[t].bind, r.held = thread[t].held, r.todo = thread[t].todo, r.cell = thread[t].cell,
         r.unit = thread[t].unit, r.want = thread[t].want, r.local = thread[t].local,
         \A w \in Works : work'[w] = "bound" => work[w] = "bound"
  PROVE  LocalInv'
  <1>1. Sound(t, thread[t], intents, airflow)
    BY ThreadFacts
  <1>2. (Attempting(r) => Attempting(thread[t])) /\ OldClaims(t, r) /\ Mine(t, r) = Mine(t, thread[t])
    BY DEF Attempting, OldClaims, Mine
  <1>3. Sound(t, r, intents, airflow)
    BY <1>1, <1>2 DEF Sound, UnitPlaces, UnitWork
  <1> QED BY <1>2, <1>3, ClosingMove

\* Opening a drain keeps the invariant.
LEMMA OpenDrainMove ==
  ASSUME LocalInv, NEW t \in Threads, OpenDrain(t)
  PROVE  LocalInv'
  <1> DEFINE th == thread[t]
             r == [th EXCEPT !.owes = NoWork, !.open = TRUE]
  <1>1. UNCHANGED <<cell, airflow, intents, member, work>> /\ Become(t, r)
    BY DEF OpenDrain, BeginDrain
  <1>2. DOMAIN th = ThreadFields
    BY ThreadFacts
  <1>3. /\ DOMAIN r = ThreadFields /\ r.owes = NoWork /\ r.work = th.work /\ r.token = th.token /\ r.at = th.at /\ r.bind = th.bind
        /\ r.held = th.held /\ r.todo = th.todo /\ r.cell = th.cell /\ r.unit = th.unit /\ r.want = th.want /\ r.local = th.local
    BY <1>2 DEF ThreadFields
  <1> HIDE DEF r
  <1> QED BY <1>1, <1>3, DrainMove

\* A step of a drain keeps the invariant.
LEMMA StepDrainMove ==
  ASSUME StoreInv, LocalInv, NEW t \in Threads, StepDrain(t)
  PROVE  LocalInv'
  <1> DEFINE th == thread[t]
             o == pass' > 0
  <1>1. DOMAIN th = ThreadFields /\ UNCHANGED <<cell, airflow>> /\ work \in [Works -> WorkStates]
    BY ThreadFacts DEF StepDrain, StoreInv, TypeOK
  <1>2. CASE (DrainEmpty \/ \E w \in Works : DrainBlocked(w)) /\ Become(t, [th EXCEPT !.open = o])
    <2> DEFINE r == [th EXCEPT !.open = o]
    <2>1. UNCHANGED <<work, member, intents>> /\ Become(t, r)
      BY <1>2 DEF DrainEmpty, DrainBlocked
    <2> HIDE DEF o
    <2>2. /\ DOMAIN r = ThreadFields /\ r.owes = th.owes /\ r.work = th.work /\ r.token = th.token /\ r.at = th.at /\ r.bind = th.bind
          /\ r.held = th.held /\ r.todo = th.todo /\ r.cell = th.cell /\ r.unit = th.unit /\ r.want = th.want /\ r.local = th.local
      BY <1>1 DEF ThreadFields
    <2> HIDE DEF r
    <2> QED BY <1>1, <2>1, <2>2, DrainMove
  <1>3. ASSUME NEW w \in Works, DrainAdmit(w), Become(t, [th EXCEPT !.open = o, !.freed = TRUE]) PROVE LocalInv'
    <2> DEFINE r == [th EXCEPT !.open = o, !.freed = TRUE]
    <2>1. UNCHANGED <<member, intents>> /\ Become(t, r) /\ work' = [work EXCEPT ![w] = "admitted"]
      BY <1>3 DEF DrainAdmit
    <2> HIDE DEF o
    <2>2. /\ DOMAIN r = ThreadFields /\ r.owes = th.owes /\ r.work = th.work /\ r.token = th.token /\ r.at = th.at /\ r.bind = th.bind
          /\ r.held = th.held /\ r.todo = th.todo /\ r.cell = th.cell /\ r.unit = th.unit /\ r.want = th.want /\ r.local = th.local
      BY <1>1 DEF ThreadFields
    <2> HIDE DEF r
    <2>3. \A v \in Works : work'[v] = "bound" => work[v] = "bound"
      BY <1>1, <2>1
    <2> QED BY <1>1, <2>1, <2>2, <2>3, DrainMove
  <1> QED BY <1>2, <1>3 DEF StepDrain

-----------------------------------------------------------------------------
\* A thread that works on a unit is sound, attempts nothing and claims nothing.
LEMMA UnitSound ==
  ASSUME NEW t, NEW r, UnitWork(r), NEW ints, NEW air
  PROVE  Sound(t, r, ints, air) /\ ~Attempting(r) /\ \A c \in CellIds : r.bind[c] \notin Epochs
  <1>1. r.bind \in [CellIds -> Epochs \cup {NoEpoch}] /\ \A c \in CellIds : r.bind[c] \notin Epochs
    BY EpochFacts DEF UnitWork
  <1> QED BY <1>1 DEF UnitWork, Sound, UnitPlaces, Attempting

\* A thread that goes on with a unit keeps the invariant.
LEMMA UnitMove ==
  ASSUME LocalInv, NEW t \in Threads, NEW r, Become(t, r), UNCHANGED <<admissionVars, cell, airflow>>, UnitWork(r)
  PROVE  LocalInv'
  BY UnitSound, QuietMove DEF OldClaims

\* What is known of a thread that works on a unit.
LEMMA UnitFacts ==
  ASSUME LocalInv, NEW t \in Threads, thread[t].at \in UnitPlaces
  PROVE  UnitWork(thread[t])
  BY ThreadFacts DEF Sound

\* A unit is an order, a Cell and an epoch.
LEMMA UnitTypes ==
  ASSUME NEW u \in Unit
  PROVE  u[1] \in Works /\ u[2] \in CellIds /\ u[3] \in Epochs
  BY DEF Unit

\* A thread leaves what it was doing for the sweep of held units.
LEMMA ToSweep ==
  ASSUME LocalInv, NEW t \in Threads, UNCHANGED <<admissionVars, cell, airflow>>, Goto(t, "sweep")
  PROVE  LocalInv'
  <1> DEFINE th == thread[t]
             r == [th EXCEPT !.at = "sweep"]
  <1>1. Sound(t, th, intents, airflow) /\ DOMAIN th = ThreadFields
    BY ThreadFacts
  <1>2. DOMAIN r = ThreadFields /\ r.at = "sweep" /\ Kept(r, th) /\ r.bind = th.bind /\ r.held = th.held /\ r.todo = th.todo
    BY <1>1, GotoFields DEF Kept
  <1>3. Become(t, r)
    BY DEF Goto
  <1> HIDE DEF r
  <1>4. Sound(t, r, intents, airflow) /\ ~Attempting(r) /\ OldClaims(t, r)
    BY <1>1, <1>2 DEF Sound, UnitPlaces, Attempting, OldClaims, Kept
  <1> QED BY <1>3, <1>4, QuietMove

\* Starting a sweep keeps the invariant.
LEMMA SweepMove ==
  ASSUME LocalInv, NEW t \in Threads, Sweep(t)
  PROVE  LocalInv'
  <1> DEFINE h == {u \in Unit : <<u[1], u[2]>> \in HeldMembers /\ member[u[1]][u[2]].epoch = u[3]}
             r == [IdleThread EXCEPT !.at = "reconcile", !.held = h]
  <1>1. UNCHANGED <<admissionVars, cell, airflow>> /\ Become(t, r)
    BY DEF Sweep
  <1>2. h \subseteq Unit
    OBVIOUS
  <1> HIDE DEF h
  <1>3. /\ DOMAIN r = ThreadFields /\ r.at = "reconcile" /\ r.work = NoWork /\ r.owes = NoWork /\ r.bind = [c \in CellIds |-> NoEpoch]
        /\ r.todo = {} /\ r.held = h
    BY IdleFields DEF ThreadFields
  <1> HIDE DEF r
  <1>4. UnitWork(r)
    BY <1>2, <1>3 DEF UnitWork, UnitPlaces
  <1> QED BY <1>1, <1>4, UnitMove

\* Reconciling a unit keeps the invariant.
LEMMA ReconcileMove ==
  ASSUME LocalInv, NEW t \in Threads, NEW u, Reconcile(t, u)
  PROVE  LocalInv'
  <1> DEFINE h == thread[t].held \ {u}
             c == u[2]
             th == [thread[t] EXCEPT !.held = h, !.unit = u]
  <1>1. thread[t].at = "reconcile" /\ u \in thread[t].held /\ UNCHANGED <<admissionVars, cell, airflow>>
    BY DEF Reconcile, At
  <1>2. UnitWork(thread[t]) /\ DOMAIN thread[t] = ThreadFields
    BY <1>1, UnitFacts DEF UnitPlaces, UnitWork
  <1>3. u \in Unit /\ h \subseteq Unit
    BY <1>1, <1>2 DEF UnitWork
  <1>4. th = [thread[t] EXCEPT !.held = @ \ {u}, !.unit = u]
    BY <1>2 DEF ThreadFields
  <1> HIDE DEF h
  <1>5. /\ DOMAIN th = ThreadFields /\ th.at = "reconcile" /\ th.work = NoWork /\ th.owes = thread[t].owes /\ th.bind = [x \in CellIds |-> NoEpoch]
        /\ th.todo = {} /\ th.held = h /\ th.unit = u
    BY <1>1, <1>2 DEF ThreadFields, UnitWork
  <1>6. \/ \E s \in Ends : Become(t, [th EXCEPT !.at = "complete", !.want = s])
        \/ Become(t, [th EXCEPT !.at = "settle"])
        \/ Become(t, [th EXCEPT !.unit = <<>>])
    <2>1. cell[c].state \in EndStates => cell[c].state \in Ends
      <3>1. cell[c].state \in {"created"} \cup LiveCellStates \cup Ends
        BY <1>3, UnitTypes DEF LocalInv, CellsOK
      <3> QED BY <3>1 DEF EndStates, LiveCellStates
    <2>2. "cancelled" \in Ends
      BY EndsFacts
    <2> HIDE DEF th
    <2>3. \/ Become(t, [th EXCEPT !.at = "complete", !.want = "cancelled"])
          \/ cell[c].state \in EndStates /\ Become(t, [th EXCEPT !.at = "complete", !.want = cell[c].state])
          \/ Become(t, [th EXCEPT !.at = "settle"])
          \/ Become(t, [th EXCEPT !.unit = <<>>])
      BY <1>4 DEF Reconcile
    <2> QED BY <2>1, <2>2, <2>3
  <1> HIDE DEF th
  <1>7. thread[t].owes \in Works \cup {NoWork}
    BY <1>2 DEF UnitWork
  <1>8. ASSUME NEW s \in Ends, Become(t, [th EXCEPT !.at = "complete", !.want = s]) PROVE LocalInv'
    <2> DEFINE r == [th EXCEPT !.at = "complete", !.want = s]
    <2>1. /\ DOMAIN r = ThreadFields /\ r.at = "complete" /\ r.work = NoWork /\ r.owes = thread[t].owes /\ r.bind = [x \in CellIds |-> NoEpoch]
          /\ r.todo = {} /\ r.held = h /\ r.unit = u /\ r.want = s
      BY <1>5 DEF ThreadFields
    <2>2. Become(t, r)
      BY <1>8
    <2> HIDE DEF r
    <2>3. UnitWork(r)
      BY <1>3, <1>7, <2>1 DEF UnitWork, UnitPlaces
    <2> QED BY <1>1, <2>2, <2>3, UnitMove
  <1>9. CASE Become(t, [th EXCEPT !.at = "settle"])
    <2> DEFINE r == [th EXCEPT !.at = "settle"]
    <2>1. /\ DOMAIN r = ThreadFields /\ r.at = "settle" /\ r.work = NoWork /\ r.owes = thread[t].owes /\ r.bind = [x \in CellIds |-> NoEpoch]
          /\ r.todo = {} /\ r.held = h /\ r.unit = u
      BY <1>5 DEF ThreadFields
    <2>2. Become(t, r)
      BY <1>9
    <2> HIDE DEF r
    <2>3. UnitWork(r)
      BY <1>3, <1>7, <2>1 DEF UnitWork, UnitPlaces
    <2> QED BY <1>1, <2>2, <2>3, UnitMove
  <1>10. CASE Become(t, [th EXCEPT !.unit = <<>>])
    <2> DEFINE r == [th EXCEPT !.unit = <<>>]
    <2>1. /\ DOMAIN r = ThreadFields /\ r.at = "reconcile" /\ r.work = NoWork /\ r.owes = thread[t].owes /\ r.bind = [x \in CellIds |-> NoEpoch]
          /\ r.todo = {} /\ r.held = h
      BY <1>5 DEF ThreadFields
    <2>2. Become(t, r)
      BY <1>10
    <2> HIDE DEF r
    <2>3. UnitWork(r)
      BY <1>3, <1>7, <2>1 DEF UnitWork, UnitPlaces
    <2> QED BY <1>1, <2>2, <2>3, UnitMove
  <1> QED BY <1>6, <1>8, <1>9, <1>10

\* The unit in hand is done with.
LEMMA UnitDone ==
  ASSUME NEW th, UnitWork(th), NEW x, NEW y
  PROVE  LET r == [th EXCEPT !.at = "reconcile", !.unit = x]
             d == [th EXCEPT !.at = "reconcile", !.unit = x, !.want = y]
         IN  UnitWork(r) /\ UnitWork(d) /\ d.owes = th.owes
  <1> DEFINE r == [th EXCEPT !.at = "reconcile", !.unit = x]
             d == [th EXCEPT !.at = "reconcile", !.unit = x, !.want = y]
  <1>1. DOMAIN th = ThreadFields
    BY DEF UnitWork
  <1>2. DOMAIN r = ThreadFields /\ r.at = "reconcile" /\ r.work = th.work /\ r.owes = th.owes /\ r.bind = th.bind /\ r.todo = th.todo /\ r.held = th.held
    BY <1>1 DEF ThreadFields
  <1>3. DOMAIN d = ThreadFields /\ d.at = "reconcile" /\ d.work = th.work /\ d.owes = th.owes /\ d.bind = th.bind /\ d.todo = th.todo /\ d.held = th.held
    BY <1>1 DEF ThreadFields
  <1> HIDE DEF r, d
  <1>4. UnitWork(r) /\ UnitWork(d)
    BY <1>2, <1>3 DEF UnitWork, UnitPlaces
  <1> QED BY <1>3, <1>4 DEF r, d

\* Deciding how a lost report is settled keeps the invariant.
LEMMA SettleMove ==
  ASSUME LocalInv, NEW t \in Threads, Settle(t) \/ SettleNothing(t)
  PROVE  LocalInv'
  <1> DEFINE th == thread[t]
             run == cell[th.unit[2]].run
             s == IF airflow[run] \in {"success", "failed"} THEN airflow[run] ELSE "cancelled"
             r == [th EXCEPT !.at = "settled", !.want = s]
  <1>1. th.at = "settle" /\ UNCHANGED <<admissionVars, cell, airflow>>
    BY DEF Settle, SettleNothing, At
  <1>2. UnitWork(th) /\ DOMAIN th = ThreadFields
    BY <1>1, UnitFacts DEF UnitPlaces, UnitWork
  <1>3. CASE Become(t, [th EXCEPT !.at = "reconcile", !.unit = <<>>])
    BY <1>1, <1>2, <1>3, UnitDone, UnitMove
  <1>4. CASE Become(t, r)
    <2>1. s \in Ends
      BY EndsFacts
    <2> HIDE DEF s
    <2>2. DOMAIN r = ThreadFields /\ r.at = "settled" /\ r.work = th.work /\ r.owes = th.owes /\ r.bind = th.bind /\ r.todo = th.todo
          /\ r.held = th.held /\ r.unit = th.unit /\ r.want = s
      BY <1>2 DEF ThreadFields
    <2> HIDE DEF r
    <2>3. UnitWork(r)
      BY <1>1, <1>2, <2>1, <2>2 DEF UnitWork, UnitPlaces
    <2> QED BY <1>1, <1>4, <2>3, UnitMove
  <1>5. Become(t, [th EXCEPT !.at = "reconcile", !.unit = <<>>]) \/ Become(t, r)
    BY DEF Settle, SettleNothing
  <1> QED BY <1>3, <1>4, <1>5

\* Writing a settled state to the Cell keeps the invariant.
LEMMA SettlePatchMove ==
  ASSUME LocalInv, NEW t \in Threads, SettlePatch(t)
  PROVE  LocalInv'
  <1> DEFINE th == thread[t]
             c == th.unit[2]
             r == [th EXCEPT !.at = "complete"]
  <1>1. th.at = "settled" /\ UNCHANGED <<admissionVars, airflow>>
    BY DEF SettlePatch, At
  <1>2. UnitWork(th) /\ DOMAIN th = ThreadFields
    BY <1>1, UnitFacts DEF UnitPlaces, UnitWork
  <1>3. CASE UNCHANGED cell /\ Become(t, [th EXCEPT !.at = "reconcile", !.unit = <<>>, !.want = "none"])
    BY <1>1, <1>2, <1>3, UnitDone, UnitMove
  <1>4. CASE Patch(c, <<"settle", cell[c].run, th.want>>, [cell[c] EXCEPT !.state = th.want]) /\ Goto(t, "complete")
    <2>1. c \in CellIds /\ th.want \in Ends /\ CellsOK
      BY <1>1, <1>2, UnitTypes DEF UnitWork, LocalInv
    <2>2. PatchOf(c, th.want, cell[c].run) /\ cell[c].run \in Works \cup {NoWork} /\ th.want \in LiveCellStates \cup Ends
      BY <1>4, <2>1, PatchFields DEF CellsOK
    <2>3. DOMAIN r = ThreadFields /\ r.at = "complete" /\ r.work = th.work /\ r.owes = th.owes /\ r.bind = th.bind /\ r.todo = th.todo
          /\ r.held = th.held /\ r.unit = th.unit /\ r.want = th.want
      BY <1>2, GotoFields
    <2>4. Become(t, r)
      BY <1>4 DEF Goto
    <2> HIDE DEF r
    <2>5. UnitWork(r)
      BY <1>1, <1>2, <2>1, <2>3 DEF UnitWork, UnitPlaces
    <2>6. Sound(t, r, intents, airflow) /\ ~Attempting(r) /\ OldClaims(t, r)
      BY <2>5, UnitSound DEF OldClaims
    <2> HIDE DEF c
    <2> QED BY <1>1, <2>1, <2>2, <2>4, <2>6, PatchMove
  <1> QED BY <1>3, <1>4 DEF SettlePatch

\* Completing a unit changes neither intents nor epochs, and binds nothing.
LEMMA CompleteKeeps ==
  ASSUME StoreInv, NEW q, NEW w \in Works, NEW c \in CellIds, NEW e, NEW o, Complete(q, w, c, e, o)
  PROVE  /\ UNCHANGED intents
         /\ \A v \in Works, d \in CellIds : member'[v][d].epoch = member[v][d].epoch
         /\ \A v \in Works : work'[v] = "bound" => work[v] = "bound"
  <1>1. work \in [Works -> WorkStates] /\ member \in [Works -> [CellIds -> Member]]
    BY DEF StoreInv, TypeOK
  <1>2. UNCHANGED intents /\ member' = [member EXCEPT ![w][c].state = o]
    BY DEF Complete
  <1>3. \A v \in Works, d \in CellIds : member'[v][d].epoch = member[v][d].epoch
    <2>1. member[w][c] \in Member
      BY <1>1
    <2>2. member' = [member EXCEPT ![w] = [member[w] EXCEPT ![c] = [member[w][c] EXCEPT !.state = o]]]
      BY <1>2
    <2>3. [member[w][c] EXCEPT !.state = o].epoch = member[w][c].epoch
      BY <2>1 DEF Member
    <2> QED BY <1>1, <2>2, <2>3
  <1>4. \A v \in Works : work'[v] = "bound" => work[v] = "bound"
    <2> DEFINE W == Worst({o} \cup {member[w][d].state : d \in Cells(w) \ {c}})
               n == IF work[w] \in HoldingStates THEN W ELSE work[w]
    <2>1. work' = work \/ work' = [work EXCEPT ![w] = n]
      BY DEF Complete
    <2>2. W # "bound"
      BY WorstType DEF TerminalStates
    <2>3. n = "bound" => work[w] = "bound"
      BY <2>2
    <2> HIDE DEF n
    <2> QED BY <1>1, <2>1, <2>3
  <1> QED BY <1>2, <1>3, <1>4

\* complete, and the mark of the drain that follows it.
LEMMA CompleteByMove ==
  ASSUME StoreInv, LocalInv, NEW t \in Threads, NEW u \in Unit, NEW n, UnitWork(n), n.at \in {"reconcile", "release"}, CompleteBy(t, u, n),
         UNCHANGED <<cell, airflow>>
  PROVE  LocalInv'
  <1> DEFINE o == IF work'[u[1]] \in TerminalStates THEN u[1] ELSE NoWork
             r == [n EXCEPT !.owes = o]
  <1>1. u[1] \in Works /\ u[2] \in CellIds
    BY UnitTypes
  <1>2. CASE UNCHANGED admissionVars /\ Become(t, n)
    BY <1>2, UnitMove
  <1>3. CASE Complete(Proc(t), u[1], u[2], u[3], thread[t].want) /\ Become(t, r)
    <2>1. o \in Works \cup {NoWork} /\ DOMAIN n = ThreadFields
      BY <1>1 DEF UnitWork
    <2> HIDE DEF o
    <2>2. DOMAIN r = ThreadFields /\ r.at = n.at /\ r.work = n.work /\ r.owes = o /\ r.bind = n.bind /\ r.todo = n.todo
          /\ r.held = n.held /\ r.unit = n.unit /\ r.want = n.want
      BY <2>1 DEF ThreadFields
    <2> HIDE DEF r
    <2>3. UnitWork(r)
      BY <2>1, <2>2 DEF UnitWork, UnitPlaces
    <2>4. Sound(t, r, intents, airflow) /\ ~Attempting(r) /\ OldClaims(t, r)
      BY <2>3, UnitSound DEF OldClaims
    <2> QED BY <1>1, <1>3, <2>4, CompleteKeeps, ClosingMove
  <1> QED BY <1>2, <1>3 DEF CompleteBy

\* Completing the unit of a thread keeps the invariant.
LEMMA CompleteUnitMove ==
  ASSUME StoreInv, LocalInv, NEW t \in Threads, CompleteUnit(t)
  PROVE  LocalInv'
  <1> DEFINE n == [thread[t] EXCEPT !.at = "reconcile", !.unit = <<>>, !.want = "none"]
  <1>1. thread[t].at = "complete" /\ UNCHANGED <<cell, airflow>> /\ CompleteBy(t, thread[t].unit, n)
    BY DEF CompleteUnit, At
  <1>2. UnitWork(thread[t]) /\ thread[t].unit \in Unit
    BY <1>1, UnitFacts DEF UnitPlaces, UnitWork
  <1>3. UnitWork(n) /\ n.at = "reconcile"
    BY <1>2, UnitDone DEF UnitWork, ThreadFields
  <1> HIDE DEF n
  <1> QED BY <1>1, <1>2, <1>3, CompleteByMove

\* Releasing a unit keeps the invariant.
LEMMA ReleaseMove ==
  ASSUME StoreInv, LocalInv, NEW t \in Threads, NEW u, Release(t, u)
  PROVE  LocalInv'
  <1> DEFINE h == thread[t].held \ {u}
             n == [thread[t] EXCEPT !.held = h]
  <1>1. thread[t].at = "release" /\ UNCHANGED <<cell, airflow>> /\ CompleteBy(t, u, n) /\ u \in thread[t].held
    BY DEF Release, At
  <1>2. UnitWork(thread[t]) /\ u \in Unit /\ h \subseteq Unit /\ DOMAIN thread[t] = ThreadFields
    BY <1>1, UnitFacts DEF UnitPlaces, UnitWork
  <1> HIDE DEF h
  <1>3. DOMAIN n = ThreadFields /\ n.at = "release" /\ n.work = thread[t].work /\ n.owes = thread[t].owes /\ n.bind = thread[t].bind
        /\ n.todo = thread[t].todo /\ n.held = h /\ n.unit = thread[t].unit /\ n.want = thread[t].want
    BY <1>1, <1>2 DEF ThreadFields
  <1> HIDE DEF n
  <1>4. UnitWork(n)
    BY <1>1, <1>2, <1>3 DEF UnitWork, UnitPlaces
  <1> QED BY <1>1, <1>2, <1>3, <1>4, CompleteByMove

\* The end of a release keeps the invariant.
LEMMA ReleaseEndsMove ==
  ASSUME LocalInv, NEW t \in Threads, ReleaseEnds(t)
  PROVE  LocalInv'
  <1>1. UNCHANGED <<admissionVars, cell, airflow>> /\ (Goto(t, "sweep") \/ Become(t, IdleThread))
    BY DEF ReleaseEnds
  <1> QED BY <1>1, ToSweep, RestingPlaces, RestMove

\* Listing the members that hold a Cell keeps the invariant.
LEMMA MembersForCellMove ==
  ASSUME LocalInv, NEW t \in Threads, MembersForCell(t)
  PROVE  LocalInv'
  <1> DEFINE th == thread[t]
             c == th.unit[2]
             e == th.unit[3]
             h == {<<w, c, e>> : w \in {v \in Works : member[v][c] = [epoch |-> e, state |-> "held"]}}
             r == [th EXCEPT !.at = "release", !.held = h]
  <1>1. th.at = "members" /\ UNCHANGED <<admissionVars, cell, airflow>> /\ Become(t, r)
    BY DEF MembersForCell, At
  <1>2. UnitWork(th) /\ DOMAIN th = ThreadFields /\ th.unit \in Unit
    BY <1>1, UnitFacts DEF UnitPlaces, UnitWork
  <1>3. h \subseteq Unit
    <2>1. c \in CellIds /\ e \in Epochs
      BY <1>2, UnitTypes
    <2> HIDE DEF c, e
    <2> QED BY <2>1 DEF Unit
  <1> HIDE DEF h
  <1>4. DOMAIN r = ThreadFields /\ r.at = "release" /\ r.work = th.work /\ r.owes = th.owes /\ r.bind = th.bind
        /\ r.todo = th.todo /\ r.held = h /\ r.unit = th.unit /\ r.want = th.want
    BY <1>2 DEF ThreadFields
  <1> HIDE DEF r
  <1>5. UnitWork(r)
    BY <1>1, <1>2, <1>3, <1>4 DEF UnitWork, UnitPlaces
  <1> QED BY <1>1, <1>5, UnitMove

\* Starting and ending a pump keeps the invariant.
LEMMA PumpEdges ==
  ASSUME LocalInv, NEW t \in Threads, StartPump(t) \/ PumpEnds(t) \/ StopRaises(t) \/ Resume(t)
  PROVE  LocalInv'
  <1>1. UNCHANGED <<admissionVars, cell, airflow>>
    BY DEF StartPump, PumpEnds, StopRaises, Resume
  <1>2. Become(t, [IdleThread EXCEPT !.at = "pump"]) \/ Become(t, IdleThread) \/ Goto(t, "sweep")
    BY DEF StartPump, PumpEnds, StopRaises, Resume
  <1> QED BY <1>1, <1>2, RestingPlaces, RestMove, ToSweep

\* Withdrawing an order is undone with the recorded epochs.
LEMMA WithdrawMove ==
  ASSUME StoreInv, LocalInv, NEW t \in Threads, NEW w \in Works, Withdraw(t, w)
  PROVE  LocalInv'
  <1> DEFINE b == [c \in CellIds |-> member[w][c].epoch]
             r == [IdleThread EXCEPT !.at = "undo", !.work = w, !.want = "cancelled", !.todo = Cells(w), !.bind = b]
  <1>1. UNCHANGED <<admissionVars, cell, airflow>> /\ Become(t, r)
    BY DEF Withdraw
  <1>2. b \in [CellIds -> Epochs \cup {NoEpoch}] /\ Cells(w) \subseteq CellIds /\ \A c \in CellIds : b[c] = member[w][c].epoch
    BY MemberEpochs, OrderAssumption
  <1> HIDE DEF b
  <1>3. DOMAIN r = ThreadFields /\ r.at = "undo" /\ r.work = w /\ r.want = "cancelled" /\ r.todo = Cells(w) /\ r.bind = b /\ r.owes = NoWork
        /\ r.held = {}
    BY IdleFields DEF ThreadFields
  <1> HIDE DEF r
  <1>4. Sound(t, r, intents, airflow) /\ ~Attempting(r) /\ OldClaims(t, r)
    BY <1>2, <1>3 DEF Sound, UnitPlaces, Attempting, OldClaims
  <1> QED BY <1>1, <1>4, QuietMove

\* A stopped run keeps the invariant.
LEMMA StopReturnsMove ==
  ASSUME LocalInv, NEW t \in Threads, StopReturns(t)
  PROVE  LocalInv'
  <1> DEFINE th == thread[t]
             w == th.unit[1]
             a == IF airflow[w] = "live" THEN "failed" ELSE airflow[w]
             r == [th EXCEPT !.at = "members"]
  <1>1. th.at = "stop" /\ UNCHANGED <<admissionVars, cell>> /\ airflow' = [airflow EXCEPT ![w] = a] /\ Become(t, r)
    BY DEF StopReturns, At, Goto
  <1>2. UnitWork(th) /\ DOMAIN th = ThreadFields /\ ThreadsOK /\ CellsOK /\ ClaimsOK /\ RunsOK /\ DOMAIN thread = Threads
    BY <1>1, UnitFacts DEF UnitPlaces, UnitWork, LocalInv, ThreadsOK
  <1>3. DOMAIN r = ThreadFields /\ r.at = "members" /\ r.work = th.work /\ r.owes = th.owes /\ r.bind = th.bind
        /\ r.todo = th.todo /\ r.held = th.held /\ r.unit = th.unit /\ r.want = th.want
    BY <1>2, GotoFields
  <1> HIDE DEF r
  <1>4. UnitWork(r)
    BY <1>1, <1>2, <1>3 DEF UnitWork, UnitPlaces
  <1>5. DOMAIN airflow' = Works /\ \A v \in Works : Exists(airflow[v]) => Exists(airflow'[v])
    <2>1. DOMAIN airflow = Works /\ (Exists(airflow[w]) => Exists(a))
      BY <1>2 DEF RunsOK, Exists
    <2> HIDE DEF a, w
    <2> QED BY <1>1, <2>1
  <1>6. Sound(t, r, intents', airflow') /\ ~Attempting(r) /\ OldClaims(t, r)
    BY <1>4, UnitSound DEF OldClaims
  <1>7. UNCHANGED <<work, member, intents>>
    BY <1>1 DEF admissionVars
  <1>8. ThreadsOK'
    BY <1>1, <1>2, <1>5, <1>6, <1>7, MoveThread
  <1>9. SameCells /\ CellsOK'
    BY <1>1, <1>2 DEF SameCells, CellsOK
  <1>10. ClaimsOK'
    <2>1. \A v \in Works, d \in CellIds : Claimed(v, d, member[v][d].epoch, member, thread)
      BY DEF Claimed
    <2> QED BY <1>1, <1>2, <1>6, <1>7, <1>9, <2>1, ClaimsOfThread, ClaimsKept
  <1>11. RunsOK'
    <2>1. \A c \in CellIds : cell[c].run # NoWork => cell[c].run \in Works
      BY <1>2 DEF CellsOK
    <2> QED BY <1>1, <1>2, <1>5, <1>7, <2>1, RunsKept
  <1> QED BY <1>8, <1>9, <1>10, <1>11 DEF LocalInv

\* A request about one unit begins.
LEMMA UnitAsked ==
  ASSUME NEW p \in {"patch", "members"}, NEW s \in Ends \cup {"running"}, p = "members" => s \in Ends, NEW u \in Unit
  PROVE  UnitWork([IdleThread EXCEPT !.at = p, !.want = s, !.unit = u])
  <1> DEFINE r == [IdleThread EXCEPT !.at = p, !.want = s, !.unit = u]
  <1>1. DOMAIN r = ThreadFields /\ r.at = p /\ r.work = NoWork /\ r.owes = NoWork /\ r.bind = [c \in CellIds |-> NoEpoch] /\ r.todo = {}
        /\ r.held = {} /\ r.unit = u /\ r.want = s /\ ~r.local
    BY IdleFields DEF ThreadFields
  <1> HIDE DEF r
  <1>2. UnitWork(r)
    BY <1>1 DEF UnitWork, UnitPlaces
  <1> QED BY <1>2 DEF r

\* The thread that asks for a stop works on a unit.
LEMMA StopAsked ==
  ASSUME NEW u \in Unit
  PROVE  UnitWork([IdleThread EXCEPT !.at = "patch", !.want = "cancelled", !.local = TRUE, !.unit = u])
  <1> DEFINE r == [IdleThread EXCEPT !.at = "patch", !.want = "cancelled", !.local = TRUE, !.unit = u]
  <1>1. DOMAIN r = ThreadFields /\ r.at = "patch" /\ r.work = NoWork /\ r.owes = NoWork /\ r.bind = [c \in CellIds |-> NoEpoch] /\ r.todo = {}
        /\ r.held = {} /\ r.unit = u /\ r.want = "cancelled"
    BY IdleFields DEF ThreadFields
  <1> HIDE DEF r
  <1>2. UnitWork(r)
    BY <1>1, EndsFacts DEF UnitWork, UnitPlaces
  <1> QED BY <1>2 DEF r

\* Reports, stops and cleanups keep the invariant.
LEMMA AskUnitMove ==
  ASSUME LocalInv, NEW t \in Threads,
         \/ \E w \in Works, c \in CellIds, st \in CellStates : Report(t, w, c, st)
         \/ \E c \in CellIds : StopRun(t, c) \/ Cleaned(t, c)
  PROVE  LocalInv'
  <1>1. CellsOK
    BY DEF LocalInv
  <1>2. \A c \in CellIds : cell[c].epoch \in Epochs /\ (cell[c].run # NoWork => cell[c].run \in Works)
        /\ (cell[c].state \in EndStates => cell[c].state \in Ends)
    BY <1>1 DEF CellsOK, EndStates, LiveCellStates
  <1>3. ASSUME NEW w \in Works, NEW c \in CellIds, NEW st \in CellStates, Report(t, w, c, st) PROVE LocalInv'
    <2>1. UNCHANGED <<admissionVars, cell, airflow>> /\ st \in Ends \cup {"running"} /\ <<w, c, cell[c].epoch>> \in Unit
      BY <1>2, <1>3 DEF Report, Ends, Unit
    <2>2. Become(t, [IdleThread EXCEPT !.at = "patch", !.want = st, !.unit = <<w, c, cell[c].epoch>>])
      BY <1>3 DEF Report
    <2> QED BY <2>1, <2>2, UnitAsked, UnitMove
  <1>4. ASSUME NEW c \in CellIds, StopRun(t, c) PROVE LocalInv'
    <2>1. UNCHANGED <<admissionVars, cell, airflow>> /\ <<cell[c].run, c, cell[c].epoch>> \in Unit /\ "cancelled" \in Ends
      BY <1>2, <1>4, EndsFacts DEF StopRun, Unit
    <2>2. Become(t, [IdleThread EXCEPT !.at = "patch", !.want = "cancelled", !.local = TRUE, !.unit = <<cell[c].run, c, cell[c].epoch>>])
      BY <1>4 DEF StopRun
    <2> QED BY <2>1, <2>2, StopAsked, UnitMove
  <1>5. ASSUME NEW c \in CellIds, Cleaned(t, c) PROVE LocalInv'
    <2>1. UNCHANGED <<admissionVars, cell, airflow>> /\ <<cell[c].run, c, cell[c].epoch>> \in Unit /\ cell[c].state \in Ends
      BY <1>2, <1>5 DEF Cleaned, Unit
    <2>2. Become(t, [IdleThread EXCEPT !.at = "members", !.want = cell[c].state, !.unit = <<cell[c].run, c, cell[c].epoch>>])
      BY <1>5 DEF Cleaned
    <2> QED BY <2>1, <2>2, UnitAsked, UnitMove
  <1> QED BY <1>3, <1>4, <1>5

\* Writing a transition to the Cell keeps the invariant.
LEMMA TransitionPatchMove ==
  ASSUME LocalInv, NEW t \in Threads, TransitionPatch(t)
  PROVE  LocalInv'
  <1> DEFINE th == thread[t]
             c == th.unit[2]
  <1>1. th.at = "patch" /\ UNCHANGED <<admissionVars, airflow>>
    BY DEF TransitionPatch, At
  <1>2. UnitWork(th) /\ DOMAIN th = ThreadFields /\ th.unit \in Unit /\ th.want \in Ends \cup {"running"} /\ CellsOK
    BY <1>1, UnitFacts DEF UnitPlaces, UnitWork, LocalInv
  <1>3. c \in CellIds /\ th.want \in LiveCellStates \cup Ends
    BY <1>2, UnitTypes DEF LiveCellStates
  <1>4. CASE UNCHANGED cell /\ Become(t, IdleThread)
    BY <1>1, <1>4, RestingPlaces, RestMove
  <1>5. cell[c].run \in Works \cup {NoWork}
    BY <1>2, <1>3 DEF CellsOK
  <1>6. ASSUME PatchOf(c, th.want, cell[c].run), NEW p \in {"stop", "members"}, th.want \in Ends, Goto(t, p)
        PROVE  LocalInv'
    <2> DEFINE r == [th EXCEPT !.at = p]
    <2>1. DOMAIN r = ThreadFields /\ r.at = p /\ r.work = th.work /\ r.owes = th.owes /\ r.bind = th.bind
          /\ r.todo = th.todo /\ r.held = th.held /\ r.unit = th.unit /\ r.want = th.want
      BY <1>2, GotoFields
    <2>2. Become(t, r)
      BY <1>6 DEF Goto
    <2> HIDE DEF r
    <2>3. UnitWork(r)
      BY <1>1, <1>2, <1>6, <2>1 DEF UnitWork, UnitPlaces
    <2>4. Sound(t, r, intents, airflow) /\ ~Attempting(r) /\ OldClaims(t, r)
      BY <2>3, UnitSound DEF OldClaims
    <2> HIDE DEF c
    <2> QED BY <1>1, <1>3, <1>5, <1>6, <2>2, <2>4, PatchMove
  <1>7. ASSUME PatchOf(c, th.want, cell[c].run), Become(t, IdleThread)
        PROVE  LocalInv'
    <2>1. Rests(IdleThread)
      BY RestingPlaces
    <2>2. Sound(t, IdleThread, intents, airflow) /\ ~Attempting(IdleThread) /\ OldClaims(t, IdleThread)
      <3>1. \A d \in CellIds : IdleThread.bind[d] \notin Epochs
        BY <2>1, EpochFacts DEF Rests
      <3> QED BY <2>1, <3>1, RestIsSound DEF OldClaims
    <2> HIDE DEF c
    <2> QED BY <1>1, <1>3, <1>5, <1>7, <2>2, PatchMove
  <1>8. CASE th.local /\ Patch(c, <<"stop", th.unit[1]>>, [cell[c] EXCEPT !.state = th.want]) /\ Goto(t, "stop")
    <2>1. PatchOf(c, th.want, cell[c].run)
      BY <1>2, <1>3, <1>8, PatchFields
    <2>2. th.want \in Ends
      BY <1>1, <1>2, <1>8 DEF UnitWork
    <2> QED BY <1>6, <1>8, <2>1, <2>2
  <1>9. CASE ~th.local /\ cell' = [cell EXCEPT ![c] = [cell[c] EXCEPT !.state = th.want]]
             /\ (IF th.want \in EndStates THEN Goto(t, "members") ELSE Become(t, IdleThread))
    <2>1. PatchOf(c, th.want, cell[c].run)
      BY <1>2, <1>3, <1>9, PatchFields
    <2>2. th.want \in EndStates => th.want \in Ends
      BY <1>2 DEF EndStates
    <2> QED BY <1>6, <1>7, <1>9, <2>1, <2>2
  <1> QED BY <1>4, <1>8, <1>9 DEF TransitionPatch

-----------------------------------------------------------------------------
\* A thread that claimed an order begins its delivery under a token nobody has had.
LEMMA DeliverMove ==
  ASSUME StoreInv, StoreInv', LocalInv, NEW t \in Threads, NEW w \in Works, NEW seen, NEW pumping,
         Become(t, Delivering(w, seen, pumping)), UNCHANGED <<cell, airflow>>,
         NEW n \in Nat, n > dispatch[w].attempt, dispatch'[w].token = n,
         intents' = intents \cup {[proc |-> ProcOf[t], work |-> w, token |-> n]},
         \/ UNCHANGED member
         \/ \A c \in CellIds : member'[w][c].epoch = NoEpoch /\ \A v \in Works : v # w => member'[v] = member[v],
         \A v \in Works : work'[v] = "bound" => work[v] = "bound"
  PROVE  LocalInv'
  <1> DEFINE p == IF w \in Attached THEN "attach" ELSE "look"
             b == [c \in CellIds |-> member'[w][c].epoch]
             k == dispatch'[w].token
             r == [IdleThread EXCEPT !.at = p, !.work = w, !.token = k, !.todo = Cells(w), !.bind = b, !.seen = seen, !.pumping = pumping]
  <1>1. Become(t, r) /\ p \in {"attach", "look"} /\ Cells(w) \subseteq CellIds
    BY OrderAssumption DEF Delivering
  <1>2. b \in [CellIds -> Epochs \cup {NoEpoch}]
    <2>1. member' \in [Works -> [CellIds -> Member]]
      BY DEF StoreInv, TypeOK
    <2>2. \A c \in CellIds : member'[w][c] \in Member
      BY <2>1
    <2>3. \A c \in CellIds : member'[w][c].epoch \in Epochs \cup {NoEpoch}
      BY <2>2 DEF Member
    <2> QED BY <2>3
  <1>3. \A c \in CellIds : b[c] = member'[w][c].epoch
    OBVIOUS
  <1> HIDE DEF p, b, k
  <1>4. DOMAIN r = ThreadFields /\ r.at = p /\ r.work = w /\ r.token = k /\ r.todo = Cells(w) /\ r.bind = b /\ r.held = {} /\ r.owes = NoWork
    BY IdleFields DEF ThreadFields
  <1>5. k = n
    BY DEF k
  <1> HIDE DEF r
  <1>6. Mine(t, r) = [proc |-> ProcOf[t], work |-> w, token |-> n]
    BY <1>4, <1>5 DEF Mine
  <1>7. Sound(t, r, intents', airflow)
    BY <1>1, <1>2, <1>4, <1>6 DEF Sound, UnitPlaces
  <1>8. OldClaims(t, r)
    BY <1>3, <1>4, EpochFacts DEF OldClaims
  <1>9. \A i \in intents : i.work = w => i.token # n
    <2> SUFFICES ASSUME NEW i \in intents, i.work = w PROVE i.token # n
      OBVIOUS
    <2>1. i.token \in 1 .. dispatch[i.work].attempt /\ dispatch[w] \in DispatchRow
      BY DEF StoreInv, IntentInv, TypeOK
    <2>2. dispatch[w].attempt \in Nat
      BY <2>1 DEF DispatchRow
    <2> QED BY <2>1, <2>2
  <1>10. \A v \in Works, c \in CellIds : member'[v][c].epoch \in Epochs => Claimed(v, c, member'[v][c].epoch, member, thread)
    BY EpochFacts DEF Claimed
  <1> QED BY <1>1, <1>4, <1>5, <1>7, <1>8, <1>9, <1>10, StoreMove

\* Claiming a dispatch takes a token above every earlier one.
LEMMA ClaimFacts ==
  ASSUME StoreInv, NEW q \in Procs, NEW w \in Works, ClaimDispatch(q, w)
  PROVE  /\ UNCHANGED member
         /\ \E n \in Nat : n > dispatch[w].attempt /\ dispatch'[w].token = n /\ intents' = intents \cup {[proc |-> q, work |-> w, token |-> n]}
         /\ \A v \in Works : work'[v] = "bound" => work[v] = "bound"
  <1>1. dispatch[w] \in DispatchRow /\ work \in [Works -> WorkStates] /\ dispatch \in [Works -> DispatchRow]
    BY DEF StoreInv, TypeOK
  <1>2. dispatch[w].attempt \in Nat
    BY <1>1 DEF DispatchRow
  <1> DEFINE n == dispatch[w].attempt + 1
  <1>3. dispatch' = [dispatch EXCEPT ![w] = Leased(n)] /\ intents' = intents \cup {[proc |-> q, work |-> w, token |-> n]}
        /\ work' = [work EXCEPT ![w] = "dispatching"] /\ UNCHANGED member
    BY DEF ClaimDispatch, Holds
  <1>4. n \in Nat /\ n > dispatch[w].attempt
    BY <1>2
  <1> HIDE DEF n
  <1>5. Leased(n).token = n
    BY DEF Leased
  <1> QED BY <1>1, <1>3, <1>4, <1>5

\* A submitted order starts with no epoch recorded.
LEMMA SubmitFacts ==
  ASSUME StoreInv, NEW w \in Works, NewRow(w)
  PROVE  \A c \in CellIds : member'[w][c].epoch = NoEpoch /\ \A v \in Works : v # w => member'[v] = member[v]
  <1>1. member \in [Works -> [CellIds -> Member]] /\ member' = [member EXCEPT ![w] = Reserved(w)]
    BY DEF StoreInv, TypeOK, NewRow
  <1>2. \A c \in CellIds : Reserved(w)[c].epoch = NoEpoch
    BY DEF Reserved
  <1> QED BY <1>1, <1>2

\* Submitting an order keeps the invariant.
LEMMA SubmitMove ==
  ASSUME StoreInv, StoreInv', LocalInv, NEW t \in Threads, NEW w \in Works, Submit(t, w)
  PROVE  LocalInv'
  <1>1. UNCHANGED <<cell, airflow>> /\ work \in [Works -> WorkStates] /\ dispatch \in [Works -> DispatchRow]
    BY DEF Submit, StoreInv, TypeOK
  <1>2. CASE SubmitAdmitted(Proc(t), w) /\ Become(t, Delivering(w, {}, FALSE))
    <2>1. NewRow(w) /\ work' = [work EXCEPT ![w] = "dispatching"] /\ dispatch' = [dispatch EXCEPT ![w] = Leased(1)]
          /\ intents' = intents \cup {[proc |-> ProcOf[t], work |-> w, token |-> 1]} /\ work[w] = "absent"
      BY <1>2 DEF SubmitAdmitted, Holds, NewRow, Proc
    <2>2. dispatch[w].attempt = 0
      BY <2>1 DEF StoreInv, RowInv, OutboxMatchesState
    <2>3. dispatch'[w].token = 1
      BY <1>1, <2>1 DEF Leased
    <2>4. \A v \in Works : work'[v] = "bound" => work[v] = "bound"
      BY <1>1, <2>1
    <2>5. 1 \in Nat /\ 1 > dispatch[w].attempt
      BY <2>2
    <2> QED BY <1>1, <1>2, <2>1, <2>3, <2>4, <2>5, SubmitFacts, DeliverMove
  <1>3. CASE SubmitQueued(w) /\ Become(t, [IdleThread EXCEPT !.at = "sweep"])
    <2> DEFINE r == [IdleThread EXCEPT !.at = "sweep"]
    <2>1. NewRow(w) /\ work' = [work EXCEPT ![w] = "queued"] /\ UNCHANGED intents
      BY <1>3 DEF SubmitQueued
    <2>2. Rests(r) /\ Become(t, r)
      BY <1>3, RestingPlaces
    <2> HIDE DEF r
    <2>3. \A v \in Works : work'[v] = "bound" => work[v] = "bound"
      BY <1>1, <2>1
    <2>4. \A v \in Works, c \in CellIds : member'[v][c].epoch \in Epochs => Claimed(v, c, member'[v][c].epoch, member, thread)
      BY <2>1, SubmitFacts, EpochFacts DEF Claimed
    <2>5. Sound(t, r, intents', airflow) /\ ~Attempting(r) /\ OldClaims(t, r)
      <3>1. \A c \in CellIds : r.bind[c] \notin Epochs
        BY <2>2, EpochFacts DEF Rests
      <3> QED BY <2>2, <3>1, RestIsSound DEF OldClaims
    <2> QED BY <1>1, <2>1, <2>2, <2>3, <2>4, <2>5, StoreMove
  <1> QED BY <1>2, <1>3 DEF Submit

\* Submitting an order again keeps the invariant.
LEMMA SubmitAgainMove ==
  ASSUME StoreInv, StoreInv', LocalInv, NEW t \in Threads, NEW w \in Works, SubmitAgain(t, w)
  PROVE  LocalInv'
  <1>1. UNCHANGED <<cell, airflow>> /\ Proc(t) \in Procs /\ Proc(t) = ProcOf[t]
    BY ThreadFacts DEF SubmitAgain, Proc
  <1>2. CASE ClaimDispatch(Proc(t), w) /\ Become(t, Delivering(w, {}, FALSE))
    <2>1. PICK n \in Nat : n > dispatch[w].attempt /\ dispatch'[w].token = n /\ intents' = intents \cup {[proc |-> ProcOf[t], work |-> w, token |-> n]}
      BY <1>1, <1>2, ClaimFacts
    <2>2. UNCHANGED member /\ \A v \in Works : work'[v] = "bound" => work[v] = "bound"
      BY <1>1, <1>2, ClaimFacts
    <2> QED BY <1>1, <1>2, <2>1, <2>2, DeliverMove
  <1>3. CASE UNCHANGED admissionVars /\ Goto(t, "sweep")
    BY <1>1, <1>3, ToSweep
  <1> QED BY <1>2, <1>3 DEF SubmitAgain

\* Pumping an order keeps the invariant.
LEMMA PumpMove ==
  ASSUME StoreInv, StoreInv', LocalInv, NEW t \in Threads, NEW w \in Works, Pump(t, w)
  PROVE  LocalInv'
  <1>1. UNCHANGED <<cell, airflow>> /\ Proc(t) \in Procs /\ Proc(t) = ProcOf[t] /\ thread[t].at = "pump"
    BY ThreadFacts DEF Pump, Proc, At
  <1> DEFINE th == thread[t]
             x == th.seen \cup {w}
  <1>2. CASE ClaimDispatch(Proc(t), w) /\ Become(t, Delivering(w, x, TRUE))
    <2>1. PICK n \in Nat : n > dispatch[w].attempt /\ dispatch'[w].token = n /\ intents' = intents \cup {[proc |-> ProcOf[t], work |-> w, token |-> n]}
      BY <1>1, <1>2, ClaimFacts
    <2>2. UNCHANGED member /\ \A v \in Works : work'[v] = "bound" => work[v] = "bound"
      BY <1>1, <1>2, ClaimFacts
    <2> HIDE DEF x
    <2> QED BY <1>1, <1>2, <2>1, <2>2, DeliverMove
  <1>3. CASE UNCHANGED admissionVars /\ Become(t, [thread[t] EXCEPT !.seen = @ \cup {w}])
    <2> DEFINE r == [th EXCEPT !.seen = x]
    <2>1. Sound(t, th, intents, airflow) /\ DOMAIN th = ThreadFields
      BY ThreadFacts
    <2>2. Become(t, r)
      BY <1>3, <2>1 DEF ThreadFields
    <2> HIDE DEF x
    <2>3. DOMAIN r = ThreadFields /\ r.at = "pump" /\ Kept(r, th) /\ r.bind = th.bind /\ r.held = th.held /\ r.todo = th.todo
      BY <1>1, <2>1 DEF Kept, ThreadFields
    <2> HIDE DEF r
    <2>4. Sound(t, r, intents, airflow) /\ ~Attempting(r) /\ OldClaims(t, r)
      BY <2>1, <2>3 DEF Sound, UnitPlaces, Attempting, OldClaims, Kept
    <2> QED BY <1>1, <1>3, <2>2, <2>4, QuietMove
  <1> QED BY <1>2, <1>3 DEF Pump

-----------------------------------------------------------------------------
\* Airflow moves: what exists goes on existing.
LEMMA RunMove ==
  ASSUME LocalInv, UNCHANGED <<admissionVars, cell, thread>>, DOMAIN airflow' = Works,
         \A w \in Works : Exists(airflow[w]) => Exists(airflow'[w])
  PROVE  LocalInv'
  <1>1. ThreadsOK /\ CellsOK /\ ClaimsOK /\ RunsOK /\ UNCHANGED <<work, member, intents, cell, thread>>
    BY DEF LocalInv, admissionVars
  <1>2. ThreadsOK'
    <2>1. DOMAIN thread = Threads /\ (\A p \in Threads : Sound(p, thread[p], intents, airflow))
          /\ \A p, u \in Threads : Attempting(thread[p]) /\ Attempting(thread[u]) /\ p # u =>
                             thread[p].work # thread[u].work \/ thread[p].token # thread[u].token
      BY <1>1 DEF ThreadsOK
    <2>2. ASSUME NEW p \in Threads PROVE Sound(p, thread[p], intents, airflow')
      <3>1. Sound(p, thread[p], intents, airflow)
        BY <2>1
      <3>2. thread[p].at \in {"bind", "bound"} => thread[p].work \in Works
        BY <3>1 DEF Sound, UnitPlaces, Attempting
      <3> QED BY <3>1, <3>2 DEF Sound, UnitPlaces
    <2> QED BY <1>1, <2>1, <2>2 DEF ThreadsOK
  <1>3. CellsOK'
    BY <1>1 DEF CellsOK
  <1>4. ClaimsOK'
    BY <1>1, ClaimsKept DEF SameCells
  <1>5. RunsOK'
    <2>1. \A c \in CellIds : cell[c].run # NoWork => cell[c].run \in Works
      BY <1>1 DEF CellsOK
    <2> QED BY <1>1, <2>1, RunsKept
  <1> QED BY <1>2, <1>3, <1>4, <1>5 DEF LocalInv

\* What a run does in Airflow keeps the invariant.
LEMMA RunSteps ==
  ASSUME LocalInv, NEW w \in Works, RunAppears(w) \/ RunEnds(w)
  PROVE  LocalInv'
  <1>1. UNCHANGED <<admissionVars, cell, thread>> /\ DOMAIN airflow = Works
    BY DEF RunAppears, RunEnds, LocalInv, RunsOK
  <1>2. PICK a \in {"live", "success", "failed"} : airflow' = [airflow EXCEPT ![w] = a]
    BY DEF RunAppears, RunEnds
  <1>3. DOMAIN airflow' = Works /\ \A v \in Works : Exists(airflow[v]) => Exists(airflow'[v])
    BY <1>1, <1>2 DEF Exists
  <1> QED BY <1>1, <1>3, RunMove

\* The invariant depends on six of the variables only.
LEMMA SameLocal ==
  ASSUME LocalInv, UNCHANGED <<work, member, intents, cell, airflow, thread>>
  PROVE  LocalInv'
  BY DEF LocalInv, ThreadsOK, CellsOK, ClaimsOK, RunsOK, RunBehindDelivery

\* A lease that expires keeps the invariant.
LEMMA ExpireMove ==
  ASSUME LocalInv, NEW w \in Works, Expire(w)
  PROVE  LocalInv'
  BY SameLocal DEF Expire, LeaseExpires

\* The threads of a dead process are gone with their intents.
LEMMA ProcessDiesMove ==
  ASSUME LocalInv, NEW q \in Procs, ProcessDies(q)
  PROVE  LocalInv'
  <1>1. ThreadsOK /\ CellsOK /\ ClaimsOK /\ RunsOK
    BY DEF LocalInv
  <1>2. UNCHANGED <<work, member, cell, airflow>> /\ intents' = {i \in intents : i.proc # q}
        /\ thread' = [t \in Threads |-> IF ProcOf[t] = q THEN IdleThread ELSE thread[t]]
    BY DEF ProcessDies, Crash
  <1>3. Rests(IdleThread)
    BY RestingPlaces
  <1>4. DOMAIN thread' = Threads /\ \A t \in Threads : thread'[t] = IF ProcOf[t] = q THEN IdleThread ELSE thread[t]
    BY <1>2
  <1>5. ~Attempting(IdleThread)
    BY <1>3, RestIsSound
  <1>6. ThreadsOK'
    <2>1. (\A p \in Threads : Sound(p, thread[p], intents, airflow))
          /\ \A p, u \in Threads : Attempting(thread[p]) /\ Attempting(thread[u]) /\ p # u =>
                             thread[p].work # thread[u].work \/ thread[p].token # thread[u].token
      BY <1>1 DEF ThreadsOK
    <2>2. ASSUME NEW p \in Threads PROVE Sound(p, thread'[p], intents', airflow')
      <3>1. CASE ProcOf[p] = q
        BY <1>3, <1>4, <3>1, RestIsSound
      <3>2. CASE ProcOf[p] # q
        <4>1. Sound(p, thread[p], intents, airflow) /\ thread'[p] = thread[p]
          BY <1>4, <2>1, <3>2
        <4>2. Mine(p, thread[p]).proc = ProcOf[p]
          BY DEF Mine
        <4>3. Mine(p, thread[p]) \in intents => Mine(p, thread[p]) \in intents'
          BY <1>2, <3>2, <4>2
        <4>4. Sound(p, thread[p], intents', airflow)
          BY <4>1, <4>3 DEF Sound, UnitPlaces
        <4> QED BY <1>2, <4>1, <4>4
      <3> QED BY <3>1, <3>2
    <2>3. \A p \in Threads : Attempting(thread'[p]) => thread'[p] = thread[p]
      BY <1>4, <1>5
    <2>4. \A p, u \in Threads : Attempting(thread'[p]) /\ Attempting(thread'[u]) /\ p # u =>
                             thread'[p].work # thread'[u].work \/ thread'[p].token # thread'[u].token
      BY <2>1, <2>3
    <2> QED BY <1>4, <2>2, <2>4 DEF ThreadsOK
  <1>7. CellsOK'
    BY <1>1, <1>2 DEF CellsOK
  <1>8. ClaimsOK'
    <2>1. \A c \in CellIds : IdleThread.bind[c] \notin Epochs
      BY <1>3, EpochFacts DEF Rests
    <2>2. \A w \in Works \cup {NoWork}, c \in CellIds, e \in Epochs :
            Claimed(w, c, e, member', thread') => Claimed(w, c, e, member, thread)
      BY <1>2, <1>4, <2>1 DEF Claimed
    <2>3. SameCells
      BY <1>2 DEF SameCells
    <2> QED BY <1>1, <2>2, <2>3, ClaimsKept
  <1>9. RunsOK'
    <2>1. \A c \in CellIds : cell[c].run # NoWork => cell[c].run \in Works
      BY <1>1 DEF CellsOK
    <2>2. DOMAIN airflow' = Works
      BY <1>1, <1>2 DEF RunsOK
    <2> QED BY <1>1, <1>2, <2>1, <2>2, RunsKept
  <1> QED BY <1>6, <1>7, <1>8, <1>9 DEF LocalInv

-----------------------------------------------------------------------------
(* Every step of the control loop is a step of the admission store, or     *)
(* none: it writes the store with an intent and units it really has.       *)

\* A step of an attempt is a step of the store's specification.
LEMMA AttemptStep ==
  ASSUME LocalInv, NEW t \in Threads, Attempting(thread[t]), Attempt(Own(t))
  PROVE  Next
  <1>1. Sound(t, thread[t], intents, airflow) /\ Own(t) = Mine(t, thread[t])
    BY ThreadFacts
  <1>2. Own(t) \in intents
    BY <1>1 DEF Sound, UnitPlaces
  <1> QED BY <1>2 DEF Next

\* The steps of a delivery are steps of the store's specification, or leave the store alone.
LEMMA DeliveryRefines ==
  ASSUME LocalInv, NEW t \in Threads,
         \/ AttachLost(t) \/ Record(t) \/ (\E c \in CellIds : BindLook(t, c)) \/ BindPatch(t) \/ Delivered(t)
         \/ Recover(t) \/ Observe(t) \/ Leave(t)
  PROVE  [Next]_admissionVars
  <1>1. thread[t].at \in {"attach", "record", "bind", "bound", "recover", "observe", "leave"}
    BY DEF AttachLost, Record, BindLook, BindPatch, Delivered, Recover, Observe, Leave, At
  <1>2. Attempting(thread[t])
    BY <1>1 DEF Attempting
  <1>3. CASE Record(t)
    <2>1. thread[t].at = "record"
      BY <1>3 DEF Record, At
    <2>2. Sound(t, thread[t], intents, airflow)
      BY ThreadFacts
    <2>3. thread[t].cell \in CellIds /\ thread[t].bind[thread[t].cell] \in Epochs
      BY <2>1, <2>2 DEF Sound, UnitPlaces
    <2>4. CASE RecordMemberEpoch(Own(t), thread[t].cell, thread[t].bind[thread[t].cell])
      BY <1>2, <2>3, <2>4, AttemptStep DEF Attempt
    <2> QED BY <1>3, <2>4 DEF Record
  <1>4. CASE AttachLost(t) \/ Leave(t) \/ (\E c \in CellIds : BindLook(t, c)) \/ BindPatch(t)
    <2>1. AttemptAborts(Own(t)) \/ UNCHANGED admissionVars
      BY <1>4 DEF AttachLost, Leave, Abort, BindLook, BindPatch
    <2> QED BY <1>2, <2>1, AttemptStep DEF Attempt
  <1>5. CASE Delivered(t)
    <2>1. AttemptAborts(Own(t)) \/ RecordDispatch(Own(t))
      BY <1>5 DEF Delivered
    <2> QED BY <1>2, <2>1, AttemptStep DEF Attempt
  <1>6. CASE Recover(t)
    <2>1. NoteOutcome(Own(t)) \/ ReleaseDispatch(Own(t))
      BY <1>6 DEF Recover
    <2> QED BY <1>2, <2>1, AttemptStep DEF Attempt
  <1>7. CASE Observe(t)
    <2>1. MarkUndeliverable(Own(t)) \/ UNCHANGED admissionVars
      BY <1>7 DEF Observe
    <2> QED BY <1>2, <2>1, AttemptStep DEF Attempt
  <1> QED BY <1>3, <1>4, <1>5, <1>6, <1>7

\* Ends of compensations, completions and releases are steps of the store's specification.
LEMMA ClosingRefines ==
  ASSUME LocalInv, NEW t \in Threads, UndoEnds(t) \/ CompleteUnit(t) \/ (\E u \in thread[t].held : Release(t, u))
  PROVE  [Next]_admissionVars
  <1>1. Sound(t, thread[t], intents, airflow) /\ Proc(t) \in Procs
    BY ThreadFacts DEF Proc
  <1>2. CASE UndoEnds(t)
    <2>1. thread[t].at = "undo"
      BY <1>2 DEF UndoEnds, At
    <2>2. thread[t].work \in Works /\ thread[t].want \in {"cancelled", "failed"} /\ thread[t].want \in Outcomes
      BY <1>1, <2>1, BackendAssumption DEF Sound, UnitPlaces
    <2>3. CASE Cancel(Proc(t), thread[t].work, thread[t].want)
      <3>1. Close
        BY <1>1, <2>2, <2>3 DEF Close
      <3> QED BY <3>1 DEF Next
    <2> QED BY <1>2, <2>3 DEF UndoEnds
  <1>3. ASSUME NEW u \in Unit, NEW next, CompleteBy(t, u, next), thread[t].want \in Ends PROVE [Next]_admissionVars
    <2>1. u[1] \in Works /\ u[2] \in CellIds /\ u[3] \in Epochs /\ thread[t].want \in Outcomes
      BY <1>3, UnitTypes DEF Ends
    <2>2. CASE Complete(Proc(t), u[1], u[2], u[3], thread[t].want)
      <3>1. Close
        BY <1>1, <2>1, <2>2 DEF Close
      <3> QED BY <3>1 DEF Next
    <2> QED BY <1>3, <2>2 DEF CompleteBy
  <1>4. CASE CompleteUnit(t)
    <2>1. thread[t].at = "complete"
      BY <1>4 DEF CompleteUnit, At
    <2>2. thread[t].unit \in Unit /\ thread[t].want \in Ends
      BY <2>1, UnitFacts DEF UnitWork, UnitPlaces
    <2> QED BY <1>3, <1>4, <2>2 DEF CompleteUnit
  <1>5. ASSUME NEW u \in thread[t].held, Release(t, u) PROVE [Next]_admissionVars
    <2>1. thread[t].at = "release"
      BY <1>5 DEF Release, At
    <2>2. u \in Unit /\ thread[t].want \in Ends
      BY <2>1, UnitFacts DEF UnitWork, UnitPlaces
    <2> QED BY <1>3, <1>5, <2>2 DEF Release
  <1> QED BY <1>2, <1>4, <1>5

\* Submissions and claims are steps of the store's specification.
LEMMA ClaimingRefines ==
  ASSUME LocalInv, NEW t \in Threads, NEW w \in Works, Submit(t, w) \/ SubmitAgain(t, w) \/ Pump(t, w)
  PROVE  [Next]_admissionVars
  <1>1. Proc(t) \in Procs
    BY ThreadFacts DEF Proc
  <1>2. SubmitAdmitted(Proc(t), w) \/ SubmitQueued(w) \/ ClaimDispatch(Proc(t), w) \/ UNCHANGED admissionVars
    BY DEF Submit, SubmitAgain, Pump
  <1> QED BY <1>1, <1>2 DEF Next

\* Steps of a drain are steps of the store's specification.
LEMMA DrainRefines ==
  ASSUME LocalInv, NEW t \in Threads, OpenDrain(t) \/ StepDrain(t)
  PROVE  [Next]_admissionVars
  <1>1. Sound(t, thread[t], intents, airflow) /\ Proc(t) \in Procs
    BY ThreadFacts DEF Proc
  <1>2. CASE OpenDrain(t)
    <2>1. thread[t].owes \in Works
      BY <1>1, <1>2 DEF OpenDrain, Sound, UnitPlaces
    <2>2. Drain
      BY <1>1, <1>2, <2>1 DEF OpenDrain, Drain
    <2> QED BY <2>2 DEF Next
  <1>3. CASE StepDrain(t)
    <2>1. Drain
      BY <1>3 DEF StepDrain, Drain
    <2> QED BY <2>1 DEF Next
  <1> QED BY <1>2, <1>3

\* What a thread does between two transactions of the store.
Aside(t) ==
  \/ Attach(t) \/ AttachRefused(t) \/ Activate(t) \/ Policy(t) \/ MembersBound(t) \/ Post(t) \/ PostRaises(t)
  \/ \E c \in CellIds : Look(t, c) \/ UndoLook(t, c) \/ StopRun(t, c) \/ Cleaned(t, c)
  \/ Retire(t) \/ UndoPatch(t) \/ Sweep(t) \/ Settle(t) \/ SettleNothing(t) \/ SettlePatch(t) \/ StartPump(t) \/ PumpEnds(t)
  \/ \E u \in thread[t].held : Reconcile(t, u)
  \/ TransitionPatch(t) \/ StopReturns(t) \/ StopRaises(t) \/ MembersForCell(t) \/ ReleaseEnds(t) \/ Resume(t)
  \/ \E w \in Works : Withdraw(t, w)
  \/ \E w \in Works, c \in CellIds, s \in CellStates : Report(t, w, c, s)

\* Everything else leaves the store alone.
LEMMA AsideRefines ==
  ASSUME NEW t \in Threads, Aside(t)
  PROVE  UNCHANGED admissionVars
  BY DEF Aside, Attach, AttachRefused, Activate, Policy, MembersBound, Post, PostRaises, Look, UndoLook, StopRun, Cleaned,
     Retire, UndoPatch, Sweep, Settle, SettleNothing, SettlePatch, StartPump, PumpEnds, Reconcile, TransitionPatch,
     StopReturns, StopRaises, MembersForCell, ReleaseEnds, Resume, Withdraw, Report

\* The steps that leave the store alone keep the invariant.
LEMMA AsideMove ==
  ASSUME StoreInv, LocalInv, NEW t \in Threads, Aside(t)
  PROVE  LocalInv'
  <1>1. CASE Attach(t) \/ AttachRefused(t) \/ Activate(t) \/ Policy(t) \/ MembersBound(t) \/ Post(t) \/ PostRaises(t)
    BY <1>1, AttachMove, AttachRefusedMove, ActivateMove, PolicyMove, MembersBoundMove, PostMove, PostRaisesMove
  <1>2. CASE \E c \in CellIds : Look(t, c) \/ UndoLook(t, c) \/ StopRun(t, c) \/ Cleaned(t, c)
    BY <1>2, LookMove, UndoLookMove, AskUnitMove
  <1>3. CASE Retire(t) \/ UndoPatch(t) \/ Sweep(t) \/ Settle(t) \/ SettleNothing(t) \/ SettlePatch(t) \/ StartPump(t) \/ PumpEnds(t)
    BY <1>3, RetireMove, UndoPatchMove, SweepMove, SettleMove, SettlePatchMove, PumpEdges
  <1>4. CASE \E u \in thread[t].held : Reconcile(t, u)
    BY <1>4, ReconcileMove
  <1>5. CASE TransitionPatch(t) \/ StopReturns(t) \/ StopRaises(t) \/ MembersForCell(t) \/ ReleaseEnds(t) \/ Resume(t)
    BY <1>5, TransitionPatchMove, StopReturnsMove, PumpEdges, MembersForCellMove, ReleaseEndsMove
  <1>6. CASE \E w \in Works : Withdraw(t, w)
    BY <1>6, WithdrawMove
  <1>7. CASE \E w \in Works, c \in CellIds, s \in CellStates : Report(t, w, c, s)
    BY <1>7, AskUnitMove
  <1> QED BY <1>1, <1>2, <1>3, <1>4, <1>5, <1>6, <1>7 DEF Aside

\* The steps of a request, by what they do to the store.
LEMMA ThreadCases ==
  ASSUME NEW t \in Threads, Step(t) \/ Ask(t) \/ PostRaises(t) \/ SettleNothing(t) \/ StopRaises(t)
  PROVE  \/ Aside(t)
         \/ AttachLost(t) \/ Record(t) \/ (\E c \in CellIds : BindLook(t, c)) \/ BindPatch(t) \/ Delivered(t)
         \/ Recover(t) \/ Observe(t) \/ Leave(t)
         \/ UndoEnds(t) \/ CompleteUnit(t) \/ (\E u \in thread[t].held : Release(t, u))
         \/ (\E w \in Works : Submit(t, w) \/ SubmitAgain(t, w) \/ Pump(t, w))
         \/ OpenDrain(t) \/ StepDrain(t)
  <1>1. CASE Step(t)
    BY <1>1, Zenon DEF Step, Aside
  <1>2. CASE Ask(t)
    BY <1>2, Zenon DEF Ask, Aside
  <1>3. CASE PostRaises(t) \/ SettleNothing(t) \/ StopRaises(t)
    BY <1>3, Zenon DEF Aside
  <1> QED BY <1>1, <1>2, <1>3

\* Every step of the backend is a step of the store's specification, or leaves the store alone.
LEMMA BackendRefines ==
  ASSUME LocalInv, [BackendNext]_backendVars
  PROVE  [Next]_admissionVars
  <1>1. CASE UNCHANGED backendVars
    BY <1>1 DEF backendVars
  <1>2. ASSUME NEW t \in Threads, Step(t) \/ Ask(t) \/ PostRaises(t) \/ SettleNothing(t) \/ StopRaises(t)
        PROVE  [Next]_admissionVars
    <2>1. CASE Aside(t)
      BY <2>1, AsideRefines
    <2> QED BY <1>2, <2>1, ThreadCases, DeliveryRefines, ClosingRefines, ClaimingRefines, DrainRefines
  <1>3. ASSUME NEW w \in Works, RunAppears(w) \/ RunEnds(w) \/ Expire(w) PROVE [Next]_admissionVars
    <2>1. UNCHANGED admissionVars \/ LeaseExpires(w)
      BY <1>3 DEF RunAppears, RunEnds, Expire
    <2> QED BY <2>1 DEF Next
  <1>4. ASSUME NEW q \in Procs, ProcessDies(q) PROVE [Next]_admissionVars
    BY <1>4 DEF ProcessDies, Next
  <1> QED BY <1>1, <1>2, <1>3, <1>4 DEF BackendNext

\* Every step of the backend keeps its invariant.
LEMMA BackendStep ==
  ASSUME BackendInv, [BackendNext]_backendVars
  PROVE  BackendInv'
  <1>1. StoreInv /\ LocalInv
    BY DEF BackendInv
  <1>2. StoreInv'
    BY <1>1, BackendRefines, StoreNext
  <1>3. ASSUME UNCHANGED backendVars PROVE LocalInv'
    BY <1>1, <1>3, SameLocal DEF backendVars, admissionVars
  <1>4. ASSUME NEW t \in Threads, Step(t) \/ Ask(t) \/ PostRaises(t) \/ SettleNothing(t) \/ StopRaises(t)
        PROVE  LocalInv'
    <2>1. CASE Aside(t)
      BY <1>1, <2>1, AsideMove
    <2>2. CASE AttachLost(t) \/ Record(t) \/ (\E c \in CellIds : BindLook(t, c)) \/ BindPatch(t) \/ Delivered(t)
               \/ Recover(t) \/ Observe(t) \/ Leave(t)
      BY <1>1, <2>2, LeaveMove, RecordMove, BindLookMove, BindPatchMove, DeliveredMove, RecoverStepMove, ObserveMove
    <2>3. CASE UndoEnds(t) \/ CompleteUnit(t) \/ (\E u \in thread[t].held : Release(t, u))
      BY <1>1, <2>3, UndoEndsMove, CompleteUnitMove, ReleaseMove
    <2>4. CASE \E w \in Works : Submit(t, w) \/ SubmitAgain(t, w) \/ Pump(t, w)
      BY <1>1, <1>2, <2>4, SubmitMove, SubmitAgainMove, PumpMove
    <2>5. CASE OpenDrain(t) \/ StepDrain(t)
      BY <1>1, <2>5, OpenDrainMove, StepDrainMove
    <2> QED BY <1>4, <2>1, <2>2, <2>3, <2>4, <2>5, ThreadCases
  <1>5. ASSUME NEW w \in Works, RunAppears(w) \/ RunEnds(w) \/ Expire(w) PROVE LocalInv'
    BY <1>1, <1>5, RunSteps, ExpireMove
  <1>6. ASSUME NEW q \in Procs, ProcessDies(q) PROVE LocalInv'
    BY <1>1, <1>6, ProcessDiesMove
  <1>7. LocalInv'
    BY <1>3, <1>4, <1>5, <1>6 DEF BackendNext
  <1> QED BY <1>2, <1>7 DEF BackendInv

\* The backend starts with idle threads and Cells that were never activated.
LEMMA BackendBegin == BackendInit => BackendInv
  <1> SUFFICES ASSUME BackendInit PROVE BackendInv
    OBVIOUS
  <1>1. StoreInv
    BY StoreInit DEF BackendInit
  <1>2. thread = [t \in Threads |-> IdleThread] /\ airflow = [w \in Works |-> IF w \in Attached THEN "live" ELSE "absent"]
        /\ cell = [c \in CellIds |-> [epoch |-> 1, state |-> "created", by |-> NoWork, run |-> NoWork, keys |-> {}]]
        /\ work = [w \in Works |-> "absent"]
        /\ member = [w \in Works |-> [c \in CellIds |-> [epoch |-> NoEpoch, state |-> "none"]]]
    BY DEF BackendInit, Init
  <1>3. Rests(IdleThread) /\ ~Attempting(IdleThread)
    BY RestingPlaces, RestIsSound
  <1>4. ThreadsOK
    BY <1>2, <1>3, RestIsSound DEF ThreadsOK
  <1>5. CellsOK
    BY <1>2, BackendAssumption DEF CellsOK, RowFields
  <1>6. ClaimsOK
    <2>1. \A c \in CellIds : IdleThread.bind[c] \notin Epochs
      BY <1>3, EpochFacts DEF Rests
    <2>2. \A w \in Works, c \in CellIds : member[w][c].epoch \notin Epochs
      BY <1>2, EpochFacts
    <2>3. \A w \in Works \cup {NoWork}, c \in CellIds, e \in Epochs : ~Claimed(w, c, e, member, thread)
      BY <1>2, <2>1, <2>2 DEF Claimed
    <2> QED BY <2>3 DEF ClaimsOK
  <1>7. RunsOK
    BY <1>2, BackendAssumption DEF RunsOK, RunBehindDelivery, Exists
  <1> QED BY <1>1, <1>4, <1>5, <1>6, <1>7 DEF BackendInv, LocalInv

\* The invariant holds for every number of threads, processes, orders, Cells and epochs.
THEOREM BackendInvariant == BackendSpec => []BackendInv
  <1>1. BackendInv /\ [BackendNext]_backendVars => BackendInv'
    BY BackendStep
  <1> QED BY <1>1, BackendBegin, PTL DEF BackendSpec

\* The backend implements the admission store: ImplementsAdmission for every value of the constants.
THEOREM BackendKeepsStore == BackendSpec => ImplementsAdmission
  <1>1. BackendInit => Init
    BY DEF BackendInit
  <1>2. BackendInv /\ [BackendNext]_backendVars => [Next]_admissionVars
    BY BackendRefines DEF BackendInv
  <1> QED BY <1>1, <1>2, BackendInvariant, PTL DEF BackendSpec, ImplementsAdmission, Spec

\* OneOwnerPerEpoch for every value of the constants: an epoch of a Cell is recorded by one order at most.
THEOREM OneOwner == BackendSpec => []OneOwnerPerEpoch
  <1>1. BackendInv => OneOwnerPerEpoch
    <2> SUFFICES ASSUME BackendInv, NEW w \in Works, NEW v \in Works, NEW c \in CellIds,
                        member[w][c].epoch # NoEpoch, member[w][c].epoch = member[v][c].epoch
                 PROVE  w = v
      BY DEF OneOwnerPerEpoch
    <2>1. member[w][c].epoch \in Epochs
      <3>1. member \in [Works -> [CellIds -> Member]]
        BY DEF BackendInv, StoreInv, TypeOK
      <3>2. member[w][c] \in Member
        BY <3>1
      <3> QED BY <3>2 DEF Member
    <2>2. Claimed(w, c, member[w][c].epoch, member, thread) /\ Claimed(v, c, member[w][c].epoch, member, thread)
      BY DEF Claimed
    <2> QED BY <2>1, <2>2 DEF BackendInv, LocalInv, ClaimsOK
  <1> QED BY <1>1, BackendInvariant, PTL

\* RunBehindDelivery for every value of the constants: no order is bound, and no Cell names a run, without a run
\* in Airflow.
THEOREM RunBehind == BackendSpec => []RunBehindDelivery
  <1>1. BackendInv => RunBehindDelivery
    BY DEF BackendInv, LocalInv, RunsOK
  <1> QED BY <1>1, BackendInvariant, PTL

==============================================================================
