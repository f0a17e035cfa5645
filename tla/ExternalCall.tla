---------------------------- MODULE ExternalCall ----------------------------
(***************************************************************************)
(* One model call in a confined Docker container (sandbox.DockerSandbox).  *)
(*                                                                         *)
(* The call is written to external-processes.jsonl before each step that   *)
(* the daemon may carry out: "intent" before docker create, "created" with *)
(* the identity the daemon returned, "start_intent" before docker start    *)
(* (the only step that can cost money), "cleaned" after the container was  *)
(* seen, removed and seen absent.  The worker may be killed between any    *)
(* two steps, a client may time out while the daemon still carries out     *)
(* what it was asked, and the backend's sweep removes the containers of a  *)
(* Cell that is over without looking at this journal.                      *)
(*                                                                         *)
(* A container is numbered by the attempt that named it; the labels of a   *)
(* container are those of this run (Cell, epoch, attempt).                 *)
(***************************************************************************)
EXTENDS Naturals, Sequences, FiniteSets

CONSTANTS
    Calls,          \* the identities the call ledger hands out
    MaxContainers   \* bound: external attempts of the run

ASSUME ExternalAssumption == MaxContainers \in Nat \ {0}

VARIABLES
    xlog,      \* external-processes.jsonl: the records, oldest first
    box,       \* the daemon: what became of each container
    wire,      \* requests the daemon has not carried out yet
    launch,    \* the worker inside run_external, _reap_external or close
    proof,     \* external-not-started/<call>.json: the refused container, or 0
    released,  \* calls whose reservation the ledger gave back
    harness,   \* the containers in which the harness has ever run
    over       \* the Cell of this run is in a terminal state

xvars == <<xlog, box, wire, launch, proof, released, harness, over>>

Containers == 1..MaxContainers

NoLaunch == [step |-> "idle", call |-> "none", k |-> 0, id |-> FALSE, refused |-> FALSE]

\* A container docker ps -a lists.
Listed(k) == box[k] \in {"created", "running", "exited"}

XAppend(k, c, e) == xlog' = Append(xlog, [k |-> k, call |-> c, event |-> e])

XRecords == {xlog[i] : i \in DOMAIN xlog}

XLogged(k, e) == \E r \in XRecords : r.k = k /\ r.event = e

\* _reap_external: the attempts the journal opened and never saw cleaned.
Unresolved == {k \in Containers : XLogged(k, "intent") /\ ~XLogged(k, "cleaned")}

CallAttempts == Cardinality({k \in Containers : XLogged(k, "intent")})

-----------------------------------------------------------------------------
XInit ==
    /\ xlog = <<>>
    /\ box = [k \in Containers |-> "none"]
    /\ wire = {}
    /\ launch = NoLaunch
    /\ proof = [c \in Calls |-> 0]
    /\ released = {}
    /\ harness = {}
    /\ over = FALSE

\* preflight_external and the journal's intent.  A call identity is used once
\* (the call ledger fences it), and no earlier attempt may be unresolved or
\* still listed: an empty listing does not show that a create will not land.
Clear == Unresolved = {} /\ \A k \in Containers : ~Listed(k)

Launch(c) ==
    /\ launch.step = "idle" /\ Clear
    /\ ~\E r \in XRecords : r.call = c
    /\ CallAttempts < MaxContainers
    /\ LET k == CallAttempts + 1
       IN  /\ XAppend(k, c, "intent")
           /\ launch' = [NoLaunch EXCEPT !.step = "intended", !.call = c, !.k = k]
    /\ UNCHANGED <<box, wire, proof, released, harness, over>>

\* docker create is sent.
SendCreate ==
    /\ launch.step = "intended"
    /\ wire' = wire \cup {[op |-> "create", k |-> launch.k]}
    /\ launch' = [launch EXCEPT !.step = "creating"]
    /\ UNCHANGED <<xlog, box, proof, released, harness, over>>

\* The daemon creates the container, for a client that may be gone.
LandCreate(k) ==
    /\ [op |-> "create", k |-> k] \in wire
    /\ wire' = wire \ {[op |-> "create", k |-> k]}
    /\ box' = [box EXCEPT ![k] = "created"]
    /\ UNCHANGED <<xlog, launch, proof, released, harness, over>>

\* The daemon answers "Error response from daemon": nothing was created.
RefuseCreate(k) ==
    /\ [op |-> "create", k |-> k] \in wire
    /\ wire' = wire \ {[op |-> "create", k |-> k]}
    /\ launch' = IF launch.step = "creating" /\ launch.k = k
                   THEN [launch EXCEPT !.step = "cleanup", !.refused = TRUE]
                   ELSE launch
    /\ UNCHANGED <<xlog, box, proof, released, harness, over>>

\* Mutant: a client that timed out counts as a refusal.
LoseCreateRefused ==
    /\ launch.step = "creating"
    /\ launch' = [launch EXCEPT !.step = "cleanup", !.refused = TRUE]
    /\ UNCHANGED <<xlog, box, wire, proof, released, harness, over>>

\* The client gives up, or its output is no identity: not a refusal.
LoseCreate ==
    /\ launch.step = "creating"
    /\ launch' = [launch EXCEPT !.step = "cleanup"]
    /\ UNCHANGED <<xlog, box, wire, proof, released, harness, over>>

ReceiveIdentity ==
    /\ launch.step = "creating" /\ box[launch.k] # "none"
    /\ launch' = [launch EXCEPT !.step = "named", !.id = TRUE]
    /\ UNCHANGED <<xlog, box, wire, proof, released, harness, over>>

RecordCreated ==
    /\ launch.step = "named"
    /\ XAppend(launch.k, launch.call, "created")
    /\ launch' = [launch EXCEPT !.step = "recorded"]
    /\ UNCHANGED <<box, wire, proof, released, harness, over>>

\* The created container is confirmed by a listing before the start intent;
\* one that is not listed, or already runs, goes to the cleanup.
Arm ==
    /\ launch.step = "recorded"
    /\ IF box[launch.k] = "created"
         THEN /\ XAppend(launch.k, launch.call, "start_intent")
              /\ launch' = [launch EXCEPT !.step = "armed"]
         ELSE /\ launch' = [launch EXCEPT !.step = "cleanup"]
              /\ UNCHANGED xlog
    /\ UNCHANGED <<box, wire, proof, released, harness, over>>

SendStart ==
    /\ launch.step = "armed"
    /\ wire' = wire \cup {[op |-> "start", k |-> launch.k]}
    /\ launch' = [launch EXCEPT !.step = "starting"]
    /\ UNCHANGED <<xlog, box, proof, released, harness, over>>

\* The daemon starts the container, or finds it removed.
LandStart(k) ==
    /\ [op |-> "start", k |-> k] \in wire
    /\ wire' = wire \ {[op |-> "start", k |-> k]}
    /\ IF box[k] = "created"
         THEN box' = [box EXCEPT ![k] = "running"] /\ harness' = harness \cup {k}
         ELSE UNCHANGED <<box, harness>>
    /\ UNCHANGED <<xlog, launch, proof, released, over>>

HarnessExits(k) ==
    /\ box[k] = "running"
    /\ box' = [box EXCEPT ![k] = "exited"]
    /\ UNCHANGED <<xlog, wire, launch, proof, released, harness, over>>

\* docker start --attach returns, fails or times out: the finally block.
StartReturns ==
    /\ launch.step = "starting"
    /\ launch' = [launch EXCEPT !.step = "cleanup"]
    /\ UNCHANGED <<xlog, box, wire, proof, released, harness, over>>

-----------------------------------------------------------------------------
\* _reap_external picks a listed container: of an unresolved attempt it knows
\* the identity the journal recorded, of any other it takes the listed one.
Reap(k) ==
    /\ launch.step = "idle" /\ Listed(k)
    /\ launch' = [NoLaunch EXCEPT
                     !.step = "cleanup", !.k = k,
                     !.call = (CHOOSE r \in XRecords : r.k = k /\ r.event = "intent").call,
                     !.id = k \in Unresolved => XLogged(k, "created")]
    /\ UNCHANGED <<xlog, box, wire, proof, released, harness, over>>

\* _cleanup_external, first observation: an absent container is settled only
\* for a refused create; a listed one must carry the identity the worker or
\* the journal holds.
CleanupSettlesAbsence == launch.refused

CleanupAbsent ==
    /\ launch.step = "cleanup" /\ ~Listed(launch.k)
    /\ IF CleanupSettlesAbsence
         THEN XAppend(launch.k, launch.call, "cleaned")
              /\ launch' = [launch EXCEPT !.step = "proving"]
         ELSE launch' = NoLaunch /\ UNCHANGED xlog
    /\ UNCHANGED <<box, wire, proof, released, harness, over>>

CleanupForeign ==
    /\ launch.step = "cleanup" /\ Listed(launch.k) /\ ~launch.id
    /\ launch' = NoLaunch
    /\ UNCHANGED <<xlog, box, wire, proof, released, harness, over>>

\* docker rm -f: done, or failed with the container left.
CleanupRemove ==
    /\ launch.step = "cleanup" /\ Listed(launch.k) /\ launch.id
    /\ \/ /\ box' = [box EXCEPT ![launch.k] = "gone"]
          /\ launch' = [launch EXCEPT !.step = "removed"]
       \/ launch' = NoLaunch /\ UNCHANGED box
    /\ UNCHANGED <<xlog, wire, proof, released, harness, over>>

\* Second observation, then the terminal record.
CleanupConfirm ==
    /\ launch.step = "removed"
    /\ XAppend(launch.k, launch.call, "cleaned")
    /\ launch' = NoLaunch
    /\ UNCHANGED <<box, wire, proof, released, harness, over>>

\* The refused call's no-start proof is written after its cleanup.
WriteProof ==
    /\ launch.step = "proving"
    /\ proof' = [proof EXCEPT ![launch.call] = launch.k]
    /\ launch' = NoLaunch
    /\ UNCHANGED <<xlog, box, wire, released, harness, over>>

-----------------------------------------------------------------------------
\* external_no_start_observation: what the proof and the call's records say.
DefinitelyAbsent(c) ==
    LET records == SelectSeq(xlog, LAMBDA r : r.call = c)
    IN  /\ proof[c] # 0
        /\ records # <<>>
        /\ records[Len(records)].event = "cleaned"
        /\ \A i \in DOMAIN records : records[i].event # "start_intent" /\ records[i].k = proof[c]

\* stages._agent: the ledger gives the reservation back.
Release(c) ==
    /\ launch.step = "idle"
    /\ c \notin released /\ DefinitelyAbsent(c)
    /\ released' = released \cup {c}
    /\ UNCHANGED <<xlog, box, wire, launch, proof, harness, over>>

\* close(): teardown is refused while recovery is unresolved.
CloseRun ==
    /\ launch.step = "idle" /\ Clear
    /\ launch' = [NoLaunch EXCEPT !.step = "closed"]
    /\ UNCHANGED <<xlog, box, wire, proof, released, harness, over>>

\* The worker is killed.  An error raised by a listing or a write ends the
\* call at the same place, and leaves the same state.
WorkerKilled ==
    /\ launch.step \notin {"idle", "closed"}
    /\ launch' = NoLaunch
    /\ UNCHANGED <<xlog, box, wire, proof, released, harness, over>>

\* The Cell ends (a stop, a withdrawal): the run may still be working.
CellEnds ==
    /\ ~over /\ over' = TRUE
    /\ UNCHANGED <<xlog, box, wire, launch, proof, released, harness>>

\* maintain.sweep_containers: a listed container of a Cell that is over.
SweepContainer(k) ==
    /\ over /\ Listed(k)
    /\ box' = [box EXCEPT ![k] = "gone"]
    /\ UNCHANGED <<xlog, wire, launch, proof, released, harness, over>>

WorkerStep ==
    \/ \E c \in Calls : Launch(c) \/ Release(c)
    \/ SendCreate \/ LoseCreate \/ ReceiveIdentity \/ RecordCreated
    \/ Arm \/ SendStart \/ StartReturns
    \/ \E k \in Containers : Reap(k)
    \/ CleanupAbsent \/ CleanupForeign \/ CleanupRemove \/ CleanupConfirm
    \/ WriteProof \/ CloseRun \/ WorkerKilled

DaemonStep ==
    \E k \in Containers : \/ LandCreate(k) \/ RefuseCreate(k) \/ LandStart(k)
                          \/ HarnessExits(k) \/ SweepContainer(k)

XNext == WorkerStep \/ DaemonStep \/ CellEnds

XSpec == XInit /\ [][XNext]_xvars
-----------------------------------------------------------------------------

\* The containers of a call.
OfCall(c) == {r.k : r \in {x \in XRecords : x.call = c}}

\* A reservation is given back only for a call whose harness never ran and
\* can never run: no container of it is listed and nothing asked of the
\* daemon can still make one (run_external, external_no_start_observation).
NoStartProofHolds ==
    \A c \in released : \A k \in OfCall(c) :
        k \notin harness /\ ~Listed(k) /\ ~\E m \in wire : m.k = k

\* While a harness runs it has the checkout to itself: no other container of
\* the run is listed or still to be created, whatever was killed before it.
HarnessAlone ==
    \A k \in Containers : box[k] = "running" =>
        /\ \A j \in Containers \ {k} : ~Listed(j)
        /\ ~\E m \in wire : m.op = "create"

\* A run that Airflow marks cleaned left nothing: no container is listed, and
\* no create the daemon was asked for can still land (close, recover_external).
ClosedRunIsGone ==
    launch.step = "closed" =>
        /\ \A k \in Containers : ~Listed(k)
        /\ ~\E m \in wire : m.op = "create"

\* Containers are accounted for across kills and late answers of the daemon: a reservation given back never
\* runs, a harness is alone in its checkout, and a closed run left nothing.
ContainersAccountedFor == NoStartProofHolds /\ HarnessAlone /\ ClosedRunIsGone
=============================================================================
