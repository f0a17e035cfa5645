------------------------------ MODULE ForkWave ------------------------------
(***************************************************************************)
(* One parallel wave of Plan.work over provider forks: run_wave, recover   *)
(* and teardown of swfactory/fork_wave.py, the executor of                 *)
(* swfactory/work_executor.py and the boat.dev adapter of boat.py.         *)
(*                                                                         *)
(* The parent cell is parked, every pending node gets a forked child VM    *)
(* and a runner thread, and the patches are merged into the resumed parent *)
(* by node id.  The wave journal (the fork keys of the progress journal)   *)
(* is written before and after every provider call; the task may die       *)
(* between any two steps, and a retry or the teardown task cleans up.      *)
(*                                                                         *)
(* The provider is external.  A fork request whose answer is lost may have *)
(* made a VM; repeated under its key it returns that VM, and makes one     *)
(* where there is none.  A VM stops by itself when its lease has run out.  *)
(*                                                                         *)
(* Simplifications: a child's lineage check, agent call, commit and        *)
(* harvest are one step that succeeds or fails; a merge (journalled by     *)
(* work_stage._fork_merge, module BuildStage) is one step; the gates of    *)
(* fork_decision that are settings are constants and its budget gate is a  *)
(* free choice; halting a sibling is left to the runner's own reap.        *)
(***************************************************************************)
EXTENDS Naturals, FiniteSets, FiniteSetsExt

CONSTANTS
  ForkNodes,       \* the nodes of the wave, numbers
  MaxParallel,     \* cfg.max_parallel_forks
  MaxWaves,        \* bound on waves: every retry forks under new keys
  MaxForkKills     \* bound on deaths of the task

ASSUME ForkAssumption ==
  /\ ForkNodes \subseteq Nat /\ IsFiniteSet(ForkNodes)
  /\ MaxParallel \in Nat \ {0} /\ MaxWaves \in Nat \ {0} /\ MaxForkKills \in Nat

VARIABLES
  wave,       \* progress["fork_wave"]
  merged,     \* merged[n]: how often a patch of node n was merged
  parent,     \* the parent VM at the provider
  vm,         \* vm[k]: the child VM of fork key k at the provider
  leaseOver,  \* keys whose first request is older than its lease and the grace
  runner,     \* runner[n]: the thread of node n in the pool
  task,       \* the thread that drives the wave
  forkKills

forkVars == <<wave, merged, parent, vm, leaseOver, runner, task, forkKills>>

Keys    == (1 .. MaxWaves) \X ForkNodes
Key(n)  == <<wave.round, n>>
Unlisted == [listed |-> FALSE, requested |-> FALSE, child |-> FALSE, reaped |-> FALSE]

NoWave == [on |-> FALSE, round |-> 0, parked |-> FALSE, children |-> [n \in ForkNodes |-> Unlisted]]

PendingNodes == {n \in ForkNodes : merged[n] = 0}

\* Where a runner may be; a node that is not in the wave is "none".
RunnerOver == {"none", "ok", "failed", "refused", "cancelled"}

Resting == [at |-> "idle", mode |-> "none", cancelled |-> FALSE, resumed |-> FALSE,
            failed |-> FALSE, todo |-> {}, debt |-> FALSE]

ForkInit ==
  /\ wave = NoWave
  /\ merged = [n \in ForkNodes |-> 0]
  /\ parent = "running"
  /\ vm = [k \in Keys |-> "none"]
  /\ leaseOver = {}
  /\ runner = [n \in ForkNodes |-> "none"]
  /\ task = Resting
  /\ forkKills = 0

Entry(n, change) == wave' = [wave EXCEPT !.children[n] = change]
TaskAt(place)        == task' = [task EXCEPT !.at = place]

\* A fork that was asked for, has no child id and is not known to be gone.
Lost(w) == {n \in ForkNodes : LET e == w.children[n] IN e.requested /\ ~e.child /\ ~e.reaped}

-----------------------------------------------------------------------------
(* run_wave: the driver.                                                   *)

\* fork_decision: two pending nodes at least, and a budget that pays all of them.
Decide ==
  /\ task.at = "idle" /\ ~wave.on /\ parent = "running" /\ PendingNodes # {}
  /\ \/ /\ Cardinality(PendingNodes) >= 2 /\ MaxParallel >= 2 /\ wave.round < MaxWaves
        /\ wave' = [on |-> TRUE, round |-> wave.round + 1, parked |-> TRUE,
                    children |-> [n \in ForkNodes |-> Unlisted]]
        /\ task' = [Resting EXCEPT !.at = "park", !.mode = "wave"]
     \/ task' = [Resting EXCEPT !.at = "serial"] /\ UNCHANGED wave
  /\ UNCHANGED <<merged, parent, vm, leaseOver, runner, forkKills>>

\* fork_parent: stop the parent; the call may raise with the parent stopped or not.
Park ==
  /\ task.at = "park"
  /\ \/ /\ parent' = "parked"
        /\ runner' = [n \in ForkNodes |-> IF n \in PendingNodes THEN "queued" ELSE "none"]
        /\ TaskAt("run")
     \/ /\ parent' \in {"running", "parked"}
        /\ task' = [task EXCEPT !.at = "reclaim", !.failed = TRUE, !.todo = {}]
        /\ UNCHANGED runner
  /\ UNCHANGED <<wave, merged, vm, leaseOver, forkKills>>

\* _parallel: a result that is not ok cancels; the futures that have not started never will.
Cancel ==
  /\ task.at = "run" /\ ~task.cancelled
  /\ \E n \in ForkNodes : runner[n] \in {"failed", "refused"}
  /\ task' = [task EXCEPT !.cancelled = TRUE, !.failed = TRUE]
  /\ runner' = [n \in ForkNodes |-> IF runner[n] = "queued" THEN "none" ELSE runner[n]]
  /\ UNCHANGED <<wave, merged, parent, vm, leaseOver, forkKills>>

\* A timeout or a signal reaches the driver while it waits for the pool.
Interrupt ==
  /\ task.at = "run" /\ ~task.cancelled
  /\ task' = [task EXCEPT !.cancelled = TRUE, !.failed = TRUE]
  /\ runner' = [n \in ForkNodes |-> IF runner[n] = "queued" THEN "none" ELSE runner[n]]
  /\ UNCHANGED <<wave, merged, parent, vm, leaseOver, forkKills>>

\* The pool is joined.  Only a wave whose every node is ok goes on, unless the writes conflict.
Joined ==
  /\ task.at = "run" /\ \A n \in ForkNodes : runner[n] \in RunnerOver
  /\ (\E n \in ForkNodes : runner[n] \in {"failed", "refused"}) => task.cancelled
  /\ \/ ~task.cancelled /\ TaskAt("resume")
     \/ task' = [task EXCEPT !.at = "reclaim", !.todo = Lost(wave), !.failed = TRUE]
  /\ UNCHANGED <<wave, merged, parent, vm, leaseOver, runner, forkKills>>

\* unpark before the first merge, and the fence check of the returned parent.
Resume ==
  /\ task.at = "resume"
  /\ \/ /\ parent' = "running" /\ wave' = [wave EXCEPT !.parked = FALSE]
        /\ task' = [task EXCEPT !.at = "merge", !.resumed = TRUE]
     \/ /\ parent' \in {"running", "parked"} /\ UNCHANGED wave
        /\ task' = [task EXCEPT !.at = "reclaim", !.todo = Lost(wave), !.failed = TRUE]
  /\ UNCHANGED <<merged, vm, leaseOver, runner, forkKills>>

\* Fan-in by node id; a merge that raises ends it.
MergeNext ==
  /\ task.at = "merge"
  /\ LET left == {n \in PendingNodes : runner[n] = "ok"} IN
     IF left = {}
       THEN task' = [task EXCEPT !.at = "reap", !.todo = ForkNodes] /\ UNCHANGED merged
       ELSE \/ merged' = [merged EXCEPT ![Min(left)] = @ + 1] /\ UNCHANGED task
            \/ /\ task' = [task EXCEPT !.at = "reap", !.todo = ForkNodes, !.failed = TRUE]
               /\ UNCHANGED merged
  /\ UNCHANGED <<wave, parent, vm, leaseOver, runner, forkKills>>

-----------------------------------------------------------------------------
(* runner: one thread per node.                                            *)

Active == {n \in ForkNodes : runner[n] \notin RunnerOver \cup {"queued"}}

Become(n, place) == runner' = [runner EXCEPT ![n] = place]

\* The entry is appended with its key; a cancelled wave asks the provider for nothing.
ListChild(n) ==
  /\ task.at = "run" /\ runner[n] = "queued" /\ Cardinality(Active) < MaxParallel
  /\ Entry(n, [Unlisted EXCEPT !.listed = TRUE])
  /\ Become(n, "listed")
  /\ UNCHANGED <<merged, parent, vm, leaseOver, task, forkKills>>

\* Fault: the request is journalled after the provider has answered.
RequestChildLate(n) ==
  /\ task.at = "run" /\ runner[n] = "listed"
  /\ IF task.cancelled
       THEN Entry(n, [wave.children[n] EXCEPT !.reaped = TRUE]) /\ Become(n, "cancelled")
       ELSE UNCHANGED wave /\ Become(n, "asking")
  /\ UNCHANGED <<merged, parent, vm, leaseOver, task, forkKills>>

\* fork_requested is durable before the call.
RequestChild(n) ==
  /\ task.at = "run" /\ runner[n] = "listed"
  /\ IF task.cancelled
       THEN Entry(n, [wave.children[n] EXCEPT !.reaped = TRUE]) /\ Become(n, "cancelled")
       ELSE Entry(n, [wave.children[n] EXCEPT !.requested = TRUE]) /\ Become(n, "asking")
  /\ UNCHANGED <<merged, parent, vm, leaseOver, task, forkKills>>

\* The provider applies the request, in time or after the caller has given up on it.
ProviderForks(n) ==
  /\ wave.on /\ (runner[n] = "asking" \/ n \in Lost(wave)) /\ vm[Key(n)] = "none"
  /\ vm' = [vm EXCEPT ![Key(n)] = "live"]
  /\ UNCHANGED <<wave, merged, parent, leaseOver, runner, task, forkKills>>

\* The id is journalled the moment the provider answers, before the child is waited for.
ChildAnswered(n) ==
  /\ runner[n] = "asking" /\ vm[Key(n)] # "none"
  /\ Entry(n, [wave.children[n] EXCEPT !.child = TRUE])
  /\ Become(n, "working")
  /\ UNCHANGED <<merged, parent, vm, leaseOver, task, forkKills>>

\* A 4xx: nothing was made.
ChildRefused(n) ==
  /\ runner[n] = "asking" /\ vm[Key(n)] = "none"
  /\ Entry(n, [wave.children[n] EXCEPT !.reaped = TRUE])
  /\ Become(n, "refused")
  /\ UNCHANGED <<merged, parent, vm, leaseOver, task, forkKills>>

\* A 5xx or a dropped connection: the child may exist, its id is unknown.
ChildUnknown(n) ==
  /\ runner[n] = "asking"
  /\ Become(n, "failed")
  /\ UNCHANGED <<wave, merged, parent, vm, leaseOver, task, forkKills>>

\* Lineage proof, agent, commit and harvest in the child; a halted or dead child fails.
ChildWorks(n) ==
  /\ runner[n] = "working"
  /\ \/ ~task.cancelled /\ vm[Key(n)] = "live" /\ Become(n, "reap ok")
     \/ Become(n, IF task.cancelled THEN "reap cancelled" ELSE "reap failed")
  /\ UNCHANGED <<wave, merged, parent, vm, leaseOver, task, forkKills>>

Outcome == [r \in {"reap ok", "reap failed", "reap cancelled"} |->
              IF r = "reap ok" THEN "ok" ELSE IF r = "reap failed" THEN "failed" ELSE "cancelled"]

\* The runner's finally: stop the child and confirm it, or leave it to the driver.
ReapOwn(n) ==
  /\ runner[n] \in DOMAIN Outcome
  /\ Become(n, Outcome[runner[n]])
  /\ \/ /\ vm' = [vm EXCEPT ![Key(n)] = "stopped"]
        /\ Entry(n, [wave.children[n] EXCEPT !.reaped = TRUE])
     \/ /\ vm' \in {vm, [vm EXCEPT ![Key(n)] = "stopped"]}
        /\ UNCHANGED wave
  /\ UNCHANGED <<merged, parent, leaseOver, task, forkKills>>

-----------------------------------------------------------------------------
(* Cleaning up, in the wave itself, in recover and in teardown.            *)

\* recover, of a retried build task.
Recover ==
  /\ task.at = "idle" /\ wave.on
  /\ task' = [Resting EXCEPT !.at = "reclaim", !.mode = "recover", !.todo = IF wave.parked THEN Lost(wave) ELSE {}]
  /\ UNCHANGED <<wave, merged, parent, vm, leaseOver, runner, forkKills>>

\* The teardown task: reap what the wave left, then close the parent.  It may run again.
Teardown ==
  /\ task.at = "idle"
  /\ task' = [Resting EXCEPT !.at = IF wave.on THEN "reclaim" ELSE "close", !.mode = "teardown",
                             !.todo = IF wave.on /\ wave.parked THEN Lost(wave) ELSE {}]
  /\ UNCHANGED <<wave, merged, parent, vm, leaseOver, runner, forkKills>>

\* _reclaim_lost, one entry: the fork is repeated under its key.  It may raise after it was applied,
\* and raises at once when the parent's handle is gone (_known_id).
Reclaim ==
  /\ task.at = "reclaim" /\ task.todo # {}
  /\ LET n == Min(task.todo) IN
       /\ vm' \in {vm, [vm EXCEPT ![Key(n)] = IF @ = "none" /\ parent # "closed" THEN "live" ELSE @]}
       /\ \/ parent # "closed" /\ vm'[Key(n)] # "none" /\ Entry(n, [wave.children[n] EXCEPT !.child = TRUE])
          \/ UNCHANGED wave
       /\ task' = [task EXCEPT !.todo = @ \ {n}]
  /\ UNCHANGED <<merged, parent, leaseOver, runner, forkKills>>

Reclaimed ==
  /\ task.at = "reclaim" /\ task.todo = {}
  /\ task' = [task EXCEPT !.at = "reap", !.todo = ForkNodes]
  /\ UNCHANGED <<wave, merged, parent, vm, leaseOver, runner, forkKills>>

\* _reap_all, one entry: nothing to do, confirmed, or debt.
Reap ==
  /\ task.at = "reap" /\ task.todo # {}
  /\ LET n == Min(task.todo)
         e == wave.children[n]
     IN IF e.child /\ ~e.reaped
          THEN \/ /\ vm' = [vm EXCEPT ![Key(n)] = "stopped"]
                  /\ Entry(n, [e EXCEPT !.reaped = TRUE])
                  /\ task' = [task EXCEPT !.todo = @ \ {n}]
               \/ /\ vm' \in {vm, [vm EXCEPT ![Key(n)] = "stopped"]}
                  /\ task' = [task EXCEPT !.todo = @ \ {n}, !.debt = TRUE]
                  /\ UNCHANGED wave
          ELSE task' = [task EXCEPT !.todo = @ \ {n}] /\ UNCHANGED <<wave, vm>>
  /\ UNCHANGED <<merged, parent, leaseOver, runner, forkKills>>

\* _lost: what was never identified is debt, until its lease has certainly run out.
Expired == {n \in Lost(wave) : Key(n) \in leaseOver}

Reaped ==
  /\ task.at = "reap" /\ task.todo = {}
  /\ wave' = [wave EXCEPT !.children =
                [n \in ForkNodes |-> IF n \in Expired THEN [@[n] EXCEPT !.reaped = TRUE] ELSE @[n]]]
  /\ task' = [task EXCEPT !.at = IF task.mode = "teardown" THEN "finish" ELSE "unpark",
                          !.debt = @ \/ Lost(wave) # Expired]
  /\ UNCHANGED <<merged, parent, vm, leaseOver, runner, forkKills>>

\* The parent comes back only when no fork is lost: a running one could fork anew.  One whose
\* handle is gone does not come back.
Unpark ==
  /\ task.at = "unpark"
  /\ IF ~wave.parked \/ Lost(wave) # {}
       THEN TaskAt("finish") /\ UNCHANGED <<wave, parent>>
       ELSE \/ /\ parent # "closed" /\ parent' = "running"
               /\ wave' = [wave EXCEPT !.parked = FALSE] /\ TaskAt("finish")
            \/ /\ parent' \in IF parent = "closed" THEN {"closed"} ELSE {"running", "parked"}
               /\ UNCHANGED wave
               /\ task' = [task EXCEPT !.at = "finish", !.debt = TRUE]
  /\ UNCHANGED <<merged, vm, leaseOver, runner, forkKills>>

\* The record is cleared unless there is debt, which raises; a refused wave goes on serially.
\* The teardown task goes on to close the parent either way.
Finish ==
  /\ task.at = "finish"
  /\ wave' = [wave EXCEPT !.on = task.debt]
  /\ task' = IF task.mode = "teardown" THEN [task EXCEPT !.at = "close"]
             ELSE IF task.debt THEN Resting
             ELSE IF /\ task.mode = "wave"
                     /\ \E n \in ForkNodes : runner[n] = "refused"
                     /\ \A n \in ForkNodes : runner[n] # "failed" THEN [Resting EXCEPT !.at = "serial"]
             ELSE Resting
  /\ runner' = [n \in ForkNodes |-> "none"]
  /\ UNCHANGED <<merged, parent, vm, leaseOver, forkKills>>

\* Sandbox.close, the finally of stages.teardown: the handle is dropped once the stop is confirmed,
\* and kept for a later teardown when it is not.
Close ==
  /\ task.at = "close"
  /\ parent' \in {"closed"} \cup (IF parent = "closed" THEN {} ELSE {parent, "parked"})
  /\ task' = Resting
  /\ UNCHANGED <<wave, merged, vm, leaseOver, runner, forkKills>>

\* The wave runs one node after the other in the parent itself.
Serial ==
  /\ task.at = "serial"
  /\ IF PendingNodes = {} THEN task' = Resting /\ UNCHANGED merged
     ELSE \/ merged' = [merged EXCEPT ![Min(PendingNodes)] = @ + 1] /\ UNCHANGED task
          \/ task' = Resting /\ UNCHANGED merged
  /\ UNCHANGED <<wave, parent, vm, leaseOver, runner, forkKills>>

-----------------------------------------------------------------------------
(* The environment.                                                        *)

\* The lease a key was requested with, and the grace after it, have run out.
LeaseEnds(k) ==
  /\ k \notin leaseOver
  /\ vm[k] # "none" \/ (wave.round = k[1] /\ wave.children[k[2]].requested)
  /\ leaseOver' = leaseOver \cup {k}
  /\ vm' = [vm EXCEPT ![k] = IF @ = "live" THEN "stopped" ELSE @]
  /\ UNCHANGED <<wave, merged, parent, runner, task, forkKills>>

KillTask ==
  /\ task.at # "idle" /\ forkKills < MaxForkKills
  /\ forkKills' = forkKills + 1
  /\ task' = Resting
  /\ runner' = [n \in ForkNodes |-> "none"]
  /\ UNCHANGED <<wave, merged, parent, vm, leaseOver>>

Driver == Decide \/ Park \/ Cancel \/ Joined \/ Resume \/ MergeNext \/ Recover \/ Teardown
          \/ Reclaim \/ Reclaimed \/ Reap \/ Reaped \/ Unpark \/ Finish \/ Close \/ Serial

Runner(n) == ListChild(n) \/ RequestChild(n) \/ ProviderForks(n) \/ ChildAnswered(n)
             \/ ChildRefused(n) \/ ChildUnknown(n) \/ ChildWorks(n) \/ ReapOwn(n)

ForkDone == parent = "closed" /\ UNCHANGED forkVars

ForkNext ==
  \/ Driver \/ Interrupt \/ KillTask \/ ForkDone
  \/ \E n \in ForkNodes : Runner(n)
  \/ \E k \in Keys : LeaseEnds(k)

ForkSpec == ForkInit /\ [][ForkNext]_forkVars

-----------------------------------------------------------------------------
(* Properties.                                                             *)

Named(k) == /\ wave.on /\ wave.round = k[1]
            /\ wave.children[k[2]].requested /\ ~wave.children[k[2]].reaped

\* Whatever died or was lost, a child VM that runs is named by an open wave journal that still
\* owes its stop, also after a teardown that could not stop it has closed the parent: with its id
\* known a later recover or teardown stops it; without, it can be found only while the parent
\* stands, and otherwise ends with its lease, until which the record stays open.  Only a VM that
\* a reclaim made after the lease of the first request had run out may escape.
LiveChildIsOwed == \A k \in Keys : vm[k] = "live" /\ k \notin leaseOver => Named(k)

\* The parent runs only when the fate of every fork is known: asked again while the parent runs,
\* the provider could fork from a snapshot that is not the checkpoint.
ParentParkedWhileLost == task.at # "run" /\ wave.on /\ parent = "running" => Lost(wave) = {}

\* A wave the provider refused falls back to the shared workspace only when no wave is open, no
\* child may still run and the parent is back.
SerialOnIdleParent ==
  task.at = "serial" => /\ ~wave.on /\ parent = "running"
                        /\ \A k \in Keys : vm[k] = "live" => k \in leaseOver

\* Whatever dies and whatever answer is lost, no child VM leaves the journal before its stop or the end
\* of its lease, no fork is asked of a parent that moved on, and serial work never runs beside a wave (fork_wave.recover, _unpark, teardown).
ForkAccounted == LiveChildIsOwed /\ ParentParkedWhileLost /\ SerialOnIdleParent
=============================================================================
