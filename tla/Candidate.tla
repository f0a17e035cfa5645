------------------------------ MODULE Candidate -------------------------------
(***************************************************************************)
(* Candidate exploration from the command line: an isolated Git worktree   *)
(* per candidate (candidate_worktree.py), its answer frozen under a        *)
(* factory-owned ref, the evidence bundle of the frozen revision           *)
(* (candidate_evidence.py) and the retention store that keeps the bundle   *)
(* for the promotion window (candidate_retention.py).                      *)
(*                                                                         *)
(* Every command is a process of its own and no lock spans two commands:   *)
(* each Git call and each file operation is a step, the candidate's own    *)
(* agent moves the worktree's HEAD meanwhile, and a process may be killed  *)
(* between two steps.  A bundle's digest is its manifest; the named        *)
(* artifacts of a bundle go the way of its diff and are left out.          *)
(***************************************************************************)
EXTENDS Naturals, FiniteSets

CONSTANTS
    Candidates,      \* candidate ids
    Commits,         \* commits of the repository, numbered along one line of history
    Shells,          \* processes that run a command
    Absent,          \* no such file, ref or worktree
    MaxNow,          \* bound: instants of the clock
    MaxCommands,     \* bound: commands started
    MaxShellKills    \* bound: commands killed half way

ASSUME CandidateAssumption == Commits \subseteq Nat /\ Absent \notin Commits /\ MaxNow \in Nat

VARIABLES
    ref,        \* refs/swfactory/candidates/<token> of a candidate
    tree,       \* its worktree: HEAD and whether files are uncommitted
    reserved,   \* candidates whose .reserve file exists
    receipts,   \* receipts of create that were written
    frozen,     \* receipts of freeze that were written
    desk,       \* the evidence directory of a candidate: diff and manifest
    objects,    \* the retention store: the bundle kept under a digest
    lease,      \* the retention lease of a digest
    shell,      \* what each process does and what it has read
    clock       \* now, commands started and killed

candidateVars == <<ref, tree, reserved, receipts, frozen, desk, objects, lease, shell, clock>>

\* CandidateRevision; a revision's diff is the pair of its heads.
Revisions == [cand : Candidates, input : Commits, output : Commits]
DiffOf(rv) == <<rv.input, rv.output>>

\* git merge-base --is-ancestor: history is one line here.
IsAncestor(a, b) == a <= b

Idle == [at |-> "idle"]
EmptyDesk == [diff |-> Absent, manifest |-> Absent]

CandidateInit ==
    /\ ref = [c \in Candidates |-> Absent]
    /\ tree = [c \in Candidates |-> Absent]
    /\ reserved = {}
    /\ receipts = {}
    /\ frozen = {}
    /\ desk = [c \in Candidates |-> EmptyDesk]
    /\ objects = [d \in Revisions |-> Absent]
    /\ lease = [d \in Revisions |-> Absent]
    /\ shell = [p \in Shells |-> Idle]
    /\ clock = [now |-> 0, started |-> 0, killed |-> 0]

\* A command starts, goes on to its next step, or ends (an exception ends it too).
Start(p, job) ==
    /\ shell[p] = Idle /\ clock.started < MaxCommands
    /\ shell' = [shell EXCEPT ![p] = job]
    /\ clock' = [clock EXCEPT !.started = @ + 1]
At(p, at) == shell[p].at = at /\ UNCHANGED clock
Goto(p, at) == shell' = [shell EXCEPT ![p].at = at]
End(p) == shell' = [shell EXCEPT ![p] = Idle]

-----------------------------------------------------------------------------
\* candidate-worktree create.

\* A candidate that is frozen gets no second worktree.
Create(p, c, input) ==
    /\ ref[c] = Absent
    /\ Start(p, [at |-> "reserve", cand |-> c, input |-> input])
    /\ UNCHANGED <<ref, tree, reserved, receipts, frozen, desk, objects, lease>>

\* O_CREAT | O_EXCL: a second creation of the same candidate is refused.
Reserve(p) ==
    /\ At(p, "reserve")
    /\ IF shell[p].cand \in reserved
       THEN End(p) /\ UNCHANGED reserved
       ELSE Goto(p, "add") /\ reserved' = reserved \cup {shell[p].cand}
    /\ UNCHANGED <<ref, tree, receipts, frozen, desk, objects, lease>>

\* git worktree add --detach, unless the directory exists: then the reservation is given up.
AddWorktree(p) ==
    LET c == shell[p].cand
    IN  /\ At(p, "add")
        /\ IF tree[c] # Absent
           THEN End(p) /\ reserved' = reserved \ {c} /\ UNCHANGED tree
           ELSE /\ Goto(p, "check") /\ UNCHANGED reserved
                /\ tree' = [tree EXCEPT ![c] = [head |-> shell[p].input, dirty |-> FALSE]]
        /\ UNCHANGED <<ref, receipts, frozen, desk, objects, lease>>

\* The new worktree must stand at the commit asked for; if not it is removed.
CheckWorktree(p) ==
    LET c == shell[p].cand
        as_asked == tree[c] # Absent /\ tree[c].head = shell[p].input
    IN  /\ At(p, "check")
        /\ reserved' = reserved \ {c}
        /\ IF as_asked
           THEN Goto(p, "receipt") /\ UNCHANGED tree
           ELSE End(p) /\ tree' = [tree EXCEPT ![c] = Absent]
        /\ UNCHANGED <<ref, receipts, frozen, desk, objects, lease>>

WriteReceipt(p) ==
    /\ At(p, "receipt") /\ End(p)
    /\ receipts' = receipts \cup {[cand |-> shell[p].cand, input |-> shell[p].input]}
    /\ UNCHANGED <<ref, tree, reserved, frozen, desk, objects, lease>>

\* The candidate's agent: commits, checks out or edits in its worktree.
AgentWorks(c, head, dirty) ==
    /\ tree[c] # Absent
    /\ tree' = [tree EXCEPT ![c] = [head |-> head, dirty |-> dirty]]
    /\ UNCHANGED <<ref, reserved, receipts, frozen, desk, objects, lease, shell, clock>>

-----------------------------------------------------------------------------
\* candidate-worktree freeze.

\* git status: files that are not committed refuse the freeze.
Freeze(p, r) ==
    /\ tree[r.cand] # Absent /\ ~tree[r.cand].dirty
    /\ Start(p, [at |-> "head", cand |-> r.cand, input |-> r.input])
    /\ UNCHANGED <<ref, tree, reserved, receipts, frozen, desk, objects, lease>>

\* HEAD must have advanced beyond the recorded input and descend from it.
ReadHead(p) ==
    LET c == shell[p].cand
        input == shell[p].input
        advanced == tree[c] # Absent /\ tree[c].head # input /\ IsAncestor(input, tree[c].head)
    IN  /\ At(p, "head")
        /\ IF advanced
           THEN shell' = [shell EXCEPT ![p] = [at |-> "ref", cand |-> c, input |-> input, output |-> tree[c].head]]
           ELSE End(p)
        /\ UNCHANGED <<ref, tree, reserved, receipts, frozen, desk, objects, lease>>

\* A candidate frozen before answers again with the same revision or is refused.
ReadRef(p) ==
    LET existing == ref[shell[p].cand]
    IN  /\ At(p, "ref")
        /\ IF existing = Absent THEN Goto(p, "update")
           ELSE IF existing = shell[p].output THEN Goto(p, "frozen")
           ELSE End(p)
        /\ UNCHANGED <<ref, tree, reserved, receipts, frozen, desk, objects, lease>>

\* Fault: update-ref without the old value overwrites what another freeze wrote.
UpdateRefBlind(p) ==
    /\ At(p, "update") /\ Goto(p, "frozen")
    /\ ref' = [ref EXCEPT ![shell[p].cand] = shell[p].output]
    /\ UNCHANGED <<tree, reserved, receipts, frozen, desk, objects, lease>>

\* git update-ref <ref> <output> 0{40} creates the ref only if there is none.
UpdateRef(p) ==
    LET c == shell[p].cand
        output == shell[p].output
    IN  /\ At(p, "update")
        /\ IF ref[c] \in {Absent, output} THEN Goto(p, "frozen") ELSE End(p)
        /\ ref' = [ref EXCEPT ![c] = IF @ = Absent THEN output ELSE @]
        /\ UNCHANGED <<tree, reserved, receipts, frozen, desk, objects, lease>>

WriteFrozen(p) ==
    /\ At(p, "frozen") /\ End(p)
    /\ frozen' = frozen \cup {[cand |-> shell[p].cand, input |-> shell[p].input, output |-> shell[p].output]}
    /\ UNCHANGED <<ref, tree, reserved, receipts, desk, objects, lease>>

-----------------------------------------------------------------------------
\* candidate-worktree remove: a path that is gone is only pruned.
RemoveCandidate(p, r, force) ==
    /\ tree[r.cand] # Absent
    /\ Start(p, [at |-> "remove", cand |-> r.cand, force |-> force])
    /\ UNCHANGED <<ref, tree, reserved, receipts, frozen, desk, objects, lease>>

\* git worktree remove refuses uncommitted files unless forced.
RemoveWorktree(p) ==
    LET c == shell[p].cand
    IN  /\ At(p, "remove") /\ End(p)
        /\ tree' = [tree EXCEPT ![c] = IF @ # Absent /\ @.dirty /\ ~shell[p].force THEN @ ELSE Absent]
        /\ UNCHANGED <<ref, reserved, receipts, frozen, desk, objects, lease>>

-----------------------------------------------------------------------------
\* candidate-evidence build.

\* verify_candidate_revision: the ref still names the recorded output.
RefNames(rv) == ref[rv.cand] = rv.output

\* The source snapshot is of the revision's input and the destination is empty.
Buildable(rv) == RefNames(rv) /\ desk[rv.cand] = EmptyDesk

Build(p, rv) ==
    /\ Buildable(rv)
    /\ Start(p, [at |-> "diff", rv |-> rv])
    /\ UNCHANGED <<ref, tree, reserved, receipts, frozen, desk, objects, lease>>

WriteDiff(p) ==
    LET rv == shell[p].rv
    IN  /\ At(p, "diff") /\ Goto(p, "hash")
        /\ desk' = [desk EXCEPT ![rv.cand].diff = DiffOf(rv)]
        /\ UNCHANGED <<ref, tree, reserved, receipts, frozen, objects, lease>>

\* The digest recorded is that of the diff that is on disk.
HashDiff(p) ==
    LET rv == shell[p].rv
    IN  /\ At(p, "hash")
        /\ shell' = [shell EXCEPT ![p] = [at |-> "manifest", rv |-> rv, diff |-> desk[rv.cand].diff]]
        /\ UNCHANGED <<ref, tree, reserved, receipts, frozen, desk, objects, lease>>

WriteManifest(p) ==
    LET rv == shell[p].rv
    IN  /\ At(p, "manifest") /\ End(p)
        /\ desk' = [desk EXCEPT ![rv.cand].manifest = [rv |-> rv, diff |-> shell[p].diff]]
        /\ UNCHANGED <<ref, tree, reserved, receipts, frozen, objects, lease>>

\* The manifest can be read, and its digest.
Loads(bundle) == bundle # Absent /\ bundle.manifest # Absent
Digest(bundle) == bundle.manifest.rv

\* verify_candidate_evidence_bundle with a repository: every file has its recorded
\* digest, the ref is unchanged and the diff is that of the two heads.
Verifies(bundle) ==
    /\ Loads(bundle)
    /\ bundle.manifest.diff = bundle.diff
    /\ RefNames(bundle.manifest.rv)
    /\ bundle.diff = DiffOf(bundle.manifest.rv)

-----------------------------------------------------------------------------
\* candidate-evidence retain.
Retain(p, c) ==
    /\ Verifies(desk[c])
    /\ Start(p, [at |-> "store", from |-> c, digest |-> Digest(desk[c]), now |-> clock.now])
    /\ UNCHANGED <<ref, tree, reserved, receipts, frozen, desk, objects, lease>>

\* A bundle already kept must verify; a new one is copied aside and renamed into place.
StoreObject(p) ==
    LET d == shell[p].digest
    IN  /\ At(p, "store")
        /\ IF objects[d] = Absent
           THEN Goto(p, "readlease") /\ objects' = [objects EXCEPT ![d] = desk[shell[p].from]]
           ELSE /\ IF Verifies(objects[d]) THEN Goto(p, "readlease") ELSE End(p)
                /\ UNCHANGED objects
        /\ UNCHANGED <<ref, tree, reserved, receipts, frozen, desk, lease>>

\* The lease to write: a refresh keeps the pin and never shortens the window.
Renewed(current, expiry) ==
    IF current = Absent THEN [expires |-> expiry, pinned |-> FALSE]
    ELSE [current EXCEPT !.expires = IF @ > expiry THEN @ ELSE expiry]

ReadLease(p) ==
    /\ At(p, "readlease")
    /\ shell' = [shell EXCEPT ![p] = [at |-> "writelease", digest |-> shell[p].digest,
                                      lease |-> Renewed(lease[shell[p].digest], shell[p].now + 1)]]
    /\ UNCHANGED <<ref, tree, reserved, receipts, frozen, desk, objects, lease>>

WriteLease(p) ==
    /\ At(p, "writelease") /\ End(p)
    /\ lease' = [lease EXCEPT ![shell[p].digest] = shell[p].lease]
    /\ UNCHANGED <<ref, tree, reserved, receipts, frozen, desk, objects>>

\* candidate-evidence pin and unpin: read, then write the lease of an object that is there.
Leased(d) == lease[d] # Absent /\ objects[d] # Absent

Pin(p, d, pinned) ==
    /\ Leased(d)
    /\ Start(p, [at |-> "writelease", digest |-> d, lease |-> [lease[d] EXCEPT !.pinned = pinned]])
    /\ UNCHANGED <<ref, tree, reserved, receipts, frozen, desk, objects, lease>>

-----------------------------------------------------------------------------
\* candidate-evidence gc: the sweep of one lease; a dry run changes nothing.
Collectable(d) == Leased(d) /\ ~lease[d].pinned /\ lease[d].expires <= clock.now

Sweep(p, d) ==
    /\ Collectable(d)
    /\ Start(p, [at |-> "tear", digest |-> d])
    /\ UNCHANGED <<ref, tree, reserved, receipts, frozen, desk, objects, lease>>

\* shutil.rmtree takes the files of the object one after the other, then the
\* directory; it raises when another sweep has taken it.
TearObject(p) ==
    LET d == shell[p].digest
    IN  /\ At(p, "tear")
        /\ IF objects[d] = Absent
           THEN End(p) /\ UNCHANGED objects
           ELSE Goto(p, "rmdir") /\ objects' = [objects EXCEPT ![d].diff = Absent]
        /\ UNCHANGED <<ref, tree, reserved, receipts, frozen, desk, lease>>

RemoveObject(p) ==
    LET d == shell[p].digest
    IN  /\ At(p, "rmdir")
        /\ IF objects[d] = Absent THEN End(p) ELSE Goto(p, "unlink")
        /\ objects' = [objects EXCEPT ![d] = Absent]
        /\ UNCHANGED <<ref, tree, reserved, receipts, frozen, desk, lease>>

UnlinkLease(p) ==
    /\ At(p, "unlink") /\ End(p)
    /\ lease' = [lease EXCEPT ![shell[p].digest] = Absent]
    /\ UNCHANGED <<ref, tree, reserved, receipts, frozen, desk, objects>>

-----------------------------------------------------------------------------
\* A killed command leaves what it wrote, its reservation included.
KillShell(p) ==
    /\ shell[p] # Idle /\ clock.killed < MaxShellKills
    /\ End(p)
    /\ clock' = [clock EXCEPT !.killed = @ + 1]
    /\ UNCHANGED <<ref, tree, reserved, receipts, frozen, desk, objects, lease>>

Later ==
    /\ clock.now < MaxNow
    /\ clock' = [clock EXCEPT !.now = @ + 1]
    /\ UNCHANGED <<ref, tree, reserved, receipts, frozen, desk, objects, lease, shell>>

CandidateNext ==
    \/ \E p \in Shells :
         \/ \E c \in Candidates, i \in Commits : Create(p, c, i)
         \/ \E r \in receipts : Freeze(p, r) \/ \E force \in BOOLEAN : RemoveCandidate(p, r, force)
         \/ \E rv \in frozen : Build(p, rv)
         \/ \E c \in Candidates : Retain(p, c)
         \/ \E d \in Revisions : Sweep(p, d) \/ \E pinned \in BOOLEAN : Pin(p, d, pinned)
         \/ Reserve(p) \/ AddWorktree(p) \/ CheckWorktree(p) \/ WriteReceipt(p)
         \/ ReadHead(p) \/ ReadRef(p) \/ UpdateRef(p) \/ WriteFrozen(p)
         \/ RemoveWorktree(p) \/ WriteDiff(p) \/ HashDiff(p) \/ WriteManifest(p)
         \/ StoreObject(p) \/ ReadLease(p) \/ WriteLease(p)
         \/ TearObject(p) \/ RemoveObject(p) \/ UnlinkLease(p) \/ KillShell(p)
    \/ \E c \in Candidates, h \in Commits, dirty \in BOOLEAN : AgentWorks(c, h, dirty)
    \/ Later

CandidateSpec == CandidateInit /\ [][CandidateNext]_candidateVars

-----------------------------------------------------------------------------
\* The revisions some manifest vouches for: in an evidence directory or kept in the store.
Vouched ==
    {Digest(b) : b \in {x \in {desk[c] : c \in Candidates} \cup {objects[d] : d \in Revisions} : Loads(x)}}

\* "one immutable manifest binding a frozen candidate revision": whatever commands
\* race or die and wherever the agent moves HEAD, every receipt of a freeze, every
\* evidence manifest and every kept bundle names the one commit the candidate's ref
\* holds, and that commit is an advance on the input it records.
EvidenceNamesFrozen ==
    \A rv \in frozen \cup Vouched :
        RefNames(rv) /\ rv.input # rv.output /\ IsAncestor(rv.input, rv.output)
===============================================================================
