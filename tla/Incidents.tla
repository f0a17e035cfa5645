------------------------------ MODULE Incidents ------------------------------
(***************************************************************************)
(* The maintenance pass (maintain.run): metrics of the newest run outside  *)
(* their band become incidents, and an incident becomes one issue.  A pass *)
(* loads the incident ledger once, into memory, and every step writes the  *)
(* whole of it back.  The file lives under the root of the pass: a kept    *)
(* checkout ($SWF_MAINTAIN_ROOT), or a clone that goes with the pass, which *)
(* is the DAG's default.  Passes may overlap, may be killed between any    *)
(* two writes, and the request that opens an issue may land although its   *)
(* answer is lost.                                                         *)
(***************************************************************************)
EXTENDS Naturals, FiniteSets

CONSTANTS
    Metrics,    \* metrics with a band
    Checks,     \* check_bands tasks that may run at once
    MaxRuns,    \* bound: runs that finish
    MaxChecks   \* bound: passes started

ASSUME IncidentAssumption == MaxRuns \in Nat \ {0} /\ MaxChecks \in Nat

VARIABLES
    newest,     \* the newest run in the window
    out,        \* the metrics that run has outside the band, with the tier's action
    kept,       \* metrics_root: a kept checkout, or a clone for each pass
    ledger,     \* the ledger file of the kept checkout
    filing,     \* each pass: the breaches left, the one in hand, its step and its own ledger
    issues,     \* how many issues the tracker holds for an incident
    concurrent, \* have two passes ever run at once
    checks      \* passes started

incidentvars == <<newest, out, kept, ledger, filing, issues, concurrent, checks>>

IncidentKeys == (1..MaxRuns) \X Metrics
NoIncidents == [k \in IncidentKeys |-> "none"]
Asleep == [left |-> {}, key |-> <<>>, step |-> "off", states |-> NoIncidents]

IncidentInit ==
    /\ newest = 0 /\ out = {} /\ kept \in BOOLEAN
    /\ ledger = NoIncidents
    /\ filing = [c \in Checks |-> Asleep]
    /\ issues = [k \in IncidentKeys |-> 0]
    /\ concurrent = FALSE /\ checks = 0

\* A run finishes; detect() classifies its metrics.  The tier "log" is printed
\* and goes no further.
RunFinishes ==
    /\ newest < MaxRuns
    /\ newest' = newest + 1
    /\ out' \in SUBSET Metrics
    /\ UNCHANGED <<kept, ledger, filing, issues, concurrent, checks>>

\* run(): the breaches of the window are taken and the ledger is loaded, an empty one from a clone.
StartPass(c) ==
    /\ filing[c].step = "off" /\ out # {} /\ checks < MaxChecks
    /\ checks' = checks + 1
    /\ filing' = [filing EXCEPT ![c] = [left |-> {<<newest, m>> : m \in out}, key |-> <<>>, step |-> "next",
                                        states |-> IF kept THEN ledger ELSE NoIncidents]]
    /\ concurrent' = (concurrent \/ \E d \in Checks : filing[d].step # "off")
    /\ UNCHANGED <<newest, out, kept, ledger, issues>>

\* DurableIncidentLedger.save: the pass's own states replace the file.
Save(states) == ledger' = IF kept THEN states ELSE ledger

\* Mutant: an incident in doubt is proposed again.
FreshOrInDoubt(states, k) == states[k] \in {"none", "in_doubt"}

\* IncidentLedger.propose: fresh when the ledger does not know the key.
Fresh(states, k) == states[k] = "none"

\* The diagnosis and the incident record, then the proposal, saved either way.
Propose(c, k) ==
    LET states == IF Fresh(filing[c].states, k) THEN [filing[c].states EXCEPT ![k] = "proposed"] ELSE filing[c].states
        hand   == IF Fresh(filing[c].states, k) THEN [key |-> k, step |-> "proposed"] ELSE [key |-> <<>>, step |-> "next"]
    IN  /\ filing[c].step = "next" /\ k \in filing[c].left
        /\ Save(states)
        /\ filing' = [filing EXCEPT ![c] = [left |-> filing[c].left \ {k}, key |-> hand.key, step |-> hand.step,
                                            states |-> states]]
        /\ UNCHANGED <<newest, out, kept, issues, concurrent, checks>>

\* One state of the incident in hand is written.
SetState(c, state, key, step) ==
    LET states == [filing[c].states EXCEPT ![filing[c].key] = state]
    IN  /\ Save(states)
        /\ filing' = [filing EXCEPT ![c] = [left |-> filing[c].left, key |-> key, step |-> step, states |-> states]]
        /\ UNCHANGED <<newest, out, kept, issues, concurrent, checks>>

BeginCreate(c) ==
    /\ filing[c].step = "proposed"
    /\ filing[c].states[filing[c].key] \in {"proposed", "in_doubt"}
    /\ SetState(c, "creating", filing[c].key, "creating")

\* scm.open_issue: the answer comes back, or it raises whether or not the
\* request landed.
OpenIssue(c) ==
    /\ filing[c].step = "creating"
    /\ \E lands, answered \in BOOLEAN :
          /\ answered => lands
          /\ issues' = [issues EXCEPT ![filing[c].key] = IF lands THEN @ + 1 ELSE @]
          /\ filing' = [filing EXCEPT ![c].step = IF answered THEN "opened" ELSE "raised"]
    /\ UNCHANGED <<newest, out, kept, ledger, concurrent, checks>>

\* mark_unknown, and the exception ends the pass.
MarkUnknown(c) ==
    /\ filing[c].step = "raised"
    /\ SetState(c, "in_doubt", <<>>, "ending")

RecordIssue(c) ==
    /\ filing[c].step = "opened"
    /\ SetState(c, "open", <<>>, "next")

\* The pass ends, is killed, or an error of the diagnosis ends it: its clone goes with it.
EndPass(c) ==
    /\ filing[c].step # "off"
    /\ filing' = [filing EXCEPT ![c] = Asleep]
    /\ UNCHANGED <<newest, out, kept, ledger, issues, concurrent, checks>>

IncidentNext ==
    \/ RunFinishes
    \/ \E c \in Checks : \/ StartPass(c) \/ BeginCreate(c) \/ OpenIssue(c) \/ MarkUnknown(c)
                         \/ RecordIssue(c) \/ EndPass(c)
    \/ \E c \in Checks, k \in IncidentKeys : Propose(c, k)

IncidentSpec == IncidentInit /\ [][IncidentNext]_incidentvars

-----------------------------------------------------------------------------
\* Under a kept root and as long as no two passes have overlapped, an incident has at most one issue,
\* however often the same evidence is passed over and wherever a pass dies.
OneIssueKeptRoot == kept /\ ~concurrent => \A k \in IncidentKeys : issues[k] <= 1

\* "incident already filed" is true in every case: an incident that a file or a pass calls open has its issue.
OpenIsFiled ==
    \A k \in IncidentKeys :
        (ledger[k] = "open" \/ \E c \in Checks : filing[c].states[k] = "open") => issues[k] > 0

\* One incident, one issue, as far as the root and the scheduling of the passes allow (maintain.run).
OneIssuePerIncident == OneIssueKeptRoot /\ OpenIsFiled
=============================================================================
