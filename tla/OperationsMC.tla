----------------------------- MODULE OperationsMC -----------------------------
(***************************************************************************)
(* Small instances of what happens around a run: publication and merge,    *)
(* the promotion of the factory's own changes, sandboxes, maintenance and  *)
(* restore, the operation journal and the webhook receiver.  They share no *)
(* state, so one behaviour exercises one of them.                          *)
(***************************************************************************)
EXTENDS Publication, Promotion, ExternalCall, Smolvm, Sweep, Incidents, Restore, OperationJournal, Receiver

VARIABLE part    \* the component exercised

CONSTANTS w1, w2    \* workers of the journal

\* Two processes ask for the same effect.
SameDigest   == [w \in Workers |-> "d1"]
TwoProcesses == [w \in Workers |-> IF w = w1 THEN "j1" ELSE "j2"]

\* A MicroVM of the first epoch of a Cell and a container of its second.
MCResources == {[by |-> "islo", cell |-> "x", epoch |-> 1], [by |-> "docker", cell |-> "x", epoch |-> 2]}

\* Two bodies under one delivery id, a forged one, a command of a stranger and of a
\* member, and a comment on a pull request.
Post(id, says, repo, onPR, trusted, signed) ==
  [id |-> id, says |-> says, blueprint |-> "b", repo |-> repo, onPR |-> onPR, trusted |-> trusted, signed |-> signed]
MCPosts == {Post(1, "label", "r", FALSE, FALSE, TRUE), Post(1, "label", "s", FALSE, FALSE, TRUE),
            Post(1, "label", "r", FALSE, FALSE, FALSE), Post(2, "command", "r", FALSE, TRUE, TRUE),
            Post(2, "command", "r", FALSE, FALSE, TRUE), Post(3, "comment", "r", TRUE, FALSE, TRUE)}

\* A component that is not exercised stays in one of its initial states.
OperationsInit ==
  /\ part \in {"receiver", "journal", "publication", "promotion", "external", "smolvm", "sweep", "incidents", "restore"}
  /\ ReceiverInit /\ (part # "receiver" => mode.inbox /\ mode.managed)
  /\ Init
  /\ PublicationInit
  /\ PromotionInit
  /\ XInit
  /\ SmolInit /\ (part # "smolvm" => vm = "absent")
  /\ SweepInit
  /\ IncidentInit /\ (part # "incidents" => kept)
  /\ RestoreInit

OthersStand ==
  /\ part' = part
  /\ IF part = "receiver" THEN TRUE ELSE UNCHANGED receiverVars
  /\ IF part = "journal" THEN TRUE ELSE UNCHANGED journalVars
  /\ IF part = "publication" THEN TRUE ELSE UNCHANGED pubVars
  /\ IF part = "promotion" THEN TRUE ELSE UNCHANGED promoVars
  /\ IF part = "external" THEN TRUE ELSE UNCHANGED xvars
  /\ IF part = "smolvm" THEN TRUE ELSE UNCHANGED smolvars
  /\ IF part = "sweep" THEN TRUE ELSE UNCHANGED sweepvars
  /\ IF part = "incidents" THEN TRUE ELSE UNCHANGED incidentvars
  /\ IF part = "restore" THEN TRUE ELSE UNCHANGED restorevars

OperationsNext ==
  \/ part = "receiver" /\ ReceiverNext /\ OthersStand
  \/ part = "journal" /\ Next /\ OthersStand
  \/ part = "publication" /\ PublicationNext /\ OthersStand
  \/ part = "promotion" /\ PromotionNext /\ OthersStand
  \/ part = "external" /\ XNext /\ OthersStand
  \/ part = "smolvm" /\ SmolNext /\ OthersStand
  \/ part = "sweep" /\ SweepNext /\ OthersStand
  \/ part = "incidents" /\ IncidentNext /\ OthersStand
  \/ part = "restore" /\ RestoreNext /\ OthersStand

operationsVars == <<part, receiverVars, journalVars, pubVars, promoVars, xvars, smolvars, sweepvars, incidentvars, restorevars>>

OperationsSpec == OperationsInit /\ [][OperationsNext]_operationsVars
===============================================================================
