------------------------------ MODULE Receipt ------------------------------
(***************************************************************************)
(* What OperationJournal promises the rest of the factory about one        *)
(* operation key: its receipt names an effect the provider really applied, *)
(* and it is written once, unless a journal of another process declares    *)
(* the committed operation exhausted: from then on it may be written       *)
(* again.  How many times the provider was asked is not part of the        *)
(* promise.                                                                *)
(***************************************************************************)
EXTENDS Naturals

CONSTANT Attempts   \* the attempts an operation may make

VARIABLES
  applied,   \* attempts whose request the provider applied
  receipt,   \* the attempt the stored result came from, NoReceipt before commit
  reopened   \* the committed operation was declared exhausted

NoReceipt == 0

Init == applied = {} /\ receipt = NoReceipt /\ reopened = FALSE

Apply ==
  /\ \E a \in Attempts : applied' = applied \cup {a}
  /\ UNCHANGED <<receipt, reopened>>

Record ==
  /\ receipt = NoReceipt \/ reopened
  /\ receipt' \in applied
  /\ UNCHANGED <<applied, reopened>>

Reopen ==
  /\ receipt # NoReceipt
  /\ reopened' = TRUE
  /\ UNCHANGED <<applied, receipt>>

Next == Apply \/ Record \/ Reopen

Spec == Init /\ [][Next]_<<applied, receipt, reopened>>
=============================================================================
