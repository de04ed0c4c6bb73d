--------------------------- MODULE AttemptLedger ---------------------------
(***************************************************************************)
(* What an execution ledger promises its readers, with no processes, files *)
(* or locks.  Events are only ever added at the end, in the order the      *)
(* lifecycle allows, and the signed head only ever moves to the whole of   *)
(* what has been recorded: it never names a prefix it has already passed   *)
(* and never an event that is not there.                                   *)
(***************************************************************************)
EXTENDS LedgerRules

VARIABLES
  recorded,   \* event types in the order they were recorded
  certified   \* how many of them the signed head covers

vars == <<recorded, certified>>

Init ==
  /\ recorded = <<>>
  /\ certified = 0

\* An event the lifecycle allows joins the end of the record.
Record(t) ==
  /\ Admissible(recorded, t)
  /\ recorded' = Append(recorded, t)
  /\ UNCHANGED certified

\* The head is replaced by one that covers everything recorded.
Certify ==
  /\ certified' = Len(recorded)
  /\ UNCHANGED recorded

Next == Certify \/ \E t \in EventTypes : Record(t)

Spec == Init /\ [][Next]_vars
=============================================================================
