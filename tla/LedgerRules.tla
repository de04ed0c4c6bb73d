---------------------------- MODULE LedgerRules ----------------------------
(***************************************************************************)
(* The rules src/fieldtrue/receipts.py imposes on the event types of one   *)
(* execution ledger: which event may open it, which event may follow       *)
(* which, and which events end it.                                         *)
(***************************************************************************)
EXTENDS Naturals, Sequences

\* The transition table of _verify_events: the types allowed after each type.
Transitions ==
  [t \in {"run-started", "sources-verified", "source-invalid",
          "dataset-ingested", "ingestion-invalid", "readiness-adjudicated",
          "run-completed", "run-failed"} |->
     CASE t = "run-started"           -> {"sources-verified", "source-invalid", "run-failed"}
       [] t = "sources-verified"      -> {"dataset-ingested", "ingestion-invalid", "run-failed"}
       [] t \in {"source-invalid", "ingestion-invalid", "dataset-ingested"}
                                      -> {"readiness-adjudicated", "run-failed"}
       [] t = "readiness-adjudicated" -> {"run-completed", "run-failed"}
       [] OTHER                       -> {}]

EventTypes == DOMAIN Transitions

\* May an event of type t be appended to a ledger of these event types?  The
\* table is acyclic, so a permitted type is never a duplicate and run-completed
\* never comes without readiness-adjudicated; _verify_events tests both again.
Admissible(types, t) ==
  /\ t \in EventTypes
  /\ IF types = <<>> THEN t = "run-started" ELSE t \in Transitions[types[Len(types)]]

\* A sequence of types _verify_events accepts.
Lifecycle(types) ==
  /\ types # <<>> => types[1] = "run-started"
  /\ \A i \in 2..Len(types) : types[i] \in Transitions[types[i - 1]]
=============================================================================
