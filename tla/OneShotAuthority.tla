-------------------------- MODULE OneShotAuthority --------------------------
(***************************************************************************)
(* What a single-use execution authority promises: it is consumed before   *)
(* the output it authorizes exists, it is consumed once and for ever, it   *)
(* pays for at most one execution, and deleting the output does not bring  *)
(* it back.                                                                *)
(***************************************************************************)
EXTENDS Naturals

VARIABLES
  consumed,   \* has the authority been consumed
  output,     \* does the output it authorizes exist
  runs        \* executions it has paid for

vars == <<consumed, output, runs>>

Init == consumed = FALSE /\ output = FALSE /\ runs = 0

Consume ==
  /\ ~consumed
  /\ consumed' = TRUE
  /\ UNCHANGED <<output, runs>>

Execute ==
  /\ consumed /\ runs = 0
  /\ runs' = 1
  /\ output' = TRUE
  /\ UNCHANGED consumed

Discard ==
  /\ output' = FALSE
  /\ UNCHANGED <<consumed, runs>>

Next == Consume \/ Execute \/ Discard

Spec == Init /\ [][Next]_vars
=============================================================================
