----------------------------- MODULE MCRepository -----------------------------
(* RepositoryParts with the cycles of MCHandoffCycle.                        *)
EXTENDS RepositoryParts, MCHandoffCycle
================================================================================
