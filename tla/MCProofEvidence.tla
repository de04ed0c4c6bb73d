--------------------------- MODULE MCProofEvidence ---------------------------
(* The values of EvidenceParts' constants: the ledger's are MCSignedLedger's, *)
(* two processes ingest, and one makes a key for two that correct.            *)
EXTENDS EvidenceParts, MCSignedLedger

CONSTANTS i1, i2, c1, c2

MCIngesters == {i1, i2}
MCInitializers == {i1}
MCCorrectors == {c1, c2}
==============================================================================
