---------------------------- MODULE EvidenceParts ----------------------------
(* The evidence of iteration 000 in one run: the ledger, or the ingestion   *)
(* of the dataset, or the audit of its readiness, or the verification of    *)
(* the bundle, or the correction of the proof.  A behaviour is of one part  *)
(* throughout and the variables of the others rest.                         *)
EXTENDS SignedLedger

CONSTANTS
    Ingesters, MaxRuns,          \* processes that ingest, bound on their runs
    MaxChanges,                  \* bound on the changes beside the audit
    MaxBundleEdits,              \* bound on those beside the verifier
    Initializers, Correctors,    \* processes that make a key, and that correct
    MaxEdits, MaxKeys            \* bounds on edits and on generated keys

VARIABLES
    part,
    archive, runLock, runs, dirs, temp, dest, phase, work, output,
    flow, disk, past, bundleEdits, reader,
    corpus, source, proof, changes, run,
    key, anchor, selected, inputs, edits, keys, receipt, at, held, verified

ingestionVars == <<archive, runLock, runs, dirs, temp, dest, phase, work, output>>
bundleVars == <<flow, disk, past, bundleEdits, reader>>
readinessVars == <<corpus, source, proof, changes, run>>
correctionVars == <<key, anchor, selected, inputs, edits, keys, receipt, at, held, verified>>

Ingestion == INSTANCE DatasetIngestion
Readiness == INSTANCE ReadinessAudit
Bundle == INSTANCE ProofBundle WITH MaxEdits <- MaxBundleEdits, edits <- bundleEdits
Correction == INSTANCE ProofCorrection

(* A run lock that nobody holds is not held by a process.                   *)
ASSUME EvidenceAssumption == Ingestion!Free \notin Ingesters

IngestionRests ==
  /\ archive = "rests" /\ runLock = "rests" /\ runs = "rests" /\ dirs = "rests"
  /\ temp = "rests" /\ dest = "rests" /\ phase = "rests" /\ work = "rests"
  /\ output = "rests"

BundleRests ==
  /\ flow = "rests" /\ disk = "rests" /\ past = "rests" /\ bundleEdits = "rests"
  /\ reader = "rests"

ReadinessRests ==
  /\ corpus = "rests" /\ source = "rests" /\ proof = "rests" /\ changes = "rests"
  /\ run = "rests"

CorrectionRests ==
  /\ key = "rests" /\ anchor = "rests" /\ selected = "rests" /\ inputs = "rests"
  /\ edits = "rests" /\ keys = "rests" /\ receipt = [kind |-> "absent"] /\ at = "rests"
  /\ held = "rests" /\ verified = "rests"

PartsInit ==
  /\ Init
  /\ \/ part = "ledger"
          /\ IngestionRests /\ ReadinessRests /\ BundleRests /\ CorrectionRests
     \/ part = "ingestion" /\ Ingestion!Init
          /\ ReadinessRests /\ BundleRests /\ CorrectionRests
     \/ part = "readiness" /\ Readiness!Init
          /\ IngestionRests /\ BundleRests /\ CorrectionRests
     \/ part = "bundle" /\ Bundle!Init
          /\ IngestionRests /\ ReadinessRests /\ CorrectionRests
     \/ part = "correction" /\ Correction!Init
          /\ IngestionRests /\ ReadinessRests /\ BundleRests

LedgerStep ==
  /\ part = "ledger" /\ Next
  /\ UNCHANGED <<part, ingestionVars, readinessVars, bundleVars, correctionVars>>

IngestionStep ==
  /\ part = "ingestion" /\ Ingestion!Next
  /\ UNCHANGED <<part, vars, readinessVars, bundleVars, correctionVars>>

ReadinessStep ==
  /\ part = "readiness" /\ Readiness!Next
  /\ UNCHANGED <<part, vars, ingestionVars, bundleVars, correctionVars>>

BundleStep ==
  /\ part = "bundle" /\ Bundle!Next
  /\ UNCHANGED <<part, vars, ingestionVars, readinessVars, correctionVars>>

CorrectionStep ==
  /\ part = "correction" /\ Correction!Next
  /\ UNCHANGED <<part, vars, ingestionVars, readinessVars, bundleVars>>

allVars == <<part, vars, ingestionVars, readinessVars, bundleVars, correctionVars>>

\* Every part but the ledger ends; the ledger alone must never be stuck.
Ended == part # "ledger" /\ UNCHANGED allVars

PartsNext ==
  \/ LedgerStep \/ IngestionStep \/ ReadinessStep
  \/ BundleStep \/ CorrectionStep \/ Ended

PartsSpec == PartsInit /\ [][PartsNext]_allVars

(* DatasetIngestion: an ingestion with a receipt is whole and one process's, *)
(* whoever ingested beside it or was killed before it (adapters/adapt.py).   *)
ReceiptIsWhole == part = "ingestion" => Ingestion!ReceiptIsWhole

(* ReadinessAudit: a verified verdict is that of what was ingested, and a   *)
(* run among untouched files is never refused (experiment.py, readiness.py). *)
VerdictIsIngested == part = "readiness" => Readiness!VerdictIsIngested

(* ProofBundle: a bundle that verifies is all of one run and nothing else,  *)
(* and stood on disk at one moment (verification.py).                       *)
VerifiedIsOneRun == part = "bundle" => Bundle!VerifiedIsOneRun

(* ProofCorrection: a finished receipt is signed with the committed key, by *)
(* the one process that consumed the authority (verification.py).           *)
FinalIsBacked == part = "correction" => Correction!FinalIsBacked

(* ProofCorrection implements OneShotAuthority: the authority to correct is *)
(* consumed before any output, and at most once.                            *)
CorrectionIsOneShot == Correction!CorrectionIsOneShot
==============================================================================
