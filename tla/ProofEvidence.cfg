\* The ledger: appends by three writers beside one verifying reader; an interrupted
\* write leaves a piece of a line.  Beside it, each alone, the ingestion of the
\* dataset, the audit of its readiness, the verification of the bundle and the
\* correction of the proof.
SPECIFICATION PartsSpec
CONSTANTS
  w1 = w1
  w2 = w2
  w3 = w3
  r1 = r1
  pinned = pinned
  other = other
  i1 = i1
  i2 = i2
  c1 = c1
  c2 = c2
  Nobody = Nobody
  Writers <- MCWriters
  Readers <- MCReaders
  Origins <- MCOrigins
  OriginOf <- MCOriginOf
  Pinned = pinned
  Times <- MCTimes
  MaxHash = 5
  Remains <- MCFragments
  Ingesters <- MCIngesters
  MaxRuns = 4
  MaxChanges = 2
  MaxBundleEdits = 2
  Initializers <- MCInitializers
  Correctors <- MCCorrectors
  MaxEdits = 2
  MaxKeys = 2
INVARIANTS
  LedgerVerifies
  AttestationIsCommitted
  ReceiptIsWhole
  VerdictIsIngested
  VerifiedIsOneRun
  FinalIsBacked
PROPERTIES
  EventsSurvive
  KeepsPromise
  CorrectionIsOneShot
