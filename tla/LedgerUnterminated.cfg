\* As ProofEvidence.cfg, the ledger only, but an interrupted write may also leave a whole event
\* without its newline: events are then lost.
SPECIFICATION Spec
CONSTANTS
  w1 = w1
  w2 = w2
  w3 = w3
  r1 = r1
  pinned = pinned
  other = other
  Nobody = Nobody
  Writers <- MCWriters
  Readers <- MCReaders
  Origins <- MCOrigins
  OriginOf <- MCOriginOf
  Pinned = pinned
  Times <- MCTimes
  MaxHash = 5
  Remains <- MCAnyRemains
PROPERTIES
  EventsSurvive
